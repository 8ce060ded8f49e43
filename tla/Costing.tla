------------------------------ MODULE Costing ------------------------------
(***************************************************************************)
(* What stock has cost: layers of received units that are used up oldest   *)
(* first, and a weighted average.  Amounts are in ten-thousandths, as the  *)
(* average is rounded; the cost of what is sold is rounded to hundredths.  *)
(* No code in the repository calls these functions but their tests.        *)
(***************************************************************************)
EXTENDS Integers, Sequences, SequencesExt

Hundredth == 100

Plus(a, b) == a + b
Smaller(a, b) == IF a < b THEN a ELSE b
Larger(a, b) == IF a > b THEN a ELSE b
Total(s) == FoldLeft(Plus, 0, s)

\* Math.round of a quotient.
Rounded(a, b) == (2 * a + b) \div (2 * b)

RecalculateWAC(quantity, average, incoming, unitCost) ==
  IF quantity + incoming = 0 THEN 0
  ELSE Rounded(quantity * average + incoming * unitCost, quantity + incoming)

ComputeWACCogs(quantity, average) == Hundredth * Rounded(quantity * average, Hundredth)

Quantities(layers) == [n \in DOMAIN layers |-> layers[n].quantity]
Values(layers) == [n \in DOMAIN layers |-> layers[n].quantity * layers[n].unitCost]

\* Mutant: every layer is asked for the whole quantity.
Greedy(layers, quantity) == [n \in DOMAIN layers |-> Smaller(layers[n].quantity, quantity)]

\* What is taken of each layer: the oldest give all they have before a younger gives any.
Taken(layers, quantity) ==
  [n \in DOMAIN layers |->
     Smaller(layers[n].quantity,
             Larger(0, quantity - Total(Quantities(SubSeq(layers, 1, n - 1)))))]

\* Selling more than the layers hold throws.
CalculateFIFOCost(layers, quantity) ==
  LET taken == Taken(layers, quantity)
      left == [n \in DOMAIN layers |-> [layers[n] EXCEPT !.quantity = @ - taken[n]]]
      cost == Total([n \in DOMAIN layers |-> taken[n] * layers[n].unitCost])
  IN  [enough |-> quantity <= Total(Quantities(layers)),
       cost |-> Hundredth * Rounded(cost, Hundredth),
       remaining |-> SelectSeq(left, LAMBDA layer : layer.quantity > 0)]

CreateLayerFromReceipt(layers, quantity, unitCost) ==
  Append(layers, [quantity |-> quantity, unitCost |-> unitCost])
=============================================================================
