----------------------------- MODULE MCPlanning -----------------------------
(***************************************************************************)
(* Two products, two warehouses, and payloads of every kind: a plain       *)
(* order, one whose second line is of nothing, a known sku behind an       *)
(* unknown barcode, a line twice with refunds, one without an id, and one  *)
(* with a blank in an sku, a number for another and a quantity that cannot *)
(* be read.  The pages read four movements; they and the service look at   *)
(* one product, whose supplier delivers before the forecast ends.          *)
(* The past is nothing, or four days of sales of one product after a stock *)
(* was counted in each warehouse.                                          *)
(***************************************************************************)
EXTENDS Planning

MCCatalogue ==
  <<[id |-> "p", sku |-> "s1", barcode |-> "b1"], [id |-> "q", sku |-> "s2", barcode |-> None]>>

\* " s1" begins with a blank, and "n2" is the number of which "s2" is the text.
MCKeys == {"s1", " s1", "s2", "n2", "s9", "b1", "b9", None}

MCText == [key \in MCKeys |-> IF key = "n2" THEN "s2" ELSE key]
MCTrimmed == [key \in MCKeys |-> IF key = " s1" THEN "s1" ELSE MCText[key]]

Line(sku, code, quantity) == [sku |-> sku, code |-> code, quantity |-> quantity, legible |-> TRUE]

Unread(sku, code) == [sku |-> sku, code |-> code, quantity |-> 0, legible |-> FALSE]

Payload(id, named, lines, state, cancelled, refunds) ==
  [id |-> id, named |-> named, lines |-> lines, status |-> state,
   cancelled |-> cancelled, refunds |-> refunds]

Back(line, quantity, restock) == [line |-> line, quantity |-> quantity, restock |-> restock]

MCPayloads ==
  <<Payload(TRUE, TRUE, <<Line("s1", "b1", 1), Line("s2", None, 1)>>, "Created", FALSE, <<>>),
    Payload(TRUE, TRUE, <<Line("s1", "b1", 1), Line("s2", None, 0)>>, "New", FALSE, <<>>),
    Payload(TRUE, TRUE, <<Line("s1", "b9", 2), Line("s9", None, 1)>>, "Shipped", FALSE, <<>>),
    Payload(TRUE, TRUE, <<Line("s1", "b1", 1), Line("s1", "b1", 1)>>, "refunded", TRUE, <<>>),
    Payload(TRUE, TRUE, <<Line("s1", "b1", 1), Line("s1", "b1", 1)>>, "Picking", FALSE,
            <<Back(1, 1, "return"), Back(2, -1, "no_restock")>>),
    Payload(FALSE, TRUE, <<Line("s1", "b1", 2)>>, "Created", FALSE, <<>>),
    Payload(TRUE, TRUE, <<Line(" s1", None, 1), Line("n2", None, 1)>>, "New", FALSE, <<>>),
    Payload(TRUE, TRUE, <<Line("s1", None, 1), Unread("s2", None)>>, "New", FALSE, <<>>)>>

Counted(w) == [product |-> "p", warehouse |-> w, change |-> 3, type |-> "INBOUND", day |-> 0]

SoldThen(day, quantity) ==
  [product |-> "p", warehouse |-> "main", change |-> -quantity, type |-> "SALE", day |-> day]

\* Steady, rising, seasonal, broken off and with gaps.
MCDemands ==
  {<<1, 1, 1, 1>>, <<0, 1, 1, 1>>, <<0, 0, 1, 2>>, <<0, 1, 0, 2>>, <<2, 0, 2, 0>>,
   <<1, 2, 1, 2>>, <<2, 1, 0, 0>>, <<0, 2, 0, 1>>}

MCPast ==
  {<<>>} \cup
  {<<Counted("main"), Counted("spare")>> \o
     SelectSeq([d \in 1 .. 4 |-> SoldThen(d, demand[d])], LAMBDA m : m.change # 0) :
       demand \in MCDemands}

MCListings == <<>>

MCEvents == [long \in BOOLEAN |-> IF long THEN 2 ELSE 5]

MCByName == <<"p", "q">>
MCBySku == <<"p", "q">>

MCLeadTime == [p \in Products |-> IF p = "p" THEN 1 ELSE 3]

MCMinimum == [p \in Products |-> IF p = "p" THEN 1 ELSE 0]
=============================================================================
