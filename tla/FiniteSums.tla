----------------------------- MODULE FiniteSums -----------------------------
(***************************************************************************)
(* What the sums of a function over a finite set (SumFunctionOnSet and     *)
(* SumFunction of the community module Functions) come to: the lemmas that *)
(* the proofs about quantities of orders, reservations and stock rest on.  *)
(*                                                                         *)
(* Induction is over sets, not over predicates: a set of subsets that has  *)
(* the empty one, and each other when it has that with an element less,    *)
(* has them all.  The same induction puts a finite set of numbers in order.*)
(***************************************************************************)
EXTENDS Integers, Sequences, FiniteSets, Functions, FiniteSetTheorems, WellFoundedInduction, TLAPS

(* A set of natural numbers has a least one. *)
LEMMA LeastNat ==
  ASSUME NEW N \in SUBSET Nat, N # {}
  PROVE  \E n \in N : \A m \in N : n <= m
<1> DEFINE R == {p \in Nat \X Nat : p[1] < p[2]}
<1>1. IsWellFoundedOn(R, Nat)
  BY NatLessThanWellFounded DEF OpToRel
<1>2. PICK n \in N : \A m \in N : ~ (<<m, n>> \in R)
  <2> HIDE DEF R
  <2> QED BY <1>1, WFMin
<1>3. ASSUME NEW m \in N PROVE n <= m
  <2>1. <<m, n>> \in Nat \X Nat /\ ~ (<<m, n>> \in R)
    BY <1>2
  <2>2. ~ (m < n)
    BY <2>1
  <2> QED BY <2>2
<1> QED BY <1>3

(* Induction on a finite set.  *)
LEMMA SetInduction ==
  ASSUME NEW S, IsFiniteSet(S), NEW I, {} \in I,
         \A T \in SUBSET S : T # {} /\ (\A x \in T : T \ {x} \in I) => T \in I
  PROVE  \A T \in SUBSET S : T \in I
<1> SUFFICES ASSUME \E T \in SUBSET S : T \notin I PROVE FALSE
  OBVIOUS
<1> DEFINE N == {n \in Nat : \E T \in SUBSET S : T \notin I /\ Cardinality(T) = n}
<1>1. \A T \in SUBSET S : IsFiniteSet(T) /\ Cardinality(T) \in Nat
  BY FS_Subset, FS_CardinalityType
<1>2. N # {} /\ N \in SUBSET Nat
  BY <1>1
<1>3. PICK n \in N : \A m \in N : n <= m
  <2> HIDE DEF N
  <2> QED BY <1>2, LeastNat
<1>4. PICK T \in SUBSET S : T \notin I /\ Cardinality(T) = n
  BY <1>3
<1>5. PICK x \in T : T \ {x} \notin I
  BY <1>4
<1>6. Cardinality(T \ {x}) = n - 1 /\ T \ {x} \in SUBSET S
  BY <1>1, <1>4, <1>5, FS_RemoveElement
<1>7. n - 1 \in N
  BY <1>1, <1>5, <1>6
<1> QED BY <1>2, <1>3, <1>7

-----------------------------------------------------------------------------
(* The recursive function that the sum is a value of. *)
Some(s) == CHOOSE x \in s : TRUE
Partial(f, S, g) ==
  g = [s \in SUBSET S |-> IF s = {} THEN 0 ELSE f[Some(s)] + g[s \ {Some(s)}]]

LEMMA SumIsPartial ==
  ASSUME NEW S, NEW f
  PROVE  SumFunctionOnSet(f, S) = (CHOOSE g : Partial(f, S, g))[S]
BY DEF SumFunctionOnSet, FoldFunctionOnSet, MapThenFoldSet, Partial, Some

LEMMA SomeIn == \A s : s # {} => Some(s) \in s
BY DEF Some

LEMMA PartialsAgree ==
  ASSUME NEW S, IsFiniteSet(S), NEW D, NEW E, S \subseteq D, S \subseteq E, NEW f, NEW g, NEW h,
         Partial(f, D, g), Partial(f, E, h)
  PROVE  g[S] = h[S]
<1> DEFINE I == {T \in SUBSET S : g[T] = h[T]}
<1>1. {} \in I
  BY DEF Partial
<1>2. ASSUME NEW T \in SUBSET S, T # {}, \A x \in T : T \ {x} \in I PROVE T \in I
  BY <1>2, SomeIn DEF Partial
<1>3. \A T \in SUBSET S : T \in I
  <2> HIDE DEF I
  <2> QED BY <1>1, <1>2, SetInduction
<1> QED BY <1>3

LEMMA PartialExists ==
  ASSUME NEW S, IsFiniteSet(S), NEW f
  PROVE  \E g : Partial(f, S, g)
<1> DEFINE Upto(n) == {s \in SUBSET S : Cardinality(s) <= n}
           Ok(g, n) == g = [s \in Upto(n) |-> IF s = {} THEN 0 ELSE f[Some(s)] + g[s \ {Some(s)}]]
           N == {n \in Nat : ~ \E g : Ok(g, n)}
<1>1. \A T \in SUBSET S : IsFiniteSet(T) /\ Cardinality(T) \in Nat
  BY FS_Subset, FS_CardinalityType
<1>2. \E g : Ok(g, 0)
  <2> DEFINE g == [s \in Upto(0) |-> 0]
  <2>1. \A s \in Upto(0) : s = {}
    BY <1>1, FS_EmptySet
  <2>2. Ok(g, 0)
    BY <2>1
  <2> QED BY <2>2
<1>3. ASSUME NEW n \in Nat, n # 0, NEW g, Ok(g, n - 1) PROVE \E h : Ok(h, n)
  <2> DEFINE h == [s \in Upto(n) |-> IF s = {} THEN 0 ELSE f[Some(s)] + g[s \ {Some(s)}]]
  <2>1. ASSUME NEW s \in Upto(n), s # {} PROVE s \ {Some(s)} \in Upto(n - 1)
    BY <2>1, <1>1, SomeIn, FS_RemoveElement
  <2>2. \A s \in Upto(n - 1) : s \in Upto(n)
    BY <1>1
  <2>a. \A s \in Upto(n - 1) : s \in Upto(n) /\ h[s] = g[s]
    <3> HIDE DEF Upto
    <3> QED BY <1>3, <2>2
  <2>3. \A s \in Upto(n) : s # {} => h[s \ {Some(s)}] = g[s \ {Some(s)}]
    BY <2>1, <2>a
  <2>4. Ok(h, n)
    <3> HIDE DEF Upto
    <3> QED BY <2>3
  <2> QED BY <2>4
<1>4. N = {}
  <2> SUFFICES ASSUME N # {} PROVE FALSE
    OBVIOUS
  <2>1. PICK n \in N : \A m \in N : n <= m
    <3>1. N \in SUBSET Nat
      OBVIOUS
    <3> HIDE DEF N
    <3> QED BY <3>1, LeastNat
  <2> HIDE DEF Ok, Upto
  <2>2. n # 0 /\ n \in Nat /\ ~ \E h : Ok(h, n)
    BY <1>2, <2>1
  <2>3. n - 1 \in Nat /\ n - 1 \notin N
    <3>1. n - 1 \in Nat /\ ~ (n <= n - 1)
      BY <2>2
    <3> HIDE DEF N
    <3> QED BY <2>1, <3>1
  <2>4. PICK g : Ok(g, n - 1)
    BY <2>3
  <2> QED BY <1>3, <2>2, <2>4
<1>5. PICK g : Ok(g, Cardinality(S))
  BY <1>1, <1>4
<1>6. Upto(Cardinality(S)) = SUBSET S
  BY <1>1, FS_Subset
<1> QED BY <1>5, <1>6 DEF Partial

-----------------------------------------------------------------------------
(* Sums of integers. *)
LEMMA SumUnfold ==
  ASSUME NEW S, IsFiniteSet(S), NEW f
  PROVE  SumFunctionOnSet(f, S) =
           IF S = {} THEN 0 ELSE f[Some(S)] + SumFunctionOnSet(f, S \ {Some(S)})
<1> DEFINE g == CHOOSE h : Partial(f, S, h)
           T == S \ {Some(S)}
           k == CHOOSE h : Partial(f, T, h)
<1>1. IsFiniteSet(T) /\ T \subseteq S
  BY FS_Subset
<1>2. Partial(f, S, g) /\ Partial(f, T, k)
  BY <1>1, PartialExists
<1>3. SumFunctionOnSet(f, S) = g[S] /\ SumFunctionOnSet(f, T) = k[T]
  BY SumIsPartial
<1> HIDE DEF g, k
<1>4. g[T] = k[T]
  <2> HIDE DEF T
  <2> QED BY <1>1, <1>2, PartialsAgree
<1>5. g[S] = IF S = {} THEN 0 ELSE f[Some(S)] + g[T]
  <2>1. S \in SUBSET S
    OBVIOUS
  <2> QED BY <1>2, <2>1 DEF Partial
<1> QED BY <1>3, <1>4, <1>5

LEMMA SumEmpty == \A f : SumFunctionOnSet(f, {}) = 0
BY SumUnfold, FS_EmptySet

LEMMA SumInt ==
  ASSUME NEW S, IsFiniteSet(S), NEW f, \A x \in S : f[x] \in Int
  PROVE  SumFunctionOnSet(f, S) \in Int
<1> DEFINE I == {T \in SUBSET S : SumFunctionOnSet(f, T) \in Int}
<1>1. {} \in I
  BY SumEmpty
<1>2. ASSUME NEW T \in SUBSET S, T # {}, \A x \in T : T \ {x} \in I PROVE T \in I
  <2>1. SumFunctionOnSet(f, T) = f[Some(T)] + SumFunctionOnSet(f, T \ {Some(T)})
    BY <1>2, SumUnfold, FS_Subset
  <2>2. Some(T) \in T
    BY <1>2, SomeIn
  <2> QED BY <1>2, <2>1, <2>2
<1>3. \A T \in SUBSET S : T \in I
  <2> HIDE DEF I
  <2> QED BY <1>1, <1>2, SetInduction
<1> QED BY <1>3

(* Any element can be taken out of a sum. *)
LEMMA SumRemove ==
  ASSUME NEW S, IsFiniteSet(S), NEW f, \A x \in S : f[x] \in Int, NEW y \in S
  PROVE  SumFunctionOnSet(f, S) = f[y] + SumFunctionOnSet(f, S \ {y})
<1> DEFINE I == {T \in SUBSET S : \A x \in T :
                   SumFunctionOnSet(f, T) = f[x] + SumFunctionOnSet(f, T \ {x})}
<1>1. {} \in I
  OBVIOUS
<1>2. ASSUME NEW T \in SUBSET S, T # {}, \A x \in T : T \ {x} \in I PROVE T \in I
  <2> SUFFICES ASSUME NEW x \in T
               PROVE  SumFunctionOnSet(f, T) = f[x] + SumFunctionOnSet(f, T \ {x})
    OBVIOUS
  <2> DEFINE z == Some(T)
  <2>1. z \in T
    BY <1>2, SomeIn
  <2>2. SumFunctionOnSet(f, T) = f[z] + SumFunctionOnSet(f, T \ {z})
    BY <1>2, SumUnfold, FS_Subset
  <2> HIDE DEF z
  <2>3. CASE x = z
    BY <2>2, <2>3
  <2>4. CASE x # z
    <3>1. SumFunctionOnSet(f, T \ {z}) = f[x] + SumFunctionOnSet(f, (T \ {z}) \ {x})
      BY <1>2, <2>1, <2>4
    <3>2. SumFunctionOnSet(f, T \ {x}) = f[z] + SumFunctionOnSet(f, (T \ {x}) \ {z})
      BY <1>2, <2>1, <2>4
    <3>3. SumFunctionOnSet(f, (T \ {z}) \ {x}) = SumFunctionOnSet(f, (T \ {x}) \ {z})
      <4>1. (T \ {z}) \ {x} = (T \ {x}) \ {z}
        OBVIOUS
      <4> QED BY <4>1
    <3>4. SumFunctionOnSet(f, (T \ {x}) \ {z}) \in Int
      BY SumInt, FS_Subset
    <3>5. f[x] \in Int /\ f[z] \in Int
      BY <2>1
    <3> HIDE DEF I
    <3> QED BY <2>2, <3>1, <3>2, <3>3, <3>4, <3>5
  <2> QED BY <2>3, <2>4
<1>3. \A T \in SUBSET S : T \in I
  <2> HIDE DEF I
  <2> QED BY <1>1, <1>2, SetInduction
<1> QED BY <1>3

(* Functions that agree on the set have the same sum. *)
LEMMA SumSame ==
  ASSUME NEW S, IsFiniteSet(S), NEW f, NEW g, \A x \in S : f[x] = g[x]
  PROVE  SumFunctionOnSet(f, S) = SumFunctionOnSet(g, S)
<1> DEFINE I == {T \in SUBSET S : SumFunctionOnSet(f, T) = SumFunctionOnSet(g, T)}
<1>1. {} \in I
  BY SumEmpty
<1>2. ASSUME NEW T \in SUBSET S, T # {}, \A x \in T : T \ {x} \in I PROVE T \in I
  BY <1>2, SomeIn, SumUnfold, FS_Subset
<1>3. \A T \in SUBSET S : T \in I
  <2> HIDE DEF I
  <2> QED BY <1>1, <1>2, SetInduction
<1> QED BY <1>3

(* A function below another has the smaller sum; and only the function     *)
(* itself among those below it has its sum.                                *)
LEMMA SumLeq ==
  ASSUME NEW S, IsFiniteSet(S), NEW f, NEW g,
         \A x \in S : f[x] \in Int /\ g[x] \in Int /\ f[x] <= g[x]
  PROVE  /\ SumFunctionOnSet(f, S) <= SumFunctionOnSet(g, S)
         /\ SumFunctionOnSet(f, S) >= SumFunctionOnSet(g, S) => \A x \in S : f[x] = g[x]
<1> DEFINE I == {T \in SUBSET S : SumFunctionOnSet(f, T) <= SumFunctionOnSet(g, T)}
<1>0. \A T \in SUBSET S : /\ IsFiniteSet(T)
                          /\ SumFunctionOnSet(f, T) \in Int
                          /\ SumFunctionOnSet(g, T) \in Int
  BY FS_Subset, SumInt
<1>1. {} \in I
  BY SumEmpty
<1>2. ASSUME NEW T \in SUBSET S, T # {}, \A x \in T : T \ {x} \in I PROVE T \in I
  <2>1. PICK x \in T : TRUE
    BY <1>2
  <2>2. /\ SumFunctionOnSet(f, T) = f[x] + SumFunctionOnSet(f, T \ {x})
        /\ SumFunctionOnSet(g, T) = g[x] + SumFunctionOnSet(g, T \ {x})
    BY <1>0, SumRemove
  <2> QED BY <1>0, <1>2, <2>2
<1>3. \A T \in SUBSET S : T \in I
  <2> HIDE DEF I
  <2> QED BY <1>1, <1>2, SetInduction
<1>4. ASSUME SumFunctionOnSet(f, S) >= SumFunctionOnSet(g, S), NEW x \in S PROVE f[x] = g[x]
  <2>1. /\ SumFunctionOnSet(f, S) = f[x] + SumFunctionOnSet(f, S \ {x})
        /\ SumFunctionOnSet(g, S) = g[x] + SumFunctionOnSet(g, S \ {x})
    BY SumRemove
  <2>2. SumFunctionOnSet(f, S \ {x}) <= SumFunctionOnSet(g, S \ {x})
    BY <1>3
  <2> QED BY <1>0, <1>4, <2>1, <2>2
<1> QED BY <1>3, <1>4

LEMMA SumZero ==
  ASSUME NEW S, IsFiniteSet(S), NEW f, \A x \in S : f[x] = 0
  PROVE  SumFunctionOnSet(f, S) = 0
<1> DEFINE I == {T \in SUBSET S : SumFunctionOnSet(f, T) = 0}
<1>1. {} \in I
  BY SumEmpty
<1>2. ASSUME NEW T \in SUBSET S, T # {}, \A x \in T : T \ {x} \in I PROVE T \in I
  <2>1. SumFunctionOnSet(f, T) = f[Some(T)] + SumFunctionOnSet(f, T \ {Some(T)})
    BY <1>2, SumUnfold, FS_Subset
  <2>2. Some(T) \in T
    BY <1>2, SomeIn
  <2> QED BY <1>2, <2>1, <2>2
<1>3. \A T \in SUBSET S : T \in I
  <2> HIDE DEF I
  <2> QED BY <1>1, <1>2, SetInduction
<1> QED BY <1>3

LEMMA SumNat ==
  ASSUME NEW S, IsFiniteSet(S), NEW f, \A x \in S : f[x] \in Nat
  PROVE  SumFunctionOnSet(f, S) \in Nat
<1> DEFINE zero == [x \in S |-> 0]
<1>1. SumFunctionOnSet(zero, S) = 0
  BY SumZero
<1>2. SumFunctionOnSet(zero, S) <= SumFunctionOnSet(f, S)
  BY SumLeq
<1> QED BY <1>1, <1>2, SumInt

(* The sum of two functions that differ in one place. *)
LEMMA SumChange ==
  ASSUME NEW S, IsFiniteSet(S), NEW f, NEW g, NEW y \in S,
         \A x \in S : f[x] \in Int /\ g[x] \in Int,
         \A x \in S \ {y} : f[x] = g[x]
  PROVE  SumFunctionOnSet(g, S) = SumFunctionOnSet(f, S) + g[y] - f[y]
<1>1. /\ SumFunctionOnSet(f, S) = f[y] + SumFunctionOnSet(f, S \ {y})
      /\ SumFunctionOnSet(g, S) = g[y] + SumFunctionOnSet(g, S \ {y})
  BY SumRemove
<1>2. IsFiniteSet(S \ {y}) /\ SumFunctionOnSet(f, S \ {y}) \in Int
  BY FS_Subset, SumInt
<1>3. SumFunctionOnSet(f, S \ {y}) = SumFunctionOnSet(g, S \ {y})
  BY <1>2, SumSame
<1> QED BY <1>1, <1>2, <1>3

(* A sum of integers is one, and it changes with the one entry that does. *)
LEMMA SumFunctionInt ==
  ASSUME NEW f, IsFiniteSet(DOMAIN f), \A x \in DOMAIN f : f[x] \in Int
  PROVE  SumFunction(f) \in Int
BY SumInt DEF SumFunction

LEMMA SumStep ==
  ASSUME NEW S, IsFiniteSet(S), NEW f, NEW g, NEW y,
         \A x \in S : f[x] \in Int /\ g[x] \in Int, \A x \in S \ {y} : f[x] = g[x]
  PROVE  /\ SumFunctionOnSet(f, S) \in Int
         /\ y \in S => SumFunctionOnSet(g, S) = SumFunctionOnSet(f, S) + g[y] - f[y]
         /\ y \notin S => SumFunctionOnSet(g, S) = SumFunctionOnSet(f, S)
<1>1. SumFunctionOnSet(f, S) \in Int
  BY SumInt
<1>2. y \in S => SumFunctionOnSet(g, S) = SumFunctionOnSet(f, S) + g[y] - f[y]
  BY SumChange
<1>3. ASSUME y \notin S PROVE SumFunctionOnSet(g, S) = SumFunctionOnSet(f, S)
  <2>1. \A x \in S : f[x] = g[x]
    BY <1>3
  <2> QED BY <2>1, SumSame
<1> QED BY <1>1, <1>2, <1>3

(* What one entry loses to another leaves the sum as it was. *)
LEMMA SumMoved ==
  ASSUME NEW S, IsFiniteSet(S), NEW f, NEW g, NEW x \in S, NEW y \in S, x # y,
         \A z \in S : f[z] \in Int /\ g[z] \in Int, g[x] + g[y] = f[x] + f[y],
         \A z \in S \ {x, y} : f[z] = g[z]
  PROVE  SumFunctionOnSet(g, S) = SumFunctionOnSet(f, S)
<1> DEFINE R == S \ {x}
<1>1. IsFiniteSet(R) /\ y \in R
  BY FS_Subset
<1>2. /\ SumFunctionOnSet(f, S) = f[x] + SumFunctionOnSet(f, R)
      /\ SumFunctionOnSet(g, S) = g[x] + SumFunctionOnSet(g, R)
  BY SumRemove
<1>3. \A z \in R : f[z] \in Int /\ g[z] \in Int
  OBVIOUS
<1>4. \A z \in R \ {y} : f[z] = g[z]
  OBVIOUS
<1> HIDE DEF R
<1>5. /\ SumFunctionOnSet(f, R) \in Int
      /\ SumFunctionOnSet(g, R) = SumFunctionOnSet(f, R) + g[y] - f[y]
  <2>1. SumFunctionOnSet(f, R) \in Int
    BY <1>1, <1>3, SumInt
  <2>2. SumFunctionOnSet(g, R) = SumFunctionOnSet(f, R) + g[y] - f[y]
    BY <1>1, <1>3, <1>4, SumChange
  <2> QED BY <2>1, <2>2
<1> QED BY <1>2, <1>5

(* The values of a function on a finite domain, and on that of a sequence. *)
LEMMA FiniteImage ==
  ASSUME NEW f, IsFiniteSet(DOMAIN f), NEW T \in SUBSET {f[x] : x \in DOMAIN f}
  PROVE  IsFiniteSet(T)
<1> DEFINE Im == {f[x] : x \in DOMAIN f}
<1>1. [x \in DOMAIN f |-> f[x]] \in Surjection(DOMAIN f, Im)
  BY DEF Surjection
<1>2. IsFiniteSet(Im)
  <2> HIDE DEF Im
  <2> QED BY <1>1, FS_Surjection
<1> QED BY <1>2, FS_Subset

LEMMA SequenceMapped ==
  ASSUME NEW S, NEW s \in Seq(S), NEW f, DOMAIN f = DOMAIN s, \A i \in DOMAIN s : f[i] \in S,
         f = [i \in DOMAIN s |-> f[i]]
  PROVE  f \in Seq(S)
OBVIOUS

(* Renaming the elements of the set changes nothing. *)
LEMMA SumRenamed ==
  ASSUME NEW S, IsFiniteSet(S), NEW f, NEW g, NEW m,
         \A x \in S : f[x] \in Int /\ g[m[x]] = f[x],
         \A x, y \in S : m[x] = m[y] => x = y
  PROVE  SumFunctionOnSet(g, {m[x] : x \in S}) = SumFunctionOnSet(f, S)
<1> DEFINE Im(T) == {m[x] : x \in T}
           I == {T \in SUBSET S : IsFiniteSet(Im(T)) /\ SumFunctionOnSet(g, Im(T)) = SumFunctionOnSet(f, T)}
<1>0. \A T \in SUBSET S : IsFiniteSet(T) /\ SumFunctionOnSet(f, T) \in Int
  BY FS_Subset, SumInt
<1>1. {} \in I
  BY SumEmpty, FS_EmptySet
<1>2. ASSUME NEW T \in SUBSET S, T # {}, \A x \in T : T \ {x} \in I PROVE T \in I
  <2>1. PICK x \in T : TRUE
    BY <1>2
  <2>2. Im(T) = Im(T \ {x}) \cup {m[x]} /\ Im(T \ {x}) = Im(T) \ {m[x]}
    OBVIOUS
  <2>3. IsFiniteSet(Im(T))
    <3>1. IsFiniteSet(Im(T \ {x}))
      BY <1>2, <2>1
    <3> HIDE DEF Im
    <3>2. IsFiniteSet(Im(T \ {x}) \cup {m[x]})
      BY <3>1, FS_AddElement
    <3> QED BY <2>2, <3>2
  <2>4. \A y \in Im(T) : g[y] \in Int
    OBVIOUS
  <2>5. SumFunctionOnSet(f, T) = f[x] + SumFunctionOnSet(f, T \ {x})
    BY <1>0, SumRemove
  <2>6. SumFunctionOnSet(g, Im(T)) = g[m[x]] + SumFunctionOnSet(g, Im(T) \ {m[x]})
    <3>1. m[x] \in Im(T)
      BY <2>1
    <3> HIDE DEF Im
    <3> QED BY <2>3, <2>4, <3>1, SumRemove
  <2>7. SumFunctionOnSet(g, Im(T) \ {m[x]}) = SumFunctionOnSet(f, T \ {x})
    BY <1>2, <2>1, <2>2
  <2> QED BY <2>3, <2>5, <2>6, <2>7
<1>3. \A T \in SUBSET S : T \in I
  <2> HIDE DEF I
  <2> QED BY <1>1, <1>2, SetInduction
<1> QED BY <1>3

(* Places where the function is zero add nothing. *)
LEMMA SumWithin ==
  ASSUME NEW T, IsFiniteSet(T), NEW S \in SUBSET T, NEW f,
         \A x \in T : f[x] \in Int, \A x \in T \ S : f[x] = 0
  PROVE  SumFunctionOnSet(f, T) = SumFunctionOnSet(f, S)
<1>0. PICK R : R = T \ S
  OBVIOUS
<1> DEFINE I == {U \in SUBSET R : SumFunctionOnSet(f, S \cup U) = SumFunctionOnSet(f, S)}
<1>1. {} \in I
  <2>1. S \cup {} = S
    OBVIOUS
  <2> QED BY <2>1
<1>2. ASSUME NEW U \in SUBSET R, U # {}, \A x \in U : U \ {x} \in I PROVE U \in I
  <2>1. PICK x \in U : TRUE
    BY <1>2
  <2>2. (S \cup U) \ {x} = S \cup (U \ {x}) /\ x \in S \cup U
    BY <1>0, <2>1
  <2>3. IsFiniteSet(S \cup U) /\ \A y \in S \cup U : f[y] \in Int
    BY <1>0, FS_Subset
  <2>4. SumFunctionOnSet(f, S \cup U) = f[x] + SumFunctionOnSet(f, (S \cup U) \ {x})
    BY <2>2, <2>3, SumRemove
  <2>5. SumFunctionOnSet(f, S \cup (U \ {x})) = SumFunctionOnSet(f, S)
    BY <1>2
  <2>6. SumFunctionOnSet(f, S) \in Int
    BY FS_Subset, SumInt
  <2>7. f[x] = 0
    BY <1>0
  <2>8. SumFunctionOnSet(f, S \cup U) = f[x] + SumFunctionOnSet(f, S \cup (U \ {x}))
    BY <2>2, <2>4
  <2>9. SumFunctionOnSet(f, S \cup U) = SumFunctionOnSet(f, S)
    BY <2>5, <2>6, <2>7, <2>8
  <2> QED BY <2>9
<1>3. \A U \in SUBSET R : U \in I
  <2>1. IsFiniteSet(R)
    BY <1>0, FS_Subset
  <2> HIDE DEF I
  <2> QED BY <1>1, <1>2, <2>1, SetInduction
<1>4. S \cup R = T
  BY <1>0
<1> QED BY <1>3, <1>4

(* The sum of differences is the difference of the sums. *)
LEMMA SumMinus ==
  ASSUME NEW S, IsFiniteSet(S), NEW f, NEW g, NEW h,
         \A x \in S : f[x] \in Int /\ g[x] \in Int /\ h[x] = g[x] - f[x]
  PROVE  SumFunctionOnSet(h, S) = SumFunctionOnSet(g, S) - SumFunctionOnSet(f, S)
<1> DEFINE I == {T \in SUBSET S :
                   SumFunctionOnSet(h, T) = SumFunctionOnSet(g, T) - SumFunctionOnSet(f, T)}
<1>0. \A T \in SUBSET S :
        /\ IsFiniteSet(T) /\ SumFunctionOnSet(f, T) \in Int /\ SumFunctionOnSet(g, T) \in Int
  BY FS_Subset, SumInt
<1>1. {} \in I
  BY SumEmpty
<1>2. ASSUME NEW T \in SUBSET S, T # {}, \A x \in T : T \ {x} \in I PROVE T \in I
  <2>1. PICK x : x = Some(T)
    OBVIOUS
  <2>2. x \in T
    BY <1>2, <2>1, SomeIn
  <2>3. /\ SumFunctionOnSet(f, T) = f[x] + SumFunctionOnSet(f, T \ {x})
        /\ SumFunctionOnSet(g, T) = g[x] + SumFunctionOnSet(g, T \ {x})
        /\ SumFunctionOnSet(h, T) = h[x] + SumFunctionOnSet(h, T \ {x})
    BY <1>0, <1>2, <2>1, SumUnfold
  <2>4. SumFunctionOnSet(h, T \ {x})
          = SumFunctionOnSet(g, T \ {x}) - SumFunctionOnSet(f, T \ {x})
    BY <1>2, <2>2
  <2>5. /\ f[x] \in Int /\ g[x] \in Int /\ h[x] = g[x] - f[x]
        /\ SumFunctionOnSet(f, T \ {x}) \in Int /\ SumFunctionOnSet(g, T \ {x}) \in Int
    BY <1>0, <2>2
  <2> QED BY <2>3, <2>4, <2>5
<1>3. \A T \in SUBSET S : T \in I
  <2> HIDE DEF I
  <2> QED BY <1>1, <1>2, SetInduction
<1> QED BY <1>3
-----------------------------------------------------------------------------
(* A finite set of natural numbers in ascending order. *)
LEMMA Greatest ==
  ASSUME NEW S, IsFiniteSet(S), S \subseteq Nat
  PROVE  \A T \in SUBSET S : T # {} => \E x \in T : \A y \in T : y <= x
<1> DEFINE I == {T \in SUBSET S : T # {} => \E x \in T : \A y \in T : y <= x}
<1>1. {} \in I
  OBVIOUS
<1>2. ASSUME NEW T \in SUBSET S, T # {}, \A x \in T : T \ {x} \in I PROVE T \in I
  <2>1. PICK z \in T : TRUE
    BY <1>2
  <2>2. CASE T = {z}
    BY <2>2
  <2>3. CASE T # {z}
    <3>1. T \ {z} # {} /\ T \ {z} \in I
      BY <1>2, <2>1, <2>3
    <3>2. PICK x \in T \ {z} : \A y \in T \ {z} : y <= x
      BY <3>1
    <3>3. CASE z <= x
      BY <3>2, <3>3
    <3>4. CASE x < z
      <4>1. \A y \in T : y <= z
        BY <3>2, <3>4
      <4> QED BY <4>1
    <3> QED BY <3>3, <3>4
  <2> QED BY <2>2, <2>3
<1>3. \A T \in SUBSET S : T \in I
  <2> HIDE DEF I
  <2> QED BY <1>1, <1>2, SetInduction
<1> QED BY <1>3

(* Every place but the last has one after it: some place has n - 1 before. *)
LEMMA Ranked ==
  ASSUME NEW S, IsFiniteSet(S), S \subseteq Nat
  PROVE  \A T \in SUBSET S : \A n \in 1 .. Cardinality(T) :
           \E x \in T : Cardinality({y \in T : y < x}) = n - 1
<1> DEFINE I == {T \in SUBSET S : \A n \in 1 .. Cardinality(T) :
                   \E x \in T : Cardinality({y \in T : y < x}) = n - 1}
<1>0. \A T \in SUBSET S : IsFiniteSet(T) /\ Cardinality(T) \in Nat
  BY FS_Subset, FS_CardinalityType
<1>1. {} \in I
  BY FS_EmptySet
<1>2. ASSUME NEW T \in SUBSET S, T # {}, \A x \in T : T \ {x} \in I PROVE T \in I
  <2>1. PICK z \in T : \A y \in T : y <= z
    BY <1>2, Greatest
  <2>2. Cardinality(T \ {z}) = Cardinality(T) - 1
    BY <1>0, <2>1, FS_RemoveElement
  <2> SUFFICES ASSUME NEW n \in 1 .. Cardinality(T)
               PROVE  \E x \in T : Cardinality({y \in T : y < x}) = n - 1
    OBVIOUS
  <2>3. CASE n = Cardinality(T)
    <3>1. \A y \in T : y < z <=> y # z
      BY <2>1
    <3>2. {y \in T : y < z} = T \ {z}
      BY <3>1
    <3> QED BY <2>2, <2>3, <3>2
  <2>4. CASE n # Cardinality(T)
    <3>1. n \in 1 .. Cardinality(T \ {z})
      BY <1>0, <2>2, <2>4
    <3>2. PICK x \in T \ {z} : Cardinality({y \in T \ {z} : y < x}) = n - 1
      BY <1>2, <2>1, <3>1
    <3>3. {y \in T : y < x} = {y \in T \ {z} : y < x}
      BY <2>1
    <3> QED BY <3>2, <3>3
  <2> QED BY <2>3, <2>4
<1>3. \A T \in SUBSET S : T \in I
  <2> HIDE DEF I
  <2> QED BY <1>1, <1>2, SetInduction
<1> QED BY <1>3

(* The places of a set, in order: each is there, once. *)
LEMMA Places ==
  ASSUME NEW S, IsFiniteSet(S), S \subseteq Nat, NEW f,
         f = [n \in 1 .. Cardinality(S) |->
                CHOOSE x \in S : Cardinality({y \in S : y < x}) = n - 1]
  PROVE  /\ Cardinality(S) \in Nat /\ f \in [1 .. Cardinality(S) -> S]
         /\ \A n, m \in 1 .. Cardinality(S) : f[n] = f[m] => n = m
         /\ \A x \in S : \E n \in 1 .. Cardinality(S) : f[n] = x
<1> DEFINE Below(x) == {y \in S : y < x}
<1>1. Cardinality(S) \in Nat
  BY FS_CardinalityType
<1>2. ASSUME NEW n \in 1 .. Cardinality(S)
      PROVE  f[n] \in S /\ Cardinality(Below(f[n])) = n - 1
  <2>1. \E x \in S : Cardinality(Below(x)) = n - 1
    BY Ranked
  <2> QED BY <2>1
<1>3. \A n, m \in 1 .. Cardinality(S) : f[n] = f[m] => n = m
  <2> TAKE n, m \in 1 .. Cardinality(S)
  <2> HAVE f[n] = f[m]
  <2>1. n - 1 = m - 1
    BY <1>2
  <2> QED BY <1>1, <2>1
<1>4. ASSUME NEW x \in S, NEW z \in S, x < z
      PROVE  Cardinality(Below(x)) < Cardinality(Below(z))
  <2>1. IsFiniteSet(Below(z)) /\ IsFiniteSet(Below(x))
    BY FS_Subset
  <2>2. Below(x) \subseteq Below(z) /\ x \in Below(z) /\ x \notin Below(x)
    <3>1. ~ (x < x) /\ \A y \in S : y \in Nat /\ (y < x => y < z)
      BY <1>4
    <3> QED BY <1>4, <3>1
  <2>3. /\ Cardinality(Below(x)) <= Cardinality(Below(z))
        /\ Cardinality(Below(x)) = Cardinality(Below(z)) => Below(x) = Below(z)
    BY <2>1, <2>2, FS_Subset
  <2>4. Cardinality(Below(x)) \in Nat /\ Cardinality(Below(z)) \in Nat
    BY <2>1, FS_CardinalityType
  <2> QED BY <2>2, <2>3, <2>4
<1>5. ASSUME NEW x \in S PROVE \E n \in 1 .. Cardinality(S) : f[n] = x
  <2>1. IsFiniteSet(Below(x)) /\ Below(x) \subseteq S /\ x \notin Below(x)
    BY FS_Subset
  <2>2. /\ Cardinality(Below(x)) \in Nat /\ Cardinality(Below(x)) <= Cardinality(S)
        /\ Cardinality(Below(x)) # Cardinality(S)
    BY <2>1, FS_Subset, FS_CardinalityType
  <2>3. PICK c \in Nat : c = Cardinality(Below(x)) /\ c + 1 \in 1 .. Cardinality(S)
    <3>1. PICK c, most \in Nat :
            c = Cardinality(Below(x)) /\ most = Cardinality(S) /\ c <= most /\ c # most
      BY <1>1, <2>2
    <3>2. c + 1 \in 1 .. most
      BY <3>1
    <3> QED BY <3>1, <3>2
  <2>4. PICK z \in S : z = f[c + 1] /\ Cardinality(Below(z)) = c
    <3>1. f[c + 1] \in S /\ Cardinality(Below(f[c + 1])) = (c + 1) - 1
      BY <1>2, <2>3
    <3>2. (c + 1) - 1 = c
      BY <2>3
    <3> QED BY <3>1, <3>2
  <2>5. ~ (z < x) /\ ~ (x < z)
    <3>1. ASSUME z < x PROVE FALSE
      <4>1. Cardinality(Below(z)) < Cardinality(Below(x))
        BY <1>4, <3>1
      <4> QED BY <2>3, <2>4, <4>1
    <3>2. ASSUME x < z PROVE FALSE
      <4>1. Cardinality(Below(x)) < Cardinality(Below(z))
        BY <1>4, <3>2
      <4> QED BY <2>3, <2>4, <4>1
    <3> QED BY <3>1, <3>2
  <2>6. z = x
    BY <2>5
  <2> QED BY <2>3, <2>4, <2>6
<1> QED BY <1>1, <1>2, <1>3, <1>5
=============================================================================
