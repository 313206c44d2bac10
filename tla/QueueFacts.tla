----------------------------- MODULE QueueFacts -----------------------------
(***************************************************************************)
(* Facts that the proofs of several modules share: what an append and a    *)
(* take do to the messages in a queue, and least and greatest numbers.     *)
(***************************************************************************)
EXTENDS Integers, Sequences, Functions, FiniteSetTheorems, WellFoundedInduction, TLAPS

-----------------------------------------------------------------------------
(* Range and IsInjective of a queue after an append and after a take.      *)

(* The messages of a queue have the queue's type; an empty one has none.   *)
LEMMA ElementsType ==
  /\ \A S : \A s \in Seq(S) : Range(s) \subseteq S
  /\ Range(<< >>) = {}
BY DEF Range

(* Appending a message adds exactly that message.                          *)
LEMMA AppendElements ==
  ASSUME NEW S, NEW s \in Seq(S), NEW e \in S
  PROVE  /\ Append(s, e) \in Seq(S)
         /\ Range(Append(s, e)) = Range(s) \cup {e}
<1>1. Append(s, e) \in Seq(S)
  OBVIOUS
<1>2. ASSUME NEW x \in Range(Append(s, e)) PROVE x \in Range(s) \cup {e}
  <2>1. PICK n \in DOMAIN Append(s, e) : x = Append(s, e)[n]
    BY <1>2 DEF Range
  <2>2. QED  BY <2>1 DEF Range
<1>3. ASSUME NEW x \in Range(s) \cup {e} PROVE x \in Range(Append(s, e))
  <2>1. CASE x \in Range(s)
    <3>1. PICK n \in DOMAIN s : x = s[n]
      BY <2>1 DEF Range
    <3>2. n \in DOMAIN Append(s, e) /\ Append(s, e)[n] = x
      BY <3>1
    <3>3. QED  BY <3>2 DEF Range
  <2>2. CASE x = e
    <3>1. Len(s) + 1 \in DOMAIN Append(s, e) /\ Append(s, e)[Len(s) + 1] = x
      BY <2>2
    <3>2. QED  BY <3>1 DEF Range
  <2>3. QED  BY <1>3, <2>1, <2>2
<1>4. QED  BY <1>1, <1>2, <1>3

(* Taking the head leaves the other messages.                              *)
LEMMA TailElements ==
  ASSUME NEW S, NEW s \in Seq(S), s # << >>
  PROVE  /\ Head(s) \in S /\ Tail(s) \in Seq(S)
         /\ Range(s) = {Head(s)} \cup Range(Tail(s))
<1>1. Head(s) \in S /\ Tail(s) \in Seq(S) /\ Len(s) \in Nat \ {0}
  OBVIOUS
<1>2. ASSUME NEW x \in Range(s) PROVE x \in {Head(s)} \cup Range(Tail(s))
  <2>1. PICK n \in DOMAIN s : x = s[n]
    BY <1>2 DEF Range
  <2>2. CASE n = 1
    BY <2>1, <2>2
  <2>3. CASE n # 1
    <3>1. n - 1 \in DOMAIN Tail(s) /\ Tail(s)[n - 1] = x
      BY <2>1, <2>3, <1>1
    <3>2. QED  BY <3>1 DEF Range
  <2>4. QED  BY <2>2, <2>3
<1>3. ASSUME NEW x \in {Head(s)} \cup Range(Tail(s)) PROVE x \in Range(s)
  <2>1. CASE x = Head(s)
    <3>1. 1 \in DOMAIN s /\ s[1] = x
      BY <2>1, <1>1
    <3>2. QED  BY <3>1 DEF Range
  <2>2. CASE x \in Range(Tail(s))
    <3>1. PICK n \in DOMAIN Tail(s) : x = Tail(s)[n]
      BY <2>2 DEF Range
    <3>2. n + 1 \in DOMAIN s /\ s[n + 1] = x
      BY <3>1, <1>1
    <3>3. QED  BY <3>2 DEF Range
  <2>3. QED  BY <1>3, <2>1, <2>2
<1>4. QED  BY <1>1, <1>2, <1>3

(* A queue without repetitions stays so when a new message is appended.    *)
LEMMA AppendDistinct ==
  ASSUME NEW S, NEW s \in Seq(S), NEW e \in S, IsInjective(s), e \notin Range(s)
  PROVE  IsInjective(Append(s, e))
<1>1. \A n \in DOMAIN s : s[n] # e
  BY DEF Range
<1>2. QED  BY <1>1 DEF IsInjective

(* The head of a queue without repetitions is not in the rest of it.       *)
LEMMA TailDistinct ==
  ASSUME NEW S, NEW s \in Seq(S), s # << >>, IsInjective(s)
  PROVE  IsInjective(Tail(s)) /\ Head(s) \notin Range(Tail(s))
<1>1. Len(s) \in Nat \ {0} /\ DOMAIN s = 1..Len(s)
      /\ DOMAIN Tail(s) = 1..(Len(s) - 1)
  OBVIOUS
<1>2. \A n \in DOMAIN Tail(s) : Tail(s)[n] = s[n + 1] /\ n + 1 \in DOMAIN s
  BY <1>1
<1>3. IsInjective(Tail(s))
  BY <1>1, <1>2 DEF IsInjective
<1>4. Head(s) = s[1] /\ 1 \in DOMAIN s
  BY <1>1
<1>5. Head(s) \notin Range(Tail(s))
  <2>1. ASSUME NEW n \in DOMAIN Tail(s), Tail(s)[n] = Head(s) PROVE FALSE
    <3>1. n + 1 = 1
      BY <2>1, <1>2, <1>4 DEF IsInjective
    <3>2. QED  BY <3>1, <1>1
  <2>2. QED  BY <2>1 DEF Range
<1>6. QED  BY <1>3, <1>5

(* A queue without repetitions has as many messages as places.             *)
LEMMA DistinctCount ==
  ASSUME NEW S, NEW s \in Seq(S), IsInjective(s)
  PROVE  Cardinality(Range(s)) = Len(s)
<1>1. Len(s) \in Nat /\ DOMAIN s = 1..Len(s) /\ s \in [1..Len(s) -> Range(s)]
  BY DEF Range
<1>2. \A e \in Range(s) : \E n \in 1..Len(s) : s[n] = e
  BY <1>1 DEF Range
<1>3. s \in Bijection(1..Len(s), Range(s))
  BY <1>1, <1>2 DEF Bijection, Injection, Surjection
<1>4. ExistsBijection(1..Len(s), Range(s))
  BY <1>3 DEF ExistsBijection
<1>5. QED  BY <1>1, <1>4, FS_CountingElements

-----------------------------------------------------------------------------
(* Where the messages of a queue are after an append, a take, and a drop   *)
(* of the first n.                                                         *)

(* The places of a sequence stay where they are when a message is          *)
(* appended.                                                               *)
LEMMA AppendIndex ==
  ASSUME NEW S, NEW s \in Seq(S), NEW e \in S
  PROVE  /\ DOMAIN s \subseteq DOMAIN Append(s, e) /\ Len(s) + 1 \in DOMAIN Append(s, e)
         /\ \A n \in DOMAIN s : Append(s, e)[n] = s[n] /\ n # Len(s) + 1
         /\ Append(s, e)[Len(s) + 1] = e
         /\ \A n \in DOMAIN Append(s, e) : n \in DOMAIN s \/ n = Len(s) + 1
OBVIOUS

(* They move down by one when the first message is taken.                  *)
LEMMA TailIndex ==
  ASSUME NEW S, NEW s \in Seq(S), s # << >>
  PROVE  /\ 1 \in DOMAIN s /\ Head(s) = s[1]
         /\ \A n \in DOMAIN Tail(s) : n + 1 \in DOMAIN s /\ Tail(s)[n] = s[n + 1] /\ n \in Nat \ {0}
         /\ \A n \in DOMAIN s : n = 1 \/ (n - 1 \in DOMAIN Tail(s) /\ Tail(s)[n - 1] = s[n])
<1>1. Len(s) \in Nat \ {0} /\ DOMAIN s = 1..Len(s) /\ DOMAIN Tail(s) = 1..(Len(s) - 1)
  OBVIOUS
<1>2. QED  BY <1>1

(* They move down by k when the first k are dropped.                       *)
LEMMA SuffixIndex ==
  ASSUME NEW S, NEW s \in Seq(S), NEW k \in 0..Len(s)
  PROVE  /\ SubSeq(s, k + 1, Len(s)) \in Seq(S)
         /\ \A n \in DOMAIN SubSeq(s, k + 1, Len(s)) :
              n + k \in DOMAIN s /\ SubSeq(s, k + 1, Len(s))[n] = s[n + k] /\ n \in Nat
OBVIOUS

-----------------------------------------------------------------------------
(* How many messages of a queue are in a set, and what an append, a take   *)
(* and a drop of the first do to their number.                             *)

Positions(s, E) == {n \in DOMAIN s : s[n] \in E}

(* There are finitely many, and none in an empty queue.                    *)
LEMMA PositionsFinite ==
  /\ \A S, E : \A s \in Seq(S) :
       IsFiniteSet(Positions(s, E)) /\ Cardinality(Positions(s, E)) \in Nat
  /\ \A E : Cardinality(Positions(<< >>, E)) = 0
<1>1. ASSUME NEW S, NEW E, NEW s \in Seq(S)
      PROVE  IsFiniteSet(Positions(s, E)) /\ Cardinality(Positions(s, E)) \in Nat
  <2>1. Len(s) \in Nat /\ Positions(s, E) \in SUBSET (1..Len(s))
    BY DEF Positions
  <2>2. IsFiniteSet(1..Len(s))
    BY <2>1, FS_Interval
  <2>3. IsFiniteSet(Positions(s, E))
    BY <2>1, <2>2, FS_Subset
  <2>4. QED  BY <2>3, FS_CardinalityType
<1>2. ASSUME NEW E PROVE Cardinality(Positions(<< >>, E)) = 0
  <2>1. Positions(<< >>, E) = {}
    BY DEF Positions
  <2>2. QED  BY <2>1, FS_EmptySet
<1>3. QED  BY <1>1, <1>2

(* An append adds one when the message is in the set.                      *)
LEMMA PositionsAppend ==
  ASSUME NEW S, NEW s \in Seq(S), NEW e \in S, NEW E
  PROVE  Cardinality(Positions(Append(s, e), E))
           = Cardinality(Positions(s, E)) + IF e \in E THEN 1 ELSE 0
<1>1. /\ DOMAIN s \subseteq DOMAIN Append(s, e) /\ Len(s) + 1 \in DOMAIN Append(s, e)
      /\ \A n \in DOMAIN s : Append(s, e)[n] = s[n] /\ n # Len(s) + 1
      /\ Append(s, e)[Len(s) + 1] = e
      /\ \A n \in DOMAIN Append(s, e) : n \in DOMAIN s \/ n = Len(s) + 1
  BY AppendIndex
<1>2. Cardinality(Positions(s, E)) \in Nat /\ IsFiniteSet(Positions(s, E))
  BY PositionsFinite
<1>3. CASE e \in E
  <2>1. Positions(Append(s, e), E) = Positions(s, E) \cup {Len(s) + 1}
    BY <1>1, <1>3 DEF Positions
  <2>2. Len(s) + 1 \notin Positions(s, E)
    BY <1>1 DEF Positions
  <2>3. QED  BY <2>1, <2>2, <1>2, <1>3, FS_AddElement
<1>4. CASE e \notin E
  <2>1. Positions(Append(s, e), E) = Positions(s, E)
    BY <1>1, <1>4 DEF Positions
  <2>2. QED  BY <2>1, <1>2, <1>4
<1>5. QED  BY <1>3, <1>4

(* A take removes one when the first message is in the set.                *)
LEMMA PositionsTail ==
  ASSUME NEW S, NEW s \in Seq(S), s # << >>, NEW E
  PROVE  Cardinality(Positions(s, E))
           = Cardinality(Positions(Tail(s), E)) + IF Head(s) \in E THEN 1 ELSE 0
<1> DEFINE P == Positions(Tail(s), E)
           R == Positions(s, E) \ {1}
           shift == [n \in P |-> n + 1]
<1>1. /\ 1 \in DOMAIN s /\ Head(s) = s[1] /\ Tail(s) \in Seq(S)
      /\ \A n \in DOMAIN Tail(s) : n + 1 \in DOMAIN s /\ Tail(s)[n] = s[n + 1] /\ n \in Nat \ {0}
      /\ \A n \in DOMAIN s : n = 1 \/ (n - 1 \in DOMAIN Tail(s) /\ Tail(s)[n - 1] = s[n])
  BY TailIndex, TailElements
<1>2. /\ IsFiniteSet(P) /\ Cardinality(P) \in Nat
      /\ IsFiniteSet(Positions(s, E)) /\ Cardinality(Positions(s, E)) \in Nat
  BY <1>1, PositionsFinite
<1>3. shift \in Bijection(P, R)
  <2>1. ASSUME NEW n \in P PROVE shift[n] \in R /\ n \in Nat
    BY <1>1 DEF Positions
  <2>2. shift \in [P -> R]
    BY <2>1
  <2>3. \A m, n \in P : shift[m] = shift[n] => m = n
    BY <2>1
  <2>4. ASSUME NEW n \in R PROVE \E m \in P : shift[m] = n
    <3>1. n \in DOMAIN s /\ s[n] \in E /\ n # 1 /\ n \in Nat
      BY DEF Positions
    <3>2. n - 1 \in P /\ shift[n - 1] = n
      BY <3>1, <1>1 DEF Positions
    <3>3. QED  BY <3>2
  <2> HIDE DEF P, R, shift
  <2>5. shift \in Injection(P, R)
    BY <2>2, <2>3 DEF Injection, IsInjective
  <2>6. shift \in Surjection(P, R)
    BY <2>2, <2>4 DEF Surjection
  <2>7. QED  BY <2>5, <2>6 DEF Bijection
<1>4. Cardinality(R) = Cardinality(P)
  <2>1. ExistsBijection(P, R)
    BY <1>3 DEF ExistsBijection
  <2>2. QED  BY <2>1, <1>2, FS_Bijection
<1>5. Cardinality(R) = IF 1 \in Positions(s, E) THEN Cardinality(Positions(s, E)) - 1
                       ELSE Cardinality(Positions(s, E))
  BY <1>2, FS_RemoveElement
<1>6. 1 \in Positions(s, E) <=> Head(s) \in E
  BY <1>1 DEF Positions
<1> HIDE DEF P, R
<1>7. QED  BY <1>2, <1>4, <1>5, <1>6 DEF P

(* A drop adds none.                                                       *)
LEMMA PositionsSuffix ==
  ASSUME NEW S, NEW s \in Seq(S), NEW k \in 0..Len(s), NEW E
  PROVE  Cardinality(Positions(SubSeq(s, k + 1, Len(s)), E)) <= Cardinality(Positions(s, E))
<1> DEFINE t == SubSeq(s, k + 1, Len(s))
           P == Positions(t, E)
           shift == [n \in P |-> n + k]
<1>1. \A n \in DOMAIN t : n + k \in DOMAIN s /\ t[n] = s[n + k] /\ n \in Nat
  BY SuffixIndex
<1>2. IsFiniteSet(Positions(s, E))
  BY PositionsFinite
<1>3. \A n \in P : n + k \in Positions(s, E) /\ n \in Nat
  BY <1>1 DEF Positions
<1> HIDE DEF P, t
<1>4. shift \in Injection(P, Positions(s, E))
  <2>1. shift \in [P -> Positions(s, E)]
    BY <1>3
  <2>2. \A m, n \in P : shift[m] = shift[n] => m = n
    BY <1>3
  <2> HIDE DEF shift
  <2>3. QED  BY <2>1, <2>2 DEF Injection, IsInjective
<1>5. QED  BY <1>2, <1>4, FS_Injection DEF P, t
-----------------------------------------------------------------------------
(* Least and greatest numbers.                                             *)

(* A set of natural numbers that is not empty has a least one.             *)
LEMMA LeastIn ==
  ASSUME NEW S \in SUBSET Nat, S # {}
  PROVE  \E x \in S : \A y \in S : x <= y
<1> DEFINE Less == {p \in Nat \X Nat : p[1] < p[2]}
<1>1. OpToRel(<, Nat) = Less
  BY DEF OpToRel
<1>2. IsWellFoundedOn(Less, Nat)
  BY <1>1, NatLessThanWellFounded
<1> HIDE DEF Less
<1>3. PICK x \in S : \A y \in S : << y, x >> \notin Less
  BY <1>2, WFMin
<1>4. ASSUME NEW y \in S PROVE x <= y
  <2>1. x \in Nat /\ y \in Nat
    OBVIOUS
  <2>2. y < x => << y, x >> \in Less
    BY <2>1 DEF Less
  <2>3. QED  BY <2>1, <2>2, <1>3
<1>5. QED  BY <1>4

(* A bounded one has a greatest.                                           *)
LEMMA GreatestIn ==
  ASSUME NEW n \in Nat, NEW S \in SUBSET (1..n), S # {}
  PROVE  \E x \in S : \A y \in S : y <= x
<1> DEFINE D == {n - y : y \in S}
<1>1. D \in SUBSET Nat /\ D # {}
  <2>1. \A y \in S : n - y \in Nat
    OBVIOUS
  <2>2. QED  BY <2>1
<1> HIDE DEF D
<1>2. PICK d \in D : \A e \in D : d <= e
  BY <1>1, LeastIn
<1>3. PICK x \in S : d = n - x
  BY DEF D
<1>4. ASSUME NEW y \in S PROVE y <= x
  <2>1. d <= n - y
    BY <1>2 DEF D
  <2>2. x \in 1..n /\ y \in 1..n
    OBVIOUS
  <2>3. QED  BY <1>3, <2>1, <2>2
<1>5. QED  BY <1>4

=============================================================================
