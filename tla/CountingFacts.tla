---------------------------- MODULE CountingFacts -----------------------------
(***************************************************************************)
(* Facts about numbers and sequences that the proofs of several modules    *)
(* need: least and greatest numbers, indices that wrap around, and where   *)
(* an element stands in a sequence, which appending to it and taking its   *)
(* head change.                                                            *)
(***************************************************************************)
EXTENDS SequenceTheorems, FiniteSetTheorems, WellFoundedInduction, TLAPS

\* Some natural numbers have a least one.
LEMMA LeastExists ==
    ASSUME NEW S \in SUBSET Nat, S # {}
    PROVE  \E x \in S : \A y \in S : x <= y
<1>1. PICK x \in S : \A y \in S : <<y, x>> \notin OpToRel(<, Nat)
  BY NatLessThanWellFounded, WFMin, Zenon
<1>2. \A y \in S : x <= y
  <2>1. SUFFICES ASSUME NEW y \in S PROVE ~ (y < x)
    OBVIOUS
  <2>2. x \in Nat /\ y \in Nat
    OBVIOUS
  <2> QED BY <1>1, <2>1, <2>2, Zenon DEF OpToRel
<1> QED BY <1>2

\* Some numbers up to a bound have a greatest one.
LEMMA GreatestExists ==
    ASSUME NEW n \in Nat, NEW S \in SUBSET (0 .. n), S # {}
    PROVE  \E x \in S : \A y \in S : y <= x
<1> DEFINE Gaps == {n - x : x \in S}
<1>1. Gaps \in SUBSET Nat /\ Gaps # {}
  <2>1. \A x \in S : n - x \in Nat /\ n - x \in Gaps
    OBVIOUS
  <2> QED BY <2>1
<1>2. PICK g \in Gaps : \A h \in Gaps : g <= h
  BY <1>1, LeastExists
<1>3. PICK x \in S : g = n - x
  OBVIOUS
<1>4. \A y \in S : n - y \in Gaps /\ y \in Int
  OBVIOUS
<1> HIDE DEF Gaps
<1>5. \A y \in S : y <= x
  BY <1>2, <1>3, <1>4
<1> QED BY <1>5

\* Indices that wrap around at the end of a sequence.
LEMMA IndexAfter ==
    ASSUME NEW n \in Nat \ {0}, NEW i \in 1 .. n
    PROVE  (i % n) + 1 = IF i = n THEN 1 ELSE i + 1
<1>1. CASE i < n
  BY <1>1
<1>2. CASE i = n
  BY <1>2
<1> QED BY <1>1, <1>2

\* Indices that wrap around, from one in the middle of a sequence on.
LEMMA IndexFrom ==
    ASSUME NEW n \in Nat \ {0}, NEW a \in 1 .. n, NEW i \in 1 .. n
    PROVE  ((a + i - 2) % n) + 1 = IF a + i - 1 <= n THEN a + i - 1 ELSE a + i - 1 - n
<1>1. CASE a + i - 1 <= n
  <2>1. a + i - 2 \in 0 .. n - 1
    BY <1>1
  <2> QED BY <1>1, <2>1
<1>2. CASE ~ (a + i - 1 <= n)
  <2> DEFINE r == a + i - 2 - n
  <2>1. r \in 0 .. n - 1 /\ a + i - 2 = n + r
    BY <1>2
  <2> HIDE DEF r
  <2>2. (n + r) % n = r
    BY <2>1
  <2> QED BY <1>2, <2>1, <2>2
<1> QED BY <1>1, <1>2

PlacesIn(s, x) == {k \in DOMAIN s : s[k] = x}

\* An element has finitely many places, none exactly when it does not occur.
LEMMA PlacesFinite ==
    ASSUME NEW S, NEW s \in Seq(S), NEW x
    PROVE  /\ IsFiniteSet(PlacesIn(s, x)) /\ Cardinality(PlacesIn(s, x)) \in Nat
           /\ Cardinality(PlacesIn(s, x)) = 0 <=> \A k \in 1 .. Len(s) : s[k] # x
<1>1. IsFiniteSet(DOMAIN s) /\ DOMAIN s = 1 .. Len(s)
  BY LenProperties, FS_Interval
<1>2. IsFiniteSet(PlacesIn(s, x))
  BY <1>1, FS_Subset DEF PlacesIn
<1>3. Cardinality(PlacesIn(s, x)) = 0 <=> PlacesIn(s, x) = {}
  BY <1>2, FS_EmptySet
<1>4. PlacesIn(s, x) = {} <=> \A k \in 1 .. Len(s) : s[k] # x
  BY <1>1 DEF PlacesIn
<1> QED BY <1>2, <1>3, <1>4, FS_CardinalityType

\* Nothing has a place in the empty sequence.
LEMMA PlacesInEmpty ==
    ASSUME NEW x
    PROVE  Cardinality(PlacesIn(<<>>, x)) = 0
<1>1. PlacesIn(<<>>, x) = {}
  BY DEF PlacesIn
<1> QED BY <1>1, FS_EmptySet

\* What is appended gets one more place, everything else keeps its places.
LEMMA PlacesAppended ==
    ASSUME NEW S, NEW s \in Seq(S), NEW y \in S, NEW x
    PROVE  Cardinality(PlacesIn(Append(s, y), x)) =
               Cardinality(PlacesIn(s, x)) + IF x = y THEN 1 ELSE 0
<1> DEFINE new == Len(s) + 1
<1>1. /\ DOMAIN s = 1 .. Len(s) /\ Len(s) \in Nat
      /\ DOMAIN Append(s, y) = 1 .. new /\ Append(s, y)[new] = y
      /\ \A k \in 1 .. Len(s) : Append(s, y)[k] = s[k]
  BY LenProperties, AppendProperties
<1>2. new \notin PlacesIn(s, x)
  BY <1>1 DEF PlacesIn
<1>3. PlacesIn(Append(s, y), x) = IF x = y THEN PlacesIn(s, x) \cup {new} ELSE PlacesIn(s, x)
  BY <1>1 DEF PlacesIn
<1>4. IsFiniteSet(PlacesIn(s, x)) /\ Cardinality(PlacesIn(s, x)) \in Nat
  BY PlacesFinite
<1>5. Cardinality(PlacesIn(s, x) \cup {new}) = Cardinality(PlacesIn(s, x)) + 1
  BY <1>2, <1>4, FS_AddElement
<1> QED BY <1>3, <1>4, <1>5

\* The head loses a place, everything else keeps as many as it had.
LEMMA PlacesOfTail ==
    ASSUME NEW S, NEW s \in Seq(S), s # <<>>, NEW x
    PROVE  Cardinality(PlacesIn(Tail(s), x)) =
               Cardinality(PlacesIn(s, x)) - IF x = Head(s) THEN 1 ELSE 0
<1> DEFINE behind == PlacesIn(s, x) \ {1}
           Forward == [k \in behind |-> k - 1]
<1>1. /\ DOMAIN s = 1 .. Len(s) /\ Len(s) \in Nat \ {0} /\ Head(s) = s[1]
      /\ DOMAIN Tail(s) = 1 .. Len(s) - 1
      /\ \A k \in 1 .. Len(s) - 1 : Tail(s)[k] = s[k + 1]
  BY LenProperties, HeadTailProperties, EmptySeq
<1>2. IsFiniteSet(behind) /\ IsFiniteSet(PlacesIn(s, x)) /\ Cardinality(PlacesIn(s, x)) \in Nat
  BY PlacesFinite, FS_RemoveElement
<1>3. Cardinality(behind) = Cardinality(PlacesIn(s, x)) - IF x = Head(s) THEN 1 ELSE 0
  <2>1. 1 \in PlacesIn(s, x) <=> x = Head(s)
    BY <1>1 DEF PlacesIn
  <2> QED BY <1>2, <2>1, FS_RemoveElement
<1>4. Forward \in Bijection(behind, PlacesIn(Tail(s), x))
  <2>1. \A k \in behind : k \in Int /\ k - 1 \in PlacesIn(Tail(s), x)
    BY <1>1 DEF PlacesIn
  <2>2. \A j \in PlacesIn(Tail(s), x) : j \in Int /\ j + 1 \in behind
    BY <1>1 DEF PlacesIn
  <2>3. Forward \in Injection(behind, PlacesIn(Tail(s), x))
    BY <2>1 DEF Injection, IsInjective
  <2>4. \A j \in PlacesIn(Tail(s), x) : \E k \in behind : Forward[k] = j
    BY <2>2
  <2>5. Forward \in Surjection(behind, PlacesIn(Tail(s), x))
    BY <2>3, <2>4 DEF Surjection, Injection
  <2> QED BY <2>3, <2>5 DEF Bijection
<1>5. Cardinality(PlacesIn(Tail(s), x)) = Cardinality(behind)
  BY <1>2, <1>4, FS_Bijection DEF ExistsBijection
<1> QED BY <1>3, <1>5

\* An element that is not the head is still there when the head is taken.
LEMMA TailKeepsOthers ==
    ASSUME NEW S, NEW s \in Seq(S), s # <<>>, NEW x, x # Head(s),
           \E k \in 1 .. Len(s) : s[k] = x
    PROVE  \E k \in 1 .. Len(Tail(s)) : Tail(s)[k] = x
<1>1. Cardinality(PlacesIn(Tail(s), x)) = Cardinality(PlacesIn(s, x)) - 0
  BY PlacesOfTail
<1>2. Tail(s) \in Seq(S)
  BY HeadTailProperties
<1>3. Cardinality(PlacesIn(s, x)) \in Nat /\ Cardinality(PlacesIn(s, x)) # 0
  BY PlacesFinite
<1>4. Cardinality(PlacesIn(Tail(s), x)) # 0
  BY <1>1, <1>3
<1> QED BY <1>2, <1>4, PlacesFinite

=============================================================================
