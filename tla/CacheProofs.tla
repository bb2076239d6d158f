----------------------------- MODULE CacheProofs ------------------------------
(***************************************************************************)
(* Theorems about Cache, for both programs and every set of keys, number   *)
(* of nodes, size of a cache and bound on operations: lines keep to the    *)
(* limit, copies agree after a write that was alone and heard by all, and  *)
(* such a write is not lost.                                               *)
(***************************************************************************)
EXTENDS Cache, CountingFacts

USE CacheAssumption

-----------------------------------------------------------------------------
(* One node's lines *)

OneEach(cache) == \A i, j \in DOMAIN cache : cache[i].key = cache[j].key => i = j

\* What a node's lines always are.
Sound(cache) == cache \in Seq(Line) /\ Len(cache) <= MaxSize /\ OneEach(cache)

\* A sequence, the elements of which are lines.
LEMMA LinesIndexed ==
    ASSUME NEW c \in Seq(Line)
    PROVE  /\ Len(c) \in Nat /\ DOMAIN c = 1 .. Len(c)
           /\ \A i \in DOMAIN c : c[i] \in Line /\ c[i] \in ToSet(c)
           /\ \A l \in ToSet(c) : l \in Line /\ \E i \in DOMAIN c : c[i] = l
BY DEF ToSet

\* A key has one line, or none.
LEMMA OneLine ==
    ASSUME NEW c, Sound(c), NEW l \in ToSet(c), NEW m \in ToSet(c), l.key = m.key
    PROVE  l = m
BY DEF Sound, OneEach, ToSet

\* Taking a line out of the sequence takes exactly the key's line.
LEMMA WithoutKey ==
    ASSUME NEW c, Sound(c), NEW key
    PROVE  /\ Sound(Without(c, key))
           /\ ToSet(Without(c, key)) = {l \in ToSet(c) : l.key # key}
           /\ LinesOf(c, key) # {} => Len(Without(c, key)) = Len(c) - 1
<1>1. /\ c \in Seq(Line) /\ Len(c) \in Nat /\ DOMAIN c = 1 .. Len(c)
      /\ \A i \in 1 .. Len(c) : c[i] \in Line
  BY LinesIndexed DEF Sound
<1>2. CASE LinesOf(c, key) = {}
  BY <1>2 DEF Without, LinesOf
<1>3. CASE LinesOf(c, key) # {}
  <2>1. \E i \in DOMAIN c : c[i].key = key
    BY <1>3 DEF LinesOf, ToSet
  <2> DEFINE i == CHOOSE k \in DOMAIN c : c[k].key = key
             rest == Without(c, key)
  <2>2. i \in 1 .. Len(c) /\ c[i].key = key
    BY <2>1, <1>1
  <2>3. rest = SubSeq(c, 1, i - 1) \o SubSeq(c, i + 1, Len(c))
    BY <1>3 DEF Without, RemoveAt
  <2> HIDE DEF i, rest
  <2> DEFINE front == SubSeq(c, 1, i - 1)
             back == SubSeq(c, i + 1, Len(c))
  <2>4. /\ front \in Seq(Line) /\ Len(front) = i - 1
        /\ \A k \in 1 .. i - 1 : front[k] = c[k]
    BY <1>1, <2>2, SubSeqProperties
  <2>5. /\ back \in Seq(Line) /\ Len(back) = Len(c) - i
        /\ \A k \in 1 .. Len(c) - i : back[k] = c[i + k]
    <3>1. /\ Len(c) \in Nat /\ i \in Nat /\ 1 <= i /\ i <= Len(c)
          /\ i + 1 \in Int /\ Len(c) \in Int
          /\ \A k \in i + 1 .. Len(c) : k \in 1 .. Len(c)
      BY <1>1, <2>2
    <3>2. \A k \in i + 1 .. Len(c) : c[k] \in Line
      BY <3>1, <1>1
    <3>3. /\ back \in Seq(Line)
          /\ Len(back) = IF i + 1 <= Len(c) THEN Len(c) - (i + 1) + 1 ELSE 0
          /\ \A k \in 1 .. Len(c) - (i + 1) + 1 : back[k] = c[(i + 1) + k - 1]
      BY <3>1, <3>2, SubSeqProperties
    <3>4. /\ Len(c) - (i + 1) + 1 = Len(c) - i
          /\ \A k \in 1 .. Len(c) - i : (i + 1) + k - 1 = i + k
          /\ ~ (i + 1 <= Len(c)) => Len(c) - i = 0
      BY <3>1
    <3> HIDE DEF back
    <3> QED BY <3>3, <3>4
  <2> HIDE DEF front, back
  <2>6. /\ rest \in Seq(Line) /\ Len(rest) = Len(c) - 1
        /\ \A k \in 1 .. Len(c) - 1 : rest[k] = IF k < i THEN c[k] ELSE c[k + 1]
    <3>1. rest = front \o back
      BY <2>3 DEF front, back
    <3>2. /\ rest \in Seq(Line) /\ Len(rest) = Len(front) + Len(back)
          /\ \A k \in 1 .. Len(front) + Len(back) :
                 rest[k] = IF k <= Len(front) THEN front[k] ELSE back[k - Len(front)]
      <4>1. /\ front \o back \in Seq(Line) /\ Len(front \o back) = Len(front) + Len(back)
            /\ \A k \in 1 .. Len(front) + Len(back) :
                   (front \o back)[k] = IF k <= Len(front) THEN front[k] ELSE back[k - Len(front)]
        BY <2>4, <2>5, ConcatProperties
      <4> QED BY <3>1, <4>1
    <3>3. Len(rest) = Len(c) - 1
      BY <3>2, <2>4, <2>5, <2>2, <1>1
    <3>4. ASSUME NEW k \in 1 .. Len(c) - 1
          PROVE  rest[k] = IF k < i THEN c[k] ELSE c[k + 1]
      <4>1. CASE k < i
        <5>1. /\ k \in 1 .. Len(front) + Len(back) /\ k <= Len(front) /\ k \in 1 .. i - 1
          BY <4>1, <2>4, <2>5, <2>2, <1>1
        <5>2. rest[k] = front[k]
          BY <5>1, <3>2
        <5> QED BY <4>1, <5>1, <5>2, <2>4
      <4>2. CASE ~ (k < i)
        <5>1. k - (i - 1) \in 1 .. Len(c) - i
          BY <4>2, <2>2, <1>1
        <5>2. rest[k] = back[k - (i - 1)]
          <6>1. /\ k \in 1 .. Len(front) + Len(back) /\ ~ (k <= Len(front))
                /\ k - Len(front) = k - (i - 1)
            BY <4>2, <2>4, <2>5, <2>2, <1>1
          <6> QED BY <6>1, <3>2
        <5>3. back[k - (i - 1)] = c[i + (k - (i - 1))]
          BY <5>1, <2>5
        <5>4. i + (k - (i - 1)) = k + 1
          BY <2>2, <1>1
        <5> QED BY <4>2, <5>2, <5>3, <5>4
      <4> QED BY <4>1, <4>2
    <3> QED BY <3>2, <3>3, <3>4
  <2>7. DOMAIN rest = 1 .. Len(c) - 1
    BY <2>6, LenProperties
  <2> DEFINE From(k) == IF k < i THEN k ELSE k + 1
  <2>8. \A k \in 1 .. Len(c) - 1 :
            From(k) \in 1 .. Len(c) /\ From(k) # i /\ rest[k] = c[From(k)]
    BY <2>2, <2>6, <1>1
  <2>9. \A k, m \in 1 .. Len(c) - 1 : From(k) = From(m) => k = m
    BY <2>2, <1>1
  <2>10. OneEach(rest)
    <3> SUFFICES ASSUME NEW k \in 1 .. Len(c) - 1, NEW m \in 1 .. Len(c) - 1,
                        rest[k].key = rest[m].key
                 PROVE  k = m
      BY <2>7 DEF OneEach
    <3>1. c[From(k)].key = c[From(m)].key /\ From(k) \in DOMAIN c /\ From(m) \in DOMAIN c
      BY <2>8, <1>1
    <3>2. From(k) = From(m)
      BY <3>1 DEF Sound, OneEach
    <3> QED BY <3>2, <2>9
  <2>11. ASSUME NEW l \in ToSet(rest) PROVE l \in ToSet(c) /\ l.key # key
    <3>1. PICK k \in 1 .. Len(c) - 1 : l = rest[k]
      BY <2>7 DEF ToSet
    <3>2. From(k) \in 1 .. Len(c) /\ From(k) # i /\ l = c[From(k)]
      BY <3>1, <2>8
    <3> QED BY <3>2, <2>2, <1>1 DEF Sound, OneEach, ToSet
  <2>12. ASSUME NEW l \in ToSet(c), l.key # key PROVE l \in ToSet(rest)
    <3>1. PICK k \in 1 .. Len(c) : l = c[k]
      BY <1>1 DEF ToSet
    <3>2. k # i
      BY <2>12, <3>1, <2>2
    <3>3. CASE k < i
      <4>1. k \in 1 .. Len(c) - 1 /\ rest[k] = c[k]
        BY <3>3, <2>2, <2>6, <1>1
      <4> QED BY <4>1, <3>1, <2>7 DEF ToSet
    <3>4. CASE ~ (k < i)
      <4>1. k - 1 \in 1 .. Len(c) - 1 /\ ~ (k - 1 < i) /\ (k - 1) + 1 = k
        BY <3>4, <3>2, <2>2, <1>1
      <4>2. rest[k - 1] = c[k]
        BY <4>1, <2>6
      <4> QED BY <4>1, <4>2, <3>1, <2>7 DEF ToSet
    <3> QED BY <3>3, <3>4
  <2>13. Len(rest) <= MaxSize
    BY <2>6, <1>1 DEF Sound
  <2>14. Sound(rest)
    BY <2>6, <2>10, <2>13 DEF Sound
  <2>15. ToSet(rest) = {l \in ToSet(c) : l.key # key}
    BY <2>11, <2>12
  <2> QED BY <2>14, <2>15, <2>6 DEF rest
<1> QED BY <1>2, <1>3

\* A line that is appended is the only one of its key.
LEMMA AppendedLine ==
    ASSUME NEW c \in Seq(Line), OneEach(c), NEW line \in Line,
           \A l \in ToSet(c) : l.key # line.key
    PROVE  /\ Append(c, line) \in Seq(Line) /\ OneEach(Append(c, line))
           /\ Len(Append(c, line)) = Len(c) + 1
           /\ Append(c, line)[Len(c) + 1] = line
           /\ ToSet(Append(c, line)) = ToSet(c) \cup {line}
<1> DEFINE all == Append(c, line)
<1>1. /\ Len(c) \in Nat /\ DOMAIN c = 1 .. Len(c)
      /\ \A i \in 1 .. Len(c) : c[i] \in Line /\ c[i] \in ToSet(c)
  BY LinesIndexed
<1>2. /\ all \in Seq(Line) /\ Len(all) = Len(c) + 1 /\ DOMAIN all = 1 .. Len(c) + 1
      /\ all[Len(c) + 1] = line /\ \A i \in 1 .. Len(c) : all[i] = c[i]
  BY <1>1, AppendProperties, LenProperties
<1>3. \A i \in 1 .. Len(c) + 1 : i \in 1 .. Len(c) \/ i = Len(c) + 1
  BY <1>1
<1> HIDE DEF all
<1>4. OneEach(all)
  BY <1>1, <1>2, <1>3 DEF OneEach
<1>5. \A l \in ToSet(all) : l \in ToSet(c) \/ l = line
  BY <1>1, <1>2, <1>3 DEF ToSet
<1>6. \A l \in ToSet(c) : l \in ToSet(all)
  <2> TAKE l \in ToSet(c)
  <2>1. PICK i \in 1 .. Len(c) : l = c[i]
    BY <1>1 DEF ToSet
  <2>2. i \in DOMAIN all /\ all[i] = l
    BY <2>1, <1>1, <1>2
  <2> QED BY <2>2 DEF ToSet
<1>7. line \in ToSet(all)
  <2>1. Len(c) + 1 \in DOMAIN all
    BY <1>1, <1>2
  <2> QED BY <2>1, <1>2 DEF ToSet
<1>8. ToSet(all) = ToSet(c) \cup {line}
  BY <1>5, <1>6, <1>7
<1> QED BY <1>2, <1>4, <1>8 DEF all

\* get changes the order only.
LEMMA TouchedLines ==
    ASSUME NEW c, Sound(c), NEW key
    PROVE  Sound(Touched(c, key)) /\ ToSet(Touched(c, key)) = ToSet(c)
<1>1. CASE LinesOf(c, key) = {}
  BY <1>1 DEF Touched
<1>2. CASE LinesOf(c, key) # {}
  <2> DEFINE line == CHOOSE l \in LinesOf(c, key) : TRUE
             rest == Without(c, key)
  <2>1. line \in ToSet(c) /\ line.key = key /\ line \in Line
    BY <1>2, LinesIndexed DEF LinesOf, Sound
  <2>2. Touched(c, key) = Append(rest, line)
    BY <1>2 DEF Touched
  <2> HIDE DEF line, rest
  <2>3. /\ Sound(rest) /\ Len(rest) = Len(c) - 1
        /\ ToSet(rest) = {l \in ToSet(c) : l.key # key}
    BY <1>2, WithoutKey DEF rest
  <2>4. /\ rest \in Seq(Line) /\ OneEach(rest) /\ \A l \in ToSet(rest) : l.key # line.key
    BY <2>1, <2>3 DEF Sound
  <2>5. /\ Append(rest, line) \in Seq(Line) /\ OneEach(Append(rest, line))
        /\ Len(Append(rest, line)) = Len(rest) + 1
        /\ ToSet(Append(rest, line)) = ToSet(rest) \cup {line}
    BY <2>1, <2>4, AppendedLine
  <2>6. Len(c) \in Nat /\ Len(c) <= MaxSize
    BY LinesIndexed DEF Sound
  <2>7. Len(Append(rest, line)) <= MaxSize
    BY <2>3, <2>5, <2>6
  <2>8. \A l \in ToSet(c) : l.key = key => l = line
    BY <2>1, OneLine
  <2>9. ToSet(rest) \cup {line} = ToSet(c)
    BY <2>1, <2>3, <2>8
  <2> QED BY <2>2, <2>5, <2>7, <2>9 DEF Sound
<1> QED BY <1>1, <1>2

\* put keeps to the limit; the new line is in, and others may only go.
LEMMA PutLines ==
    ASSUME NEW c, Sound(c), NEW line \in Line
    PROVE  /\ Sound(Put(c, line)) /\ line \in ToSet(Put(c, line))
           /\ \A l \in ToSet(Put(c, line)) : l = line \/ (l \in ToSet(c) /\ l.key # line.key)
<1> DEFINE rest == Without(c, line.key)
           all == Append(rest, line)
<1>1. /\ Sound(rest) /\ ToSet(rest) = {l \in ToSet(c) : l.key # line.key}
  BY WithoutKey
<1>2. Put(c, line) = IF Len(all) > MaxSize THEN Tail(all) ELSE all
  BY DEF Put
<1> HIDE DEF rest
<1>3. /\ rest \in Seq(Line) /\ OneEach(rest) /\ \A l \in ToSet(rest) : l.key # line.key
      /\ Len(rest) \in Nat /\ Len(rest) <= MaxSize
  BY <1>1, LinesIndexed DEF Sound
<1>4. /\ all \in Seq(Line) /\ OneEach(all) /\ Len(all) = Len(rest) + 1
      /\ all[Len(rest) + 1] = line /\ ToSet(all) = ToSet(rest) \cup {line}
  BY <1>3, AppendedLine
<1> HIDE DEF all
<1>5. DOMAIN all = 1 .. Len(rest) + 1
  BY <1>4, LenProperties
<1>6. CASE Len(all) > MaxSize
  <2> DEFINE new == Tail(all)
  <2>1. Len(rest) = MaxSize
    BY <1>3, <1>4, <1>6
  <2>2. /\ new \in Seq(Line) /\ Len(new) = Len(rest)
        /\ \A i \in 1 .. Len(rest) : new[i] = all[i + 1]
    <3>1. all # <<>>
      BY <1>3, <1>4
    <3> QED BY <3>1, <1>3, <1>4, HeadTailProperties
  <2> HIDE DEF new
  <2>3. DOMAIN new = 1 .. Len(rest)
    BY <2>2, LenProperties
  <2>4. \A i \in 1 .. Len(rest) : i + 1 \in DOMAIN all
    BY <1>3, <1>5
  <2>5. OneEach(new)
    <3> SUFFICES ASSUME NEW i \in 1 .. Len(rest), NEW j \in 1 .. Len(rest),
                        new[i].key = new[j].key
                 PROVE  i = j
      BY <2>3 DEF OneEach
    <3>1. all[i + 1].key = all[j + 1].key /\ i + 1 \in DOMAIN all /\ j + 1 \in DOMAIN all
      BY <2>2, <2>4
    <3>2. i + 1 = j + 1
      BY <3>1, <1>4 DEF OneEach
    <3> QED BY <3>2, <1>3
  <2>6. \A l \in ToSet(new) : l \in ToSet(all)
    <3> TAKE l \in ToSet(new)
    <3>1. PICK i \in 1 .. Len(rest) : l = new[i]
      BY <2>3 DEF ToSet
    <3> QED BY <3>1, <2>2, <2>4 DEF ToSet
  <2>7. line \in ToSet(new)
    <3>1. Len(rest) \in 1 .. Len(rest)
      BY <2>1, <1>3
    <3>2. new[Len(rest)] = line
      BY <3>1, <2>2, <1>4
    <3> QED BY <3>1, <3>2, <2>3 DEF ToSet
  <2>8. Len(new) <= MaxSize
    BY <2>2, <1>3
  <2> QED BY <1>1, <1>2, <1>4, <1>6, <2>2, <2>5, <2>6, <2>7, <2>8 DEF Sound, new
<1>7. CASE ~ (Len(all) > MaxSize)
  <2>1. Len(all) <= MaxSize
    BY <1>3, <1>4, <1>7
  <2> QED BY <2>1, <1>1, <1>2, <1>4, <1>7 DEF Sound
<1> QED BY <1>6, <1>7

\* A change of state in place changes the lines of the key only.
LEMMA InStateLines ==
    ASSUME NEW c, Sound(c), NEW key, NEW state \in {"M", "S", "I"}
    PROVE  /\ Sound(InState(c, key, state))
           /\ \A l \in ToSet(InState(c, key, state)) :
                  \E m \in ToSet(c) : l = IF m.key = key THEN [m EXCEPT !.state = state] ELSE m
           /\ \A m \in ToSet(c) :
                  (IF m.key = key THEN [m EXCEPT !.state = state] ELSE m)
                      \in ToSet(InState(c, key, state))
<1> DEFINE new == InState(c, key, state)
<1>1. /\ Len(c) \in Nat /\ DOMAIN c = 1 .. Len(c) /\ \A i \in 1 .. Len(c) : c[i] \in Line
      /\ c \in Seq(Line)
  BY LinesIndexed DEF Sound
<1>2. new = [i \in 1 .. Len(c) |-> IF c[i].key = key THEN [c[i] EXCEPT !.state = state]
                                                     ELSE c[i]]
  BY <1>1 DEF InState
<1> HIDE DEF new
<1>3. \A m \in Line : /\ [m EXCEPT !.state = state] \in Line
                      /\ [m EXCEPT !.state = state].key = m.key
  BY DEF Line
<1>4. /\ DOMAIN new = 1 .. Len(c)
      /\ \A i \in 1 .. Len(c) : new[i] \in Line /\ new[i].key = c[i].key
      /\ \A i \in 1 .. Len(c) :
             new[i] = IF c[i].key = key THEN [c[i] EXCEPT !.state = state] ELSE c[i]
  BY <1>1, <1>2, <1>3
<1>5. new \in Seq(Line) /\ Len(new) = Len(c)
  <2>1. new \in [1 .. Len(c) -> Line]
    BY <1>2, <1>4
  <2> QED BY <2>1, <1>1, SeqDef, LenProperties
<1>6. Sound(new)
  BY <1>1, <1>4, <1>5 DEF Sound, OneEach
<1>7. \A l \in ToSet(new) :
          \E m \in ToSet(c) : l = IF m.key = key THEN [m EXCEPT !.state = state] ELSE m
  BY <1>1, <1>4 DEF ToSet
<1>8. \A m \in ToSet(c) :
          (IF m.key = key THEN [m EXCEPT !.state = state] ELSE m) \in ToSet(new)
  <2> TAKE m \in ToSet(c)
  <2>1. PICK i \in 1 .. Len(c) : m = c[i]
    BY <1>1 DEF ToSet
  <2>2. new[i] = IF m.key = key THEN [m EXCEPT !.state = state] ELSE m
    BY <2>1, <1>4
  <2> QED BY <2>1, <2>2, <1>4 DEF ToSet
<1> QED BY <1>6, <1>7, <1>8 DEF new

-----------------------------------------------------------------------------
(* What happens to the copies of a key at one node *)

LEMMA TouchedCopies ==
    ASSUME NEW c, Sound(c), NEW key, NEW k
    PROVE  Valid(Touched(c, key), k) = Valid(c, k)
BY TouchedLines DEF Valid, LinesOf

\* A request that is handled makes no copy valid or MODIFIED; a read demotes
\* the copy it finds, the others invalidate it, and those of other keys stay.
LEMMA HeardCopies ==
    ASSUME NEW c, Sound(c), NEW kind, NEW key
    PROVE  /\ Sound(Heard(c, kind, key))
           /\ \A k : \A l \in Valid(Heard(c, kind, key), k) :
                  \E m \in Valid(c, k) : m.value = l.value /\ (l.state = "M" => m.state = "M")
           /\ kind # "read" => Valid(Heard(c, kind, key), key) = {}
           /\ kind = "read" => \A l \in Valid(Heard(c, kind, key), key) : l.state # "M"
           /\ \A k : Valid(c, k) # {} /\ (k # key \/ kind = "read")
                         => Valid(Heard(c, kind, key), k) # {}
<1>1. /\ \A m \in ToSet(c) : m \in Line
      /\ \A m \in Line : \A s \in {"M", "S", "I"} :
             /\ [m EXCEPT !.state = s].key = m.key /\ [m EXCEPT !.state = s].value = m.value
             /\ [m EXCEPT !.state = s].state = s
  BY LinesIndexed DEF Sound, Line
<1>2. CASE kind # "read"
  <2> DEFINE new == InState(c, key, "I")
  <2>1. Heard(c, kind, key) = new
    BY <1>2 DEF Heard, Invalidated
  <2>2. /\ Sound(new)
        /\ \A l \in ToSet(new) :
               \E m \in ToSet(c) : l = IF m.key = key THEN [m EXCEPT !.state = "I"] ELSE m
        /\ \A m \in ToSet(c) :
               (IF m.key = key THEN [m EXCEPT !.state = "I"] ELSE m) \in ToSet(new)
    BY InStateLines
  <2> HIDE DEF new
  <2>3. ASSUME NEW l \in ToSet(new)
        PROVE  /\ l.key = key => l.state = "I"
               /\ l.key # key => l \in ToSet(c)
    <3>1. PICK m \in ToSet(c) : l = IF m.key = key THEN [m EXCEPT !.state = "I"] ELSE m
      BY <2>2
    <3>2. m \in Line
      BY <1>1
    <3>3. [m EXCEPT !.state = "I"].key = m.key /\ [m EXCEPT !.state = "I"].state = "I"
      BY <1>1, <3>2
    <3> QED BY <3>1, <3>3
  <2>4. \A l \in ToSet(new) : l.key # key => l \in ToSet(c)
    BY <2>3
  <2>5. \A m \in ToSet(c) : m.key # key => m \in ToSet(new)
    BY <2>2
  <2>6. Valid(new, key) = {}
    BY <2>3 DEF Valid, LinesOf
  <2>7. ASSUME NEW k, k # key PROVE Valid(new, k) = Valid(c, k)
    BY <2>4, <2>5, <2>7 DEF Valid, LinesOf
  <2>8. ASSUME NEW k, NEW l \in Valid(new, k)
        PROVE  \E m \in Valid(c, k) : m.value = l.value /\ (l.state = "M" => m.state = "M")
    <3>1. k # key
      BY <2>6, <2>8
    <3>2. l \in Valid(c, k)
      BY <3>1, <2>7
    <3> QED BY <3>2
  <2>9. ASSUME NEW k, Valid(c, k) # {}, k # key PROVE Valid(new, k) # {}
    BY <2>7, <2>9
  <2> QED BY <1>2, <2>1, <2>2, <2>6, <2>8, <2>9
<1>3. CASE kind = "read" /\ Valid(c, key) = {}
  <2> DEFINE new == Touched(c, key)
  <2>1. Heard(c, kind, key) = new
    BY <1>3 DEF Heard, RemotelyRead
  <2>2. Sound(new) /\ \A k : Valid(new, k) = Valid(c, k)
    BY TouchedLines, TouchedCopies
  <2> HIDE DEF new
  <2>3. ASSUME NEW k, NEW l \in Valid(new, k)
        PROVE  \E m \in Valid(c, k) : m.value = l.value /\ (l.state = "M" => m.state = "M")
    <3>1. l \in Valid(c, k)
      BY <2>2
    <3> QED BY <3>1
  <2>4. Valid(new, key) = {}
    BY <1>3, <2>2
  <2> QED BY <1>3, <2>1, <2>2, <2>3, <2>4
<1>4. CASE kind = "read" /\ Valid(c, key) # {}
  <2> DEFINE mid == InState(c, key, "S")
             new == Touched(mid, key)
  <2>1. Heard(c, kind, key) = new
    BY <1>4 DEF Heard, RemotelyRead
  <2>2. /\ Sound(mid)
        /\ \A l \in ToSet(mid) :
               \E m \in ToSet(c) : l = IF m.key = key THEN [m EXCEPT !.state = "S"] ELSE m
        /\ \A m \in ToSet(c) :
               (IF m.key = key THEN [m EXCEPT !.state = "S"] ELSE m) \in ToSet(mid)
    BY InStateLines
  <2>3. Sound(new) /\ \A k : Valid(new, k) = Valid(mid, k)
    BY <2>2, TouchedLines, TouchedCopies
  <2> HIDE DEF mid, new
  <2>4. PICK v \in ToSet(c) : v.key = key /\ v.state # "I"
    BY <1>4 DEF Valid, LinesOf
  <2>5. \A m \in ToSet(c) : m.key = key => m = v
    BY <2>4, OneLine
  <2>6. ASSUME NEW l \in ToSet(mid), l.key = key
        PROVE  l = [v EXCEPT !.state = "S"]
    BY <1>1, <2>2, <2>5, <2>6
  <2>7. [v EXCEPT !.state = "S"] \in ToSet(mid)
    BY <2>2, <2>4
  <2>8. v \in Line
    BY <1>1
  <2>9. /\ [v EXCEPT !.state = "S"].key = key /\ [v EXCEPT !.state = "S"].state = "S"
        /\ [v EXCEPT !.state = "S"].value = v.value
    BY <1>1, <2>8, <2>4
  <2>10. Valid(mid, key) = {[v EXCEPT !.state = "S"]}
    BY <2>6, <2>7, <2>9 DEF Valid, LinesOf
  <2>11. ASSUME NEW k, k # key PROVE Valid(mid, k) = Valid(c, k)
    <3>1. ASSUME NEW l \in ToSet(mid), l.key # key PROVE l \in ToSet(c)
      <4>1. PICK m \in ToSet(c) : l = IF m.key = key THEN [m EXCEPT !.state = "S"] ELSE m
        BY <2>2
      <4>2. m \in Line
        BY <1>1
      <4>3. [m EXCEPT !.state = "S"].key = m.key
        BY <1>1, <4>2
      <4> QED BY <3>1, <4>1, <4>3
    <3>2. \A m \in ToSet(c) : m.key # key => m \in ToSet(mid)
      BY <2>2
    <3> QED BY <2>11, <3>1, <3>2 DEF Valid, LinesOf
  <2>12. ASSUME NEW k, NEW l \in Valid(new, k)
         PROVE  \E m \in Valid(c, k) : m.value = l.value /\ (l.state = "M" => m.state = "M")
    <3>1. CASE k = key
      <4>1. l = [v EXCEPT !.state = "S"]
        BY <2>3, <2>10, <3>1
      <4>2. v \in Valid(c, k)
        BY <2>4, <3>1 DEF Valid, LinesOf
      <4>3. v.value = l.value /\ l.state # "M"
        BY <4>1, <2>9
      <4> QED BY <4>2, <4>3
    <3>2. CASE k # key
      <4>1. l \in Valid(c, k)
        BY <2>3, <2>11, <3>2
      <4> QED BY <4>1
    <3> QED BY <3>1, <3>2
  <2>13. \A l \in Valid(new, key) : l.state # "M"
    BY <2>3, <2>9, <2>10
  <2>14. ASSUME NEW k, Valid(c, k) # {} PROVE Valid(new, k) # {}
    BY <2>3, <2>10, <2>11, <2>14
  <2> QED BY <1>4, <2>1, <2>3, <2>12, <2>13, <2>14
<1> QED BY <1>2, <1>3, <1>4

\* A valid line that is put is the one copy of its key; other keys may lose theirs.
LEMMA PutCopies ==
    ASSUME NEW c, Sound(c), NEW line \in Line, line.state # "I"
    PROVE  /\ Sound(Put(c, line))
           /\ Valid(Put(c, line), line.key) = {line}
           /\ \A k : k # line.key => Valid(Put(c, line), k) \subseteq Valid(c, k)
           /\ \A k : k # line.key /\ Valid(c, k) # {} /\ LinesOf(Put(c, line), k) # {}
                        => Valid(Put(c, line), k) # {}
<1> DEFINE new == Put(c, line)
<1>1. /\ Sound(new) /\ line \in ToSet(new)
      /\ \A l \in ToSet(new) : l = line \/ (l \in ToSet(c) /\ l.key # line.key)
  BY PutLines
<1> HIDE DEF new
<1>2. Valid(new, line.key) = {line}
  BY <1>1 DEF Valid, LinesOf
<1>3. \A k : k # line.key => Valid(new, k) \subseteq Valid(c, k)
  BY <1>1 DEF Valid, LinesOf
<1>4. ASSUME NEW k, k # line.key, Valid(c, k) # {}, LinesOf(new, k) # {}
      PROVE  Valid(new, k) # {}
  <2>1. PICK v \in ToSet(c) : v.key = k /\ v.state # "I"
    BY <1>4 DEF Valid, LinesOf
  <2>2. PICK l \in ToSet(new) : l.key = k
    BY <1>4 DEF LinesOf
  <2>3. l \in ToSet(c)
    BY <1>1, <1>4, <2>2
  <2>4. l = v
    BY <2>1, <2>2, <2>3, OneLine
  <2> QED BY <2>1, <2>2, <2>4 DEF Valid, LinesOf
<1> QED BY <1>1, <1>2, <1>3, <1>4 DEF new

-----------------------------------------------------------------------------
(* Types *)

TypeInv == TypeOK /\ lines \in [Nodes -> Seq(Line)]

LEMMA TypeParts ==
    TypeInv <=>
        /\ setup \in Setups
        /\ lines \in [Nodes -> Seq(Line)] /\ \A n \in Nodes : Sound(lines[n])
        /\ ops \subseteq Op /\ late \subseteq Request /\ started \in 0 .. MaxOps
        /\ restarts \in 0 .. setup.restarts
        /\ last \in [Keys -> 0 .. MaxOps]
        /\ clean \in [Keys -> BOOLEAN] /\ kept \in [Keys -> BOOLEAN]
BY DEF TypeInv, TypeOK, Sound, OneEach

\* The cluster stays as it is, and with it what may be sent.
LEMMA SetupFixed ==
    ASSUME setup' = setup
    PROVE  Nodes' = Nodes /\ Op' = Op /\ Request' = Request
BY DEF Nodes, Op, Request

LEMMA SetupFacts ==
    ASSUME setup \in Setups
    PROVE  /\ setup.size \in Nat /\ setup.keys \subseteq Keys /\ Nodes = 1 .. setup.size
           /\ setup.restarts \in Nat
BY DEF Nodes

LEMMA OpFields ==
    ASSUME NEW op \in Op
    PROVE  /\ op.no \in 1 .. MaxOps /\ op.node \in Nodes /\ op.key \in Keys
           /\ op.kind \in {"read", "write", "invalidate"}
           /\ op.unheard \subseteq Nodes /\ op.waiting \subseteq Nodes
           /\ op.found \in [Nodes -> 0 .. MaxOps] /\ op.alone \in BOOLEAN
BY DEF Op

LEMMA InitTyped == Init => TypeInv
<1> SUFFICES ASSUME Init PROVE TypeInv
  OBVIOUS
<1>1. /\ <<>> \in Seq(Line) /\ Len(<<>>) = 0 /\ DOMAIN <<>> = {}
  OBVIOUS
<1>2. \A n \in Nodes : lines[n] = <<>>
  BY DEF Init
<1>3. \A n \in Nodes : Sound(lines[n])
  <2>1. OneEach(<<>>)
    BY DEF OneEach
  <2>2. Len(<<>>) <= MaxSize
    BY <1>1
  <2>3. Sound(<<>>)
    BY <1>1, <2>1, <2>2 DEF Sound
  <2> QED BY <1>2, <2>3
<1>4. lines \in [Nodes -> Seq(Line)]
  BY <1>1 DEF Init
<1>5. /\ setup \in Setups /\ ops \subseteq Op /\ late \subseteq Request /\ started \in 0 .. MaxOps
      /\ restarts \in 0 .. setup.restarts
      /\ last \in [Keys -> 0 .. MaxOps]
      /\ clean \in [Keys -> BOOLEAN] /\ kept \in [Keys -> BOOLEAN]
  BY DEF Init
<1> QED BY <1>3, <1>4, <1>5, TypeParts

\* One node's lines are replaced.
LEMMA LinesAt ==
    ASSUME TypeInv, setup' = setup, NEW n \in Nodes, NEW new, Sound(new),
           lines' = [lines EXCEPT ![n] = new]
    PROVE  /\ lines' \in [Nodes -> Seq(Line)]
           /\ lines'[n] = new /\ \A m \in Nodes : m # n => lines'[m] = lines[m]
           /\ \A m \in Nodes : Sound(lines'[m])
<1>1. lines \in [Nodes -> Seq(Line)] /\ \A m \in Nodes : Sound(lines[m])
  BY TypeParts
<1>2. new \in Seq(Line)
  BY DEF Sound
<1>3. /\ lines' \in [Nodes -> Seq(Line)]
      /\ lines'[n] = new /\ \A m \in Nodes : m # n => lines'[m] = lines[m]
  BY <1>1, <1>2
<1> QED BY <1>1, <1>3

\* What a step may do to the copies of a key: no new one, no other value, and
\* none becomes MODIFIED.
Shrinks(k) ==
    \A n \in Nodes : \A l \in Valid(lines'[n], k) :
        \E m \in Valid(lines[n], k) : m.value = l.value /\ (l.state = "M" => m.state = "M")

LEMMA SameLinesShrink ==
    ASSUME lines' = lines
    PROVE  \A k : Shrinks(k)
BY DEF Shrinks

\* get at a node
LEMMA TouchedAt ==
    ASSUME TypeInv, setup' = setup, NEW n \in Nodes, NEW key,
           lines' = [lines EXCEPT ![n] = Touched(@, key)]
    PROVE  /\ lines' \in [Nodes -> Seq(Line)] /\ \A m \in Nodes : Sound(lines'[m])
           /\ \A k : \A m \in Nodes : Valid(lines'[m], k) = Valid(lines[m], k)
           /\ \A k : Shrinks(k)
<1>1. Sound(lines[n])
  BY TypeParts
<1>2. Sound(Touched(lines[n], key))
  BY <1>1, TouchedLines
<1>3. lines' = [lines EXCEPT ![n] = Touched(lines[n], key)]
  OBVIOUS
<1>4. /\ lines' \in [Nodes -> Seq(Line)] /\ \A m \in Nodes : Sound(lines'[m])
      /\ lines'[n] = Touched(lines[n], key) /\ \A m \in Nodes : m # n => lines'[m] = lines[m]
  BY <1>2, <1>3, LinesAt
<1>5. \A k : Valid(Touched(lines[n], key), k) = Valid(lines[n], k)
  BY <1>1, TouchedCopies
<1>6. \A k : \A m \in Nodes : Valid(lines'[m], k) = Valid(lines[m], k)
  BY <1>4, <1>5
<1>7. \A k : Shrinks(k)
  BY <1>6 DEF Shrinks
<1> QED BY <1>4, <1>6, <1>7

\* A request handled at a node
LEMMA HeardAt ==
    ASSUME TypeInv, setup' = setup, NEW n \in Nodes, NEW kind, NEW key,
           lines' = [lines EXCEPT ![n] = Heard(@, kind, key)]
    PROVE  /\ lines' \in [Nodes -> Seq(Line)] /\ \A m \in Nodes : Sound(lines'[m])
           /\ \A k : Shrinks(k)
           /\ kind # "read" => Valid(lines'[n], key) = {}
           /\ kind = "read" => \A l \in Valid(lines'[n], key) : l.state # "M"
           /\ \A m \in Nodes : m # n => lines'[m] = lines[m]
<1> DEFINE new == Heard(lines[n], kind, key)
<1>1. Sound(lines[n])
  BY TypeParts
<1>2. /\ Sound(new)
      /\ \A k : \A l \in Valid(new, k) :
             \E m \in Valid(lines[n], k) : m.value = l.value /\ (l.state = "M" => m.state = "M")
      /\ kind # "read" => Valid(new, key) = {}
      /\ kind = "read" => \A l \in Valid(new, key) : l.state # "M"
  BY <1>1, HeardCopies
<1>3. lines' = [lines EXCEPT ![n] = new]
  OBVIOUS
<1> HIDE DEF new
<1>4. /\ lines' \in [Nodes -> Seq(Line)] /\ \A m \in Nodes : Sound(lines'[m])
      /\ lines'[n] = new /\ \A m \in Nodes : m # n => lines'[m] = lines[m]
  BY <1>2, <1>3, LinesAt
<1>5. \A k : Shrinks(k)
  <2> SUFFICES ASSUME NEW k, NEW m \in Nodes, NEW l \in Valid(lines'[m], k)
               PROVE  \E v \in Valid(lines[m], k) :
                          v.value = l.value /\ (l.state = "M" => v.state = "M")
    BY DEF Shrinks
  <2>1. CASE m = n
    BY <1>2, <1>4, <2>1
  <2>2. CASE m # n
    <3>1. l \in Valid(lines[m], k)
      BY <1>4, <2>2
    <3> QED BY <3>1
  <2> QED BY <2>1, <2>2
<1> QED BY <1>2, <1>4, <1>5

\* Whether a request spares the copies of a key
Spares(kind, key, k) == k # key \/ kind = "read"

LEMMA HeardSpares ==
    ASSUME TypeInv, setup' = setup, NEW n \in Nodes, NEW kind, NEW key,
           lines' = [lines EXCEPT ![n] = Heard(@, kind, key)],
           NEW k, Valid(lines[n], k) # {}, Spares(kind, key, k)
    PROVE  Valid(lines'[n], k) # {}
<1> DEFINE new == Heard(lines[n], kind, key)
<1>1. Sound(lines[n])
  BY TypeParts
<1>2. Sound(new) /\ Valid(new, k) # {}
  BY <1>1, HeardCopies DEF Spares
<1>3. lines' = [lines EXCEPT ![n] = new]
  OBVIOUS
<1> HIDE DEF new
<1>4. lines'[n] = new
  BY <1>2, <1>3, LinesAt
<1> QED BY <1>2, <1>4

\* A valid line stored at a node
LEMMA StoredAt ==
    ASSUME TypeInv, setup' = setup, NEW n \in Nodes, NEW line \in Line, line.state # "I",
           lines' = [lines EXCEPT ![n] = Put(@, line)]
    PROVE  /\ lines' \in [Nodes -> Seq(Line)] /\ \A m \in Nodes : Sound(lines'[m])
           /\ lines'[n] = Put(lines[n], line)
           /\ \A k : k # line.key => Shrinks(k)
           /\ Valid(lines'[n], line.key) = {line}
           /\ \A m \in Nodes : m # n => lines'[m] = lines[m]
           /\ \A k : k # line.key /\ Valid(lines[n], k) # {} /\ LinesOf(lines'[n], k) # {}
                        => Valid(lines'[n], k) # {}
<1> DEFINE new == Put(lines[n], line)
<1>1. Sound(lines[n])
  BY TypeParts
<1>2. /\ Sound(new) /\ Valid(new, line.key) = {line}
      /\ \A k : k # line.key => Valid(new, k) \subseteq Valid(lines[n], k)
      /\ \A k : k # line.key /\ Valid(lines[n], k) # {} /\ LinesOf(new, k) # {} => Valid(new, k) # {}
  BY <1>1, PutCopies
<1>3. lines' = [lines EXCEPT ![n] = new]
  OBVIOUS
<1> HIDE DEF new
<1>4. /\ lines' \in [Nodes -> Seq(Line)] /\ \A m \in Nodes : Sound(lines'[m])
      /\ lines'[n] = new /\ \A m \in Nodes : m # n => lines'[m] = lines[m]
  BY <1>2, <1>3, LinesAt
<1>5. ASSUME NEW k, k # line.key PROVE Shrinks(k)
  <2> SUFFICES ASSUME NEW m \in Nodes, NEW l \in Valid(lines'[m], k)
               PROVE  l \in Valid(lines[m], k)
    BY DEF Shrinks
  <2>1. CASE m = n
    BY <1>2, <1>4, <1>5, <2>1
  <2>2. CASE m # n
    BY <1>4, <2>2
  <2> QED BY <2>1, <2>2
<1> QED BY <1>2, <1>4, <1>5 DEF new

\* What lines are after a step that stores nothing
LEMMA KeptTyped ==
    ASSUME TypeInv, NEW n \in Nodes, NEW key \in Keys
    PROVE  KeptWithout(n, key) \in [Keys -> BOOLEAN]
BY TypeParts DEF KeptWithout

\* An operation that starts is new; the others stay, if they are disturbed not alone.
LEMMA StartedOps ==
    ASSUME TypeInv, NEW n \in Nodes, NEW kind \in {"read", "write", "invalidate"},
           NEW key \in Keys, Start(n, kind, key)
    PROVE  /\ ops' \subseteq Op /\ started' \in 0 .. MaxOps
           /\ \E new \in Op :
                  /\ new.kind = kind /\ new.key = key /\ new.node = n
                  /\ new.unheard = Nodes \ {n} /\ \A p \in Nodes : new.found[p] = NotFound
                  /\ new.alone => \A op \in ops : ~Disturb(kind, key, op)
                  /\ \A o \in ops' :
                         \/ o = new
                         \/ \E op \in ops :
                               /\ o = [op EXCEPT !.alone = op.alone /\ ~Disturb(kind, key, op)]
                               /\ o.alone => op.alone /\ ~Disturb(kind, key, op)
<1>1. /\ ops \subseteq Op /\ started \in 0 .. MaxOps /\ MaxOps \in Nat
  BY TypeParts
<1>2. started + 1 \in 1 .. MaxOps /\ started' = started + 1
  BY <1>1 DEF Start
<1> DEFINE new == [no |-> started + 1, node |-> n, kind |-> kind, key |-> key,
                   unheard |-> Nodes \ {n}, waiting |-> Nodes \ {n},
                   found |-> [p \in Nodes |-> NotFound],
                   alone |-> ~\E op \in ops : Disturb(kind, key, op)]
           Image(op) == [op EXCEPT !.alone = op.alone /\ ~Disturb(kind, key, op)]
<1>3. ops' = {Image(op) : op \in ops} \cup {new}
  BY DEF Start
<1>4. new \in Op
  <2>1. [p \in Nodes |-> NotFound] \in [Nodes -> 0 .. MaxOps]
    BY <1>1 DEF NotFound
  <2> QED BY <1>2, <2>1 DEF Op
<1>5. /\ new.kind = kind /\ new.key = key /\ new.node = n /\ new.unheard = Nodes \ {n}
      /\ \A p \in Nodes : new.found[p] = NotFound
      /\ new.alone => \A op \in ops : ~Disturb(kind, key, op)
  OBVIOUS
<1>6. \A op \in ops : /\ Image(op) \in Op
                      /\ Image(op).alone => op.alone /\ ~Disturb(kind, key, op)
  BY <1>1 DEF Op
<1> HIDE DEF new, Image
<1>7. \A o \in ops' : o = new \/ \E op \in ops : o = Image(op)
  BY <1>3
<1>8. ops' \subseteq Op
  BY <1>4, <1>6, <1>7
<1>9. ASSUME NEW o \in ops'
      PROVE  \/ o = new
             \/ \E op \in ops :
                   /\ o = [op EXCEPT !.alone = op.alone /\ ~Disturb(kind, key, op)]
                   /\ o.alone => op.alone /\ ~Disturb(kind, key, op)
  <2>2. ASSUME NEW op \in ops, o = Image(op)
        PROVE  /\ o = [op EXCEPT !.alone = op.alone /\ ~Disturb(kind, key, op)]
               /\ o.alone => op.alone /\ ~Disturb(kind, key, op)
    <3>1. o.alone => op.alone /\ ~Disturb(kind, key, op)
      BY <1>6, <2>2
    <3> QED BY <2>2, <3>1 DEF Image
  <2> QED BY <1>7, <2>2
<1>10. started' \in 0 .. MaxOps
  BY <1>2
<1> QED BY <1>4, <1>5, <1>8, <1>9, <1>10
\* The operation of a request that was handled, with what it found.
Answered(op, p, v) == [op EXCEPT !.unheard = @ \ {p}, !.waiting = @ \ {p}, !.found[p] = v]

LEMMA AnsweredOp ==
    ASSUME NEW op \in Op, NEW p \in Nodes, NEW v \in 0 .. MaxOps
    PROVE  LET o == Answered(op, p, v)
           IN  /\ o \in Op
               /\ o.kind = op.kind /\ o.key = op.key /\ o.node = op.node /\ o.alone = op.alone
               /\ o.unheard = op.unheard \ {p}
               /\ o.found[p] = v /\ \A q \in Nodes : q # p => o.found[q] = op.found[q]
<1> DEFINE o == Answered(op, p, v)
<1>1. /\ op.unheard \subseteq Nodes /\ op.waiting \subseteq Nodes
      /\ op.found \in [Nodes -> 0 .. MaxOps]
  BY OpFields
<1>2. op.unheard \ {p} \subseteq Nodes /\ op.waiting \ {p} \subseteq Nodes
  BY <1>1
<1>3. [op.found EXCEPT ![p] = v] \in [Nodes -> 0 .. MaxOps]
  BY <1>1
<1>4. o.found = [op.found EXCEPT ![p] = v]
  BY DEF Op, Answered
<1>5. o \in Op
  BY <1>2, <1>3 DEF Op, Answered
<1>6. /\ o.kind = op.kind /\ o.key = op.key /\ o.node = op.node /\ o.alone = op.alone
      /\ o.unheard = op.unheard \ {p}
  BY DEF Op, Answered
<1>7. o.found[p] = v /\ \A q \in Nodes : q # p => o.found[q] = op.found[q]
  BY <1>1, <1>4
<1> QED BY <1>5, <1>6, <1>7

\* The operation that gave up on a peer
LEMMA GivenUpOp ==
    ASSUME NEW op \in Op, NEW p, NEW o, o = [op EXCEPT !.waiting = @ \ {p}]
    PROVE  /\ o \in Op
           /\ o.kind = op.kind /\ o.key = op.key /\ o.node = op.node /\ o.alone = op.alone
           /\ o.unheard = op.unheard /\ o.found = op.found
BY DEF Op

\* What is found at a peer is the value of its copy.
LEMMA FoundValue ==
    ASSUME TypeInv, NEW p \in Nodes, NEW kind, NEW key
    PROVE  /\ Found(lines[p], kind, key) \in 0 .. MaxOps
           /\ Found(lines[p], kind, key) # NotFound =>
                  /\ kind = "read"
                  /\ \E l \in Valid(lines[p], key) : l.value = Found(lines[p], kind, key)
<1>1. CASE kind = "read" /\ Valid(lines[p], key) # {}
  <2> DEFINE l == CHOOSE x \in Valid(lines[p], key) : TRUE
  <2>1. l \in Valid(lines[p], key)
    BY <1>1
  <2>2. Found(lines[p], kind, key) = l.value
    BY <1>1 DEF Found
  <2> HIDE DEF l
  <2>3. l \in Line
    BY <2>1, TypeParts, LinesIndexed DEF Valid, LinesOf, Sound
  <2>4. l.value \in 0 .. MaxOps
    BY <2>3 DEF Line
  <2> QED BY <1>1, <2>1, <2>2, <2>4
<1>2. CASE ~ (kind = "read" /\ Valid(lines[p], key) # {})
  BY <1>2 DEF Found, NotFound
<1> QED BY <1>1, <1>2

\* A read that found copies takes one of them.
LEMMA ChosenFound ==
    ASSUME setup \in Setups, NEW op \in Op, Finders(op) # {}
    PROVE  /\ Chosen(op) \in Nodes /\ op.found[Chosen(op)] # NotFound
           /\ [key |-> op.key, value |-> op.found[Chosen(op)], state |-> "S"] \in Line
<1>1. setup.size \in Nat /\ Nodes = 1 .. setup.size
  BY SetupFacts
<1>2. Finders(op) \in SUBSET (0 .. setup.size) /\ Finders(op) \in SUBSET Nat
  BY <1>1 DEF Finders
<1>3. \E p \in Finders(op) : \A q \in Finders(op) : q <= p
  BY <1>1, <1>2, GreatestExists
<1>4. \E p \in Finders(op) : \A q \in Finders(op) : p <= q
  BY <1>2, LeastExists
<1>5. Chosen(op) \in Finders(op)
  BY <1>3, <1>4 DEF Chosen
<1>6. Chosen(op) \in Nodes /\ op.found[Chosen(op)] # NotFound
  BY <1>5 DEF Finders
<1>7. op.found[Chosen(op)] \in 1 .. MaxOps /\ op.key \in Keys
  <2>1. op.found[Chosen(op)] \in 0 .. MaxOps
    BY <1>6, OpFields
  <2> QED BY <2>1, <1>6, OpFields DEF NotFound
<1> QED BY <1>6, <1>7 DEF Line

\* Storing a line; what becomes of the record of evictions
LEMMA StoreTyped ==
    ASSUME TypeInv, setup' = setup, NEW n \in Nodes, NEW line \in Line, line.state # "I",
           Store(n, line)
    PROVE  /\ lines' = [lines EXCEPT ![n] = Put(@, line)]
           /\ kept' \in [Keys -> BOOLEAN]
           /\ \A k \in Keys : kept'[k] =>
                  /\ Valid(lines[n], k) # {} => LinesOf(Put(lines[n], line), k) # {}
                  /\ kept[k] \/ k = line.key
<1>1. kept \in [Keys -> BOOLEAN]
  BY TypeParts
<1> DEFINE evicted(k) == Valid(lines[n], k) # {} /\ LinesOf(Put(lines[n], line), k) = {}
<1>2. /\ lines' = [lines EXCEPT ![n] = Put(@, line)]
      /\ kept' = [k \in Keys |-> ~evicted(k) /\ (kept[k] \/ (k = line.key /\ line.state = "M"))]
  BY DEF Store
<1> HIDE DEF evicted
<1>3. \A k \in Keys : kept'[k] \in BOOLEAN /\ (kept'[k] => ~evicted(k) /\ (kept[k] \/ k = line.key))
  BY <1>1, <1>2
<1>4. kept' \in [Keys -> BOOLEAN]
  BY <1>2, <1>3
<1> QED BY <1>2, <1>3, <1>4 DEF evicted

-----------------------------------------------------------------------------
(* One step after the other *)

LEMMA TypedAgain ==
    ASSUME TypeInv, setup' = setup,
           lines' \in [Nodes -> Seq(Line)], \A n \in Nodes : Sound(lines'[n]),
           ops' \subseteq Op, late' \subseteq Request, started' \in 0 .. MaxOps,
           restarts' \in 0 .. setup.restarts,
           last' \in [Keys -> 0 .. MaxOps],
           clean' \in [Keys -> BOOLEAN], kept' \in [Keys -> BOOLEAN]
    PROVE  TypeInv'
<1>1. /\ setup' \in Setups /\ Nodes' = Nodes /\ Op' = Op /\ Request' = Request
  BY SetupFixed, TypeParts
<1>2. \A n \in Nodes : Sound(lines[n])' <=> Sound(lines'[n])
  BY DEF Sound, OneEach, Line
<1> QED BY <1>1 DEF TypeInv, TypeOK, Sound, OneEach, Line

LEMMA SameLinesSound ==
    ASSUME TypeInv, lines' = lines
    PROVE  lines' \in [Nodes -> Seq(Line)] /\ \A n \in Nodes : Sound(lines'[n])
BY TypeParts

LEMMA ReadHitTyped ==
    ASSUME TypeInv, NEW n \in Nodes, NEW key \in setup.keys, ReadHit(n, key)
    PROVE  TypeInv'
<1>1. /\ setup' = setup /\ restarts' = restarts /\ lines' = [lines EXCEPT ![n] = Touched(@, key)]
      /\ ops' = ops /\ late' = late /\ started' = started
      /\ last' = last /\ clean' = clean /\ kept' = kept
  BY DEF ReadHit, history
<1>2. lines' \in [Nodes -> Seq(Line)] /\ \A m \in Nodes : Sound(lines'[m])
  BY <1>1, TouchedAt
<1> QED BY <1>1, <1>2, TypeParts, TypedAgain

LEMMA ReadMissTyped ==
    ASSUME TypeInv, NEW n \in Nodes, NEW key \in setup.keys, ReadMiss(n, key)
    PROVE  TypeInv'
<1>1. /\ setup' = setup /\ restarts' = restarts /\ lines' = [lines EXCEPT ![n] = Touched(@, key)]
      /\ Start(n, "read", key) /\ late' = late
      /\ last' = last /\ clean' = clean /\ kept' = kept
  BY DEF ReadMiss, Start
<1>2. lines' \in [Nodes -> Seq(Line)] /\ \A m \in Nodes : Sound(lines'[m])
  BY <1>1, TouchedAt
<1>3. key \in Keys
  BY TypeParts, SetupFacts
<1>4. ops' \subseteq Op /\ started' \in 0 .. MaxOps
  BY <1>1, <1>3, StartedOps
<1> QED BY <1>1, <1>2, <1>4, TypeParts, TypedAgain

LEMMA WriteTyped ==
    ASSUME TypeInv, NEW n \in Nodes, NEW key \in setup.keys, Write(n, key)
    PROVE  TypeInv'
<1>1. /\ setup' = setup /\ restarts' = restarts
      /\ lines' = lines /\ Start(n, "write", key) /\ late' = late
      /\ last' = last /\ clean' = clean /\ kept' = kept
  BY DEF Write, Start
<1>2. lines' \in [Nodes -> Seq(Line)] /\ \A m \in Nodes : Sound(lines'[m])
  BY <1>1, SameLinesSound
<1>3. key \in Keys
  BY TypeParts, SetupFacts
<1>4. ops' \subseteq Op /\ started' \in 0 .. MaxOps
  BY <1>1, <1>3, StartedOps
<1> QED BY <1>1, <1>2, <1>4, TypeParts, TypedAgain

LEMMA InvalidateTyped ==
    ASSUME TypeInv, NEW n \in Nodes, NEW key \in setup.keys, Invalidate(n, key)
    PROVE  TypeInv'
<1>1. /\ setup' = setup /\ restarts' = restarts /\ Start(n, "invalidate", key) /\ late' = late
      /\ last' = last /\ clean' = clean
  BY DEF Invalidate, Start
<1>2. \/ lines' = lines /\ kept' = kept
      \/ /\ lines' = [lines EXCEPT ![n] = Heard(@, "invalidate", key)]
         /\ kept' = KeptWithout(n, key)
  BY DEF Invalidate, Heard
<1>3. key \in Keys
  BY TypeParts, SetupFacts
<1>4. lines' \in [Nodes -> Seq(Line)] /\ \A m \in Nodes : Sound(lines'[m])
  BY <1>1, <1>2, SameLinesSound, HeardAt
<1>5. kept' \in [Keys -> BOOLEAN]
  BY <1>2, <1>3, KeptTyped, TypeParts
<1>6. ops' \subseteq Op /\ started' \in 0 .. MaxOps
  BY <1>1, <1>3, StartedOps
<1> QED BY <1>1, <1>4, <1>5, <1>6, TypeParts, TypedAgain

\* What a handled request makes of the operations
LEMMA HearOps ==
    ASSUME TypeInv, NEW op \in ops, NEW p \in Nodes, Hear(op, p)
    PROVE  \E o \in Op :
               /\ ops' = (ops \ {op}) \cup {o}
               /\ o.kind = op.kind /\ o.key = op.key /\ o.node = op.node /\ o.alone = op.alone
               /\ o.unheard = op.unheard \ {p}
               /\ o.found[p] \in {NotFound, Found(lines[p], op.kind, op.key)}
               /\ \A q \in Nodes : q # p => o.found[q] = op.found[q]
<1> DEFINE v == IF p \in op.waiting THEN Found(lines[p], op.kind, op.key) ELSE NotFound
           o == Answered(op, p, v)
<1>1. op \in Op
  BY TypeParts
<1>2. v \in 0 .. MaxOps /\ v \in {NotFound, Found(lines[p], op.kind, op.key)}
  BY FoundValue, OpFields DEF NotFound
<1>3. ops' = (ops \ {op}) \cup {o}
  BY DEF Hear, Answered
<1> HIDE DEF v
<1>4. /\ o \in Op
      /\ o.kind = op.kind /\ o.key = op.key /\ o.node = op.node /\ o.alone = op.alone
      /\ o.unheard = op.unheard \ {p}
      /\ o.found[p] = v /\ \A q \in Nodes : q # p => o.found[q] = op.found[q]
  BY <1>1, <1>2, AnsweredOp
<1> HIDE DEF o
<1> QED BY <1>2, <1>3, <1>4

LEMMA HearTyped ==
    ASSUME TypeInv, NEW op \in ops, NEW p \in Nodes, Hear(op, p)
    PROVE  TypeInv'
<1>1. /\ setup' = setup /\ restarts' = restarts /\ late' = late /\ started' = started
      /\ last' = last /\ clean' = clean
      /\ lines' = [lines EXCEPT ![p] = Heard(@, op.kind, op.key)]
      /\ kept' = kept \/ kept' = KeptWithout(p, op.key)
  BY DEF Hear
<1>2. lines' \in [Nodes -> Seq(Line)] /\ \A m \in Nodes : Sound(lines'[m])
  BY <1>1, HeardAt
<1>3. op.key \in Keys
  BY TypeParts, OpFields
<1>4. kept' \in [Keys -> BOOLEAN]
  BY <1>1, <1>3, KeptTyped, TypeParts
<1>5. ops' \subseteq Op
  BY HearOps, TypeParts
<1> QED BY <1>1, <1>2, <1>4, <1>5, TypeParts, TypedAgain

LEMMA TimeOutTyped ==
    ASSUME TypeInv, NEW op \in ops, NEW p \in Nodes, TimeOut(op, p)
    PROVE  TypeInv'
<1>1. /\ setup' = setup /\ restarts' = restarts
      /\ lines' = lines /\ late' = late /\ started' = started
      /\ last' = last /\ clean' = clean /\ kept' = kept
      /\ ops' = (ops \ {op}) \cup {[op EXCEPT !.waiting = @ \ {p}]}
  BY DEF TimeOut, history
<1>2. ops' \subseteq Op
  BY <1>1, TypeParts, GivenUpOp
<1>3. lines' \in [Nodes -> Seq(Line)] /\ \A m \in Nodes : Sound(lines'[m])
  BY <1>1, SameLinesSound
<1> QED BY <1>1, <1>2, <1>3, TypeParts, TypedAgain

LEMMA LateTyped ==
    ASSUME TypeInv, NEW r \in late, HearLate(r) \/ LoseLate(r)
    PROVE  TypeInv'
<1>1. /\ setup' = setup /\ restarts' = restarts
      /\ late' = late \ {r} /\ ops' = ops /\ started' = started
      /\ last' = last /\ clean' = clean
      /\ \/ lines' = lines /\ kept' = kept
         \/ /\ lines' = [lines EXCEPT ![r.to] = Heard(@, r.kind, r.key)]
            /\ kept' = kept \/ kept' = KeptWithout(r.to, r.key)
  BY DEF HearLate, LoseLate, history
<1>2. r.to \in Nodes /\ r.key \in Keys
  BY TypeParts DEF Request
<1>3. lines' \in [Nodes -> Seq(Line)] /\ \A m \in Nodes : Sound(lines'[m])
  BY <1>1, <1>2, SameLinesSound, HeardAt
<1>4. kept' \in [Keys -> BOOLEAN]
  BY <1>1, <1>2, KeptTyped, TypeParts
<1>5. late' \subseteq Request
  BY <1>1, TypeParts
<1> QED BY <1>1, <1>3, <1>4, <1>5, TypeParts, TypedAgain

\* What is left under way when an operation ends
LEMMA EndsTyped ==
    ASSUME TypeInv, NEW op \in ops, Ends(op)
    PROVE  /\ setup' = setup /\ restarts' = restarts /\ ops' = ops \ {op} /\ started' = started
           /\ op \in Op /\ late' \subseteq Request
<1>1. op \in Op /\ late \subseteq Request
  BY TypeParts
<1>2. /\ setup' = setup /\ restarts' = restarts /\ ops' = ops \ {op} /\ started' = started
      /\ late' = late \cup Unheard(op)
  BY DEF Ends
<1>3. Unheard(op) \subseteq Request
  BY <1>1, OpFields DEF Unheard, Request
<1> QED BY <1>1, <1>2, <1>3

LEMMA EndReadTyped ==
    ASSUME TypeInv, NEW op \in ops, EndRead(op)
    PROVE  TypeInv'
<1>1. /\ setup' = setup /\ restarts' = restarts /\ ops' = ops \ {op} /\ started' = started
      /\ op \in Op /\ late' \subseteq Request
  BY EndsTyped DEF EndRead
<1>2. op.node \in Nodes /\ op.key \in Keys /\ op.alone \in BOOLEAN
  BY <1>1, OpFields
<1>3. last' = last /\ clean' \in [Keys -> BOOLEAN]
  <2>1. clean' = [clean EXCEPT ![op.key] = clean[op.key] /\ (op.alone \/ Finders(op) = {})]
    BY DEF EndRead
  <2>2. (clean[op.key] /\ (op.alone \/ Finders(op) = {})) \in BOOLEAN
    OBVIOUS
  <2>3. clean \in [Keys -> BOOLEAN]
    BY TypeParts
  <2> QED BY <2>1, <2>2, <2>3 DEF EndRead
<1>4. CASE Finders(op) = {}
  <2>1. lines' = lines /\ kept' = kept
    BY <1>4 DEF EndRead
  <2>2. lines' \in [Nodes -> Seq(Line)] /\ \A m \in Nodes : Sound(lines'[m])
    BY <2>1, SameLinesSound
  <2> QED BY <1>1, <1>3, <2>1, <2>2, TypeParts, TypedAgain
<1>5. CASE Finders(op) # {}
  <2> DEFINE line == [key |-> op.key, value |-> op.found[Chosen(op)], state |-> "S"]
  <2>1. line \in Line /\ line.state # "I"
    BY <1>1, <1>5, ChosenFound, TypeParts
  <2>2. Store(op.node, line)
    BY <1>5 DEF EndRead
  <2> HIDE DEF line
  <2>3. lines' = [lines EXCEPT ![op.node] = Put(@, line)] /\ kept' \in [Keys -> BOOLEAN]
    BY <1>1, <1>2, <2>1, <2>2, StoreTyped
  <2>4. lines' \in [Nodes -> Seq(Line)] /\ \A m \in Nodes : Sound(lines'[m])
    BY <1>1, <1>2, <2>1, <2>3, StoredAt
  <2> QED BY <1>1, <1>3, <2>3, <2>4, TypeParts, TypedAgain
<1> QED BY <1>4, <1>5

\* What a write stores
LEMMA WrittenLine ==
    ASSUME NEW op \in Op
    PROVE  /\ [key |-> op.key, value |-> op.no, state |-> "M"] \in Line
           /\ [key |-> op.key, value |-> op.no, state |-> "M"].state = "M"
           /\ [key |-> op.key, value |-> op.no, state |-> "M"].key = op.key
           /\ [key |-> op.key, value |-> op.no, state |-> "M"].value = op.no
BY OpFields DEF Line

LEMMA EndWriteTyped ==
    ASSUME TypeInv, NEW op \in ops, EndWrite(op)
    PROVE  TypeInv'
<1>1. /\ setup' = setup /\ restarts' = restarts /\ ops' = ops \ {op} /\ started' = started
      /\ op \in Op /\ late' \subseteq Request
  BY EndsTyped DEF EndWrite
<1>2. /\ op.node \in Nodes /\ op.key \in Keys /\ op.alone \in BOOLEAN
      /\ op.no \in 0 .. MaxOps
  <2>1. op.no \in 1 .. MaxOps
    BY <1>1, OpFields
  <2> QED BY <1>1, <2>1, OpFields
<1>3. last' \in [Keys -> 0 .. MaxOps] /\ clean' \in [Keys -> BOOLEAN]
  <2>1. last \in [Keys -> 0 .. MaxOps] /\ clean \in [Keys -> BOOLEAN]
    BY TypeParts
  <2>2. /\ last' = [last EXCEPT ![op.key] = op.no]
        /\ clean' = [clean EXCEPT ![op.key] = op.alone /\ op.unheard = {}]
    BY DEF EndWrite
  <2>3. (op.alone /\ op.unheard = {}) \in BOOLEAN
    OBVIOUS
  <2> QED BY <1>2, <2>1, <2>2, <2>3
<1> DEFINE line == [key |-> op.key, value |-> op.no, state |-> "M"]
<1>4. line \in Line /\ line.state # "I"
  BY <1>1, WrittenLine
<1>5. Store(op.node, line)
  BY DEF EndWrite
<1> HIDE DEF line
<1>6. lines' = [lines EXCEPT ![op.node] = Put(@, line)] /\ kept' \in [Keys -> BOOLEAN]
  BY <1>1, <1>2, <1>4, <1>5, StoreTyped
<1>7. lines' \in [Nodes -> Seq(Line)] /\ \A m \in Nodes : Sound(lines'[m])
  BY <1>1, <1>2, <1>4, <1>6, StoredAt
<1> QED BY <1>1, <1>3, <1>6, <1>7, TypeParts, TypedAgain

LEMMA EndInvalidateTyped ==
    ASSUME TypeInv, NEW op \in ops, EndInvalidate(op)
    PROVE  TypeInv'
<1>1. /\ setup' = setup /\ restarts' = restarts /\ ops' = ops \ {op} /\ started' = started
      /\ op \in Op /\ late' \subseteq Request
  BY EndsTyped DEF EndInvalidate
<1>2. op.node \in Nodes /\ op.key \in Keys
  BY <1>1, OpFields
<1>3. /\ last' = last /\ clean' = clean
      /\ \/ lines' = lines /\ kept' = kept
         \/ /\ lines' = [lines EXCEPT ![op.node] = Heard(@, "invalidate", op.key)]
            /\ kept' = KeptWithout(op.node, op.key)
  BY DEF EndInvalidate, Heard
<1>4. lines' \in [Nodes -> Seq(Line)] /\ \A m \in Nodes : Sound(lines'[m])
  BY <1>1, <1>2, <1>3, SameLinesSound, HeardAt
<1>5. kept' \in [Keys -> BOOLEAN]
  BY <1>2, <1>3, KeptTyped, TypeParts
<1> QED BY <1>1, <1>3, <1>4, <1>5, TypeParts, TypedAgain

\* The lines of a node that starts again
LEMMA EmptiedAt ==
    ASSUME TypeInv, setup' = setup, NEW n \in Nodes, lines' = [lines EXCEPT ![n] = <<>>]
    PROVE  /\ lines' \in [Nodes -> Seq(Line)] /\ \A m \in Nodes : Sound(lines'[m])
           /\ \A k : Shrinks(k)
           /\ \A m \in Nodes : m # n => lines'[m] = lines[m]
<1>1. /\ <<>> \in Seq(Line) /\ Len(<<>>) = 0 /\ DOMAIN <<>> = {}
  OBVIOUS
<1>2. Sound(<<>>)
  <2>1. OneEach(<<>>) /\ Len(<<>>) <= MaxSize
    BY <1>1 DEF OneEach
  <2> QED BY <1>1, <2>1 DEF Sound
<1>3. /\ lines' \in [Nodes -> Seq(Line)] /\ \A m \in Nodes : Sound(lines'[m])
      /\ lines'[n] = <<>> /\ \A m \in Nodes : m # n => lines'[m] = lines[m]
  BY <1>2, LinesAt
<1>4. \A k : Valid(<<>>, k) = {}
  BY <1>1 DEF Valid, LinesOf, ToSet
<1>5. \A k : Shrinks(k)
  BY <1>3, <1>4 DEF Shrinks
<1> QED BY <1>3, <1>5

LEMMA RestartTyped ==
    ASSUME TypeInv, NEW n \in Nodes, Restart(n)
    PROVE  TypeInv'
<1> DEFINE dying == {op \in ops : op.node = n}
<1>1. /\ setup' = setup /\ started' = started /\ last' = last /\ clean' = clean
      /\ lines' = [lines EXCEPT ![n] = <<>>]
      /\ restarts < setup.restarts /\ restarts' = restarts + 1
      /\ ops' \subseteq ops /\ late' = late \cup UNION {Unheard(op) : op \in dying}
      /\ kept' \in [Keys -> BOOLEAN]
  BY DEF Restart
<1>2. lines' \in [Nodes -> Seq(Line)] /\ \A m \in Nodes : Sound(lines'[m])
  BY <1>1, EmptiedAt
<1>3. restarts' \in 0 .. setup.restarts
  BY <1>1, TypeParts, SetupFacts
<1>4. \A op \in dying : Unheard(op) \subseteq Request
  BY TypeParts, OpFields DEF Unheard, Request
<1>5. late' \subseteq Request
  BY <1>1, <1>4, TypeParts
<1> HIDE DEF dying
<1> QED BY <1>1, <1>2, <1>3, <1>5, TypeParts, TypedAgain

LEMMA StepTyped == TypeInv /\ [Next]_vars => TypeInv'
<1> SUFFICES ASSUME TypeInv, [Next]_vars PROVE TypeInv'
  OBVIOUS
<1>1. CASE UNCHANGED vars
  BY <1>1, SetupFixed DEF vars, history, TypeInv, TypeOK, Line
<1>2. ASSUME NEW n \in Nodes, NEW key \in setup.keys,
             ReadHit(n, key) \/ ReadMiss(n, key) \/ Write(n, key) \/ Invalidate(n, key)
      PROVE  TypeInv'
  BY <1>2, ReadHitTyped, ReadMissTyped, WriteTyped, InvalidateTyped
<1>3. ASSUME NEW op \in ops, NEW p \in Nodes, Hear(op, p) \/ TimeOut(op, p)
      PROVE  TypeInv'
  BY <1>3, HearTyped, TimeOutTyped
<1>4. ASSUME NEW r \in late, HearLate(r) \/ LoseLate(r)
      PROVE  TypeInv'
  BY <1>4, LateTyped
<1>5. ASSUME NEW op \in ops, EndRead(op) \/ EndWrite(op) \/ EndInvalidate(op)
      PROVE  TypeInv'
  BY <1>5, EndReadTyped, EndWriteTyped, EndInvalidateTyped
<1>6. ASSUME NEW n \in Nodes, Restart(n)
      PROVE  TypeInv'
  BY <1>6, RestartTyped
<1> QED BY <1>1, <1>2, <1>3, <1>4, <1>5, <1>6 DEF Next

\* Every variable keeps its type; in particular a cache never has more than
\* max_size lines, nor two of one key, whichever coroutines end in what order.
THEOREM CacheTypeCorrect == Spec => []TypeOK
<1>1. TypeInv => TypeOK
  BY DEF TypeInv
<1> QED BY <1>1, InitTyped, StepTyped, PTL DEF Spec

-----------------------------------------------------------------------------
(* Copies agree *)

\* An operation is alone only if none that would disturb it is under way.
Apart == \A op, o \in ops : op.alone /\ o # op => ~Disturb(op.kind, op.key, o)

\* A write that is alone left no copy at the peers that heard of it.
HeardWrite ==
    \A op \in ops : op.kind = "write" /\ op.alone =>
        \A p \in Nodes : p \notin op.unheard /\ p # op.node => Valid(lines[p], op.key) = {}

\* A read that is alone found the last value, and demoted a MODIFIED copy.
FoundRight ==
    \A op \in ops, p \in Nodes :
        op.kind = "read" /\ op.alone /\ clean[op.key] /\ op.found[p] # NotFound =>
            /\ op.found[p] = last[op.key]
            /\ \A n \in Nodes : \A l \in Valid(lines[n], op.key) : l.state # "M"

CopiesInv == Apart /\ HeardWrite /\ FoundRight /\ Coherent

LEMMA DisturbCases ==
    ASSUME NEW kind, NEW key, NEW op
    PROVE  Disturb(kind, key, op) <=>
               /\ op.key = key
               /\ \/ kind = "write" /\ op.kind \in {"read", "write"}
                  \/ kind = "read" /\ op.kind = "write"
<1>1. {kind, op.kind} = {"write"} <=> kind = "write" /\ op.kind = "write"
  OBVIOUS
<1>2. {kind, op.kind} = {"read", "write"} <=>
          (kind = "read" /\ op.kind = "write") \/ (kind = "write" /\ op.kind = "read")
  OBVIOUS
<1> QED BY <1>1, <1>2 DEF Disturb

LEMMA InitCopies == Init => CopiesInv
<1> SUFFICES ASSUME Init PROVE CopiesInv
  OBVIOUS
<1>1. ops = {} /\ \A n \in Nodes : lines[n] = <<>>
  BY DEF Init
<1>2. \A key : Valid(<<>>, key) = {}
  BY DEF Valid, LinesOf, ToSet
<1> QED BY <1>1, <1>2 DEF CopiesInv, Apart, HeardWrite, FoundRight, Coherent

\* Values that only get fewer still agree.
LEMMA ShrinkCoherent ==
    ASSUME TypeInv, Coherent, setup' = setup, NEW key \in Keys, Shrinks(key),
           clean'[key] => clean[key], last'[key] = last[key], clean'[key],
           NEW n \in Nodes, NEW l \in Valid(lines'[n], key)
    PROVE  /\ l.value = last'[key]
           /\ l.state = "M" => \A m \in Nodes \ {n} : Valid(lines'[m], key) = {}
<1>1. PICK v \in Valid(lines[n], key) : v.value = l.value /\ (l.state = "M" => v.state = "M")
  BY DEF Shrinks
<1>2. /\ v.value = last[key]
      /\ v.state = "M" => \A m \in Nodes \ {n} : Valid(lines[m], key) = {}
  BY <1>1 DEF Coherent
<1>3. \A m \in Nodes : Valid(lines[m], key) = {} => Valid(lines'[m], key) = {}
  BY DEF Shrinks
<1> QED BY <1>1, <1>2, <1>3

LEMMA CoherentAgain ==
    ASSUME TypeInv, setup' = setup,
           \A key \in Keys : clean'[key] =>
               \A n \in Nodes : \A l \in Valid(lines'[n], key) :
                   /\ l.value = last'[key]
                   /\ l.state = "M" => \A m \in Nodes \ {n} : Valid(lines'[m], key) = {}
    PROVE  Coherent'
<1>1. Nodes' = Nodes
  BY SetupFixed
<1>2. \A n, k : Valid(lines[n], k)' = Valid(lines'[n], k)
  BY DEF Valid, LinesOf
<1> QED BY <1>1, <1>2 DEF Coherent, Valid, LinesOf

\* Operations that stay or end, where copies only get fewer
LEMMA FewerCopies ==
    ASSUME TypeInv, CopiesInv, setup' = setup, \A k : Shrinks(k),
           ops' \subseteq ops, clean' = clean, last' = last
    PROVE  CopiesInv'
<1>1. Nodes' = Nodes
  BY SetupFixed
<1>2. \A k : \A n \in Nodes : Valid(lines[n], k) = {} => Valid(lines'[n], k) = {}
  BY DEF Shrinks
<1>3. Apart'
  BY DEF CopiesInv, Apart, Disturb
<1>4. HeardWrite'
  BY <1>1, <1>2 DEF CopiesInv, HeardWrite, Valid, LinesOf
<1>5. FoundRight'
  <2> SUFFICES ASSUME NEW op \in ops', NEW p \in Nodes, op.kind = "read", op.alone,
                      clean'[op.key], op.found[p] # NotFound
               PROVE  /\ op.found[p] = last'[op.key]
                      /\ \A n \in Nodes : \A l \in Valid(lines'[n], op.key) : l.state # "M"
    BY <1>1 DEF FoundRight, NotFound, Valid, LinesOf
  <2>1. /\ op.found[p] = last[op.key]
        /\ \A n \in Nodes : \A l \in Valid(lines[n], op.key) : l.state # "M"
    BY DEF CopiesInv, FoundRight
  <2> QED BY <2>1 DEF Shrinks
<1>6. Coherent'
  BY ShrinkCoherent, CoherentAgain DEF CopiesInv
<1> QED BY <1>3, <1>4, <1>5, <1>6 DEF CopiesInv

\* An operation that starts disturbs those it overlaps.
LEMMA StartCopies ==
    ASSUME TypeInv, CopiesInv, NEW n \in Nodes, NEW kind \in {"read", "write", "invalidate"},
           NEW key \in Keys, Start(n, kind, key), \A k : Shrinks(k)
    PROVE  CopiesInv'
<1>1. setup' = setup /\ last' = last /\ clean' = clean
  BY DEF Start
<1>2. Nodes' = Nodes
  BY <1>1, SetupFixed
<1>3. PICK new \in Op :
          /\ new.kind = kind /\ new.key = key /\ new.node = n
          /\ new.unheard = Nodes \ {n} /\ \A p \in Nodes : new.found[p] = NotFound
          /\ new.alone => \A op \in ops : ~Disturb(kind, key, op)
          /\ \A o \in ops' :
                 \/ o = new
                 \/ \E op \in ops :
                       /\ o = [op EXCEPT !.alone = op.alone /\ ~Disturb(kind, key, op)]
                       /\ o.alone => op.alone /\ ~Disturb(kind, key, op)
  BY StartedOps
<1> DEFINE From(o, op) == /\ o = [op EXCEPT !.alone = op.alone /\ ~Disturb(kind, key, op)]
                          /\ o.kind = op.kind /\ o.key = op.key /\ o.node = op.node
                          /\ o.unheard = op.unheard /\ o.found = op.found
                          /\ o.alone => op.alone /\ ~Disturb(kind, key, op)
<1>4. \A o \in ops' : o = new \/ \E op \in ops : From(o, op)
  <2>1. ASSUME NEW o, NEW op \in ops,
               o = [op EXCEPT !.alone = op.alone /\ ~Disturb(kind, key, op)]
        PROVE  /\ o.kind = op.kind /\ o.key = op.key /\ o.node = op.node
               /\ o.unheard = op.unheard /\ o.found = op.found
    <3>1. op \in Op
      BY TypeParts
    <3> QED BY <2>1, <3>1 DEF Op
  <2> QED BY <1>3, <2>1
<1>5. \A k : \A m \in Nodes : Valid(lines[m], k) = {} => Valid(lines'[m], k) = {}
  BY DEF Shrinks
<1>6. Apart'
  <2> SUFFICES ASSUME NEW a \in ops', NEW b \in ops', a.alone, b # a,
                      Disturb(a.kind, a.key, b)
               PROVE  FALSE
    BY DEF Apart, Disturb
  <2>2. /\ b.key = a.key
        /\ \/ a.kind = "write" /\ b.kind \in {"read", "write"}
           \/ a.kind = "read" /\ b.kind = "write"
    BY DisturbCases
  <2>3. ASSUME NEW op \in ops, NEW o \in ops, From(a, op), From(b, o) PROVE FALSE
    <3>1. o # op
      BY <2>3
    <3>2. op.alone /\ Disturb(op.kind, op.key, o)
      BY <2>2, <2>3, DisturbCases
    <3> QED BY <3>1, <3>2 DEF CopiesInv, Apart
  <2>4. ASSUME NEW op \in ops, From(a, op), b = new PROVE FALSE
    BY <1>3, <2>2, <2>4, DisturbCases
  <2>5. ASSUME NEW o \in ops, a = new, From(b, o) PROVE FALSE
    <3>1. Disturb(kind, key, o)
      BY <1>3, <2>2, <2>5, DisturbCases
    <3> QED BY <1>3, <2>5, <3>1
  <2> HIDE DEF From
  <2> QED BY <1>4, <2>3, <2>4, <2>5
<1>7. HeardWrite'
  <2> SUFFICES ASSUME NEW o \in ops', o.kind = "write", o.alone,
                      NEW p \in Nodes, p \notin o.unheard, p # o.node
               PROVE  Valid(lines'[p], o.key) = {}
    BY <1>2 DEF HeardWrite, Valid, LinesOf
  <2>1. PICK op \in ops : /\ o.kind = op.kind /\ o.key = op.key /\ o.node = op.node
                          /\ o.unheard = op.unheard /\ op.alone
    BY <1>3, <1>4
  <2>2. Valid(lines[p], op.key) = {}
    BY <2>1 DEF CopiesInv, HeardWrite
  <2> QED BY <1>5, <2>1, <2>2
<1>8. FoundRight'
  <2> SUFFICES ASSUME NEW o \in ops', NEW p \in Nodes, o.kind = "read", o.alone,
                      clean[o.key], o.found[p] # NotFound
               PROVE  /\ o.found[p] = last[o.key]
                      /\ \A m \in Nodes : \A l \in Valid(lines'[m], o.key) : l.state # "M"
    BY <1>1, <1>2 DEF FoundRight, NotFound, Valid, LinesOf
  <2>1. PICK op \in ops : /\ o.kind = op.kind /\ o.key = op.key /\ o.found = op.found
                          /\ op.alone
    BY <1>3, <1>4
  <2>2. /\ op.found[p] = last[op.key]
        /\ \A m \in Nodes : \A l \in Valid(lines[m], op.key) : l.state # "M"
    BY <2>1 DEF CopiesInv, FoundRight
  <2>3. Shrinks(op.key)
    OBVIOUS
  <2>4. \A m \in Nodes : \A l \in Valid(lines'[m], op.key) : l.state # "M"
    BY ONLY <2>2, <2>3 DEF Shrinks
  <2> QED BY <2>1, <2>2, <2>4
<1>9. Coherent'
  BY <1>1, ShrinkCoherent, CoherentAgain DEF CopiesInv
<1> QED BY <1>6, <1>7, <1>8, <1>9 DEF CopiesInv

\* An operation that goes on without a peer, or with its answer
LEMMA AnsweredCopies ==
    ASSUME TypeInv, CopiesInv, setup' = setup, \A k : Shrinks(k), clean' = clean, last' = last,
           NEW op \in ops, NEW o, ops' = (ops \ {op}) \cup {o},
           o.kind = op.kind, o.key = op.key, o.node = op.node, o.alone = op.alone,
           \A p \in Nodes : p \notin o.unheard /\ p # o.node =>
               p \notin op.unheard \/ (op.kind = "write" => Valid(lines'[p], op.key) = {}),
           \A p \in Nodes : o.found[p] # NotFound =>
               \/ o.found[p] = op.found[p]
               \/ /\ op.kind = "read"
                  /\ \E l \in Valid(lines[p], op.key) : l.value = o.found[p]
                  /\ \A l \in Valid(lines'[p], op.key) : l.state # "M"
    PROVE  CopiesInv'
<1>1. Nodes' = Nodes
  BY SetupFixed
<1>2. \A k : \A n \in Nodes : Valid(lines[n], k) = {} => Valid(lines'[n], k) = {}
  BY DEF Shrinks
<1>3. Apart'
  <2> SUFFICES ASSUME NEW a \in ops', NEW b \in ops', a.alone, b # a
               PROVE  ~Disturb(a.kind, a.key, b)
    BY DEF Apart, Disturb
  <2>1. CASE a = o
    <3>1. b \in ops /\ b # op /\ op.alone
      BY <2>1
    <3>2. ~Disturb(op.kind, op.key, b)
      BY <3>1 DEF CopiesInv, Apart
    <3> QED BY <2>1, <3>2
  <2>2. CASE a # o /\ b = o
    <3>1. a \in ops /\ a # op
      BY <2>2
    <3>2. ~Disturb(a.kind, a.key, op)
      BY <3>1 DEF CopiesInv, Apart
    <3> QED BY <2>2, <3>2, DisturbCases
  <2>3. CASE a # o /\ b # o
    BY <2>3 DEF CopiesInv, Apart
  <2> QED BY <2>1, <2>2, <2>3
<1>4. HeardWrite'
  <2> SUFFICES ASSUME NEW a \in ops', a.kind = "write", a.alone,
                      NEW p \in Nodes, p \notin a.unheard, p # a.node
               PROVE  Valid(lines'[p], a.key) = {}
    BY <1>1 DEF HeardWrite, Valid, LinesOf
  <2>1. CASE a = o
    <3>1. CASE p \notin op.unheard
      <4>1. Valid(lines[p], op.key) = {}
        BY <2>1, <3>1 DEF CopiesInv, HeardWrite
      <4> QED BY <1>2, <2>1, <4>1
    <3>2. CASE p \in op.unheard
      BY <2>1, <3>2
    <3> QED BY <3>1, <3>2
  <2>2. CASE a # o
    <3>1. Valid(lines[p], a.key) = {}
      BY <2>2 DEF CopiesInv, HeardWrite
    <3> QED BY <1>2, <3>1
  <2> QED BY <2>1, <2>2
<1>5. FoundRight'
  <2> SUFFICES ASSUME NEW a \in ops', NEW p \in Nodes, a.kind = "read", a.alone,
                      clean[a.key], a.found[p] # NotFound
               PROVE  /\ a.found[p] = last[a.key]
                      /\ \A n \in Nodes : \A l \in Valid(lines'[n], a.key) : l.state # "M"
    BY <1>1 DEF FoundRight, NotFound, Valid, LinesOf
  <2>1. ASSUME NEW c \in ops, c.kind = "read", c.alone, c.key = a.key,
               c.found[p] = a.found[p]
        PROVE  /\ a.found[p] = last[a.key]
               /\ \A n \in Nodes : \A l \in Valid(lines'[n], a.key) : l.state # "M"
    <3>1. /\ c.found[p] = last[c.key]
          /\ \A n \in Nodes : \A l \in Valid(lines[n], c.key) : l.state # "M"
      BY <2>1 DEF CopiesInv, FoundRight
    <3>2. \A n \in Nodes : \A l \in Valid(lines'[n], c.key) : l.state # "M"
      <4>1. Shrinks(c.key)
        OBVIOUS
      <4> QED BY <3>1, <4>1 DEF Shrinks
    <3> QED BY <2>1, <3>1, <3>2
  <2>2. CASE a # o
    BY <2>1, <2>2
  <2>3. CASE a = o /\ o.found[p] = op.found[p]
    BY <2>1, <2>3
  <2>4. CASE /\ a = o /\ \E l \in Valid(lines[p], op.key) : l.value = o.found[p]
             /\ \A l \in Valid(lines'[p], op.key) : l.state # "M"
    <3>1. PICK v \in Valid(lines[p], op.key) : v.value = o.found[p]
      BY <2>4
    <3>2. op.key \in Keys
      BY TypeParts, OpFields
    <3>3. v.value = last[op.key]
      BY <2>4, <3>2 DEF CopiesInv, Coherent
    <3>4. ASSUME NEW n \in Nodes, NEW l \in Valid(lines'[n], op.key), l.state = "M"
          PROVE  FALSE
      <4>1. n # p
        BY <2>4, <3>4
      <4>2. PICK m \in Valid(lines[n], op.key) : m.state = "M"
        BY <3>4 DEF Shrinks
      <4>3. clean[op.key] /\ p \in Nodes \ {n}
        BY <2>4, <4>1
      <4>4. m.state = "M" => \A q \in Nodes \ {n} : Valid(lines[q], op.key) = {}
        <5>1. Coherent
          BY DEF CopiesInv
        <5> QED BY ONLY <3>2, <4>3, <5>1, <4>2 DEF Coherent
      <4>5. Valid(lines[p], op.key) = {}
        BY <4>2, <4>3, <4>4
      <4> QED BY <3>1, <4>5
    <3> QED BY <2>4, <3>1, <3>3, <3>4
  <2> QED BY <2>2, <2>3, <2>4
<1>6. Coherent'
  BY ShrinkCoherent, CoherentAgain DEF CopiesInv
<1> QED BY <1>3, <1>4, <1>5, <1>6 DEF CopiesInv

LEMMA HearKeepsCopies ==
    ASSUME TypeInv, CopiesInv, NEW op \in ops, NEW p \in Nodes, Hear(op, p)
    PROVE  CopiesInv'
<1>1. /\ setup' = setup /\ last' = last /\ clean' = clean
      /\ lines' = [lines EXCEPT ![p] = Heard(@, op.kind, op.key)]
  BY DEF Hear
<1>2. PICK o \in Op :
          /\ ops' = (ops \ {op}) \cup {o}
          /\ o.kind = op.kind /\ o.key = op.key /\ o.node = op.node /\ o.alone = op.alone
          /\ o.unheard = op.unheard \ {p}
          /\ o.found[p] \in {NotFound, Found(lines[p], op.kind, op.key)}
          /\ \A q \in Nodes : q # p => o.found[q] = op.found[q]
  BY HearOps
<1>3. /\ \A k : Shrinks(k)
      /\ op.kind # "read" => Valid(lines'[p], op.key) = {}
      /\ op.kind = "read" => \A l \in Valid(lines'[p], op.key) : l.state # "M"
  BY <1>1, HeardAt
<1>4. ASSUME NEW q \in Nodes, q \notin o.unheard, q # o.node
      PROVE  q \notin op.unheard \/ (op.kind = "write" => Valid(lines'[q], op.key) = {})
  BY <1>2, <1>3, <1>4
<1>5. ASSUME NEW q \in Nodes, o.found[q] # NotFound
      PROVE  \/ o.found[q] = op.found[q]
             \/ /\ op.kind = "read"
                /\ \E l \in Valid(lines[q], op.key) : l.value = o.found[q]
                /\ \A l \in Valid(lines'[q], op.key) : l.state # "M"
  <2>1. CASE q # p
    BY <1>2, <2>1
  <2>2. CASE q = p
    <3>1. o.found[q] = Found(lines[q], op.kind, op.key)
      BY <1>2, <1>5, <2>2
    <3>2. /\ op.kind = "read"
          /\ \E l \in Valid(lines[q], op.key) : l.value = o.found[q]
      BY <1>5, <3>1, FoundValue
    <3> QED BY <1>3, <2>2, <3>2
  <2> QED BY <2>1, <2>2
<1> QED BY <1>1, <1>2, <1>3, <1>4, <1>5, AnsweredCopies

LEMMA TimeOutKeepsCopies ==
    ASSUME TypeInv, CopiesInv, NEW op \in ops, NEW p \in Nodes, TimeOut(op, p)
    PROVE  CopiesInv'
<1> DEFINE o == [op EXCEPT !.waiting = @ \ {p}]
<1>1. /\ setup' = setup /\ last' = last /\ clean' = clean /\ lines' = lines
      /\ ops' = (ops \ {op}) \cup {o}
  BY DEF TimeOut, history
<1>2. /\ o.kind = op.kind /\ o.key = op.key /\ o.node = op.node /\ o.alone = op.alone
      /\ o.unheard = op.unheard /\ o.found = op.found
  BY TypeParts, GivenUpOp
<1> HIDE DEF o
<1>3. \A k : Shrinks(k)
  BY <1>1, SameLinesShrink
<1> QED BY <1>1, <1>2, <1>3, AnsweredCopies

LEMMA EndReadKeepsCopies ==
    ASSUME TypeInv, CopiesInv, NEW op \in ops, EndRead(op)
    PROVE  CopiesInv'
<1>1. /\ setup' = setup /\ ops' = ops \ {op} /\ op \in Op /\ op.kind = "read" /\ last' = last
  BY EndsTyped DEF EndRead
<1>2. /\ op.node \in Nodes /\ op.key \in Keys /\ op.alone \in BOOLEAN
      /\ Nodes' = Nodes /\ clean \in [Keys -> BOOLEAN]
  BY <1>1, OpFields, SetupFixed, TypeParts
<1>3. /\ \A k \in Keys : k # op.key => clean'[k] = clean[k]
      /\ clean'[op.key] => clean[op.key] /\ (op.alone \/ Finders(op) = {})
  <2>1. clean' = [clean EXCEPT ![op.key] = clean[op.key] /\ (op.alone \/ Finders(op) = {})]
    BY DEF EndRead
  <2> QED BY <1>2, <2>1
<1>4. ASSUME NEW o \in ops' PROVE o \in ops /\ o # op /\ o.key \in Keys
  BY <1>1, TypeParts, OpFields
<1>5. Apart'
  BY <1>1 DEF CopiesInv, Apart, Disturb
<1>6. CASE Finders(op) = {}
  <2>1. lines' = lines
    BY <1>6 DEF EndRead
  <2>2. \A k : Shrinks(k)
    BY <2>1, SameLinesShrink
  <2>3. \A k \in Keys : clean'[k] => clean[k]
    BY <1>3
  <2>4. HeardWrite'
    BY <1>1, <1>2, <2>1 DEF CopiesInv, HeardWrite
  <2>5. FoundRight'
    BY <1>1, <1>2, <1>4, <2>1, <2>3 DEF CopiesInv, FoundRight
  <2>6. Coherent'
    BY <1>1, <2>2, <2>3, ShrinkCoherent, CoherentAgain DEF CopiesInv
  <2> QED BY <1>5, <2>4, <2>5, <2>6 DEF CopiesInv
<1>7. CASE Finders(op) # {}
  <2> DEFINE line == [key |-> op.key, value |-> op.found[Chosen(op)], state |-> "S"]
  <2>1. /\ Chosen(op) \in Nodes /\ op.found[Chosen(op)] # NotFound /\ line \in Line
    BY <1>1, <1>7, ChosenFound, TypeParts
  <2>2. line.key = op.key /\ line.state = "S" /\ line.value = op.found[Chosen(op)]
    OBVIOUS
  <2>3. Store(op.node, line)
    BY <1>7 DEF EndRead
  <2> HIDE DEF line
  <2>4. lines' = [lines EXCEPT ![op.node] = Put(@, line)]
    BY <1>1, <1>2, <2>1, <2>2, <2>3, StoreTyped
  <2>5. /\ \A k : k # op.key => Shrinks(k)
        /\ Valid(lines'[op.node], op.key) = {line}
        /\ \A m \in Nodes : m # op.node => lines'[m] = lines[m]
    <3>1. line.state # "I"
      BY <2>2
    <3> QED BY <1>1, <1>2, <2>1, <2>2, <2>4, <3>1, StoredAt
  \* If the read was alone it found the last value, and no copy is MODIFIED.
  <2>6. clean'[op.key] =>
            /\ clean[op.key] /\ line.value = last[op.key]
            /\ \A m \in Nodes : \A l \in Valid(lines[m], op.key) : l.state # "M"
    <3>1. clean'[op.key] => clean[op.key] /\ op.alone
      BY <1>3, <1>7
    <3> QED BY <1>1, <2>1, <2>2, <3>1 DEF CopiesInv, FoundRight
  <2>7. HeardWrite'
    <3> SUFFICES ASSUME NEW o \in ops', o.kind = "write", o.alone,
                        NEW p \in Nodes, p \notin o.unheard, p # o.node
                 PROVE  Valid(lines'[p], o.key) = {}
      BY <1>2 DEF HeardWrite, Valid, LinesOf
    <3>1. Valid(lines[p], o.key) = {}
      BY <1>4 DEF CopiesInv, HeardWrite
    <3>2. ~Disturb(o.kind, o.key, op)
      BY <1>4 DEF CopiesInv, Apart
    <3>3. o.key # op.key
      BY <1>1, <3>2, DisturbCases
    <3> QED BY <2>5, <3>1, <3>3 DEF Shrinks
  <2>8. FoundRight'
    <3> SUFFICES ASSUME NEW o \in ops', NEW p \in Nodes, o.kind = "read", o.alone,
                        clean'[o.key], o.found[p] # NotFound
                 PROVE  /\ o.found[p] = last[o.key]
                        /\ \A n \in Nodes : \A l \in Valid(lines'[n], o.key) : l.state # "M"
      BY <1>1, <1>2 DEF FoundRight, NotFound, Valid, LinesOf
    <3>1. clean[o.key]
      BY <1>3, <1>4
    <3>2. /\ o.found[p] = last[o.key]
          /\ \A n \in Nodes : \A l \in Valid(lines[n], o.key) : l.state # "M"
      BY <1>4, <3>1 DEF CopiesInv, FoundRight
    <3>3. CASE o.key = op.key
      <4>1. ASSUME NEW n \in Nodes, NEW l \in Valid(lines'[n], o.key)
            PROVE  l.state # "M"
        <5>1. CASE n = op.node
          BY <2>2, <2>5, <3>3, <4>1, <5>1
        <5>2. CASE n # op.node
          BY <2>5, <3>2, <4>1, <5>2
        <5> QED BY <5>1, <5>2
      <4> QED BY <3>2, <4>1
    <3>4. CASE o.key # op.key
      <4>1. Shrinks(o.key)
        BY <2>5, <3>4
      <4> QED BY <3>2, <4>1 DEF Shrinks
    <3> QED BY <3>3, <3>4
  <2>9. ASSUME NEW key \in Keys, clean'[key], NEW n \in Nodes, NEW l \in Valid(lines'[n], key)
        PROVE  /\ l.value = last'[key]
               /\ l.state = "M" => \A m \in Nodes \ {n} : Valid(lines'[m], key) = {}
    <3>1. CASE key # op.key
      <4>1. Shrinks(key) /\ clean[key]
        BY <1>3, <2>5, <2>9, <3>1
      <4> QED BY <1>1, <2>9, <4>1, ShrinkCoherent DEF CopiesInv
    <3>2. CASE key = op.key /\ n = op.node
      BY <1>1, <2>2, <2>5, <2>6, <2>9, <3>2
    <3>3. CASE key = op.key /\ n # op.node
      <4>1. l \in Valid(lines[n], key)
        BY <2>5, <2>9, <3>3
      <4>2. l.value = last[key] /\ l.state # "M"
        BY <2>6, <2>9, <3>3, <4>1 DEF CopiesInv, Coherent
      <4> QED BY <1>1, <4>2
    <3> QED BY <3>1, <3>2, <3>3
  <2>10. Coherent'
    BY <1>1, <2>9, CoherentAgain
  <2> QED BY <1>5, <2>7, <2>8, <2>10 DEF CopiesInv
<1> QED BY <1>6, <1>7

LEMMA EndWriteKeepsCopies ==
    ASSUME TypeInv, CopiesInv, NEW op \in ops, EndWrite(op)
    PROVE  CopiesInv'
<1>1. /\ setup' = setup /\ ops' = ops \ {op} /\ op \in Op /\ op.kind = "write"
  BY EndsTyped DEF EndWrite
<1>2. /\ op.node \in Nodes /\ op.key \in Keys /\ op.alone \in BOOLEAN
      /\ Nodes' = Nodes /\ clean \in [Keys -> BOOLEAN] /\ last \in [Keys -> 0 .. MaxOps]
  BY <1>1, OpFields, SetupFixed, TypeParts
<1>3. /\ \A k \in Keys : k # op.key => clean'[k] = clean[k] /\ last'[k] = last[k]
      /\ clean'[op.key] => op.alone /\ op.unheard = {}
      /\ last'[op.key] = op.no
  <2>1. /\ last' = [last EXCEPT ![op.key] = op.no]
        /\ clean' = [clean EXCEPT ![op.key] = op.alone /\ op.unheard = {}]
    BY DEF EndWrite
  <2> QED BY <1>2, <2>1
<1>4. ASSUME NEW o \in ops' PROVE o \in ops /\ o # op /\ o.key \in Keys
  BY <1>1, TypeParts, OpFields
<1>5. Apart'
  BY <1>1 DEF CopiesInv, Apart, Disturb
<1> DEFINE line == [key |-> op.key, value |-> op.no, state |-> "M"]
<1>6. line \in Line /\ line.key = op.key /\ line.value = op.no /\ line.state # "I"
  BY <1>1, WrittenLine
<1>7. Store(op.node, line)
  BY DEF EndWrite
<1> HIDE DEF line
<1>8. lines' = [lines EXCEPT ![op.node] = Put(@, line)]
  BY <1>1, <1>2, <1>6, <1>7, StoreTyped
<1>9. /\ \A k : k # op.key => Shrinks(k)
      /\ Valid(lines'[op.node], op.key) = {line}
      /\ \A m \in Nodes : m # op.node => lines'[m] = lines[m]
  BY <1>1, <1>2, <1>6, <1>8, StoredAt
\* No other operation on the key that is under way is alone, invalidations excepted.
<1>10. ASSUME NEW o \in ops', o.alone, o.kind \in {"read", "write"} PROVE o.key # op.key
  <2>1. ~Disturb(o.kind, o.key, op)
    BY <1>4, <1>10 DEF CopiesInv, Apart
  <2> QED BY <1>1, <1>10, <2>1, DisturbCases
<1>11. HeardWrite'
  <2> SUFFICES ASSUME NEW o \in ops', o.kind = "write", o.alone,
                      NEW p \in Nodes, p \notin o.unheard, p # o.node
               PROVE  Valid(lines'[p], o.key) = {}
    BY <1>2 DEF HeardWrite, Valid, LinesOf
  <2>1. Valid(lines[p], o.key) = {}
    BY <1>4 DEF CopiesInv, HeardWrite
  <2>2. Shrinks(o.key)
    BY <1>9, <1>10
  <2> QED BY <2>1, <2>2 DEF Shrinks
<1>12. FoundRight'
  <2> SUFFICES ASSUME NEW o \in ops', NEW p \in Nodes, o.kind = "read", o.alone,
                      clean'[o.key], o.found[p] # NotFound
               PROVE  /\ o.found[p] = last'[o.key]
                      /\ \A n \in Nodes : \A l \in Valid(lines'[n], o.key) : l.state # "M"
    BY <1>2 DEF FoundRight, NotFound, Valid, LinesOf
  <2>1. Shrinks(o.key) /\ clean[o.key] /\ last'[o.key] = last[o.key]
    BY <1>3, <1>4, <1>9, <1>10
  <2>2. /\ o.found[p] = last[o.key]
        /\ \A n \in Nodes : \A l \in Valid(lines[n], o.key) : l.state # "M"
    BY <1>4, <2>1 DEF CopiesInv, FoundRight
  <2> QED BY <2>1, <2>2 DEF Shrinks
<1>13. ASSUME NEW key \in Keys, clean'[key], NEW n \in Nodes, NEW l \in Valid(lines'[n], key)
       PROVE  /\ l.value = last'[key]
              /\ l.state = "M" => \A m \in Nodes \ {n} : Valid(lines'[m], key) = {}
  <2>1. CASE key # op.key
    <3>1. Shrinks(key) /\ clean[key] /\ last'[key] = last[key]
      BY <1>3, <1>9, <1>13, <2>1
    <3> QED BY <1>1, <1>13, <3>1, ShrinkCoherent DEF CopiesInv
  <2>2. CASE key = op.key
    <3>1. op.alone /\ op.unheard = {}
      BY <1>3, <1>13, <2>2
    <3>2. \A m \in Nodes : m # op.node => Valid(lines[m], key) = {}
      BY <1>1, <2>2, <3>1 DEF CopiesInv, HeardWrite
    <3>3. \A m \in Nodes : m # op.node => Valid(lines'[m], key) = {}
      BY <1>9, <3>2
    <3>4. n = op.node /\ l = line
      BY <1>9, <1>13, <2>2, <3>3
    <3> QED BY <1>3, <1>6, <2>2, <3>3, <3>4
  <2> QED BY <2>1, <2>2
<1>14. Coherent'
  BY <1>1, <1>13, CoherentAgain
<1> QED BY <1>5, <1>11, <1>12, <1>14 DEF CopiesInv

LEMMA StepCopies == TypeInv /\ CopiesInv /\ [Next]_vars => CopiesInv'
<1> SUFFICES ASSUME TypeInv, CopiesInv, [Next]_vars PROVE CopiesInv'
  OBVIOUS
<1>1. CASE UNCHANGED vars
  <2>1. /\ setup' = setup /\ lines' = lines /\ ops' = ops /\ clean' = clean /\ last' = last
    BY <1>1 DEF vars, history
  <2> QED BY <2>1, SameLinesShrink, FewerCopies
<1>2. ASSUME NEW n \in Nodes, NEW key \in setup.keys,
             ReadHit(n, key) \/ ReadMiss(n, key) \/ Write(n, key) \/ Invalidate(n, key)
      PROVE  CopiesInv'
  <2>1. key \in Keys
    BY TypeParts, SetupFacts
  <2>2. CASE ReadHit(n, key)
    <3>1. /\ setup' = setup /\ lines' = [lines EXCEPT ![n] = Touched(@, key)]
          /\ ops' = ops /\ clean' = clean /\ last' = last
      BY <2>2 DEF ReadHit, history
    <3>2. \A k : Shrinks(k)
      BY <3>1, TouchedAt
    <3> QED BY <3>1, <3>2, FewerCopies
  <2>3. CASE ReadMiss(n, key)
    <3>1. /\ setup' = setup /\ lines' = [lines EXCEPT ![n] = Touched(@, key)]
          /\ Start(n, "read", key)
      BY <2>3 DEF ReadMiss, Start
    <3>2. \A k : Shrinks(k)
      BY <3>1, TouchedAt
    <3> QED BY <2>1, <3>1, <3>2, StartCopies
  <2>4. CASE Write(n, key)
    <3>1. lines' = lines /\ Start(n, "write", key)
      BY <2>4 DEF Write
    <3>2. \A k : Shrinks(k)
      BY <3>1, SameLinesShrink
    <3> QED BY <2>1, <3>1, <3>2, StartCopies
  <2>5. CASE Invalidate(n, key)
    <3>1. /\ setup' = setup /\ Start(n, "invalidate", key)
          /\ \/ lines' = lines
             \/ lines' = [lines EXCEPT ![n] = Heard(@, "invalidate", key)]
      BY <2>5 DEF Invalidate, Start, Heard
    <3>2. \A k : Shrinks(k)
      BY <3>1, SameLinesShrink, HeardAt
    <3> QED BY <2>1, <3>1, <3>2, StartCopies
  <2> QED BY <1>2, <2>2, <2>3, <2>4, <2>5
<1>3. ASSUME NEW op \in ops, NEW p \in Nodes, Hear(op, p) \/ TimeOut(op, p)
      PROVE  CopiesInv'
  BY <1>3, HearKeepsCopies, TimeOutKeepsCopies
<1>4. ASSUME NEW r \in late, HearLate(r) \/ LoseLate(r)
      PROVE  CopiesInv'
  <2>1. /\ setup' = setup /\ ops' = ops /\ clean' = clean /\ last' = last
        /\ \/ lines' = lines
           \/ lines' = [lines EXCEPT ![r.to] = Heard(@, r.kind, r.key)]
    BY <1>4 DEF HearLate, LoseLate, history
  <2>2. r.to \in Nodes
    BY TypeParts DEF Request
  <2>3. \A k : Shrinks(k)
    BY <2>1, <2>2, SameLinesShrink, HeardAt
  <2> QED BY <2>1, <2>3, FewerCopies
<1>5. ASSUME NEW op \in ops, EndInvalidate(op) PROVE CopiesInv'
  <2>1. /\ setup' = setup /\ ops' = ops \ {op} /\ op \in Op
    BY <1>5, EndsTyped DEF EndInvalidate
  <2>2. /\ clean' = clean /\ last' = last
        /\ \/ lines' = lines
           \/ lines' = [lines EXCEPT ![op.node] = Heard(@, "invalidate", op.key)]
    BY <1>5 DEF EndInvalidate, Heard
  <2>3. op.node \in Nodes
    BY <2>1, OpFields
  <2>4. \A k : Shrinks(k)
    BY <2>1, <2>2, <2>3, SameLinesShrink, HeardAt
  <2>5. ops' \subseteq ops
    BY <2>1
  <2> QED BY <2>1, <2>2, <2>4, <2>5, FewerCopies
<1>6. ASSUME NEW n \in Nodes, Restart(n) PROVE CopiesInv'
  <2>1. /\ setup' = setup /\ ops' \subseteq ops /\ clean' = clean /\ last' = last
        /\ lines' = [lines EXCEPT ![n] = <<>>]
    BY <1>6 DEF Restart
  <2>2. \A k : Shrinks(k)
    BY <2>1, EmptiedAt
  <2> QED BY <2>1, <2>2, FewerCopies
<1> QED BY <1>1, <1>2, <1>3, <1>4, <1>5, <1>6, EndReadKeepsCopies, EndWriteKeepsCopies DEF Next

\* After a write that was alone and heard by all, copies have its value, and a
\* MODIFIED one is the only one, whatever reads, evictions, lost answers, late
\* requests and restarts come after it.
THEOREM CopiesAgree == Spec => []Coherent
<1>1. CopiesInv => Coherent
  BY DEF CopiesInv
<1> QED BY <1>1, InitTyped, StepTyped, InitCopies, StepCopies, PTL DEF Spec

-----------------------------------------------------------------------------
(* Writes are kept *)

Writing(key) == \E op \in ops : op.kind = "write" /\ op.key = key

\* No copy of the key is lost in this step, or its loss is recorded.
Stays(key) == kept'[key] => /\ kept[key]
                            /\ \A n \in Nodes : Valid(lines[n], key) # {} => Valid(lines'[n], key) # {}

LEMMA KeptAgain ==
    ASSUME setup' = setup,
           \A key \in Keys : clean'[key] /\ kept'[key] /\ last'[key] # 0 =>
               (\E n \in Nodes : Valid(lines'[n], key) # {}) \/ Writing(key)'
    PROVE  LastWriteKept'
<1>1. Nodes' = Nodes
  BY SetupFixed
<1> QED BY <1>1 DEF LastWriteKept, Writing, Valid, LinesOf

LEMMA StaysKept ==
    ASSUME setup' = setup, LastWriteKept, clean' = clean, last' = last,
           \A key \in Keys : /\ Writing(key) => Writing(key)'
                             /\ Stays(key) \/ ((kept'[key] => kept[key]) /\ Writing(key)')
    PROVE  LastWriteKept'
<1> SUFFICES ASSUME NEW key \in Keys, clean'[key], kept'[key], last'[key] # 0
             PROVE  (\E n \in Nodes : Valid(lines'[n], key) # {}) \/ Writing(key)'
  BY KeptAgain
<1>1. CASE Writing(key)'
  BY <1>1
<1>2. CASE Stays(key) /\ ~Writing(key)'
  <2>1. (\E n \in Nodes : Valid(lines[n], key) # {}) \/ Writing(key)
    BY <1>2 DEF LastWriteKept, Writing, Stays
  <2>2. PICK n \in Nodes : Valid(lines[n], key) # {}
    BY <1>2, <2>1
  <2> QED BY <1>2, <2>2 DEF Stays
<1> QED BY <1>1, <1>2

LEMMA SameCopiesStay ==
    ASSUME kept' = kept, \A k : \A m \in Nodes : Valid(lines'[m], k) = Valid(lines[m], k)
    PROVE  \A key \in Keys : Stays(key)
BY DEF Stays

\* An invalidation that throws a copy out is recorded; a read throws none out.
LEMMA HeardStays ==
    ASSUME TypeInv, setup' = setup, NEW n \in Nodes, NEW kind, NEW key \in Keys,
           lines' = [lines EXCEPT ![n] = Heard(@, kind, key)],
           kept' = KeptWithout(n, key) \/ (kind = "read" /\ kept' = kept)
    PROVE  \A k \in Keys : Stays(k)
<1> SUFFICES ASSUME NEW k \in Keys, kept'[k]
             PROVE  /\ kept[k]
                    /\ \A m \in Nodes : Valid(lines[m], k) # {} => Valid(lines'[m], k) # {}
  BY DEF Stays
<1>1. /\ \A m \in Nodes : m # n => lines'[m] = lines[m]
      /\ Valid(lines[n], k) # {} /\ (k # key \/ kind = "read") => Valid(lines'[n], k) # {}
  <2>1. \A m \in Nodes : m # n => lines'[m] = lines[m]
    BY HeardAt
  <2>2. ASSUME Valid(lines[n], k) # {}, k # key \/ kind = "read"
        PROVE  Valid(lines'[n], k) # {}
    <3>1. Spares(kind, key, k)
      BY <2>2 DEF Spares
    <3> QED BY <2>2, <3>1, HeardSpares
  <2> QED BY <2>1, <2>2
<1>2. kept[k] /\ (k = key => kind = "read" \/ Valid(lines[n], k) = {})
  <2>1. kept \in [Keys -> BOOLEAN]
    BY TypeParts
  <2>2. CASE kept' = kept /\ kind = "read"
    BY <2>2
  <2>3. CASE kept' = KeptWithout(n, key)
    <3>1. kept' = [kept EXCEPT ![key] = kept[key] /\ Valid(lines[n], key) = {}]
      BY <2>3 DEF KeptWithout
    <3> QED BY <2>1, <3>1
  <2> QED BY <2>2, <2>3
<1> QED BY <1>1, <1>2

\* Of other keys, an eviction is recorded.
LEMMA StoredStays ==
    ASSUME TypeInv, setup' = setup, NEW n \in Nodes, NEW line \in Line, line.state # "I",
           Store(n, line), NEW key \in Keys, key # line.key
    PROVE  Stays(key)
<1>1. /\ lines' = [lines EXCEPT ![n] = Put(@, line)]
      /\ kept'[key] => /\ Valid(lines[n], key) # {} => LinesOf(Put(lines[n], line), key) # {}
                       /\ kept[key]
  BY StoreTyped
<1>2. /\ \A m \in Nodes : m # n => lines'[m] = lines[m]
      /\ lines'[n] = Put(lines[n], line)
      /\ Valid(lines[n], key) # {} /\ LinesOf(lines'[n], key) # {} => Valid(lines'[n], key) # {}
  BY <1>1, StoredAt
<1> QED BY <1>1, <1>2 DEF Stays

LEMMA StartKeeps ==
    ASSUME TypeInv, LastWriteKept, NEW n \in Nodes, NEW kind, NEW key \in Keys,
           Start(n, kind, key), \A k \in Keys : Stays(k)
    PROVE  LastWriteKept'
<1>1. setup' = setup /\ last' = last /\ clean' = clean
  BY DEF Start
<1>2. ASSUME NEW k \in Keys, Writing(k) PROVE Writing(k)'
  <2>1. PICK op \in ops : op.kind = "write" /\ op.key = k
    BY <1>2 DEF Writing
  <2> DEFINE o == [op EXCEPT !.alone = @ /\ ~Disturb(kind, key, op)]
  <2>2. o \in ops'
    BY DEF Start
  <2>3. o.kind = op.kind /\ o.key = op.key
    BY TypeParts DEF Op
  <2> QED BY <2>1, <2>2, <2>3 DEF Writing
<1> QED BY <1>1, <1>2, StaysKept

\* The operations are those of before, but for what one of them has heard.
LEMMA AnsweredWriting ==
    ASSUME NEW op \in ops, NEW o, ops' = (ops \ {op}) \cup {o},
           o.kind = op.kind, o.key = op.key, NEW key
    PROVE  /\ Writing(key) => Writing(key)'
           /\ op.kind = "write" /\ op.key = key => Writing(key)'
BY DEF Writing

LEMMA HearKeeps ==
    ASSUME TypeInv, LastWriteKept, NEW op \in ops, NEW p \in Nodes, Hear(op, p)
    PROVE  LastWriteKept'
<1>1. /\ setup' = setup /\ last' = last /\ clean' = clean
      /\ lines' = [lines EXCEPT ![p] = Heard(@, op.kind, op.key)]
      /\ kept' = IF op.kind = "invalidate" THEN KeptWithout(p, op.key) ELSE kept
  BY DEF Hear
<1>2. PICK o \in Op : /\ ops' = (ops \ {op}) \cup {o}
                      /\ o.kind = op.kind /\ o.key = op.key
  BY HearOps
<1>3. op.key \in Keys /\ op.kind \in {"read", "write", "invalidate"}
  BY TypeParts, OpFields
<1>4. \A k \in Keys : Writing(k) => Writing(k)'
  BY <1>2, AnsweredWriting
<1>5. CASE op.kind # "write"
  <2>1. \A k \in Keys : Stays(k)
    BY <1>1, <1>3, <1>5, HeardStays
  <2> QED BY <1>1, <1>4, <2>1, StaysKept
<1>6. CASE op.kind = "write"
  <2>1. kept' = kept
    BY <1>1, <1>6
  <2>2. Writing(op.key)'
    BY <1>2, <1>6, AnsweredWriting
  <2>3. ASSUME NEW k \in Keys, k # op.key PROVE Stays(k)
    <3>1. /\ \A m \in Nodes : m # p => lines'[m] = lines[m]
          /\ Valid(lines[p], k) # {} => Valid(lines'[p], k) # {}
      <4>1. \A m \in Nodes : m # p => lines'[m] = lines[m]
        BY <1>1, HeardAt
      <4>2. ASSUME Valid(lines[p], k) # {} PROVE Valid(lines'[p], k) # {}
        <5>1. Spares(op.kind, op.key, k)
          BY <2>3 DEF Spares
        <5> QED BY <1>1, <4>2, <5>1, HeardSpares
      <4> QED BY <2>3, <4>1, <4>2
    <3> QED BY <2>1, <3>1 DEF Stays
  <2>4. \A k \in Keys : Stays(k) \/ ((kept'[k] => kept[k]) /\ Writing(k)')
    BY <2>1, <2>2, <2>3
  <2> QED BY <1>1, <1>4, <2>4, StaysKept
<1> QED BY <1>5, <1>6

LEMMA EndReadKeeps ==
    ASSUME TypeInv, LastWriteKept, NEW op \in ops, EndRead(op)
    PROVE  LastWriteKept'
<1>1. /\ setup' = setup /\ ops' = ops \ {op} /\ op \in Op /\ op.kind = "read" /\ last' = last
  BY EndsTyped DEF EndRead
<1>2. op.node \in Nodes /\ op.key \in Keys /\ clean \in [Keys -> BOOLEAN]
  BY <1>1, OpFields, TypeParts
<1>3. \A k \in Keys : clean'[k] => clean[k]
  <2>1. clean' = [clean EXCEPT ![op.key] = clean[op.key] /\ (op.alone \/ Finders(op) = {})]
    BY DEF EndRead
  <2> QED BY <1>2, <2>1
<1>4. \A k : Writing(k) => Writing(k)'
  BY <1>1 DEF Writing
<1>5. \A k \in Keys : \/ Stays(k)
                       \/ \E n \in Nodes : Valid(lines'[n], k) # {}
  <2>1. CASE Finders(op) = {}
    <3>1. lines' = lines /\ kept' = kept
      BY <2>1 DEF EndRead
    <3> QED BY <3>1, SameCopiesStay
  <2>2. CASE Finders(op) # {}
    <3> DEFINE line == [key |-> op.key, value |-> op.found[Chosen(op)], state |-> "S"]
    <3>1. line \in Line
      BY <1>1, <2>2, ChosenFound, TypeParts
    <3>2. line.key = op.key /\ line.state # "I"
      OBVIOUS
    <3>3. Store(op.node, line)
      BY <2>2 DEF EndRead
    <3> HIDE DEF line
    <3>4. lines' = [lines EXCEPT ![op.node] = Put(@, line)]
      BY <1>1, <1>2, <3>1, <3>2, <3>3, StoreTyped
    <3>5. Valid(lines'[op.node], op.key) = {line}
      <4>1. Valid(lines'[op.node], line.key) = {line}
        BY <1>1, <1>2, <3>1, <3>2, <3>4, StoredAt
      <4> QED BY <3>2, <4>1
    <3>6. \A k \in Keys : k # op.key => Stays(k)
      BY <1>1, <1>2, <3>1, <3>2, <3>3, StoredStays
    <3> QED BY <1>2, <3>5, <3>6
  <2> QED BY <2>1, <2>2
<1>6. ASSUME NEW k \in Keys, clean'[k], kept'[k], last'[k] # 0, Stays(k)
      PROVE  (\E n \in Nodes : Valid(lines'[n], k) # {}) \/ Writing(k)'
  <2>1. (\E n \in Nodes : Valid(lines[n], k) # {}) \/ Writing(k)
    BY <1>1, <1>3, <1>6 DEF LastWriteKept, Writing, Stays
  <2> QED BY <1>4, <1>6, <2>1 DEF Stays
<1>7. \A k \in Keys : clean'[k] /\ kept'[k] /\ last'[k] # 0 =>
          (\E n \in Nodes : Valid(lines'[n], k) # {}) \/ Writing(k)'
  BY <1>5, <1>6
<1> QED BY <1>1, <1>7, KeptAgain

LEMMA EndWriteKeeps ==
    ASSUME TypeInv, LastWriteKept, NEW op \in ops, EndWrite(op)
    PROVE  LastWriteKept'
<1>1. /\ setup' = setup /\ ops' = ops \ {op} /\ op \in Op
  BY EndsTyped DEF EndWrite
<1>2. /\ op.node \in Nodes /\ op.key \in Keys
      /\ clean \in [Keys -> BOOLEAN] /\ last \in [Keys -> 0 .. MaxOps]
  BY <1>1, OpFields, TypeParts
<1>3. \A k \in Keys : k # op.key => clean'[k] = clean[k] /\ last'[k] = last[k]
  <2>1. /\ last' = [last EXCEPT ![op.key] = op.no]
        /\ clean' = [clean EXCEPT ![op.key] = op.alone /\ op.unheard = {}]
    BY DEF EndWrite
  <2> QED BY <1>2, <2>1
<1> DEFINE line == [key |-> op.key, value |-> op.no, state |-> "M"]
<1>4. line \in Line /\ line.key = op.key /\ line.state # "I"
  BY <1>1, WrittenLine
<1>5. Store(op.node, line)
  BY DEF EndWrite
<1> HIDE DEF line
<1>6. lines' = [lines EXCEPT ![op.node] = Put(@, line)]
  BY <1>1, <1>2, <1>4, <1>5, StoreTyped
<1>7. Valid(lines'[op.node], op.key) = {line}
  <2>1. Valid(lines'[op.node], line.key) = {line}
    BY <1>1, <1>2, <1>4, <1>6, StoredAt
  <2> QED BY <1>4, <2>1
<1>8. ASSUME NEW k \in Keys, k # op.key, clean'[k], kept'[k], last'[k] # 0
      PROVE  (\E n \in Nodes : Valid(lines'[n], k) # {}) \/ Writing(k)'
  <2>1. Stays(k)
    BY <1>1, <1>2, <1>4, <1>5, <1>8, StoredStays
  <2>2. (\E n \in Nodes : Valid(lines[n], k) # {}) \/ Writing(k)
    BY <1>3, <1>8, <2>1 DEF LastWriteKept, Writing, Stays
  <2>3. Writing(k) => Writing(k)'
    BY <1>1, <1>8 DEF Writing
  <2> QED BY <1>8, <2>1, <2>2, <2>3 DEF Stays
<1>9. \A k \in Keys : clean'[k] /\ kept'[k] /\ last'[k] # 0 =>
          (\E n \in Nodes : Valid(lines'[n], k) # {}) \/ Writing(k)'
  BY <1>2, <1>7, <1>8
<1> QED BY <1>1, <1>9, KeptAgain

\* A restart spares the copies of the other nodes and what these write; what else
\* there was is recorded as lost.
LEMMA RestartKeeps ==
    ASSUME TypeInv, LastWriteKept, NEW n \in Nodes, Restart(n)
    PROVE  LastWriteKept'
<1>1. /\ setup' = setup /\ last' = last /\ clean' = clean
      /\ lines' = [lines EXCEPT ![n] = <<>>]
      /\ \A op \in ops : op.node # n => op \in ops'
      /\ \A k \in Keys : kept'[k] =>
             /\ kept[k] /\ Valid(lines[n], k) = {}
             /\ \A op \in ops : op.kind = "write" /\ op.key = k => op.node # n
  BY DEF Restart
<1>2. \A m \in Nodes : m # n => lines'[m] = lines[m]
  BY <1>1, EmptiedAt
<1>3. ASSUME NEW k \in Keys, clean'[k], kept'[k], last'[k] # 0
      PROVE  (\E m \in Nodes : Valid(lines'[m], k) # {}) \/ Writing(k)'
  <2>1. (\E m \in Nodes : Valid(lines[m], k) # {}) \/ Writing(k)
    BY <1>1, <1>3 DEF LastWriteKept, Writing
  <2>2. ASSUME NEW m \in Nodes, Valid(lines[m], k) # {} PROVE Valid(lines'[m], k) # {}
    <3>1. m # n
      BY <1>1, <1>3, <2>2
    <3> QED BY <1>2, <2>2, <3>1
  <2>3. Writing(k) => Writing(k)'
    BY <1>1, <1>3 DEF Writing
  <2> QED BY <2>1, <2>2, <2>3
<1> QED BY <1>1, <1>3, KeptAgain

LEMMA StepKeeps == TypeInv /\ LastWriteKept /\ [Next]_vars => LastWriteKept'
<1> SUFFICES ASSUME TypeInv, LastWriteKept, [Next]_vars PROVE LastWriteKept'
  OBVIOUS
<1>1. ASSUME setup' = setup, clean' = clean, last' = last, \A k \in Keys : Stays(k),
             \A k \in Keys : Writing(k) => Writing(k)'
      PROVE  LastWriteKept'
  BY <1>1, StaysKept
<1>2. CASE UNCHANGED vars
  BY <1>2, SetupFixed DEF vars, history, LastWriteKept, Valid, LinesOf
<1>3. ASSUME NEW n \in Nodes, NEW key \in setup.keys,
             ReadHit(n, key) \/ ReadMiss(n, key) \/ Write(n, key) \/ Invalidate(n, key)
      PROVE  LastWriteKept'
  <2>1. key \in Keys
    BY TypeParts, SetupFacts
  <2>2. CASE ReadHit(n, key)
    <3>1. /\ setup' = setup /\ lines' = [lines EXCEPT ![n] = Touched(@, key)]
          /\ ops' = ops /\ clean' = clean /\ last' = last /\ kept' = kept
      BY <2>2 DEF ReadHit, history
    <3>2. \A k \in Keys : Stays(k)
      BY <3>1, TouchedAt, SameCopiesStay
    <3>3. \A k \in Keys : Writing(k) => Writing(k)'
      BY <3>1 DEF Writing
    <3> QED BY <1>1, <3>1, <3>2, <3>3
  <2>3. CASE ReadMiss(n, key)
    <3>1. /\ setup' = setup /\ lines' = [lines EXCEPT ![n] = Touched(@, key)]
          /\ Start(n, "read", key) /\ kept' = kept
      BY <2>3 DEF ReadMiss, Start
    <3>2. \A k \in Keys : Stays(k)
      BY <3>1, TouchedAt, SameCopiesStay
    <3> QED BY <2>1, <3>1, <3>2, StartKeeps
  <2>4. CASE Write(n, key)
    <3>1. lines' = lines /\ kept' = kept /\ Start(n, "write", key)
      BY <2>4 DEF Write
    <3>2. \A k \in Keys : Stays(k)
      BY <3>1, SameCopiesStay
    <3> QED BY <2>1, <3>1, <3>2, StartKeeps
  <2>5. CASE Invalidate(n, key)
    <3>1. /\ setup' = setup /\ Start(n, "invalidate", key)
          /\ \/ lines' = lines /\ kept' = kept
             \/ /\ lines' = [lines EXCEPT ![n] = Heard(@, "invalidate", key)]
                /\ kept' = KeptWithout(n, key)
      BY <2>5 DEF Invalidate, Start, Heard
    <3>2. \A k \in Keys : Stays(k)
      BY <2>1, <3>1, SameCopiesStay, HeardStays
    <3> QED BY <2>1, <3>1, <3>2, StartKeeps
  <2> QED BY <1>3, <2>2, <2>3, <2>4, <2>5
<1>4. ASSUME NEW op \in ops, NEW p \in Nodes, TimeOut(op, p) PROVE LastWriteKept'
  <2> DEFINE o == [op EXCEPT !.waiting = @ \ {p}]
  <2>1. /\ setup' = setup /\ lines' = lines /\ kept' = kept /\ clean' = clean /\ last' = last
        /\ ops' = (ops \ {op}) \cup {o}
    BY <1>4 DEF TimeOut, history
  <2>2. o.kind = op.kind /\ o.key = op.key
    BY TypeParts, GivenUpOp
  <2> HIDE DEF o
  <2>3. \A k \in Keys : Writing(k) => Writing(k)'
    BY <2>1, <2>2, AnsweredWriting
  <2>4. \A k \in Keys : Stays(k)
    BY <2>1, SameCopiesStay
  <2> QED BY <1>1, <2>1, <2>3, <2>4
<1>5. ASSUME NEW r \in late, HearLate(r) \/ LoseLate(r)
      PROVE  LastWriteKept'
  <2>1. /\ setup' = setup /\ ops' = ops /\ clean' = clean /\ last' = last
        /\ \/ lines' = lines /\ kept' = kept
           \/ /\ lines' = [lines EXCEPT ![r.to] = Heard(@, r.kind, r.key)]
              /\ kept' = KeptWithout(r.to, r.key) \/ (r.kind = "read" /\ kept' = kept)
    BY <1>5 DEF HearLate, LoseLate, history
  <2>2. r.to \in Nodes /\ r.key \in Keys
    BY TypeParts DEF Request
  <2>3. \A k \in Keys : Stays(k)
    BY <2>1, <2>2, SameCopiesStay, HeardStays
  <2>4. \A k \in Keys : Writing(k) => Writing(k)'
    BY <2>1 DEF Writing
  <2> QED BY <1>1, <2>1, <2>3, <2>4
<1>6. ASSUME NEW op \in ops, EndInvalidate(op) PROVE LastWriteKept'
  <2>1. /\ setup' = setup /\ ops' = ops \ {op} /\ op \in Op /\ op.kind = "invalidate"
    BY <1>6, EndsTyped DEF EndInvalidate
  <2>2. /\ clean' = clean /\ last' = last
        /\ \/ lines' = lines /\ kept' = kept
           \/ /\ lines' = [lines EXCEPT ![op.node] = Heard(@, "invalidate", op.key)]
              /\ kept' = KeptWithout(op.node, op.key)
    BY <1>6 DEF EndInvalidate, Heard
  <2>3. op.node \in Nodes /\ op.key \in Keys
    BY <2>1, OpFields
  <2>4. \A k \in Keys : Stays(k)
    BY <2>1, <2>2, <2>3, SameCopiesStay, HeardStays
  <2>5. \A k \in Keys : Writing(k) => Writing(k)'
    BY <2>1 DEF Writing
  <2> QED BY <1>1, <2>1, <2>2, <2>4, <2>5
<1> QED BY <1>2, <1>3, <1>4, <1>5, <1>6, HearKeeps, EndReadKeeps, EndWriteKeeps, RestartKeeps
        DEF Next

\* Such a write stays in some cache until a full one evicts a copy, an invalidation
\* throws it out, a node restarts that has a copy or is about to write the key, or
\* the next write of the key is under way.
THEOREM WritesKept == Spec => []LastWriteKept
<1>1. Init => LastWriteKept
  BY DEF Init, LastWriteKept
<1> QED BY <1>1, InitTyped, StepTyped, StepKeeps, PTL DEF Spec
=============================================================================
