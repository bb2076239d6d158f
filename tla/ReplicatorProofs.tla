--------------------------- MODULE ReplicatorProofs ---------------------------
(***************************************************************************)
(* Theorems about the geo replicator, a part of MCNode, for every set of   *)
(* sites, keys and times and every number of writes, repeated copies and   *)
(* restarts: clocks cover what is stored, the status tells who wrote, and  *)
(* with good clocks and no restart the sites converge.                     *)
(***************************************************************************)
EXTENDS DetectorProofs, FiniteSetTheorems

LEMMA GeoConstants ==
    /\ Times \subseteq Nat
    /\ MaxWrites \in Nat /\ MaxRepeats \in Nat /\ MaxGeoRestarts \in Nat
BY PartsAssumption DEF Geo!ReplicatorAssumption

LEMMA SitesCounted == \A S : Geo!Cardinality(S) = Cardinality(S)
BY DEF Geo!Cardinality, Cardinality

USE GeoConstants

-----------------------------------------------------------------------------
(* Vector clocks *)

\* merge takes the larger count of every node.
LEMMA MergedCovers ==
    ASSUME NEW v \in Geo!Clock, NEW w \in Geo!Clock
    PROVE  /\ Geo!Merged(v, w) \in Geo!Clock
           /\ Geo!AtLeast(Geo!Merged(v, w), v) /\ Geo!AtLeast(Geo!Merged(v, w), w)
           /\ \A n \in Regions : Geo!Merged(v, w)[n] \in {v[n], w[n]}
BY DEF Geo!Merged, Geo!Clock, Geo!AtLeast

\* increment counts one further at one node.
LEMMA IncrementedCovers ==
    ASSUME NEW v \in Geo!Clock, NEW n \in Regions
    PROVE  /\ Geo!Incremented(v, n) \in Geo!Clock
           /\ Geo!AtLeast(Geo!Incremented(v, n), v)
           /\ Geo!Incremented(v, n)[n] = v[n] + 1
           /\ \A o \in Regions \ {n} : Geo!Incremented(v, n)[o] = v[o]
BY DEF Geo!Incremented, Geo!Clock, Geo!AtLeast

\* Clocks that cover each other are a preorder.
LEMMA AtLeastPreorder ==
    ASSUME NEW u \in Geo!Clock, NEW v \in Geo!Clock, NEW w \in Geo!Clock
    PROVE  /\ Geo!AtLeast(v, v)
           /\ Geo!AtLeast(u, v) /\ Geo!AtLeast(v, w) => Geo!AtLeast(u, w)
BY DEF Geo!Clock, Geo!AtLeast

-----------------------------------------------------------------------------
(* Types *)

\* What is stored of a write is the write, but for its status.
LEMMA StoredOfWrite ==
    ASSUME NEW w \in Geo!Entry, NEW e \in Geo!StoredOf(w)
    PROVE  /\ e \in Geo!Entry
           /\ e.no = w.no /\ e.key = w.key /\ e.clock = w.clock
           /\ e.origin = w.origin /\ e.time = w.time
BY DEF Geo!StoredOf, Geo!Entry

\* Writes are numbered, one after the other.
Numbered ==
    /\ IsFiniteSet(written) /\ Cardinality(written) <= MaxWrites
    /\ \A w \in written : w.no \in 1 .. Cardinality(written) /\ w.status = "pending"
    /\ \A v, w \in written : v.no = w.no => v = w
    /\ \A n \in Regions : handled[n] \subseteq 1 .. Cardinality(written)

\* What is under way is a write, on its way to another node.
SentAway == \A s \in sends : s.entry \in written /\ s.to # s.entry.origin

GeoTyped == Geo!TypeOK /\ Numbered /\ SentAway

\* The entry that a write makes.
WriteEntry(n, key, time) ==
    [no |-> Cardinality(written) + 1, key |-> key, clock |-> Geo!Incremented(clock[n], n),
     origin |-> n, time |-> time, status |-> "pending"]

LEMMA WriteEntryTyped ==
    ASSUME GeoTyped, NEW n \in Regions, NEW key \in Keys, NEW time \in Times
    PROVE  /\ WriteEntry(n, key, time) \in Geo!Entry
           /\ WriteEntry(n, key, time).no = Cardinality(written) + 1
           /\ WriteEntry(n, key, time) \notin written
           /\ Cardinality(written) \in Nat
<1>1. Cardinality(written) \in Nat
  BY FS_CardinalityType DEF GeoTyped, Numbered
<1>2. clock[n] \in Geo!Clock /\ time \in Nat
  BY DEF GeoTyped, Geo!TypeOK
<1>3. Geo!Incremented(clock[n], n) \in Geo!Clock
  BY <1>2, IncrementedCovers
<1>4. WriteEntry(n, key, time) \in Geo!Entry
  BY <1>1, <1>2, <1>3 DEF WriteEntry, Geo!Entry
<1>5. WriteEntry(n, key, time).no = Cardinality(written) + 1
  BY DEF WriteEntry
<1>6. WriteEntry(n, key, time) \notin written
  BY <1>1, <1>5 DEF GeoTyped, Numbered
<1> QED BY <1>1, <1>4, <1>5, <1>6

\* What a write does, with the entry by its name.
LEMMA WriteMakes ==
    ASSUME GeoTyped, NEW n \in Regions, NEW key \in Keys, NEW time \in Times, Geo!Write(n, key, time)
    PROVE  LET entry == WriteEntry(n, key, time)
           IN /\ Cardinality(written) < MaxWrites
              /\ clock' = [clock EXCEPT ![n] = Geo!Incremented(@, n)]
              /\ clock'[n] = entry.clock
              /\ store' = [store EXCEPT ![n][key] = entry]
              /\ sends' = sends \cup {[to |-> p, entry |-> entry] : p \in Regions \ {n}}
              /\ written' = written \cup {entry}
              /\ handled' = [handled EXCEPT ![n] = @ \cup {entry.no}]
              /\ UNCHANGED <<repeats, restarted>>
<1>1. clock' = [clock EXCEPT ![n] = Geo!Incremented(@, n)] /\ clock'[n] = Geo!Incremented(clock[n], n)
  BY DEF Geo!Write, GeoTyped, Geo!TypeOK
<1>2. Geo!Cardinality(written) = Cardinality(written)
  BY SitesCounted
<1> QED BY <1>1, <1>2 DEF Geo!Write, WriteEntry

LEMMA GeoTypedInit == Geo!Init => GeoTyped
<1> SUFFICES ASSUME Geo!Init PROVE GeoTyped
  OBVIOUS
<1>1. Geo!TypeOK
  BY DEF Geo!Init, Geo!TypeOK, Geo!None, Geo!Clock, Geo!Zero
<1>2. Numbered
  BY FS_EmptySet DEF Geo!Init, Numbered
<1> QED BY <1>1, <1>2 DEF Geo!Init, SentAway, GeoTyped

LEMMA WriteTyped ==
    ASSUME GeoTyped, NEW n \in Regions, NEW key \in Keys, NEW time \in Times, Geo!Write(n, key, time)
    PROVE  GeoTyped'
<1> DEFINE entry == WriteEntry(n, key, time)
<1>1. /\ entry \in Geo!Entry /\ entry.no = Cardinality(written) + 1
      /\ entry \notin written /\ Cardinality(written) \in Nat
      /\ entry.key = key /\ entry.origin = n /\ entry.status = "pending"
  BY WriteEntryTyped DEF WriteEntry
<1>2. /\ Cardinality(written) < MaxWrites
      /\ clock' = [clock EXCEPT ![n] = Geo!Incremented(@, n)]
      /\ store' = [store EXCEPT ![n][key] = entry]
      /\ sends' = sends \cup {[to |-> p, entry |-> entry] : p \in Regions \ {n}}
      /\ written' = written \cup {entry}
      /\ handled' = [handled EXCEPT ![n] = @ \cup {entry.no}]
      /\ UNCHANGED <<repeats, restarted>>
  BY WriteMakes
<1> HIDE DEF entry
<1>3. IsFiniteSet(written') /\ Cardinality(written') = Cardinality(written) + 1
  BY <1>1, <1>2, FS_AddElement DEF GeoTyped, Numbered
<1>4. Numbered'
  <2>1. \A w \in written' : w.no \in 1 .. Cardinality(written') /\ w.status = "pending"
    BY <1>1, <1>2, <1>3 DEF GeoTyped, Numbered
  <2>2. \A v, w \in written' : v.no = w.no => v = w
    BY <1>1, <1>2 DEF GeoTyped, Numbered
  <2>3. \A m \in Regions : handled'[m] \subseteq 1 .. Cardinality(written')
    BY <1>1, <1>2, <1>3 DEF GeoTyped, Geo!TypeOK, Numbered
  <2>4. IsFiniteSet(written') /\ Cardinality(written') <= MaxWrites
    BY <1>1, <1>2, <1>3
  <2> QED BY <2>1, <2>2, <2>3, <2>4 DEF Numbered
<1>5. SentAway'
  BY <1>1, <1>2 DEF GeoTyped, SentAway
<1>6. Geo!TypeOK'
  <2>1. store' \in [Regions -> [Keys -> Geo!Entry \cup {Geo!None}]]
    BY <1>1, <1>2 DEF GeoTyped, Geo!TypeOK
  <2>2. \A m \in Regions, k \in Keys : store'[m][k] # Geo!None =>
          \E w \in written' : w.key = k /\ store'[m][k] \in Geo!StoredOf(w)
    BY <1>1, <1>2 DEF GeoTyped, Geo!TypeOK, Geo!StoredOf
  <2>3. clock' \in [Regions -> Geo!Clock]
    BY <1>2, IncrementedCovers DEF GeoTyped, Geo!TypeOK
  <2>4. sends' \subseteq [to : Regions, entry : Geo!Entry]
    BY <1>1, <1>2 DEF GeoTyped, Geo!TypeOK
  <2>5. written' \subseteq Geo!Entry
    BY <1>1, <1>2 DEF GeoTyped, Geo!TypeOK
  <2>6. handled' \in [Regions -> SUBSET (1 .. MaxWrites)]
    BY <1>1, <1>2 DEF GeoTyped, Geo!TypeOK
  <2>7. repeats' \in Nat /\ restarted' \subseteq Regions
    BY <1>2 DEF GeoTyped, Geo!TypeOK
  <2> QED BY <2>1, <2>2, <2>3, <2>4, <2>5, <2>6, <2>7 DEF Geo!TypeOK
<1> QED BY <1>4, <1>5, <1>6 DEF GeoTyped

LEMMA HandleTyped ==
    ASSUME GeoTyped, NEW s \in sends, NEW again \in BOOLEAN, Geo!Handle(s, again)
    PROVE  GeoTyped'
<1> DEFINE existing == store[s.to][s.entry.key]
<1>1. /\ s.to \in Regions /\ s.entry \in Geo!Entry /\ s.entry \in written
      /\ s.entry.key \in Keys /\ s.entry.clock \in Geo!Clock
  BY DEF GeoTyped, Geo!TypeOK, SentAway, Geo!Entry
<1>2. /\ sends' \subseteq sends /\ repeats' \in Nat
      /\ store' = IF Geo!Wins(s.entry, existing)
                  THEN [store EXCEPT ![s.to][s.entry.key] = Geo!Stored(s.entry, existing)] ELSE store
      /\ clock' = [clock EXCEPT ![s.to] = Geo!Merged(@, s.entry.clock)]
      /\ handled' = [handled EXCEPT ![s.to] = @ \cup {s.entry.no}]
      /\ UNCHANGED <<written, restarted>>
  BY DEF Geo!Handle, GeoTyped, Geo!TypeOK
<1>3. Geo!Stored(s.entry, existing) \in Geo!StoredOf(s.entry)
  BY DEF Geo!Stored, Geo!StatusOf, Geo!StoredOf
<1>4. Geo!Stored(s.entry, existing) \in Geo!Entry
  BY <1>1, <1>3, StoredOfWrite
<1> HIDE DEF existing
<1>5. Numbered'
  BY <1>1, <1>2 DEF GeoTyped, Geo!TypeOK, Numbered
<1>6. SentAway'
  BY <1>2 DEF GeoTyped, SentAway
<1>7. Geo!TypeOK'
  <2>1. store' \in [Regions -> [Keys -> Geo!Entry \cup {Geo!None}]]
    BY <1>1, <1>2, <1>4 DEF GeoTyped, Geo!TypeOK
  <2>2. \A m \in Regions, k \in Keys : store'[m][k] # Geo!None =>
          \E w \in written' : w.key = k /\ store'[m][k] \in Geo!StoredOf(w)
    BY <1>1, <1>2, <1>3 DEF GeoTyped, Geo!TypeOK
  <2>3. clock' \in [Regions -> Geo!Clock]
    BY <1>1, <1>2, MergedCovers DEF GeoTyped, Geo!TypeOK
  <2>4. sends' \subseteq [to : Regions, entry : Geo!Entry] /\ written' \subseteq Geo!Entry
    BY <1>2 DEF GeoTyped, Geo!TypeOK
  <2>5. s.entry.no \in 1 .. MaxWrites
    BY <1>1, FS_CardinalityType DEF GeoTyped, Numbered
  <2>6. handled' \in [Regions -> SUBSET (1 .. MaxWrites)]
    BY <1>2, <2>5 DEF GeoTyped, Geo!TypeOK
  <2>7. repeats' \in Nat /\ restarted' \subseteq Regions
    BY <1>2 DEF GeoTyped, Geo!TypeOK
  <2> QED BY <2>1, <2>2, <2>3, <2>4, <2>6, <2>7 DEF Geo!TypeOK
<1> QED BY <1>5, <1>6, <1>7 DEF GeoTyped

LEMMA RestartTyped ==
    ASSUME GeoTyped, NEW n \in Regions, Geo!Restart(n)
    PROVE  GeoTyped'
<1>1. Geo!TypeOK'
  <2>1. [k \in Keys |-> Geo!None] \in [Keys -> Geo!Entry \cup {Geo!None}] /\ Geo!Zero \in Geo!Clock
    BY DEF Geo!Zero, Geo!Clock
  <2>2. store' \in [Regions -> [Keys -> Geo!Entry \cup {Geo!None}]]
    BY <2>1 DEF Geo!Restart, GeoTyped, Geo!TypeOK
  <2>3. \A m \in Regions, k \in Keys : store'[m][k] # Geo!None =>
          \E w \in written' : w.key = k /\ store'[m][k] \in Geo!StoredOf(w)
    BY DEF Geo!Restart, GeoTyped, Geo!TypeOK
  <2>4. clock' \in [Regions -> Geo!Clock]
    BY <2>1 DEF Geo!Restart, GeoTyped, Geo!TypeOK
  <2> QED BY <2>2, <2>3, <2>4 DEF Geo!Restart, GeoTyped, Geo!TypeOK
<1>2. Numbered'
  BY DEF Geo!Restart, GeoTyped, Geo!TypeOK, Numbered
<1>3. SentAway'
  BY DEF Geo!Restart, GeoTyped, SentAway
<1> QED BY <1>1, <1>2, <1>3 DEF GeoTyped

LEMMA GeoTypedStep == GeoTyped /\ [Geo!Next]_geoVars => GeoTyped'
<1> SUFFICES ASSUME GeoTyped, [Geo!Next]_geoVars PROVE GeoTyped'
  OBVIOUS
<1>1. CASE UNCHANGED geoVars
  BY <1>1 DEF GeoTyped, Geo!TypeOK, Numbered, SentAway, geoVars
<1>2. ASSUME NEW n \in Regions, NEW key \in Keys, NEW time \in Times, Geo!Write(n, key, time)
      PROVE  GeoTyped'
  BY <1>2, WriteTyped
<1>3. ASSUME NEW s \in sends, NEW again \in BOOLEAN, Geo!Handle(s, again) PROVE GeoTyped'
  BY <1>3, HandleTyped
<1>4. ASSUME NEW n \in Regions, Geo!Restart(n) PROVE GeoTyped'
  BY <1>4, RestartTyped
<1> QED BY <1>1, <1>2, <1>3, <1>4 DEF Geo!Next

LEMMA GeoTypedInvariant == Spec => []GeoTyped
BY GeoTypedInit, GeoTypedStep, PartsBegin, PartsMove, PTL DEF Spec

-----------------------------------------------------------------------------
(* Clocks and status *)

\* Clocks cover what is stored: a step at one node, the other nodes as before.
LEMMA StepCovers ==
    GeoTyped /\ Geo!ClockCovers /\ [Geo!Next]_geoVars => Geo!ClockCovers'
<1> SUFFICES ASSUME GeoTyped, Geo!ClockCovers, [Geo!Next]_geoVars,
                    NEW m \in Regions, NEW k \in Keys, store'[m][k] # Geo!None
             PROVE  Geo!AtLeast(clock'[m], store'[m][k].clock)
  BY DEF Geo!ClockCovers
<1>a. clock[m] \in Geo!Clock /\ store[m][k] \in Geo!Entry \cup {Geo!None}
  BY DEF GeoTyped, Geo!TypeOK
<1>b. store[m][k] # Geo!None => store[m][k].clock \in Geo!Clock /\ Geo!AtLeast(clock[m], store[m][k].clock)
  BY <1>a DEF Geo!ClockCovers, Geo!Entry
<1>1. CASE UNCHANGED geoVars
  BY <1>1, <1>b DEF geoVars
<1>2. ASSUME NEW n \in Regions, NEW key \in Keys, NEW time \in Times, Geo!Write(n, key, time)
      PROVE  Geo!AtLeast(clock'[m], store'[m][k].clock)
  <2> DEFINE entry == WriteEntry(n, key, time)
  <2>1. /\ clock' = [clock EXCEPT ![n] = Geo!Incremented(@, n)]
        /\ store' = [store EXCEPT ![n][key] = entry]
        /\ clock'[n] = entry.clock
    BY <1>2, WriteMakes
  <2> HIDE DEF entry
  <2>2. Geo!Incremented(clock[n], n) \in Geo!Clock /\ Geo!AtLeast(Geo!Incremented(clock[n], n), clock[n])
    BY IncrementedCovers DEF GeoTyped, Geo!TypeOK
  <2>3. clock'[n] = Geo!Incremented(clock[n], n)
    BY <2>1 DEF GeoTyped, Geo!TypeOK
  <2>4. CASE m = n /\ k = key
    <3>1. store'[m][k] = entry
      BY <2>1, <2>4 DEF GeoTyped, Geo!TypeOK
    <3> QED BY <2>1, <2>2, <2>3, <2>4, <3>1, AtLeastPreorder
  <2>5. CASE ~(m = n /\ k = key)
    <3>1. store'[m][k] = store[m][k] /\ (m # n => clock'[m] = clock[m])
      BY <2>1, <2>5 DEF GeoTyped, Geo!TypeOK
    <3> QED BY <1>a, <1>b, <2>2, <2>3, <3>1, AtLeastPreorder
  <2> QED BY <2>4, <2>5
<1>3. ASSUME NEW s \in sends, NEW again \in BOOLEAN, Geo!Handle(s, again)
      PROVE  Geo!AtLeast(clock'[m], store'[m][k].clock)
  <2> DEFINE existing == store[s.to][s.entry.key]
  <2>1. /\ store' = IF Geo!Wins(s.entry, existing)
                    THEN [store EXCEPT ![s.to][s.entry.key] = Geo!Stored(s.entry, existing)] ELSE store
        /\ clock' = [clock EXCEPT ![s.to] = Geo!Merged(@, s.entry.clock)]
    BY <1>3 DEF Geo!Handle
  <2>2. s.to \in Regions /\ s.entry \in Geo!Entry /\ s.entry.clock \in Geo!Clock /\ s.entry.key \in Keys
    BY DEF GeoTyped, Geo!TypeOK, Geo!Entry
  <2>3. Geo!Stored(s.entry, existing).clock = s.entry.clock
    <3>1. Geo!Stored(s.entry, existing) \in Geo!StoredOf(s.entry)
      BY DEF Geo!Stored, Geo!StatusOf, Geo!StoredOf
    <3> QED BY <2>2, <3>1, StoredOfWrite
  <2> HIDE DEF existing
  <2>4. /\ Geo!Merged(clock[m], s.entry.clock) \in Geo!Clock
        /\ Geo!AtLeast(Geo!Merged(clock[m], s.entry.clock), clock[m])
        /\ Geo!AtLeast(Geo!Merged(clock[m], s.entry.clock), s.entry.clock)
    BY <1>a, <2>2, MergedCovers
  <2>5. clock'[m] = IF m = s.to THEN Geo!Merged(clock[m], s.entry.clock) ELSE clock[m]
    BY <2>1 DEF GeoTyped, Geo!TypeOK
  <2>6. CASE store'[m][k] = store[m][k]
    BY <1>a, <1>b, <2>4, <2>5, <2>6, AtLeastPreorder
  <2>7. CASE store'[m][k] # store[m][k]
    <3>1. m = s.to /\ store'[m][k] = Geo!Stored(s.entry, existing)
      BY <2>1, <2>2, <2>7 DEF GeoTyped, Geo!TypeOK
    <3> QED BY <2>3, <2>4, <2>5, <3>1
  <2> QED BY <2>6, <2>7
<1>4. ASSUME NEW n \in Regions, Geo!Restart(n) PROVE Geo!AtLeast(clock'[m], store'[m][k].clock)
  BY <1>4, <1>b DEF Geo!Restart, GeoTyped, Geo!TypeOK
<1> QED BY <1>1, <1>2, <1>3, <1>4 DEF Geo!Next

\* A node's clock covers all that it stores, restarted or not.
THEOREM ClocksCover == Spec => []ClockCovers
<1>1. Geo!Init => Geo!ClockCovers
  BY DEF Geo!Init, Geo!ClockCovers
<1>2. GeoTyped /\ Geo!ClockCovers /\ [Next]_vars => Geo!ClockCovers'
  BY PartsMove, StepCovers
<1>3. Geo!ClockCovers => ClockCovers
  BY DEF ClockCovers
<1> QED BY <1>1, <1>2, <1>3, PartsBegin, GeoTypedInvariant, PTL DEF Spec

\* A copy never comes back to its origin, and what a copy leaves is not pending.
LEMMA StepTells ==
    GeoTyped /\ Geo!StatusTells /\ [Geo!Next]_geoVars => Geo!StatusTells'
<1> SUFFICES ASSUME GeoTyped, Geo!StatusTells, [Geo!Next]_geoVars,
                    NEW m \in Regions, NEW k \in Keys, store'[m][k] # Geo!None
             PROVE  store'[m][k].status = "pending" <=> store'[m][k].origin = m
  BY DEF Geo!StatusTells
<1>a. store[m][k] # Geo!None => (store[m][k].status = "pending" <=> store[m][k].origin = m)
  BY DEF Geo!StatusTells
<1>1. CASE UNCHANGED geoVars
  BY <1>1, <1>a DEF geoVars
<1>2. ASSUME NEW n \in Regions, NEW key \in Keys, NEW time \in Times, Geo!Write(n, key, time)
      PROVE  store'[m][k].status = "pending" <=> store'[m][k].origin = m
  <2> DEFINE entry == WriteEntry(n, key, time)
  <2>1. store' = [store EXCEPT ![n][key] = entry]
    BY <1>2, WriteMakes
  <2>2. entry.status = "pending" /\ entry.origin = n
    BY DEF WriteEntry
  <2> HIDE DEF entry
  <2> QED BY <1>a, <2>1, <2>2 DEF GeoTyped, Geo!TypeOK
<1>3. ASSUME NEW s \in sends, NEW again \in BOOLEAN, Geo!Handle(s, again)
      PROVE  store'[m][k].status = "pending" <=> store'[m][k].origin = m
  <2> DEFINE existing == store[s.to][s.entry.key]
  <2>1. store' = IF Geo!Wins(s.entry, existing)
                 THEN [store EXCEPT ![s.to][s.entry.key] = Geo!Stored(s.entry, existing)] ELSE store
    BY <1>3 DEF Geo!Handle
  <2>2. s.to # s.entry.origin /\ s.entry \in Geo!Entry
    BY DEF GeoTyped, Geo!TypeOK, SentAway
  <2>3. /\ Geo!Stored(s.entry, existing).status # "pending"
        /\ Geo!Stored(s.entry, existing).origin = s.entry.origin
    BY <2>2 DEF Geo!Stored, Geo!StatusOf, Geo!Entry
  <2> HIDE DEF existing
  <2> QED BY <1>a, <2>1, <2>2, <2>3 DEF GeoTyped, Geo!TypeOK
<1>4. ASSUME NEW n \in Regions, Geo!Restart(n)
      PROVE  store'[m][k].status = "pending" <=> store'[m][k].origin = m
  BY <1>4, <1>a DEF Geo!Restart, GeoTyped, Geo!TypeOK
<1> QED BY <1>1, <1>2, <1>3, <1>4 DEF Geo!Next

\* An entry is pending at its origin, for ever, and nowhere else.
THEOREM StatusesTell == Spec => []StatusTells
<1>1. Geo!Init => Geo!StatusTells
  BY DEF Geo!Init, Geo!StatusTells
<1>2. GeoTyped /\ Geo!StatusTells /\ [Next]_vars => Geo!StatusTells'
  BY PartsMove, StepTells
<1>3. Geo!StatusTells => StatusTells
  BY DEF StatusTells
<1> QED BY <1>1, <1>2, <1>3, PartsBegin, GeoTypedInvariant, PTL DEF Spec

-----------------------------------------------------------------------------
(* Convergence *)

\* Nobody knows of more writes of a node than that node.
KnowsItself ==
    restarted = {} =>
        /\ \A n, m \in Regions : clock[m][n] <= clock[n][n]
        /\ \A n \in Regions : \A w \in written : w.clock[n] <= clock[n][n]

\* So no two writes have one clock.
DistinctClocks ==
    restarted = {} => \A v, w \in written :
        Geo!AtLeast(v.clock, w.clock) /\ Geo!AtLeast(w.clock, v.clock) => v = w

\* A node's clock covers what it handled, and what it stores it handled.
CoversHandled ==
    \A n \in Regions : \A w \in written : w.no \in handled[n] => Geo!AtLeast(clock[n], w.clock)

StoresHandled ==
    \A n \in Regions, key \in Keys : store[n][key] # Geo!None => store[n][key].no \in handled[n]

\* With good clocks a node stores the latest of the writes it handled.
Newest ==
    Geo!GoodTimes /\ restarted = {} =>
        \A n \in Regions : \A w \in written : w.no \in handled[n] =>
            store[n][w.key] # Geo!None /\ w.time <= store[n][w.key].time

GeoInv == GeoTyped /\ KnowsItself /\ DistinctClocks /\ CoversHandled /\ StoresHandled /\ Newest

LEMMA GeoInvInit == Geo!Init => GeoInv
<1> SUFFICES ASSUME Geo!Init PROVE GeoInv
  OBVIOUS
<1>1. KnowsItself /\ DistinctClocks /\ CoversHandled /\ StoresHandled /\ Newest
  BY DEF Geo!Init, KnowsItself, DistinctClocks, CoversHandled, StoresHandled, Newest, Geo!Zero
<1> QED BY <1>1, GeoTypedInit DEF GeoInv

\* Good clocks were good all the time.
LEMMA GoodBefore ==
    ASSUME written \subseteq written', Geo!GoodTimes'
    PROVE  Geo!GoodTimes
BY DEF Geo!GoodTimes, Geo!Dominates, Geo!AtLeast

\* A new write has a clock beyond all others at its own node, covers what its
\* node handled, and is the latest of it.
LEMMA WriteConverges ==
    ASSUME GeoInv, NEW n \in Regions, NEW key \in Keys, NEW time \in Times, Geo!Write(n, key, time)
    PROVE  GeoInv'
<1> DEFINE entry == WriteEntry(n, key, time)
<1>1. /\ entry \in Geo!Entry /\ entry.no = Cardinality(written) + 1
      /\ entry \notin written /\ Cardinality(written) \in Nat /\ entry.key = key
  BY WriteEntryTyped DEF GeoInv, WriteEntry
<1>2. /\ clock' = [clock EXCEPT ![n] = Geo!Incremented(@, n)] /\ clock'[n] = entry.clock
      /\ store' = [store EXCEPT ![n][key] = entry]
      /\ written' = written \cup {entry}
      /\ handled' = [handled EXCEPT ![n] = @ \cup {entry.no}]
      /\ restarted' = restarted
  BY WriteMakes DEF GeoInv
<1> HIDE DEF entry
<1>3. entry.clock = Geo!Incremented(clock[n], n) /\ clock[n] \in Geo!Clock /\ entry.clock \in Geo!Clock
  BY <1>1, <1>2 DEF GeoInv, GeoTyped, Geo!TypeOK, Geo!Entry
<1>4. /\ entry.clock[n] = clock[n][n] + 1
      /\ \A o \in Regions \ {n} : entry.clock[o] = clock[n][o]
      /\ Geo!AtLeast(entry.clock, clock[n])
  BY <1>3, IncrementedCovers
<1>5. \A m, o \in Regions : clock[m][o] \in Nat /\ clock'[m][o] \in Nat
  <2>1. clock \in [Regions -> Geo!Clock] /\ clock' \in [Regions -> Geo!Clock]
    BY WriteTyped DEF GeoInv, GeoTyped, Geo!TypeOK
  <2> QED BY <2>1 DEF Geo!Clock
<1>6. \A w \in written : w \in Geo!Entry /\ w.clock \in Geo!Clock /\ w.no # entry.no /\ w.key \in Keys
  BY <1>1 DEF GeoInv, GeoTyped, Geo!TypeOK, Numbered, Geo!Entry
<1>7. \A m \in Regions : entry.no \notin handled[m]
  BY <1>1 DEF GeoInv, GeoTyped, Numbered
<1>8. restarted = {} => \A w \in written : ~Geo!AtLeast(w.clock, entry.clock)
  <2> SUFFICES ASSUME restarted = {}, NEW w \in written PROVE ~Geo!AtLeast(w.clock, entry.clock)
    OBVIOUS
  <2>1. w.clock[n] <= clock[n][n] /\ w.clock[n] \in Nat
    BY <1>6 DEF GeoInv, KnowsItself, Geo!Clock
  <2> QED BY <1>4, <1>5, <2>1 DEF Geo!AtLeast
<1>9. KnowsItself'
  <2> SUFFICES ASSUME restarted = {}
               PROVE  /\ \A o, m \in Regions : clock'[m][o] <= clock'[o][o]
                      /\ \A o \in Regions : \A w \in written' : w.clock[o] <= clock'[o][o]
    BY <1>2 DEF KnowsItself
  <2>1. \A o \in Regions : clock[o][o] <= clock'[o][o]
    BY <1>2, <1>4, <1>5 DEF GeoInv, GeoTyped, Geo!TypeOK
  <2>2. \A o, m \in Regions : clock[m][o] <= clock[o][o]
    BY DEF GeoInv, KnowsItself
  <2>3. \A o \in Regions : entry.clock[o] <= clock'[o][o]
    BY <1>2, <1>4, <1>5, <2>1, <2>2
  <2>4. \A o, m \in Regions : clock'[m][o] <= clock'[o][o]
    <3> TAKE o, m \in Regions
    <3>1. CASE m = n
      BY <1>2, <2>3, <3>1
    <3>2. CASE m # n
      <4>1. clock'[m] = clock[m]
        BY <1>2, <3>2 DEF GeoInv, GeoTyped, Geo!TypeOK
      <4> QED BY <1>5, <2>1, <2>2, <4>1
    <3> QED BY <3>1, <3>2
  <2>5. ASSUME NEW o \in Regions, NEW w \in written PROVE w.clock[o] <= clock'[o][o]
    <3>1. w.clock[o] <= clock[o][o] /\ w.clock[o] \in Nat
      BY <1>6 DEF GeoInv, KnowsItself, Geo!Clock
    <3> QED BY <1>5, <2>1, <3>1
  <2> QED BY <1>2, <2>3, <2>4, <2>5
<1>10. DistinctClocks'
  BY <1>2, <1>8 DEF GeoInv, DistinctClocks
<1>11. CoversHandled'
  <2> SUFFICES ASSUME NEW m \in Regions, NEW w \in written', w.no \in handled'[m]
               PROVE  Geo!AtLeast(clock'[m], w.clock)
    BY DEF CoversHandled
  <2>1. CASE w = entry
    <3>1. m = n
      BY <1>2, <1>7, <2>1 DEF GeoInv, GeoTyped, Geo!TypeOK
    <3> QED BY <1>2, <1>3, <2>1, <3>1, AtLeastPreorder
  <2>2. CASE w \in written
    <3>1. w.no \in handled[m]
      BY <1>2, <1>6, <2>2 DEF GeoInv, GeoTyped, Geo!TypeOK
    <3>2. Geo!AtLeast(clock[m], w.clock) /\ w.clock \in Geo!Clock
      BY <1>6, <2>2, <3>1 DEF GeoInv, CoversHandled
    <3>3. CASE m = n
      BY <1>2, <1>3, <1>4, <3>2, <3>3, AtLeastPreorder
    <3>4. CASE m # n
      BY <1>2, <3>2, <3>4 DEF GeoInv, GeoTyped, Geo!TypeOK
    <3> QED BY <3>3, <3>4
  <2> QED BY <1>2, <2>1, <2>2
<1>12. StoresHandled'
  BY <1>1, <1>2 DEF GeoInv, GeoTyped, Geo!TypeOK, StoresHandled
<1>13. Newest'
  <2> SUFFICES ASSUME Geo!GoodTimes', restarted = {},
                      NEW m \in Regions, NEW w \in written', w.no \in handled'[m]
               PROVE  store'[m][w.key] # Geo!None /\ w.time <= store'[m][w.key].time
    BY <1>2 DEF Newest
  <2>1. Geo!GoodTimes
    BY <1>2, GoodBefore
  <2>2. entry # Geo!None /\ entry.time \in Nat
    BY <1>1 DEF Geo!None, Geo!Entry
  <2>3. CASE w = entry
    <3>1. m = n
      BY <1>2, <1>7, <2>3 DEF GeoInv, GeoTyped, Geo!TypeOK
    <3>2. store'[m][w.key] = entry
      BY <1>1, <1>2, <2>3, <3>1 DEF GeoInv, GeoTyped, Geo!TypeOK
    <3> QED BY <2>2, <2>3, <3>2
  <2>4. CASE w \in written
    <3>1. w.no \in handled[m] /\ w.key \in Keys /\ w.time \in Nat
      BY <1>2, <1>6, <2>4 DEF GeoInv, GeoTyped, Geo!TypeOK, Geo!Entry
    <3>2. store[m][w.key] # Geo!None /\ w.time <= store[m][w.key].time
      BY <2>1, <2>4, <3>1 DEF GeoInv, Newest
    <3>3. CASE m = n /\ w.key = key
      <4>1. Geo!AtLeast(entry.clock, w.clock)
        <5>1. Geo!AtLeast(clock[n], w.clock) /\ w.clock \in Geo!Clock
          BY <1>6, <2>4, <3>1, <3>3 DEF GeoInv, CoversHandled
        <5> QED BY <1>3, <1>4, <5>1, AtLeastPreorder
      <4>2. Geo!Dominates(entry.clock, w.clock)
        BY <1>8, <2>4, <4>1 DEF Geo!Dominates
      <4>3. entry.time > w.time
        BY <1>1, <1>2, <2>4, <3>3, <4>2 DEF Geo!GoodTimes
      <4>4. store'[m][w.key] = entry
        BY <1>2, <3>3 DEF GeoInv, GeoTyped, Geo!TypeOK
      <4> QED BY <2>2, <3>1, <4>3, <4>4
    <3>4. CASE ~(m = n /\ w.key = key)
      <4>1. store'[m][w.key] = store[m][w.key]
        BY <1>2, <3>1, <3>4 DEF GeoInv, GeoTyped, Geo!TypeOK
      <4> QED BY <3>2, <4>1
    <3> QED BY <3>3, <3>4
  <2> QED BY <1>2, <2>3, <2>4
<1>14. GeoTyped'
  BY WriteTyped DEF GeoInv
<1> QED BY <1>9, <1>10, <1>11, <1>12, <1>13, <1>14 DEF GeoInv

\* A copy that is handled is stored if and only if it is later than what was.
LEMMA HandleConverges ==
    ASSUME GeoInv, NEW s \in sends, NEW again \in BOOLEAN, Geo!Handle(s, again)
    PROVE  GeoInv'
<1> DEFINE p == s.to
           e == s.entry
           x == store[s.to][s.entry.key]
           y == Geo!Stored(s.entry, store[s.to][s.entry.key])
<1>1. /\ p \in Regions /\ e \in written /\ e \in Geo!Entry /\ e.key \in Keys
      /\ e.clock \in Geo!Clock /\ e.time \in Nat
  BY DEF GeoInv, GeoTyped, Geo!TypeOK, SentAway, Geo!Entry
<1>2. /\ store' = IF Geo!Wins(e, x) THEN [store EXCEPT ![p][e.key] = y] ELSE store
      /\ clock' = [clock EXCEPT ![p] = Geo!Merged(@, e.clock)]
      /\ handled' = [handled EXCEPT ![p] = @ \cup {e.no}]
      /\ written' = written /\ restarted' = restarted
  BY DEF Geo!Handle
<1>3. y # Geo!None /\ y.no = e.no /\ y.time = e.time
  <2>1. y \in Geo!StoredOf(e)
    BY DEF Geo!Stored, Geo!StatusOf, Geo!StoredOf
  <2>2. y.no = e.no /\ y.time = e.time
    BY <1>1, <2>1, StoredOfWrite
  <2>3. e.no >= 1
    BY <1>1, FS_CardinalityType DEF GeoInv, GeoTyped, Numbered
  <2> QED BY <2>2, <2>3 DEF Geo!None
<1>x. x # Geo!None => \E w \in written : /\ w.key = e.key /\ w.clock \in Geo!Clock /\ w.time \in Nat
                                     /\ x.no = w.no /\ x.clock = w.clock /\ x.time = w.time
  <2> SUFFICES ASSUME x # Geo!None
               PROVE  \E w \in written : /\ w.key = e.key /\ w.clock \in Geo!Clock /\ w.time \in Nat
                                         /\ x.no = w.no /\ x.clock = w.clock /\ x.time = w.time
    OBVIOUS
  <2>1. PICK w \in written : w.key = e.key /\ x \in Geo!StoredOf(w)
    BY <1>1 DEF GeoInv, GeoTyped, Geo!TypeOK
  <2>2. w \in Geo!Entry /\ w.clock \in Geo!Clock /\ w.time \in Nat
    BY DEF GeoInv, GeoTyped, Geo!TypeOK, Geo!Entry
  <2> QED BY <2>1, <2>2, StoredOfWrite
<1> HIDE DEF p, e, x, y
<1>4. clock[p] \in Geo!Clock
  BY <1>1 DEF GeoInv, GeoTyped, Geo!TypeOK
<1>5. /\ Geo!AtLeast(Geo!Merged(clock[p], e.clock), clock[p])
      /\ Geo!AtLeast(Geo!Merged(clock[p], e.clock), e.clock)
      /\ Geo!Merged(clock[p], e.clock) \in Geo!Clock
      /\ \A o \in Regions : Geo!Merged(clock[p], e.clock)[o] \in {clock[p][o], e.clock[o]}
  BY <1>1, <1>4, MergedCovers
<1>6. clock'[p] = Geo!Merged(clock[p], e.clock) /\ \A m \in Regions \ {p} : clock'[m] = clock[m]
  BY <1>1, <1>2 DEF GeoInv, GeoTyped, Geo!TypeOK
<1>7. GeoTyped'
  BY HandleTyped DEF GeoInv
<1>8. \A m, o \in Regions : clock[m][o] \in Nat /\ clock'[m][o] \in Nat
  <2>1. clock \in [Regions -> Geo!Clock] /\ clock' \in [Regions -> Geo!Clock]
    BY <1>7 DEF GeoInv, GeoTyped, Geo!TypeOK
  <2> QED BY <2>1 DEF Geo!Clock
<1>9. \A w \in written : w.clock \in Geo!Clock
  BY DEF GeoInv, GeoTyped, Geo!TypeOK, Geo!Entry
<1>10. KnowsItself'
  <2> SUFFICES ASSUME restarted = {}
               PROVE  /\ \A o, m \in Regions : clock'[m][o] <= clock'[o][o]
                      /\ \A o \in Regions : \A w \in written : w.clock[o] <= clock'[o][o]
    BY <1>2 DEF KnowsItself
  <2>1. \A o \in Regions : clock[o][o] <= clock'[o][o]
    BY <1>4, <1>5, <1>6, <1>8 DEF Geo!AtLeast
  <2>2. \A o, m \in Regions : clock[m][o] <= clock[o][o]
    BY DEF GeoInv, KnowsItself
  <2>3. \A o \in Regions : \A w \in written : w.clock[o] <= clock[o][o] /\ w.clock[o] \in Nat
    BY <1>9 DEF GeoInv, KnowsItself, Geo!Clock
  <2>4. \A o, m \in Regions : clock'[m][o] <= clock[o][o]
    BY <1>1, <1>5, <1>6, <2>2, <2>3
  <2> QED BY <1>8, <2>1, <2>3, <2>4
<1>11. DistinctClocks'
  BY <1>2 DEF GeoInv, DistinctClocks
<1>12. \A m \in Regions : handled'[m] = IF m = p THEN handled[p] \cup {e.no} ELSE handled[m]
  BY <1>1, <1>2 DEF GeoInv, GeoTyped, Geo!TypeOK
<1>13. \A w \in written : w.no = e.no => w = e
  BY <1>1 DEF GeoInv, GeoTyped, Numbered
<1>14. CoversHandled'
  <2> SUFFICES ASSUME NEW m \in Regions, NEW w \in written, w.no \in handled'[m]
               PROVE  Geo!AtLeast(clock'[m], w.clock)
    BY <1>2 DEF CoversHandled
  <2>1. CASE w.no \in handled[m]
    <3>1. Geo!AtLeast(clock[m], w.clock)
      BY <2>1 DEF GeoInv, CoversHandled
    <3> QED BY <1>4, <1>5, <1>6, <1>9, <3>1, AtLeastPreorder
  <2>2. CASE w.no \notin handled[m]
    BY <1>5, <1>6, <1>12, <1>13, <2>2
  <2> QED BY <2>1, <2>2
<1>15. StoresHandled'
  BY <1>1, <1>2, <1>3, <1>12 DEF GeoInv, GeoTyped, Geo!TypeOK, StoresHandled
<1>16. Newest'
  <2> SUFFICES ASSUME Geo!GoodTimes', restarted = {},
                      NEW m \in Regions, NEW w \in written, w.no \in handled'[m]
               PROVE  store'[m][w.key] # Geo!None /\ w.time <= store'[m][w.key].time
    BY <1>2 DEF Newest
  <2>1. Geo!GoodTimes
    BY <1>2, GoodBefore
  <2>2. w.no \in handled[m] => store[m][w.key] # Geo!None /\ w.time <= store[m][w.key].time
    BY <2>1 DEF GeoInv, Newest
  <2>3. w.key \in Keys /\ w.time \in Nat
    BY DEF GeoInv, GeoTyped, Geo!TypeOK, Geo!Entry
  <2>4. CASE ~(m = p /\ w.key = e.key)
    <3>1. store'[m][w.key] = store[m][w.key]
      BY <1>1, <1>2, <2>3, <2>4 DEF GeoInv, GeoTyped, Geo!TypeOK
    <3>2. w.no \in handled[m]
      BY <1>12, <1>13, <2>4
    <3> QED BY <2>2, <3>1, <3>2
  <2>5. CASE m = p /\ w.key = e.key
    <3>1. CASE Geo!Wins(e, x)
      <4>1. store'[m][w.key] = y
        BY <1>1, <1>2, <2>5, <3>1 DEF GeoInv, GeoTyped, Geo!TypeOK
      <4>2. CASE w = e
        BY <1>1, <1>3, <4>1, <4>2
      <4>3. CASE w # e
        <5>1. w.no \in handled[p]
          BY <1>12, <1>13, <2>5, <4>3
        <5>2. x # Geo!None /\ w.time <= x.time
          BY <2>2, <2>5, <5>1 DEF x, p, e
        <5>3. x.time <= e.time
          <6>1. PICK v \in written : v.key = e.key /\ v.time \in Nat
                                    /\ x.clock = v.clock /\ x.time = v.time
            BY <1>x, <5>2
          <6>2. CASE Geo!Dominates(e.clock, x.clock)
            <7>1. v # e
              BY <6>1, <6>2 DEF Geo!Dominates
            <7> QED BY <1>1, <2>1, <6>1, <6>2, <7>1 DEF Geo!GoodTimes
          <6>3. CASE e.time > x.time
            BY <1>1, <6>1, <6>3
          <6> QED BY <3>1, <5>2, <6>2, <6>3 DEF Geo!Wins
        <5>4. x.time \in Nat
          BY <1>x, <5>2
        <5> QED BY <1>1, <1>3, <2>3, <4>1, <5>2, <5>3, <5>4
      <4> QED BY <4>2, <4>3
    <3>2. CASE ~Geo!Wins(e, x)
      <4>1. store'[m][w.key] = x /\ x # Geo!None
        BY <1>2, <2>5, <3>2 DEF x, p, e, Geo!Wins
      <4>2. CASE w # e
        BY <1>12, <1>13, <2>2, <2>5, <4>1, <4>2 DEF x, p, e
      <4>3. CASE w = e
        <5>1. PICK v \in written : /\ v.key = e.key /\ v.clock \in Geo!Clock /\ v.time \in Nat
                                  /\ x.clock = v.clock /\ x.time = v.time
          BY <1>x, <4>1
        <5>2. ~Geo!Dominates(e.clock, v.clock)
          BY <3>2, <5>1 DEF Geo!Wins
        <5>3. CASE Geo!AtLeast(e.clock, v.clock)
          <6>1. e = v
            BY <1>1, <5>2, <5>3 DEF Geo!Dominates, GeoInv, DistinctClocks
          <6> QED BY <1>1, <4>1, <4>3, <5>1, <6>1
        <5>4. CASE ~Geo!AtLeast(e.clock, v.clock) /\ Geo!AtLeast(v.clock, e.clock)
          <6>1. Geo!Dominates(v.clock, e.clock) /\ v # e
            BY <5>4 DEF Geo!Dominates
          <6>2. v.time > e.time
            BY <1>1, <2>1, <5>1, <6>1 DEF Geo!GoodTimes
          <6> QED BY <1>1, <4>1, <4>3, <5>1, <6>2
        <5>5. CASE ~Geo!AtLeast(e.clock, v.clock) /\ ~Geo!AtLeast(v.clock, e.clock)
          <6>1. ~(e.time > x.time)
            BY <3>2, <5>1, <5>5 DEF Geo!Wins, Geo!Concurrent
          <6> QED BY <1>1, <4>1, <4>3, <5>1, <6>1
        <5> QED BY <5>3, <5>4, <5>5
      <4> QED BY <4>2, <4>3
    <3> QED BY <3>1, <3>2
  <2> QED BY <2>4, <2>5
<1> QED BY <1>7, <1>10, <1>11, <1>14, <1>15, <1>16 DEF GeoInv

LEMMA GeoInvStep == GeoInv /\ [Geo!Next]_geoVars => GeoInv'
<1> SUFFICES ASSUME GeoInv, [Geo!Next]_geoVars PROVE GeoInv'
  OBVIOUS
<1>1. GeoTyped'
  BY GeoTypedStep DEF GeoInv
<1>2. CASE UNCHANGED geoVars
  BY <1>1, <1>2 DEF GeoInv, KnowsItself, DistinctClocks, CoversHandled, StoresHandled, Newest,
                    Geo!GoodTimes, geoVars
<1>3. ASSUME NEW n \in Regions, NEW key \in Keys, NEW time \in Times, Geo!Write(n, key, time)
      PROVE  GeoInv'
  BY <1>3, WriteConverges
<1>4. ASSUME NEW s \in sends, NEW again \in BOOLEAN, Geo!Handle(s, again) PROVE GeoInv'
  BY <1>4, HandleConverges
<1>5. ASSUME NEW n \in Regions, Geo!Restart(n) PROVE GeoInv'
  <2>1. KnowsItself' /\ DistinctClocks' /\ Newest'
    BY <1>5 DEF Geo!Restart, KnowsItself, DistinctClocks, Newest
  <2>2. CoversHandled' /\ StoresHandled'
    BY <1>5 DEF Geo!Restart, GeoInv, GeoTyped, Geo!TypeOK, CoversHandled, StoresHandled
  <2> QED BY <1>1, <2>1, <2>2 DEF GeoInv
<1> QED BY <1>2, <1>3, <1>4, <1>5 DEF Geo!Next

\* Replicas that handled the same writes of a key store the same one: both store
\* the latest of them, and no two have the same time.
LEMMA ConvergedSame == GeoInv => Geo!SameWritesSameValue
<1> SUFFICES ASSUME GeoInv, Geo!GoodTimes, restarted = {},
                    NEW n \in Regions, NEW m \in Regions, NEW key \in Keys,
                    {w \in written : w.no \in handled[n] /\ w.key = key}
                      = {w \in written : w.no \in handled[m] /\ w.key = key}
             PROVE  store[n][key].no = store[m][key].no
  BY DEF Geo!SameWritesSameValue
<1>1. ASSUME NEW o \in Regions, store[o][key] # Geo!None
      PROVE  \E w \in written : /\ w.key = key /\ w.no \in handled[o] /\ w.time \in Nat
                               /\ store[o][key].no = w.no /\ store[o][key].time = w.time
  <2>1. PICK w \in written : w.key = key /\ store[o][key] \in Geo!StoredOf(w)
    BY <1>1 DEF GeoInv, GeoTyped, Geo!TypeOK
  <2>2. w \in Geo!Entry /\ w.time \in Nat
    BY DEF GeoInv, GeoTyped, Geo!TypeOK, Geo!Entry
  <2>3. store[o][key].no = w.no /\ store[o][key].time = w.time
    BY <2>1, <2>2, StoredOfWrite
  <2>4. w.no \in handled[o]
    BY <1>1, <2>3 DEF GeoInv, StoresHandled
  <2> QED BY <2>1, <2>2, <2>3, <2>4
<1>2. CASE store[n][key] = Geo!None /\ store[m][key] = Geo!None
  BY <1>2
<1>3. CASE store[n][key] # Geo!None \/ store[m][key] # Geo!None
  <2>1. store[n][key] # Geo!None /\ store[m][key] # Geo!None
    BY <1>1, <1>3 DEF GeoInv, Newest
  <2>2. PICK v \in written : /\ v.key = key /\ v.no \in handled[n] /\ v.time \in Nat
                            /\ store[n][key].no = v.no /\ store[n][key].time = v.time
    BY <1>1, <2>1
  <2>3. PICK w \in written : /\ w.key = key /\ w.no \in handled[m] /\ w.time \in Nat
                            /\ store[m][key].no = w.no /\ store[m][key].time = w.time
    BY <1>1, <2>1
  <2>4. v.no \in handled[m] /\ w.no \in handled[n]
    BY <2>2, <2>3
  <2>5. v.time <= w.time /\ w.time <= v.time
    BY <2>2, <2>3, <2>4 DEF GeoInv, Newest
  <2>6. v = w
    BY <2>2, <2>3, <2>5 DEF Geo!GoodTimes
  <2> QED BY <2>2, <2>3, <2>6
<1> QED BY <1>2, <1>3

\* What is stored is the latest of what was handled; a write that happened after
\* it would be later.
LEMMA ConvergedNewest == GeoInv => Geo!NeverOlder
<1> SUFFICES ASSUME GeoInv, Geo!GoodTimes, restarted = {},
                    NEW n \in Regions, NEW w \in written, w.no \in handled[n],
                    Geo!Dominates(w.clock, store[n][w.key].clock)
             PROVE  FALSE
  BY DEF Geo!NeverOlder
<1>1. store[n][w.key] # Geo!None /\ w.time <= store[n][w.key].time
  BY DEF GeoInv, Newest
<1>2. w.key \in Keys /\ w.time \in Nat
  BY DEF GeoInv, GeoTyped, Geo!TypeOK, Geo!Entry
<1>3. PICK v \in written : v.key = w.key /\ store[n][w.key] \in Geo!StoredOf(v)
  BY <1>1, <1>2 DEF GeoInv, GeoTyped, Geo!TypeOK
<1>4. v \in Geo!Entry /\ v.time \in Nat
  BY DEF GeoInv, GeoTyped, Geo!TypeOK, Geo!Entry
<1>5. store[n][w.key].clock = v.clock /\ store[n][w.key].time = v.time
  BY <1>3, <1>4, StoredOfWrite
<1>6. w # v
  BY <1>5 DEF Geo!Dominates
<1>7. w.time > v.time
  BY <1>3, <1>5, <1>6 DEF Geo!GoodTimes
<1> QED BY <1>1, <1>2, <1>4, <1>5, <1>7

LEMMA GeoInvariant == Spec => []GeoInv
BY GeoInvInit, GeoInvStep, PartsBegin, PartsMove, PTL DEF Spec

\* Eventual consistency: with good clocks and no restart, replicas that handled
\* the same writes, in whatever order and however often, store the same.
THEOREM ReplicasConverge == Spec => []SameWritesSameValue
<1>1. Geo!SameWritesSameValue => SameWritesSameValue
  BY DEF SameWritesSameValue
<1> QED BY <1>1, GeoInvariant, ConvergedSame, PTL

\* With good clocks and no restart a node never stores a write that happened
\* before another it has handled.
THEOREM NothingOlderStored == Spec => []NeverOlder
<1>1. Geo!NeverOlder => NeverOlder
  BY DEF NeverOlder
<1> QED BY <1>1, GeoInvariant, ConvergedNewest, PTL

=============================================================================
