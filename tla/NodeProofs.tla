------------------------------ MODULE NodeProofs ------------------------------
(***************************************************************************)
(* Theorems about the other parts of a node that MCNode puts together: the *)
(* audit log, the lock commands, the queue, the hash ring and the deadlock *)
(* search, for all sets of clients, ids and nodes and all bounds.  Each    *)
(* part has its own invariant; the steps of the others leave its variables *)
(* alone.                                                                  *)
(***************************************************************************)
EXTENDS DetectorProofs, ReplicatorProofs, CountingFacts

-----------------------------------------------------------------------------
(* The audit log: entries and hashes *)

LEMMA EntryFields ==
    /\ Audit!Garbage \notin Audit!AuditEntry
    /\ \A e \in Audit!AuditEntry : /\ e.sequence \in Nat /\ e.says \in Nat
                                   /\ e.prev \in Audit!Hashes /\ e.hash \in Audit!Hashes
<1>1. Audit!Garbage \notin Audit!AuditEntry
  BY DEF Audit!Garbage, Audit!AuditEntry
<1> QED BY <1>1 DEF Audit!AuditEntry

\* Two entries with the same fields are one.
LEMMA EntriesEqual ==
    ASSUME NEW d \in Audit!AuditEntry, NEW e \in Audit!AuditEntry,
           d.sequence = e.sequence, d.says = e.says, d.prev = e.prev, d.hash = e.hash
    PROVE  d = e
BY DEF Audit!AuditEntry

\* The content that is hashed
LEMMA ContentTyped == \A e \in Audit!AuditEntry : <<e.sequence, e.says>> \in Nat \X Nat
BY EntryFields

\* A hash tells what was hashed, and is not empty.
LEMMA HashesTell ==
    /\ \A e \in Audit!AuditEntry : Audit!Hash(e) \in Audit!Hashes /\ Audit!Hash(e) # <<>>
    /\ \A d, e \in Audit!AuditEntry : Audit!Hash(d) = Audit!Hash(e)
           => d.sequence = e.sequence /\ d.says = e.says /\ d.prev = e.prev
<1> DEFINE content == Nat \X Nat
<1>1. \A e \in Audit!AuditEntry : /\ e.prev \in Seq(content)
                                  /\ <<e.sequence, e.says>> \in content
                                  /\ Audit!Hash(e) = Append(e.prev, <<e.sequence, e.says>>)
  BY EntryFields, ContentTyped DEF Audit!Hash, Audit!Hashes
<1> HIDE DEF content
<1>2. ASSUME NEW e \in Audit!AuditEntry
      PROVE  Audit!Hash(e) \in Seq(content) /\ Audit!Hash(e) # <<>>
  <2>1. PICK s \in Seq(content), c \in content : Audit!Hash(e) = Append(s, c)
    BY <1>1
  <2>2. Append(s, c) \in Seq(content) /\ Len(Append(s, c)) = Len(s) + 1 /\ Len(s) \in Nat
    BY AppendProperties, LenProperties
  <2>3. Len(<<>>) = 0
    OBVIOUS
  <2> QED BY <2>1, <2>2, <2>3
<1>3. ASSUME NEW d \in Audit!AuditEntry, NEW e \in Audit!AuditEntry,
             Audit!Hash(d) = Audit!Hash(e)
      PROVE  d.sequence = e.sequence /\ d.says = e.says /\ d.prev = e.prev
  <2>1. PICK s \in Seq(content), t \in Seq(content), x \in content, y \in content :
            /\ s = d.prev /\ t = e.prev
            /\ x = <<d.sequence, d.says>> /\ y = <<e.sequence, e.says>>
    BY <1>1
  <2>2. Append(s, x) = Append(t, y)
    BY <1>1, <1>3, <2>1
  <2>3. s = t /\ x = y
    BY <2>2, AppendInjective
  <2> QED BY <2>1, <2>3
<1> QED BY <1>2, <1>3 DEF Audit!Hashes, content

\* An entry that is made has a hash; only one that has none is given one.
LEMMA MadeEntry ==
    ASSUME NEW e \in Audit!AuditEntry
    PROVE  /\ Audit!Made(e) \in Audit!AuditEntry
           /\ Audit!Made(e).sequence = e.sequence /\ Audit!Made(e).says = e.says
           /\ Audit!Made(e).prev = e.prev
           /\ e.hash # <<>> => Audit!Made(e) = e
           /\ e.hash = <<>> => Audit!Made(e).hash = Audit!Hash(e)
<1>1. CASE e.hash = <<>>
  <2>1. Audit!Made(e) = [e EXCEPT !.hash = Audit!Hash(e)]
    BY <1>1 DEF Audit!Made, Audit!Missing
  <2>2. Audit!Hash(e) \in Audit!Hashes
    BY HashesTell
  <2> HIDE DEF Audit!Hash, Audit!Hashes
  <2> QED BY <1>1, <2>1, <2>2 DEF Audit!AuditEntry
<1>2. CASE e.hash # <<>>
  BY <1>2 DEF Audit!Made, Audit!Missing
<1> QED BY <1>1, <1>2

\* The entry that comes next is one, and its hash fits.
LEMMA NewEntryTyped ==
    ASSUME Audit!TypeOK
    PROVE  /\ Audit!NewEntry \in Audit!AuditEntry
           /\ Audit!NewEntry.sequence = sequence + 1 /\ Audit!NewEntry.says = logged + 1
           /\ Audit!NewEntry.prev = IF entries = <<>> THEN <<>> ELSE entries[Len(entries)].hash
           /\ Audit!NewEntry.hash = Audit!Hash(Audit!NewEntry)
<1> DEFINE last == IF entries = <<>> THEN <<>> ELSE entries[Len(entries)].hash
           blank == [sequence |-> sequence + 1, says |-> logged + 1, prev |-> last, hash |-> <<>>]
<1>1. Audit!LastHash = last
  BY DEF Audit!LastHash, Audit!Genesis, Audit!Last
<1>2. <<>> \in Audit!Hashes
  BY EmptySeq DEF Audit!Hashes
<1>3. last \in Audit!Hashes
  <2>1. CASE entries = <<>>
    BY <1>2, <2>1
  <2>2. CASE entries # <<>>
    <3>1. entries[Len(entries)] \in Audit!AuditEntry
      BY <2>2, ElementOfSeq, EmptySeq DEF Audit!TypeOK
    <3> QED BY <2>2, <3>1, EntryFields
  <2> QED BY <2>1, <2>2
<1>4. Audit!NewEntry = Audit!Made(blank)
  BY <1>1 DEF Audit!NewEntry, Audit!Missing
<1> HIDE DEF last
<1>5. blank \in Audit!AuditEntry
  BY <1>2, <1>3 DEF Audit!AuditEntry, Audit!TypeOK
<1>6. /\ blank.sequence = sequence + 1 /\ blank.says = logged + 1
      /\ blank.prev = last /\ blank.hash = <<>>
  OBVIOUS
<1> HIDE DEF blank
<1>7. /\ Audit!Made(blank) \in Audit!AuditEntry
      /\ Audit!Made(blank).sequence = blank.sequence /\ Audit!Made(blank).says = blank.says
      /\ Audit!Made(blank).prev = blank.prev /\ Audit!Made(blank).hash = Audit!Hash(blank)
  BY <1>5, <1>6, MadeEntry
<1>8. Audit!Hash(Audit!Made(blank)) = Audit!Hash(blank)
  BY <1>7 DEF Audit!Hash
<1> QED BY <1>4, <1>6, <1>7, <1>8 DEF last

-----------------------------------------------------------------------------
(* The audit log: steps *)

\* The front of the file without a broken line is parsed.
LEMMA ParsedFront ==
    ASSUME file \in Seq(Audit!AuditEntry \cup {Audit!Garbage})
    PROVE  \E k \in 0 .. Len(file) :
               /\ Audit!Parsed = [i \in 1 .. k |-> Audit!Made(file[i])]
               /\ \A i \in 1 .. k : file[i] # Audit!Garbage
               /\ k = Len(file) \/ file[k + 1] = Audit!Garbage
<1> DEFINE good == {k \in 0 .. Len(file) : \A i \in 1 .. k : file[i] # Audit!Garbage}
           k == CHOOSE k \in good : \A j \in good : j <= k
<1>1. Len(file) \in Nat
  BY LenProperties
<1>2. \E m \in good : \A j \in good : j <= m
  <2>1. good \in SUBSET (0 .. Len(file)) /\ 0 \in good
    BY <1>1
  <2> QED BY <1>1, <2>1, GreatestExists
<1> HIDE DEF good
<1>3. k \in good /\ \A j \in good : j <= k
  BY <1>2
<1>4. Audit!Parsed = [i \in 1 .. k |-> Audit!Made(file[i])]
  BY DEF Audit!Parsed, good
<1> HIDE DEF k
<1>5. k = Len(file) \/ file[k + 1] = Audit!Garbage
  <2> SUFFICES ASSUME k # Len(file), file[k + 1] # Audit!Garbage PROVE FALSE
    OBVIOUS
  <2>1. k + 1 \in good
    BY <1>1, <1>3 DEF good
  <2> QED BY <1>1, <1>3, <2>1 DEF good
<1> QED BY <1>3, <1>4, <1>5 DEF good

\* All lines but the last one.
LEMMA FrontOfFile ==
    ASSUME NEW S, NEW s \in Seq(S), s # <<>>
    PROVE  /\ SubSeq(s, 1, Len(s) - 1) \in Seq(S)
           /\ Len(SubSeq(s, 1, Len(s) - 1)) = Len(s) - 1
           /\ \A i \in 1 .. Len(s) - 1 : SubSeq(s, 1, Len(s) - 1)[i] = s[i]
<1>1. Len(s) \in Nat \ {0}
  BY EmptySeq, LenProperties
<1>2. PICK k \in Nat : k = Len(s) - 1
  BY <1>1
<1>3. \A i \in 1 .. k : s[i] \in S
  BY <1>1, <1>2, ElementOfSeq
<1>4. 1 \in Int /\ k \in Int
  OBVIOUS
<1>5. /\ SubSeq(s, 1, k) \in Seq(S) /\ Len(SubSeq(s, 1, k)) = k
      /\ \A i \in 1 .. k : SubSeq(s, 1, k)[i] = s[i]
  BY <1>3, <1>4, SubSeqProperties
<1> QED BY <1>2, <1>5

\* A line that comes behind a torn one is lost in it; otherwise it is appended.
LEMMA ExtendedFile ==
    ASSUME Audit!TypeOK, NEW line
    PROVE  Audit!Extended(line) = IF torn THEN file ELSE Append(file, line)
<1>1. CASE torn
  <2> DEFINE lines == Audit!AuditEntry \cup {Audit!Garbage}
             front == SubSeq(file, 1, Len(file) - 1)
  <2>1. /\ file \in Seq(lines) /\ file # <<>> /\ Len(file) \in Nat \ {0}
        /\ file[Len(file)] = Audit!Garbage
    BY <1>1, EmptySeq DEF Audit!TypeOK, Audit!Last
  <2>2. Audit!Extended(line) = Append(front, Audit!Garbage)
    BY <1>1 DEF Audit!Extended, Audit!Front
  <2> HIDE DEF lines
  <2>3. /\ front \in Seq(lines) /\ Len(front) = Len(file) - 1
        /\ \A i \in 1 .. Len(file) - 1 : front[i] = file[i]
    BY <2>1, FrontOfFile
  <2> HIDE DEF front
  <2>4. Audit!Garbage \in lines
    BY DEF lines
  <2>5. /\ Append(front, Audit!Garbage) \in Seq(lines)
        /\ Len(Append(front, Audit!Garbage)) = Len(file)
        /\ \A i \in 1 .. Len(file) : Append(front, Audit!Garbage)[i] = file[i]
    BY <2>1, <2>3, <2>4, AppendProperties
  <2>6. Append(front, Audit!Garbage) = file
    BY <2>1, <2>5, SeqEqual
  <2> QED BY <1>1, <2>2, <2>6
<1>2. CASE ~torn
  BY <1>2 DEF Audit!Extended
<1> QED BY <1>1, <1>2

\* log, whatever becomes of the write: the entry is in memory, and a line for it,
\* whole or broken, is in the file or nothing is.
LEMMA LogStep ==
    ASSUME Audit!TypeOK, Audit!Log \/ Audit!LogNotWritten \/ Audit!LogTorn
    PROVE  /\ entries' = Append(entries, Audit!NewEntry)
           /\ sequence' = sequence + 1 /\ logged' = logged + 1
           /\ genuine' = IF entries = <<>> \/ entries[Len(entries)] \in genuine
                         THEN genuine \cup {Audit!NewEntry} ELSE genuine
           /\ \/ /\ Audit!Log /\ torn' = FALSE
                 /\ file' = IF torn THEN file ELSE Append(file, Audit!NewEntry)
                 /\ sound' = IF sound = logged THEN sound + 1 ELSE sound
              \/ Audit!LogNotWritten /\ UNCHANGED <<file, torn, sound>>
              \/ /\ Audit!LogTorn /\ torn' = TRUE /\ UNCHANGED sound
                 /\ file' = IF torn THEN file ELSE Append(file, Audit!Garbage)
           /\ UNCHANGED <<restarts, changes>>
BY ExtendedFile DEF Audit!Log, Audit!LogNotWritten, Audit!LogTorn, Audit!Chained, Audit!Last

\* A line that was changed is still an entry, with the number it had.
LEMMA AlterStep ==
    ASSUME Audit!TypeOK, NEW n \in DOMAIN file, Audit!Alter(n)
    PROVE  /\ \E line \in Audit!AuditEntry :
                  file' = [file EXCEPT ![n] = line] /\ line.sequence = file[n].sequence
           /\ file[n] \in Audit!AuditEntry /\ changes' = changes + 1
           /\ UNCHANGED <<entries, sequence, torn, logged, restarts, sound, genuine>>
<1> DEFINE lines == Audit!AuditEntry \cup {Audit!Garbage}
<1>1. /\ file \in Seq(lines) /\ Len(file) \in Nat /\ DOMAIN file = 1 .. Len(file)
      /\ file[n] # Audit!Garbage
  BY LenProperties DEF Audit!TypeOK, Audit!Alter
<1>2. \A i \in DOMAIN file : file[i] # Audit!Garbage => file[i] \in Audit!AuditEntry
  BY <1>1, ElementOfSeq
<1>3. file[n] \in Audit!AuditEntry
  BY <1>1, <1>2
<1>4. Audit!HashBefore(n) \subseteq Audit!Hashes
  <2> SUFFICES ASSUME n > 1, file[n - 1] # Audit!Garbage
               PROVE  Audit!Made(file[n - 1]).hash \in Audit!Hashes
    BY DEF Audit!HashBefore
  <2>1. n - 1 \in DOMAIN file
    BY <1>1
  <2> QED BY <1>2, <2>1, MadeEntry, EntryFields
<1>5. PICK says \in {file[n].says, Audit!Other},
           prev \in {file[n].prev} \cup Audit!HashBefore(n) :
          LET line == [file[n] EXCEPT !.says = says, !.prev = prev]
          IN \E hash \in {line.hash, Audit!Missing, Audit!Hash(line)} :
                 file' = [file EXCEPT ![n] = [line EXCEPT !.hash = hash]]
  BY DEF Audit!Alter
<1> DEFINE line == [file[n] EXCEPT !.says = says, !.prev = prev]
<1>6. line \in Audit!AuditEntry /\ line.sequence = file[n].sequence
  <2>1. says \in Nat /\ prev \in Audit!Hashes
    BY <1>3, <1>4, EntryFields DEF Audit!Other
  <2> HIDE DEF Audit!Hashes
  <2> QED BY <1>3, <2>1 DEF Audit!AuditEntry
<1> HIDE DEF line
<1>7. PICK hash \in {line.hash, Audit!Missing, Audit!Hash(line)} :
          file' = [file EXCEPT ![n] = [line EXCEPT !.hash = hash]]
  BY <1>5 DEF line
<1>8. hash \in Audit!Hashes
  <2>1. Audit!Missing \in Audit!Hashes
    BY EmptySeq DEF Audit!Missing, Audit!Hashes
  <2> QED BY <1>6, <2>1, HashesTell, EntryFields
<1>9. /\ [line EXCEPT !.hash = hash] \in Audit!AuditEntry
      /\ [line EXCEPT !.hash = hash].sequence = file[n].sequence
  BY <1>6, <1>8 DEF Audit!AuditEntry
<1>10. /\ UNCHANGED <<entries, sequence, torn, logged, restarts, sound, genuine>>
       /\ changes' = changes + 1
  BY DEF Audit!Alter, Audit!Change, Audit!history
<1> QED BY <1>3, <1>7, <1>9, <1>10

\* A file whose last line was cut off
LEMMA CutStep ==
    ASSUME Audit!TypeOK, Audit!Cut
    PROVE  /\ file' \in Seq(Audit!AuditEntry \cup {Audit!Garbage})
           /\ Len(file) \in Nat \ {0} /\ Len(file') = Len(file) - 1
           /\ \A i \in 1 .. Len(file) - 1 : file'[i] = file[i]
           /\ torn' = FALSE /\ changes' = changes + 1
           /\ UNCHANGED <<entries, sequence, logged, restarts, sound, genuine>>
<1> DEFINE lines == Audit!AuditEntry \cup {Audit!Garbage}
<1>1. /\ file \in Seq(lines) /\ file # <<>> /\ file' = SubSeq(file, 1, Len(file) - 1)
      /\ Len(file) \in Nat \ {0}
  BY EmptySeq DEF Audit!TypeOK, Audit!Cut, Audit!Front
<1>2. /\ torn' = FALSE /\ changes' = changes + 1
      /\ UNCHANGED <<entries, sequence, logged, restarts, sound, genuine>>
  BY DEF Audit!Cut, Audit!Change, Audit!history
<1> HIDE DEF lines
<1>3. /\ file' \in Seq(lines) /\ Len(file') = Len(file) - 1
      /\ \A i \in 1 .. Len(file) - 1 : file'[i] = file[i]
  BY <1>1, FrontOfFile
<1> QED BY <1>1, <1>2, <1>3 DEF lines

\* Sequence numbers grow along the front of the file that can be parsed, and the
\* next one is behind them.
FileGrows ==
    /\ \A i, j \in DOMAIN file :
           i < j /\ (\A k \in 1 .. j : file[k] # Audit!Garbage)
               => file[i].sequence < file[j].sequence
    /\ \A j \in DOMAIN file :
           (\A k \in 1 .. j : file[k] # Audit!Garbage) => file[j].sequence <= sequence

AuditInv == Audit!TypeOK /\ FileGrows /\ Audit!SequenceGrows

\* The file is loaded up to its first broken line, and the sequence goes on from
\* the last number in it.
LEMMA RestartStep ==
    ASSUME Audit!TypeOK, FileGrows, Audit!Restart
    PROVE  \E k \in 0 .. Len(file) :
               /\ entries' \in Seq(Audit!AuditEntry) /\ Len(entries') = k
               /\ \A i \in 1 .. k : file[i] \in Audit!AuditEntry /\ entries'[i] = Audit!Made(file[i])
               /\ k = Len(file) \/ file[k + 1] = Audit!Garbage
               /\ sequence' = IF k = 0 THEN 0 ELSE file[k].sequence
<1> DEFINE lines == Audit!AuditEntry \cup {Audit!Garbage}
<1>1. file \in Seq(lines) /\ Len(file) \in Nat /\ DOMAIN file = 1 .. Len(file)
  BY LenProperties DEF Audit!TypeOK
<1>2. PICK k \in 0 .. Len(file) :
          /\ Audit!Parsed = [i \in 1 .. k |-> Audit!Made(file[i])]
          /\ \A i \in 1 .. k : file[i] # Audit!Garbage
          /\ k = Len(file) \/ file[k + 1] = Audit!Garbage
  BY <1>1, ParsedFront
<1>3. \A i \in 1 .. k : file[i] \in Audit!AuditEntry
  <2>1. \A i \in 1 .. Len(file) : file[i] \in lines
    BY <1>1, ElementOfSeq
  <2>2. \A i \in 1 .. k : i \in 1 .. Len(file)
    BY <1>1
  <2>3. \A i \in 1 .. k : file[i] # Audit!Garbage
    BY <1>2
  <2> QED BY <2>1, <2>2, <2>3
<1> DEFINE front == [i \in 1 .. k |-> Audit!Made(file[i])]
<1>4. front \in Seq(Audit!AuditEntry) /\ Len(front) = k /\ DOMAIN front = 1 .. k
  <2>1. \A i \in 1 .. k : Audit!Made(file[i]) \in Audit!AuditEntry
    BY <1>3, MadeEntry
  <2>2. k \in Nat
    BY <1>1
  <2>3. front \in Seq(Audit!AuditEntry)
    BY <2>1, <2>2, IsASeq
  <2> QED BY <2>2, <2>3, LenProperties
<1>5. entries' = front /\ sequence' = Audit!LoadedSequence(front)
  BY <1>2 DEF Audit!Restart
<1>6. \A i \in 1 .. k : front[i] = Audit!Made(file[i]) /\ front[i].sequence = file[i].sequence
  BY <1>3, MadeEntry
<1> HIDE DEF front
<1>7. \A i \in 1 .. k : file[i].sequence \in Nat /\ file[i].sequence <= file[k].sequence
  <2>1. \A i \in 1 .. k : file[i].sequence \in Nat
    BY <1>3, EntryFields
  <2>2. ASSUME NEW i \in 1 .. k, i # k
        PROVE  file[i].sequence < file[k].sequence
    <3>1. i \in DOMAIN file /\ k \in DOMAIN file /\ i < k
      BY <1>1, <2>2
    <3> QED BY <1>2, <3>1 DEF FileGrows
  <2> QED BY <2>1, <2>2
<1>8. Audit!LoadedSequence(front) = IF k = 0 THEN 0 ELSE file[k].sequence
  <2> DEFINE numbers == {0} \cup {front[i].sequence : i \in DOMAIN front}
             Greatest(s) == s \in numbers /\ \A i \in DOMAIN front : front[i].sequence <= s
             last == IF k = 0 THEN 0 ELSE file[k].sequence
  <2>1. Greatest(last)
    BY <1>1, <1>4, <1>6, <1>7
  <2>2. \A s : Greatest(s) => s = last
    BY <1>1, <1>4, <1>6, <1>7
  <2>3. Audit!LoadedSequence(front) =
            CHOOSE s \in numbers : \A i \in DOMAIN front : front[i].sequence <= s
    BY DEF Audit!LoadedSequence
  <2> HIDE DEF numbers, last
  <2> QED BY <2>1, <2>2, <2>3 DEF last
<1> QED BY <1>2, <1>3, <1>4, <1>5, <1>6, <1>8

LEMMA AuditTyped ==
    ASSUME Audit!TypeOK, FileGrows, [Audit!Next]_auditVars
    PROVE  Audit!TypeOK'
<1> DEFINE lines == Audit!AuditEntry \cup {Audit!Garbage}
<1>1. /\ entries \in Seq(Audit!AuditEntry) /\ file \in Seq(lines)
      /\ sequence \in Nat /\ logged \in Nat /\ restarts \in Nat /\ changes \in Nat
      /\ torn \in BOOLEAN
      /\ torn => file # <<>> /\ file[Len(file)] = Audit!Garbage
      /\ sound \in 0 .. logged /\ genuine \subseteq Audit!AuditEntry
  BY DEF Audit!TypeOK, Audit!Last
<1> HIDE DEF lines
<1>2. ASSUME entries' \in Seq(Audit!AuditEntry), file' \in Seq(lines),
             sequence' \in Nat, logged' \in Nat, restarts' \in Nat, changes' \in Nat,
             torn' \in BOOLEAN,
             torn' => file' # <<>> /\ file'[Len(file')] = Audit!Garbage,
             sound' \in 0 .. logged', genuine' \subseteq Audit!AuditEntry
      PROVE  Audit!TypeOK'
  BY <1>2 DEF Audit!TypeOK, Audit!Last, lines
<1>3. CASE Audit!Log \/ Audit!LogNotWritten \/ Audit!LogTorn
  <2>1. Audit!NewEntry \in Audit!AuditEntry
    BY NewEntryTyped
  <2>2. /\ entries' = Append(entries, Audit!NewEntry)
        /\ sequence' = sequence + 1 /\ logged' = logged + 1
        /\ UNCHANGED <<restarts, changes>> /\ torn' \in BOOLEAN
        /\ sound' \in {sound, sound + 1} /\ genuine' \subseteq genuine \cup {Audit!NewEntry}
        /\ \/ ~torn' /\ file' \in {file, Append(file, Audit!NewEntry)}
           \/ torn' = torn /\ file' = file
           \/ torn /\ file' = file
           \/ file' = Append(file, Audit!Garbage)
    BY <1>1, <1>3, LogStep
  <2>3. entries' \in Seq(Audit!AuditEntry)
    BY <1>1, <2>1, <2>2, AppendProperties
  <2>4. \A l \in lines : /\ Append(file, l) \in Seq(lines)
                         /\ Append(file, l) # <<>>
                         /\ Append(file, l)[Len(Append(file, l))] = l
    BY <1>1, AppendProperties, LenProperties, EmptySeq
  <2>5. Audit!Garbage \in lines /\ Audit!NewEntry \in lines
    BY <2>1 DEF lines
  <2>6. file' \in Seq(lines)
    BY <1>1, <2>2, <2>4, <2>5
  <2>7. torn' => file' # <<>> /\ file'[Len(file')] = Audit!Garbage
    BY <1>1, <2>2, <2>4, <2>5
  <2>8. sound' \in 0 .. logged' /\ genuine' \subseteq Audit!AuditEntry
    BY <1>1, <2>1, <2>2
  <2> QED BY <1>1, <1>2, <2>2, <2>3, <2>6, <2>7, <2>8
<1>4. CASE Audit!Restart
  <2>1. PICK k \in 0 .. Len(file) :
            /\ entries' \in Seq(Audit!AuditEntry) /\ Len(entries') = k
            /\ \A i \in 1 .. k : file[i] \in Audit!AuditEntry
            /\ sequence' = IF k = 0 THEN 0 ELSE file[k].sequence
    BY <1>4, RestartStep
  <2>2. sequence' \in Nat
    <3>1. k # 0 => file[k] \in Audit!AuditEntry
      BY <2>1, <1>1, LenProperties
    <3> QED BY <2>1, <3>1, EntryFields
  <2> QED BY <1>1, <1>2, <1>4, <2>1, <2>2 DEF Audit!Restart, Audit!history
<1>5. ASSUME NEW n \in DOMAIN file, Audit!Alter(n)
      PROVE  Audit!TypeOK'
  <2>1. PICK line \in Audit!AuditEntry : file' = [file EXCEPT ![n] = line]
    BY <1>5, AlterStep
  <2>2. line \in lines /\ line # Audit!Garbage /\ n \in 1 .. Len(file) /\ Len(file) \in Nat
    BY <1>1, EntryFields, LenProperties DEF lines
  <2>3. /\ file' \in Seq(lines) /\ Len(file') = Len(file)
        /\ \A j \in 1 .. Len(file) : file'[j] = IF j = n THEN line ELSE file[j]
    BY <1>1, <2>1, <2>2, ExceptSeq
  <2>4. /\ file[n] # Audit!Garbage /\ changes' = changes + 1
        /\ UNCHANGED <<entries, sequence, torn, logged, restarts, sound, genuine>>
    BY <1>5, AlterStep, EntryFields
  <2>5. torn' => file' # <<>> /\ file'[Len(file')] = Audit!Garbage
    <3> SUFFICES ASSUME torn PROVE file' # <<>> /\ file'[Len(file')] = Audit!Garbage
      BY <2>4
    <3>1. file[Len(file)] = Audit!Garbage /\ Len(file) # n
      BY <1>1, <2>4
    <3>2. file'[Len(file)] = file[Len(file)]
      BY <2>2, <2>3, <3>1
    <3>3. file' # <<>>
      BY <2>2, <2>3
    <3> QED BY <2>3, <3>1, <3>2, <3>3
  <2> QED BY <1>1, <1>2, <2>3, <2>4, <2>5
<1>6. CASE Audit!Cut
  <2>1. /\ file' \in Seq(lines) /\ torn' = FALSE /\ changes' = changes + 1
        /\ UNCHANGED <<entries, sequence, logged, restarts, sound, genuine>>
    BY <1>6, CutStep DEF lines
  <2>2. ~torn' /\ torn' \in BOOLEAN
    BY <2>1
  <2>3. changes' \in Nat
    BY <1>1, <2>1
  <2>4. /\ entries' = entries /\ sequence' = sequence /\ logged' = logged
        /\ restarts' = restarts /\ sound' = sound /\ genuine' = genuine
    BY <2>1
  <2> QED BY <1>1, <1>2, <2>1, <2>2, <2>3, <2>4
<1>7. CASE UNCHANGED auditVars
  BY <1>1, <1>2, <1>7 DEF auditVars
<1> QED BY <1>3, <1>4, <1>5, <1>6, <1>7 DEF Audit!Next

-----------------------------------------------------------------------------
(* The audit log: sequence numbers *)

\* Behind the last entry comes one with the next number.
LEMMA AppendedGrows ==
    ASSUME NEW s \in Seq(Audit!AuditEntry), NEW e \in Audit!AuditEntry,
           \A i, j \in DOMAIN s : i < j => s[i].sequence < s[j].sequence,
           \A i \in DOMAIN s : s[i].sequence < e.sequence
    PROVE  \A i, j \in DOMAIN Append(s, e) :
               i < j => Append(s, e)[i].sequence < Append(s, e)[j].sequence
<1>1. /\ Len(s) \in Nat /\ DOMAIN s = 1 .. Len(s)
      /\ DOMAIN Append(s, e) = 1 .. Len(s) + 1
      /\ \A i \in 1 .. Len(s) : Append(s, e)[i] = s[i]
      /\ Append(s, e)[Len(s) + 1] = e
  BY LenProperties, AppendProperties
<1> SUFFICES ASSUME NEW i \in 1 .. Len(s) + 1, NEW j \in 1 .. Len(s) + 1, i < j
             PROVE  Append(s, e)[i].sequence < Append(s, e)[j].sequence
  BY <1>1
<1>2. i \in 1 .. Len(s) /\ Append(s, e)[i] = s[i]
  BY <1>1
<1>3. CASE j = Len(s) + 1
  BY <1>1, <1>2, <1>3
<1>4. CASE j # Len(s) + 1
  BY <1>1, <1>2, <1>4
<1> QED BY <1>3, <1>4

\* Lines that keep their numbers, from the first on, keep FileGrows.
LEMMA ShorterGrows ==
    ASSUME Audit!TypeOK, FileGrows, NEW n \in Nat, n <= Len(file),
           DOMAIN file' = 1 .. n, sequence' >= sequence, sequence' \in Nat,
           \A i \in 1 .. n : file'[i] # Audit!Garbage
               => file[i] # Audit!Garbage /\ file'[i].sequence = file[i].sequence
    PROVE  FileGrows'
<1>1. Len(file) \in Nat /\ DOMAIN file = 1 .. Len(file) /\ sequence \in Nat
  BY LenProperties DEF Audit!TypeOK
<1>2. \A i \in DOMAIN file : file[i] # Audit!Garbage => file[i].sequence \in Nat
  <2>1. \A i \in DOMAIN file : file[i] \in Audit!AuditEntry \cup {Audit!Garbage}
    BY <1>1, ElementOfSeq DEF Audit!TypeOK
  <2> QED BY <2>1, EntryFields
<1>3. (Audit!Garbage)' = Audit!Garbage
  BY DEF Audit!Garbage
<1>4. ASSUME NEW j \in 1 .. n, \A k \in 1 .. j : file'[k] # Audit!Garbage
      PROVE  /\ j \in DOMAIN file /\ \A k \in 1 .. j : file[k] # Audit!Garbage
             /\ \A k \in 1 .. j : file'[k].sequence = file[k].sequence
  <2>1. \A k \in 1 .. j : k \in 1 .. n
    OBVIOUS
  <2>2. j \in DOMAIN file
    BY <1>1
  <2> QED BY <1>4, <2>1, <2>2
<1>5. ASSUME NEW i \in 1 .. n, NEW j \in 1 .. n, i < j, \A k \in 1 .. j : file'[k] # Audit!Garbage
      PROVE  file'[i].sequence < file'[j].sequence
  <2>1. /\ i \in DOMAIN file /\ j \in DOMAIN file /\ i \in 1 .. j /\ j \in 1 .. j
        /\ \A k \in 1 .. j : file[k] # Audit!Garbage
    BY <1>1, <1>4, <1>5
  <2>2. file[i].sequence < file[j].sequence
    BY <1>5, <2>1 DEF FileGrows
  <2> QED BY <1>4, <1>5, <2>1, <2>2
<1>6. ASSUME NEW j \in 1 .. n, \A k \in 1 .. j : file'[k] # Audit!Garbage
      PROVE  file'[j].sequence <= sequence'
  <2>1. /\ j \in DOMAIN file /\ j \in 1 .. j
        /\ \A k \in 1 .. j : file[k] # Audit!Garbage
        /\ file'[j].sequence = file[j].sequence
    BY <1>4, <1>6
  <2>2. file[j].sequence <= sequence /\ file[j].sequence \in Nat
    BY <1>2, <2>1 DEF FileGrows
  <2> QED BY <1>1, <2>1, <2>2
<1> QED BY <1>3, <1>5, <1>6 DEF FileGrows

\* A line that is written: the numbers in the file grow up to its first broken one.
LEMMA WrittenGrows ==
    ASSUME Audit!TypeOK, FileGrows, NEW line \in {Audit!NewEntry, Audit!Garbage},
           file' = Append(file, line), sequence' = sequence + 1
    PROVE  FileGrows'
<1> DEFINE lines == Audit!AuditEntry \cup {Audit!Garbage}
<1>1. file \in Seq(lines) /\ line \in lines /\ sequence \in Nat
  BY NewEntryTyped DEF Audit!TypeOK
<1> HIDE DEF lines
<1>2. /\ Len(file) \in Nat /\ DOMAIN file = 1 .. Len(file)
      /\ DOMAIN file' = 1 .. Len(file) + 1
      /\ \A i \in 1 .. Len(file) : file'[i] = file[i]
      /\ file'[Len(file) + 1] = line
  BY <1>1, LenProperties, AppendProperties
<1>3. line # Audit!Garbage => line.sequence = sequence + 1
  BY NewEntryTyped
<1>4. \A i \in 1 .. Len(file) : file[i] # Audit!Garbage => file[i].sequence \in Nat
  <2>1. \A i \in 1 .. Len(file) : file[i] \in lines
    BY <1>1, ElementOfSeq
  <2> QED BY <2>1, EntryFields DEF lines
<1>5. (Audit!Garbage)' = Audit!Garbage
  BY DEF Audit!Garbage
<1>6. ASSUME NEW j \in 1 .. Len(file), \A k \in 1 .. j : file'[k] # Audit!Garbage
      PROVE  /\ \A k \in 1 .. j : file[k] # Audit!Garbage /\ file'[k] = file[k]
             /\ file[j].sequence <= sequence /\ file[j].sequence \in Nat
  <2>1. \A k \in 1 .. j : k \in 1 .. Len(file)
    BY <1>2
  <2>2. \A k \in 1 .. j : file[k] # Audit!Garbage /\ file'[k] = file[k]
    BY <1>2, <1>6, <2>1
  <2>3. j \in 1 .. j
    OBVIOUS
  <2> QED BY <1>2, <1>4, <2>2, <2>3 DEF FileGrows
<1>7. ASSUME NEW i \in 1 .. Len(file) + 1, NEW j \in 1 .. Len(file) + 1, i < j,
             \A k \in 1 .. j : file'[k] # Audit!Garbage
      PROVE  file'[i].sequence < file'[j].sequence
  <2>1. i \in 1 .. Len(file)
    BY <1>2, <1>7
  <2>2. \A k \in 1 .. i : k \in 1 .. j
    BY <1>7
  <2>3. file'[i] = file[i] /\ file[i].sequence <= sequence /\ file[i].sequence \in Nat
    BY <1>2, <1>6, <1>7, <2>1, <2>2
  <2>4. CASE j = Len(file) + 1
    <3>1. file'[j] = line /\ line # Audit!Garbage
      BY <1>2, <1>7, <2>4
    <3> QED BY <1>1, <1>3, <2>3, <3>1
  <2>5. CASE j # Len(file) + 1
    <3>1. j \in 1 .. Len(file)
      BY <1>2, <2>5
    <3>2. (\A k \in 1 .. j : file[k] # Audit!Garbage) /\ file'[j] = file[j]
      BY <1>2, <1>6, <1>7, <3>1
    <3> QED BY <1>2, <1>7, <2>1, <2>3, <3>1, <3>2 DEF FileGrows
  <2> QED BY <2>4, <2>5
<1>8. ASSUME NEW j \in 1 .. Len(file) + 1, \A k \in 1 .. j : file'[k] # Audit!Garbage
      PROVE  file'[j].sequence <= sequence'
  <2>1. CASE j = Len(file) + 1
    <3>1. file'[j] = line /\ line # Audit!Garbage
      BY <1>2, <1>8, <2>1
    <3> QED BY <1>1, <1>3, <3>1
  <2>2. CASE j # Len(file) + 1
    <3>1. j \in 1 .. Len(file)
      BY <1>2, <2>2
    <3> QED BY <1>1, <1>2, <1>6, <1>8, <3>1
  <2> QED BY <2>1, <2>2
<1> QED BY <1>2, <1>5, <1>7, <1>8 DEF FileGrows

LEMMA AuditInvStep ==
    ASSUME AuditInv, [Audit!Next]_auditVars
    PROVE  AuditInv'
<1>1. Audit!TypeOK /\ FileGrows /\ Audit!SequenceGrows
  BY DEF AuditInv
<1>2. Audit!TypeOK'
  BY <1>1, AuditTyped
<1>3. /\ entries \in Seq(Audit!AuditEntry) /\ sequence \in Nat
      /\ Len(file) \in Nat /\ DOMAIN file = 1 .. Len(file)
      /\ file \in Seq(Audit!AuditEntry \cup {Audit!Garbage})
  BY <1>1, LenProperties DEF Audit!TypeOK
<1>4. \A i \in DOMAIN entries : entries[i].sequence \in Nat
  <2>1. \A i \in DOMAIN entries : entries[i] \in Audit!AuditEntry
    BY <1>3, ElementOfSeq, LenProperties
  <2> QED BY <2>1, EntryFields
<1>5. (Audit!Garbage)' = Audit!Garbage
  BY DEF Audit!Garbage
<1>6. CASE Audit!Log \/ Audit!LogNotWritten \/ Audit!LogTorn
  <2>1. /\ entries' = Append(entries, Audit!NewEntry) /\ sequence' = sequence + 1
        /\ \/ file' = file \/ file' = Append(file, Audit!NewEntry)
           \/ file' = Append(file, Audit!Garbage)
    BY <1>1, <1>6, LogStep
  <2>2. Audit!NewEntry \in Audit!AuditEntry /\ Audit!NewEntry.sequence = sequence + 1
    BY <1>1, NewEntryTyped
  <2>3. Audit!SequenceGrows'
    <3>1. /\ \A i, j \in DOMAIN entries : i < j => entries[i].sequence < entries[j].sequence
          /\ \A i \in DOMAIN entries : entries[i].sequence <= sequence
      BY <1>1 DEF Audit!SequenceGrows
    <3>2. \A i \in DOMAIN entries : entries[i].sequence < Audit!NewEntry.sequence
      BY <1>3, <1>4, <2>2, <3>1
    <3>3. \A i, j \in DOMAIN entries' : i < j => entries'[i].sequence < entries'[j].sequence
      BY <1>3, <2>1, <2>2, <3>1, <3>2, AppendedGrows
    <3>4. \A i \in DOMAIN entries' : entries'[i].sequence <= sequence'
      <4>1. /\ DOMAIN entries' = 1 .. Len(entries) + 1 /\ DOMAIN entries = 1 .. Len(entries)
            /\ Len(entries) \in Nat
            /\ \A i \in 1 .. Len(entries) : entries'[i] = entries[i]
            /\ entries'[Len(entries) + 1] = Audit!NewEntry
        BY <1>3, <2>1, <2>2, LenProperties, AppendProperties
      <4> QED BY <1>3, <1>4, <2>1, <2>2, <3>1, <4>1
    <3> QED BY <3>3, <3>4 DEF Audit!SequenceGrows
  <2>4. FileGrows'
    <3>1. CASE file' = file
      <4>1. PICK n \in Nat : n = Len(file)
        BY <1>3
      <4>2. DOMAIN file' = 1 .. n /\ n <= Len(file)
        BY <1>3, <3>1, <4>1
      <4>3. sequence' >= sequence /\ sequence' \in Nat
        BY <1>3, <2>1
      <4> QED BY <1>1, <3>1, <4>2, <4>3, ShorterGrows
    <3>2. CASE file' = Append(file, Audit!NewEntry) \/ file' = Append(file, Audit!Garbage)
      BY <1>1, <2>1, <3>2, WrittenGrows
    <3> QED BY <2>1, <3>1, <3>2
  <2> QED BY <1>2, <2>3, <2>4 DEF AuditInv
<1>7. CASE Audit!Restart
  <2>1. PICK k \in 0 .. Len(file) :
            /\ entries' \in Seq(Audit!AuditEntry) /\ Len(entries') = k
            /\ \A i \in 1 .. k : file[i] \in Audit!AuditEntry /\ entries'[i] = Audit!Made(file[i])
            /\ k = Len(file) \/ file[k + 1] = Audit!Garbage
            /\ sequence' = IF k = 0 THEN 0 ELSE file[k].sequence
    BY <1>1, <1>7, RestartStep
  <2>2. file' = file
    BY <1>7 DEF Audit!Restart
  <2>3. DOMAIN entries' = 1 .. k
    BY <2>1, LenProperties
  <2>4. \A i \in 1 .. k : /\ i \in DOMAIN file /\ file[i] # Audit!Garbage
                          /\ file[i].sequence \in Nat /\ entries'[i].sequence = file[i].sequence
    <3> SUFFICES ASSUME NEW i \in 1 .. k
                 PROVE  /\ i \in DOMAIN file /\ file[i] # Audit!Garbage
                        /\ file[i].sequence \in Nat /\ entries'[i].sequence = file[i].sequence
      OBVIOUS
    <3>1. file[i] \in Audit!AuditEntry /\ entries'[i] = Audit!Made(file[i])
      BY <2>1
    <3>2. i \in DOMAIN file
      BY <1>3
    <3> QED BY <3>1, <3>2, MadeEntry, EntryFields
  <2>5. \A i, j \in 1 .. k : i < j => file[i].sequence < file[j].sequence
    <3> SUFFICES ASSUME NEW i \in 1 .. k, NEW j \in 1 .. k, i < j
                 PROVE  file[i].sequence < file[j].sequence
      OBVIOUS
    <3>1. \A m \in 1 .. j : file[m] # Audit!Garbage
      BY <2>4
    <3> QED BY <1>1, <2>4, <3>1 DEF FileGrows
  <2>6. \A i \in 1 .. k : file[i].sequence <= sequence'
    <3> SUFFICES ASSUME NEW i \in 1 .. k PROVE file[i].sequence <= sequence'
      OBVIOUS
    <3>1. k \in 1 .. k /\ sequence' = file[k].sequence
      <4>1. k # 0 /\ k \in Nat
        BY <1>3
      <4> QED BY <2>1, <4>1
    <3>2. i = k \/ i < k
      BY <1>3
    <3> QED BY <2>4, <2>5, <3>1, <3>2
  <2>7. Audit!SequenceGrows'
    BY <2>3, <2>4, <2>5, <2>6 DEF Audit!SequenceGrows
  <2>8. FileGrows'
    <3>1. \A i, j \in DOMAIN file :
              i < j /\ (\A m \in 1 .. j : file[m] # Audit!Garbage)
                  => file[i].sequence < file[j].sequence
      BY <1>1 DEF FileGrows
    <3>2. ASSUME NEW j \in DOMAIN file, \A m \in 1 .. j : file[m] # Audit!Garbage
          PROVE  file[j].sequence <= sequence'
      <4>1. j <= k
        <5> SUFFICES ASSUME j > k PROVE FALSE
          <6>1. PICK n \in Nat : n = Len(file)
            BY <1>3
          <6>2. k \in 0 .. n /\ j \in 1 .. n
            BY <1>3, <6>1
          <6> QED BY <6>2
        <5>1. PICK n \in Nat : n = Len(file)
          BY <1>3
        <5>2. k \in 0 .. n /\ j \in 1 .. n
          BY <1>3, <5>1
        <5>3. k + 1 \in 1 .. j /\ k # n
          BY <5>2
        <5> QED BY <2>1, <3>2, <5>1, <5>3
      <4>2. j \in 1 .. k
        BY <1>3, <4>1
      <4> QED BY <2>6, <4>2
    <3> QED BY <1>5, <2>2, <3>1, <3>2 DEF FileGrows
  <2> QED BY <1>2, <2>7, <2>8 DEF AuditInv
<1>8. ASSUME NEW n \in DOMAIN file, Audit!Alter(n)
      PROVE  AuditInv'
  <2>1. PICK line \in Audit!AuditEntry :
            file' = [file EXCEPT ![n] = line] /\ line.sequence = file[n].sequence
    BY <1>1, <1>8, AlterStep
  <2>2. file[n] # Audit!Garbage /\ UNCHANGED <<entries, sequence>>
    BY <1>1, <1>8, AlterStep, EntryFields
  <2>3. DOMAIN file' = 1 .. Len(file)
    BY <1>3, <2>1
  <2>4. \A i \in 1 .. Len(file) : file'[i] # Audit!Garbage
            => file[i] # Audit!Garbage /\ file'[i].sequence = file[i].sequence
    BY <1>3, <2>1, <2>2
  <2>5. FileGrows'
    <3>1. PICK m \in Nat : m = Len(file)
      BY <1>3
    <3>2. DOMAIN file' = 1 .. m /\ m <= Len(file) /\ sequence' >= sequence /\ sequence' \in Nat
      BY <1>3, <2>2, <2>3, <3>1
    <3>3. \A i \in 1 .. m : file'[i] # Audit!Garbage
              => file[i] # Audit!Garbage /\ file'[i].sequence = file[i].sequence
      BY <2>4, <3>1
    <3> QED BY <1>1, <3>2, <3>3, ShorterGrows
  <2>6. Audit!SequenceGrows'
    BY <1>1, <2>2 DEF Audit!SequenceGrows
  <2> QED BY <1>2, <2>5, <2>6 DEF AuditInv
<1>9. CASE Audit!Cut
  <2>1. /\ file' \in Seq(Audit!AuditEntry \cup {Audit!Garbage})
        /\ Len(file) \in Nat \ {0} /\ Len(file') = Len(file) - 1
        /\ \A i \in 1 .. Len(file) - 1 : file'[i] = file[i]
        /\ UNCHANGED <<entries, sequence>>
    BY <1>1, <1>9, CutStep
  <2>2. PICK n \in Nat : n = Len(file) - 1
    BY <2>1
  <2>3. DOMAIN file' = 1 .. n /\ n <= Len(file)
    BY <2>1, <2>2, LenProperties
  <2>4. \A i \in 1 .. n : file'[i] = file[i]
    BY <2>1, <2>2
  <2>5. FileGrows'
    BY <1>1, <1>3, <2>1, <2>3, <2>4, ShorterGrows
  <2>6. Audit!SequenceGrows'
    BY <1>1, <2>1 DEF Audit!SequenceGrows
  <2> QED BY <1>2, <2>5, <2>6 DEF AuditInv
<1>10. CASE UNCHANGED auditVars
  BY <1>1, <1>2, <1>5, <1>10 DEF auditVars, AuditInv, FileGrows, Audit!SequenceGrows
<1> QED BY <1>6, <1>7, <1>8, <1>9, <1>10 DEF Audit!Next

LEMMA AuditInvInit == Audit!Init => AuditInv
<1> SUFFICES ASSUME Audit!Init PROVE AuditInv
  OBVIOUS
<1>1. /\ entries = <<>> /\ file = <<>> /\ sequence = 0 /\ torn = FALSE
      /\ logged = 0 /\ restarts = 0 /\ changes = 0 /\ sound = 0 /\ genuine = {}
  BY DEF Audit!Init
<1>2. DOMAIN entries = {} /\ DOMAIN file = {}
  BY <1>1
<1>3. Audit!TypeOK
  <2>1. /\ entries \in Seq(Audit!AuditEntry)
        /\ file \in Seq(Audit!AuditEntry \cup {Audit!Garbage})
    BY <1>1, EmptySeq
  <2>2. /\ sequence \in Nat /\ logged \in Nat /\ restarts \in Nat /\ changes \in Nat
        /\ sound \in 0 .. logged
    BY <1>1
  <2>3. torn \in BOOLEAN /\ ~torn /\ genuine \subseteq Audit!AuditEntry
    BY <1>1
  <2> QED BY <2>1, <2>2, <2>3 DEF Audit!TypeOK
<1> QED BY <1>2, <1>3 DEF AuditInv, FileGrows, Audit!SequenceGrows

LEMMA AuditInvariant == Spec => []AuditInv
<1>1. Init => AuditInv
  BY PartsBegin, AuditInvInit
<1>2. AuditInv /\ [Next]_vars => AuditInv'
  BY PartsMove, AuditInvStep
<1> QED BY <1>1, <1>2, PTL DEF Spec

\* SequenceGrows (AuditLogger, src/src/security/audit_logger.py): however many
\* writes fail, whole or half, and however often the file is loaded, the numbers
\* grow along the chain and the next one is new to it.
THEOREM AuditNumbersGrow == Spec => []SequenceGrows
<1>1. AuditInv => SequenceGrows
  BY DEF AuditInv, SequenceGrows
<1> QED BY <1>1, AuditInvariant, PTL

-----------------------------------------------------------------------------
(* The audit log: the verdict *)

\* A genuine entry has the hash of what it says and points at a genuine one.
GenuineChained ==
    \A e \in genuine : /\ e.hash = Audit!Hash(e)
                       /\ e.prev = <<>> \/ \E d \in genuine : e.prev = d.hash

\* Each entry is numbered by its place and points at the one before.
Intact(s) ==
    \A i \in DOMAIN s : /\ s[i] # Audit!Garbage
                        /\ s[i].says = i /\ s[i].hash = Audit!Hash(s[i])
                        /\ s[i].prev = IF i = 1 THEN <<>> ELSE s[i - 1].hash

\* In a chain or a file the first n are what was logged first.
Begins(s, n) ==
    n <= Len(s) /\ \A i \in 1 .. n : s[i] # Audit!Garbage /\ s[i].says = i

\* Until the file is changed, memory and file begin with what was logged before
\* a write failed, and are complete if none did.
Kept ==
    changes = 0 =>
        /\ Begins(entries, sound) /\ Begins(file, sound)
        /\ sound = logged => file = entries /\ Len(entries) = logged /\ Intact(entries)

LEMMA GenuineStep ==
    ASSUME Audit!TypeOK, GenuineChained, [Audit!Next]_auditVars
    PROVE  GenuineChained'
<1>1. \A e : Audit!Hash(e)' = Audit!Hash(e)
  BY DEF Audit!Hash
<1>2. CASE Audit!Log \/ Audit!LogNotWritten \/ Audit!LogTorn
  <2>1. genuine' = IF entries = <<>> \/ entries[Len(entries)] \in genuine
                   THEN genuine \cup {Audit!NewEntry} ELSE genuine
    BY <1>2, LogStep
  <2>2. /\ Audit!NewEntry.prev = IF entries = <<>> THEN <<>> ELSE entries[Len(entries)].hash
        /\ Audit!NewEntry.hash = Audit!Hash(Audit!NewEntry)
    BY NewEntryTyped
  <2> QED BY <2>1, <2>2 DEF GenuineChained, Audit!Hash
<1>3. CASE UNCHANGED genuine
  BY <1>3 DEF GenuineChained, Audit!Hash
<1>4. Audit!Restart \/ Audit!Cut \/ (\E n \in DOMAIN file : Audit!Alter(n)) \/ UNCHANGED auditVars
          => UNCHANGED genuine
  BY DEF Audit!Restart, Audit!Cut, Audit!Alter, Audit!Change, Audit!history, auditVars
<1> QED BY <1>2, <1>3, <1>4 DEF Audit!Next

\* One more entry, or line, behind what is there
LEMMA BeginsAppended ==
    ASSUME NEW S, NEW s \in Seq(S), NEW e \in S, NEW n \in Nat, Begins(s, n)
    PROVE  Begins(Append(s, e), n)
<1>1. /\ Len(s) \in Nat /\ Len(Append(s, e)) = Len(s) + 1
      /\ \A i \in 1 .. Len(s) : Append(s, e)[i] = s[i]
  BY LenProperties, AppendProperties
<1>2. \A i \in 1 .. n : i \in 1 .. Len(s)
  BY <1>1 DEF Begins
<1> QED BY <1>1, <1>2 DEF Begins

LEMMA IntactAppended ==
    ASSUME NEW S, NEW s \in Seq(S), NEW e \in S, Intact(s), e # Audit!Garbage,
           e.says = Len(s) + 1, e.hash = Audit!Hash(e),
           e.prev = IF s = <<>> THEN <<>> ELSE s[Len(s)].hash
    PROVE  /\ Intact(Append(s, e)) /\ Len(Append(s, e)) = Len(s) + 1
           /\ Begins(Append(s, e), Len(s) + 1)
<1>1. /\ Len(s) \in Nat /\ DOMAIN s = 1 .. Len(s)
      /\ Append(s, e) \in Seq(S) /\ Len(Append(s, e)) = Len(s) + 1
      /\ DOMAIN Append(s, e) = 1 .. Len(s) + 1
      /\ \A i \in 1 .. Len(s) : Append(s, e)[i] = s[i]
      /\ Append(s, e)[Len(s) + 1] = e
  BY LenProperties, AppendProperties
<1>2. s = <<>> <=> Len(s) = 0
  BY EmptySeq, LenProperties
<1> DEFINE t == Append(s, e)
<1> HIDE DEF t
<1>3. ASSUME NEW i \in 1 .. Len(s) + 1
      PROVE  /\ t[i] # Audit!Garbage /\ t[i].says = i /\ t[i].hash = Audit!Hash(t[i])
             /\ t[i].prev = IF i = 1 THEN <<>> ELSE t[i - 1].hash
  <2>1. CASE i = Len(s) + 1
    <3>1. t[i] = e
      BY <1>1, <2>1 DEF t
    <3>2. i = 1 <=> s = <<>>
      BY <1>1, <1>2, <2>1
    <3>3. i # 1 => i - 1 = Len(s) /\ t[i - 1] = s[Len(s)]
      <4>1. i # 1 => i - 1 = Len(s) /\ Len(s) \in 1 .. Len(s)
        BY <1>1, <2>1
      <4>2. \A j \in 1 .. Len(s) : t[j] = s[j]
        BY <1>1 DEF t
      <4> QED BY <4>1, <4>2
    <3> QED BY <2>1, <3>1, <3>2, <3>3
  <2>2. CASE i # Len(s) + 1
    <3>1. i \in 1 .. Len(s) /\ t[i] = s[i]
      BY <1>1, <2>2 DEF t
    <3>2. i # 1 => i - 1 \in 1 .. Len(s) /\ t[i - 1] = s[i - 1]
      BY <1>1, <3>1 DEF t
    <3>3. /\ s[i] # Audit!Garbage /\ s[i].says = i /\ s[i].hash = Audit!Hash(s[i])
          /\ s[i].prev = IF i = 1 THEN <<>> ELSE s[i - 1].hash
      BY <1>1, <3>1 DEF Intact
    <3> QED BY <3>1, <3>2, <3>3
  <2> QED BY <2>1, <2>2
<1>4. Intact(t) /\ Begins(t, Len(s) + 1)
  BY <1>1, <1>3 DEF Intact, Begins, t
<1> QED BY <1>1, <1>4 DEF t

\* log keeps what memory and file begin with.
LEMMA LogKeeps ==
    ASSUME Audit!TypeOK, Kept, changes = 0,
           Audit!Log \/ Audit!LogNotWritten \/ Audit!LogTorn
    PROVE  /\ Begins(entries', sound') /\ Begins(file', sound')
           /\ sound' = logged' =>
                file' = entries' /\ Len(entries') = logged' /\ Intact(entries')
<1> DEFINE lines == Audit!AuditEntry \cup {Audit!Garbage}
<1>1. /\ entries \in Seq(Audit!AuditEntry) /\ file \in Seq(lines)
      /\ logged \in Nat /\ sound \in Nat /\ sound <= logged
      /\ torn => file # <<>> /\ file[Len(file)] = Audit!Garbage
      /\ Len(file) \in Nat /\ DOMAIN file = 1 .. Len(file)
  BY LenProperties DEF Audit!TypeOK, Audit!Last
<1>2. /\ Begins(entries, sound) /\ Begins(file, sound)
      /\ sound = logged => file = entries /\ Len(entries) = logged /\ Intact(entries)
  BY DEF Kept
<1>3. /\ Audit!NewEntry \in Audit!AuditEntry /\ Audit!NewEntry \in lines
      /\ Audit!NewEntry # Audit!Garbage /\ Audit!NewEntry.says = logged + 1
      /\ Audit!NewEntry.prev = IF entries = <<>> THEN <<>> ELSE entries[Len(entries)].hash
      /\ Audit!NewEntry.hash = Audit!Hash(Audit!NewEntry)
      /\ Audit!Garbage \in lines
  BY NewEntryTyped, EntryFields
<1> HIDE DEF lines
<1>4. /\ entries' = Append(entries, Audit!NewEntry) /\ logged' = logged + 1
      /\ \/ /\ file' = IF torn THEN file ELSE Append(file, Audit!NewEntry)
            /\ sound' = IF sound = logged THEN sound + 1 ELSE sound
         \/ file' = file /\ sound' = sound
         \/ /\ file' = IF torn THEN file ELSE Append(file, Audit!Garbage)
            /\ sound' = sound
  BY LogStep
<1>5. CASE sound' = sound
  <2>1. sound' # logged'
    BY <1>1, <1>4, <1>5
  <2>2. Begins(entries', sound)
    BY <1>1, <1>2, <1>3, <1>4, BeginsAppended
  <2>3. file' = file \/ \E l \in lines : file' = Append(file, l)
    BY <1>3, <1>4
  <2>4. Begins(file', sound)
    BY <1>1, <1>2, <2>3, BeginsAppended
  <2> QED BY <1>5, <2>1, <2>2, <2>4
<1>6. CASE sound' # sound
  <2>1. /\ sound = logged /\ sound' = sound + 1
        /\ file' = IF torn THEN file ELSE Append(file, Audit!NewEntry)
    BY <1>4, <1>6
  <2>2. file = entries /\ Len(entries) = logged /\ Intact(entries)
    BY <1>2, <2>1
  <2>3. ~torn
    <3> SUFFICES ASSUME torn PROVE FALSE
      OBVIOUS
    <3>1. entries[Len(entries)] = Audit!Garbage /\ Len(entries) \in DOMAIN entries
      BY <1>1, <2>2, EmptySeq
    <3> QED BY <2>2, <3>1 DEF Intact
  <2>4. file' = entries'
    BY <1>4, <2>1, <2>2, <2>3
  <2>5. Intact(entries') /\ Len(entries') = logged + 1 /\ Begins(entries', logged + 1)
    BY <1>1, <1>3, <1>4, <2>2, IntactAppended
  <2> QED BY <1>4, <2>1, <2>4, <2>5
<1> QED BY <1>5, <1>6

\* What is loaded is what memory and file began with.
LEMMA RestartKeeps ==
    ASSUME Audit!TypeOK, FileGrows, Kept, changes = 0, Audit!Restart
    PROVE  /\ Begins(entries', sound)
           /\ sound = logged => entries' = file
<1>1. /\ file \in Seq(Audit!AuditEntry \cup {Audit!Garbage})
      /\ Len(file) \in Nat /\ DOMAIN file = 1 .. Len(file) /\ sound \in Nat
  BY LenProperties DEF Audit!TypeOK
<1>2. /\ Begins(file, sound)
      /\ sound = logged => file = entries /\ Len(entries) = logged /\ Intact(entries)
  BY DEF Kept
<1>3. PICK k \in 0 .. Len(file) :
          /\ entries' \in Seq(Audit!AuditEntry) /\ Len(entries') = k
          /\ \A i \in 1 .. k : file[i] \in Audit!AuditEntry /\ entries'[i] = Audit!Made(file[i])
          /\ k = Len(file) \/ file[k + 1] = Audit!Garbage
  BY RestartStep
<1>4. sound <= k
  <2> SUFFICES ASSUME sound > k PROVE FALSE
    BY <1>1
  <2>1. k + 1 \in 1 .. sound /\ k + 1 <= sound
    BY <1>1
  <2>2. file[k + 1] # Audit!Garbage /\ sound <= Len(file)
    BY <1>2, <2>1 DEF Begins
  <2>3. k # Len(file)
    <3>1. PICK n \in Nat : n = Len(file)
      BY <1>1
    <3>2. k \in 0 .. n /\ k + 1 <= n
      BY <1>1, <2>1, <2>2, <3>1
    <3> QED BY <3>1, <3>2
  <2> QED BY <1>3, <2>2, <2>3
<1>5. Begins(entries', sound)
  <2> SUFFICES ASSUME NEW i \in 1 .. sound
               PROVE  entries'[i] # Audit!Garbage /\ entries'[i].says = i
    BY <1>1, <1>3, <1>4 DEF Begins
  <2>1. i \in 1 .. k
    BY <1>1, <1>4
  <2>2. file[i] \in Audit!AuditEntry /\ entries'[i] = Audit!Made(file[i]) /\ file[i].says = i
    BY <1>2, <1>3, <2>1 DEF Begins
  <2> QED BY <2>2, MadeEntry, EntryFields
<1>6. ASSUME sound = logged PROVE entries' = file
  <2>1. k = Len(file)
    <3>1. PICK n \in Nat : n = Len(file)
      BY <1>1
    <3>2. k \in 0 .. n /\ n <= k
      BY <1>2, <1>4, <1>6, <3>1
    <3> QED BY <3>1, <3>2
  <2>2. ASSUME NEW i \in 1 .. k PROVE entries'[i] = file[i]
    <3>1. i \in DOMAIN entries /\ file = entries
      BY <1>1, <1>2, <1>6, <2>1
    <3>2. file[i].hash = Audit!Hash(file[i]) /\ file[i] \in Audit!AuditEntry
      BY <1>2, <1>3, <1>6, <3>1 DEF Intact
    <3>3. Audit!Made(file[i]) = file[i]
      BY <3>2, HashesTell, MadeEntry
    <3> QED BY <1>3, <3>3
  <2>3. PICK s \in Seq(Audit!AuditEntry \cup {Audit!Garbage}) : s = entries'
    <3>1. Len(entries') \in Nat /\ \A i \in 1 .. Len(entries') : entries'[i] \in Audit!AuditEntry
      BY <1>3, ElementOfSeq, LenProperties
    <3>2. entries' = [i \in 1 .. Len(entries') |-> entries'[i]]
      BY <1>3, SeqDef, LenProperties
    <3>3. [i \in 1 .. Len(entries') |-> entries'[i]] \in Seq(Audit!AuditEntry \cup {Audit!Garbage})
      BY <3>1, IsASeq
    <3> QED BY <3>2, <3>3
  <2> QED BY <1>1, <1>3, <2>1, <2>2, <2>3, SeqEqual
<1> QED BY <1>5, <1>6

LEMMA KeptStep ==
    ASSUME Audit!TypeOK, FileGrows, Kept, [Audit!Next]_auditVars
    PROVE  Kept'
<1>1. ASSUME changes' = 0
      PROVE  /\ Begins(entries', sound') /\ Begins(file', sound')
             /\ sound' = logged' =>
                  file' = entries' /\ Len(entries') = logged' /\ Intact(entries')
  <2>1. changes \in Nat
    BY DEF Audit!TypeOK
  <2>2. CASE Audit!Log \/ Audit!LogNotWritten \/ Audit!LogTorn
    <3>1. changes = 0
      BY <1>1, <2>2, LogStep
    <3> QED BY <2>2, <3>1, LogKeeps
  <2>3. CASE Audit!Restart
    <3>1. /\ changes = 0 /\ file' = file /\ sound' = sound /\ logged' = logged
      BY <1>1, <2>3 DEF Audit!Restart, Audit!history
    <3>2. Begins(entries', sound) /\ (sound = logged => entries' = file)
      BY <2>3, <3>1, RestartKeeps
    <3>3. /\ Begins(file, sound)
          /\ sound = logged => file = entries /\ Len(entries) = logged /\ Intact(entries)
      BY <3>1 DEF Kept
    <3> QED BY <3>1, <3>2, <3>3
  <2>4. ~Audit!Cut /\ \A n \in DOMAIN file : ~Audit!Alter(n)
    <3>1. Audit!Change => changes' = changes + 1
      BY DEF Audit!Change
    <3>2. ~Audit!Change
      BY <1>1, <2>1, <3>1
    <3> QED BY <3>2 DEF Audit!Cut, Audit!Alter
  <2>5. CASE UNCHANGED auditVars
    BY <1>1, <2>5 DEF auditVars, Kept
  <2> QED BY <2>2, <2>3, <2>4, <2>5 DEF Audit!Next
<1> QED BY <1>1 DEF Kept, Begins, Intact, Audit!Garbage, Audit!Hash

\* VerdictRight: in a chain that verify_chain finds intact everything before a
\* genuine entry is genuine; if nobody changed the file, everything logged before
\* a write failed is there, through restarts; and if no write failed either, the
\* chain is found intact and complete.
THEOREM AuditVerdictRight == Spec => []VerdictRight
<1>1. Init => GenuineChained /\ Kept
  <2> SUFFICES ASSUME Init PROVE GenuineChained /\ Kept
    OBVIOUS
  <2>1. /\ entries = <<>> /\ file = <<>> /\ logged = 0 /\ sound = 0 /\ genuine = {}
    BY PartsBegin DEF Audit!Init
  <2>2. DOMAIN entries = {} /\ Len(entries) = 0 /\ 1 .. 0 = {}
    BY <2>1
  <2> QED BY <2>1, <2>2 DEF GenuineChained, Kept, Begins, Intact
<1>2. AuditInv /\ GenuineChained /\ Kept /\ [Next]_vars => GenuineChained' /\ Kept'
  BY PartsMove, GenuineStep, KeptStep DEF AuditInv
<1>3. ASSUME AuditInv, GenuineChained, Kept PROVE VerdictRight
  <2>1. /\ entries \in Seq(Audit!AuditEntry) /\ genuine \subseteq Audit!AuditEntry
        /\ Len(entries) \in Nat /\ DOMAIN entries = 1 .. Len(entries)
    BY <1>3, LenProperties DEF AuditInv, Audit!TypeOK
  <2>2. ASSUME Audit!Verified, NEW i \in DOMAIN entries \ {1}, entries[i] \in genuine
        PROVE  entries[i - 1] \in genuine
    <3>1. i - 1 \in DOMAIN entries
      BY <2>1
    <3>2. /\ entries[i].prev = entries[i - 1].hash
          /\ entries[i - 1].hash = Audit!Hash(entries[i - 1])
      BY <2>2, <3>1 DEF Audit!Verified, Audit!Linked
    <3>3. entries[i - 1] \in Audit!AuditEntry
      BY <2>1, <3>1, ElementOfSeq
    <3>4. PICK d \in genuine : d.hash = entries[i - 1].hash /\ d.hash = Audit!Hash(d)
      BY <1>3, <2>2, <3>2, <3>3, HashesTell DEF GenuineChained
    <3>5. d \in Audit!AuditEntry /\ Audit!Hash(d) = Audit!Hash(entries[i - 1])
      BY <2>1, <3>2, <3>4
    <3>6. d = entries[i - 1]
      BY <3>3, <3>4, <3>5, HashesTell, EntriesEqual
    <3> QED BY <3>4, <3>6
  <2>3. changes = 0 => /\ sound <= Len(entries)
                       /\ \A i \in 1 .. sound : entries[i].says = i
    BY <1>3 DEF Kept, Begins
  <2>4. ASSUME changes = 0, sound = logged
        PROVE  Audit!Verified /\ Len(entries) = logged
    <3>1. Intact(entries) /\ Len(entries) = logged
      BY <1>3, <2>4 DEF Kept
    <3> QED BY <3>1 DEF Intact, Audit!Verified, Audit!Linked, Audit!Genesis
  <2> QED BY <2>2, <2>3, <2>4 DEF VerdictRight, Audit!VerdictRight
<1> QED BY <1>1, <1>2, <1>3, AuditInvariant, PTL DEF Spec

-----------------------------------------------------------------------------
(* Lock commands *)

\* A request at the end of the queue makes its client a waiter, and no other.
LEMMA WaitersAppended ==
    ASSUME NEW w \in Seq(Locks!Request), NEW r \in Locks!Request
    PROVE  {Append(w, r)[k].client : k \in DOMAIN Append(w, r)}
               = {w[k].client : k \in DOMAIN w} \cup {r.client}
<1>1. /\ Len(w) \in Nat /\ DOMAIN w = 1 .. Len(w)
      /\ DOMAIN Append(w, r) = 1 .. Len(w) + 1
      /\ \A k \in 1 .. Len(w) : Append(w, r)[k] = w[k]
      /\ Append(w, r)[Len(w) + 1] = r
  BY LenProperties, AppendProperties
<1>2. DOMAIN Append(w, r) = DOMAIN w \cup {Len(w) + 1}
  BY <1>1
<1>3. \A k \in DOMAIN w : Append(w, r)[k].client = w[k].client
  BY <1>1
<1> QED BY <1>1, <1>2, <1>3

LocksInv == Locks!TypeOK /\ Locks!KeptUntilReleased

\* What is known of the lock and its clients before a step.
LEMMA LocksKnown ==
    ASSUME LocksInv
    PROVE  /\ lock \in [type : Locks!LockTypes, holders : SUBSET Clients, token : Nat,
                        waiting : Seq(Locks!Request)]
           /\ calls \subseteq Locks!Request /\ asked \subseteq Locks!Request
           /\ told \subseteq asked /\ commands \in Nat
           /\ \A c, d \in lock.holders : c # d => lock.type = "shared"
           /\ \A a \in asked : a.client \in lock.holders \cup Locks!Waiters
BY DEF LocksInv, Locks!TypeOK, Locks!KeptUntilReleased

\* A lock that keeps its type and its clients, and has the one that came.
LEMMA AcquireKeeps ==
    ASSUME LocksInv, NEW r \in Locks!Request, Locks!Acquire(r),
           lock' \in [type : Locks!LockTypes, holders : SUBSET Clients, token : Nat,
                      waiting : Seq(Locks!Request)],
           \A c, d \in lock'.holders : c # d => lock'.type = "shared",
           lock.holders \cup Locks!Waiters \cup {r.client} \subseteq lock'.holders \cup Locks!Waiters'
    PROVE  LocksInv'
<1>1. /\ calls \subseteq Locks!Request /\ asked \subseteq Locks!Request
      /\ told \subseteq asked /\ commands \in Nat
      /\ \A a \in asked : a.client \in lock.holders \cup Locks!Waiters
  BY LocksKnown
<1>2. /\ commands' = commands + 1 /\ told' = told /\ asked' = asked \cup {r}
      /\ calls' \subseteq calls \cup {r}
  BY DEF Locks!Acquire, Locks!Command
<1>3. Locks!TypeOK'
  BY <1>1, <1>2 DEF Locks!TypeOK, Locks!Request, Locks!LockTypes
<1>4. \A a \in asked' : a.client \in lock'.holders \cup Locks!Waiters'
  BY <1>1, <1>2
<1>5. Locks!KeptUntilReleased'
  BY <1>4 DEF Locks!KeptUntilReleased
<1> QED BY <1>3, <1>5 DEF LocksInv

LEMMA AcquireStep ==
    ASSUME LocksInv, NEW r \in Locks!Request, Locks!Acquire(r)
    PROVE  LocksInv'
<1>1. /\ lock \in [type : Locks!LockTypes, holders : SUBSET Clients, token : Nat,
                   waiting : Seq(Locks!Request)]
      /\ \A c, d \in lock.holders : c # d => lock.type = "shared"
      /\ r.client \in Clients /\ r.type \in Locks!LockTypes
  BY LocksKnown DEF Locks!Request
<1>2. CASE lock.holders = {}
  <2>1. lock' = [lock EXCEPT !.type = r.type, !.holders = {r.client}, !.token = @ + 1]
    BY <1>2 DEF Locks!Acquire
  <2>2. lock.token + 1 \in Nat /\ {r.client} \in SUBSET Clients
    BY <1>1
  <2>3. lock' \in [type : Locks!LockTypes, holders : SUBSET Clients, token : Nat,
                   waiting : Seq(Locks!Request)]
    BY <1>1, <2>1, <2>2
  <2>4. lock'.holders = {r.client} /\ lock'.waiting = lock.waiting
    BY <1>1, <2>1
  <2>5. Locks!Waiters' = Locks!Waiters
    BY <2>4 DEF Locks!Waiters
  <2> QED BY <1>2, <2>3, <2>4, <2>5, AcquireKeeps
<1>3. CASE lock.holders # {} /\ Locks!Joins(r.type)
  <2>1. lock' = [lock EXCEPT !.holders = @ \cup {r.client}]
    BY <1>3 DEF Locks!Acquire
  <2>2. /\ lock' \in [type : Locks!LockTypes, holders : SUBSET Clients, token : Nat,
                      waiting : Seq(Locks!Request)]
        /\ lock'.holders = lock.holders \cup {r.client} /\ lock'.waiting = lock.waiting
        /\ lock'.type = lock.type
    BY <1>1, <2>1
  <2>3. Locks!Waiters' = Locks!Waiters
    BY <2>2 DEF Locks!Waiters
  <2>4. lock'.type = "shared"
    BY <1>3, <2>2 DEF Locks!Joins
  <2> QED BY <2>2, <2>3, <2>4, AcquireKeeps
<1>4. CASE lock.holders # {} /\ ~Locks!Joins(r.type)
  <2>1. lock' = [lock EXCEPT !.waiting = Append(@, r)]
    BY <1>4 DEF Locks!Acquire
  <2>2. /\ lock'.holders = lock.holders /\ lock'.type = lock.type
        /\ lock'.waiting = Append(lock.waiting, r)
    BY <1>1, <2>1
  <2>3. lock.waiting \in Seq(Locks!Request)
    BY <1>1
  <2>4. Append(lock.waiting, r) \in Seq(Locks!Request)
    BY <2>3, AppendProperties
  <2>5. lock' \in [type : Locks!LockTypes, holders : SUBSET Clients, token : Nat,
                   waiting : Seq(Locks!Request)]
    BY <1>1, <2>1, <2>4
  <2>6. Locks!Waiters' = Locks!Waiters \cup {r.client}
    <3>1. {Append(lock.waiting, r)[k].client : k \in DOMAIN Append(lock.waiting, r)}
              = {lock.waiting[k].client : k \in DOMAIN lock.waiting} \cup {r.client}
      BY <2>3, WaitersAppended
    <3> QED BY <2>2, <3>1 DEF Locks!Waiters
  <2>7. \A c, d \in lock'.holders : c # d => lock'.type = "shared"
    BY <1>1, <2>2
  <2> QED BY <2>2, <2>5, <2>6, <2>7, AcquireKeeps
<1> QED BY <1>2, <1>3, <1>4

\* A release takes away the client's own hold, and what it asked for is over.
LEMMA ReleaseStep ==
    ASSUME LocksInv, NEW c \in Clients, Locks!Release(c)
    PROVE  LocksInv'
<1>1. /\ lock \in [type : Locks!LockTypes, holders : SUBSET Clients, token : Nat,
                   waiting : Seq(Locks!Request)]
      /\ calls \subseteq Locks!Request /\ asked \subseteq Locks!Request
      /\ told \subseteq asked /\ commands \in Nat
      /\ \A d, e \in lock.holders : d # e => lock.type = "shared"
      /\ \A a \in asked : a.client \in lock.holders \cup Locks!Waiters
  BY LocksKnown
<1>2. /\ lock' = [lock EXCEPT !.holders = @ \ {c}]
      /\ asked' = asked \ Locks!Of(c) /\ told' = told \ Locks!Of(c)
      /\ calls' = calls /\ commands' = commands + 1
  BY DEF Locks!Release, Locks!Released, Locks!Command
<1>3. /\ lock' \in [type : Locks!LockTypes, holders : SUBSET Clients, token : Nat,
                    waiting : Seq(Locks!Request)]
      /\ lock'.holders = lock.holders \ {c} /\ lock'.waiting = lock.waiting
      /\ lock'.type = lock.type
  BY <1>1, <1>2
<1>4. Locks!Waiters' = Locks!Waiters
  BY <1>3 DEF Locks!Waiters
<1>5. Locks!TypeOK'
  BY <1>1, <1>2, <1>3 DEF Locks!TypeOK, Locks!Request, Locks!LockTypes
<1>6. \A a \in asked' : a.client # c /\ a \in asked
  BY <1>1, <1>2 DEF Locks!Of
<1>7. Locks!KeptUntilReleased'
  BY <1>1, <1>3, <1>4, <1>6 DEF Locks!KeptUntilReleased
<1> QED BY <1>5, <1>7 DEF LocksInv

LEMMA LocksInvStep ==
    ASSUME LocksInv, [Locks!Next]_locksVars
    PROVE  LocksInv'
<1>1. ASSUME NEW r \in Locks!Request, Locks!Answer(r)
      PROVE  LocksInv'
  <2>1. /\ calls' \subseteq calls /\ told' \subseteq told \cup asked
        /\ lock' = lock /\ asked' = asked /\ commands' = commands
    BY <1>1 DEF Locks!Answer
  <2> QED BY <2>1, LocksKnown DEF LocksInv, Locks!TypeOK, Locks!KeptUntilReleased, Locks!Waiters,
                                  Locks!Request, Locks!LockTypes
<1>2. CASE UNCHANGED locksVars
  BY <1>2 DEF locksVars, LocksInv, Locks!TypeOK, Locks!KeptUntilReleased, Locks!Waiters,
              Locks!Request, Locks!LockTypes
<1> QED BY <1>1, <1>2, AcquireStep, ReleaseStep DEF Locks!Next

LEMMA LocksInvariant == Spec => []LocksInv
<1>1. Init => LocksInv
  <2> SUFFICES ASSUME Init PROVE LocksInv
    OBVIOUS
  <2>1. /\ lock = [type |-> "exclusive", holders |-> {}, token |-> 0, waiting |-> <<>>]
        /\ calls = {} /\ commands = 0 /\ asked = {} /\ told = {}
    BY PartsBegin DEF Locks!Init
  <2>2. <<>> \in Seq(Locks!Request) /\ "exclusive" \in Locks!LockTypes
    BY EmptySeq DEF Locks!LockTypes
  <2>3. Locks!TypeOK
    BY <2>1, <2>2 DEF Locks!TypeOK
  <2> QED BY <2>1, <2>3 DEF LocksInv, Locks!KeptUntilReleased
<1>2. LocksInv /\ [Next]_vars => LocksInv'
  BY PartsMove, LocksInvStep
<1> QED BY <1>1, <1>2, PTL DEF Spec

\* KeptUntilReleased (_apply_lock_command, src/src/main.py): an exclusive holder
\* is alone, and a client whose acquire was applied holds the lock or waits for it
\* until it releases it itself.
THEOREM LocksKept == Spec => []KeptUntilReleased
<1>1. LocksInv => KeptUntilReleased
  BY DEF LocksInv, KeptUntilReleased
<1> QED BY <1>1, LocksInvariant, PTL

-----------------------------------------------------------------------------
(* The queue *)

\* How often a message is in the queue of a node
Queued(n, id) == Cardinality(PlacesIn(pending[n], id))

\* At a node: what came is there or was handed out.
Accounted(n, id) ==
    /\ came[n][id] = went[n][id] + Queued(n, id)
    /\ state[n][id] = "pending" => Queued(n, id) # 0

\* A message comes to the node it is sent to once, and then goes to the replica
\* for every attempt at most once.
Limited(id) ==
    /\ state["origin"][id] = "absent" =>
           came["origin"][id] = 0 /\ came["replica"][id] = 0 /\ left[id] = 0
    /\ came["origin"][id] <= 1
    /\ came["replica"][id] + left[id] <= Attempts

QueueInv ==
    /\ Queue!TypeOK
    /\ \A id \in Ids : Limited(id)
    /\ \A n \in Queue!Sites, id \in Ids : Accounted(n, id)

LEMMA QueueTyped ==
    ASSUME Queue!TypeOK, NEW n \in Queue!Sites, NEW id \in Ids
    PROVE  /\ state[n][id] \in Queue!States /\ pending[n] \in Seq(Ids)
           /\ left[id] \in 0 .. Attempts /\ left[id] \in Nat /\ Attempts \in Nat
           /\ came[n][id] \in Nat /\ went[n][id] \in Nat /\ Queued(n, id) \in Nat
<1>1. Attempts \in Nat
  BY PartsAssumption DEF Queue!AttemptsAssumption
<1>2. /\ state[n][id] \in Queue!States /\ pending[n] \in Seq(Ids)
      /\ left[id] \in 0 .. Attempts /\ came[n][id] \in Nat /\ went[n][id] \in Nat
  BY DEF Queue!TypeOK
<1>3. Queued(n, id) \in Nat
  BY <1>2, PlacesFinite DEF Queued
<1> QED BY <1>1, <1>2, <1>3

\* Types of what a message that comes in changes
LEMMA PutTyped ==
    ASSUME Queue!TypeOK, NEW n \in Queue!Sites, NEW id \in Ids, Queue!Put(n, id)
    PROVE  /\ state' \in [Queue!Sites -> [Ids -> Queue!States]]
           /\ pending' \in [Queue!Sites -> Seq(Ids)]
           /\ came' \in [Queue!Sites -> [Ids -> Nat]]
<1>1. /\ state \in [Queue!Sites -> [Ids -> Queue!States]]
      /\ pending \in [Queue!Sites -> Seq(Ids)]
      /\ came \in [Queue!Sites -> [Ids -> Nat]]
  BY DEF Queue!TypeOK
<1>2. /\ state' = [state EXCEPT ![n][id] = "pending"]
      /\ pending' = [pending EXCEPT ![n] = Append(@, id)]
      /\ came' = [came EXCEPT ![n][id] = @ + 1]
  BY DEF Queue!Put
<1>3. state' \in [Queue!Sites -> [Ids -> Queue!States]]
  <2>1. "pending" \in Queue!States
    BY DEF Queue!States
  <2> QED BY <1>1, <1>2, <2>1
<1>4. pending' \in [Queue!Sites -> Seq(Ids)]
  <2>1. pending[n] \in Seq(Ids)
    BY <1>1
  <2>2. Append(pending[n], id) \in Seq(Ids)
    BY <2>1, AppendProperties
  <2> QED BY <1>1, <1>2, <2>2
<1>5. came' \in [Queue!Sites -> [Ids -> Nat]]
  <2>1. came[n] \in [Ids -> Nat] /\ came[n][id] + 1 \in Nat
    BY <1>1
  <2> QED BY <1>1, <1>2, <2>1
<1> QED BY <1>3, <1>4, <1>5

LEMMA QueueNextTyped ==
    ASSUME Queue!TypeOK, [Queue!Next]_queueVars
    PROVE  Queue!TypeOK'
<1>1. /\ state \in [Queue!Sites -> [Ids -> Queue!States]]
      /\ pending \in [Queue!Sites -> Seq(Ids)]
      /\ left \in [Ids -> 0 .. Attempts]
      /\ came \in [Queue!Sites -> [Ids -> Nat]] /\ went \in [Queue!Sites -> [Ids -> Nat]]
  BY DEF Queue!TypeOK
<1>2. ASSUME state' \in [Queue!Sites -> [Ids -> Queue!States]],
             pending' \in [Queue!Sites -> Seq(Ids)],
             left' \in [Ids -> 0 .. Attempts],
             came' \in [Queue!Sites -> [Ids -> Nat]], went' \in [Queue!Sites -> [Ids -> Nat]]
      PROVE  Queue!TypeOK'
  BY <1>2 DEF Queue!TypeOK, Queue!Sites, Queue!States
<1>3. "origin" \in Queue!Sites /\ "replica" \in Queue!Sites
  BY DEF Queue!Sites
<1>4. Attempts \in Nat
  BY PartsAssumption DEF Queue!AttemptsAssumption
<1>5. ASSUME NEW id \in Ids, left[id] > 0
      PROVE  /\ [left EXCEPT ![id] = @ - 1] \in [Ids -> 0 .. Attempts]
             /\ [left EXCEPT ![id] = 0] \in [Ids -> 0 .. Attempts]
  <2>1. left[id] - 1 \in 0 .. Attempts /\ 0 \in 0 .. Attempts
    BY <1>1, <1>4, <1>5
  <2> QED BY <1>1, <2>1
<1>6. ASSUME NEW id \in Ids, Queue!Enqueue(id) PROVE Queue!TypeOK'
  <2>1. Attempts \in 0 .. Attempts
    BY <1>4
  <2>2. left' \in [Ids -> 0 .. Attempts]
    BY <1>1, <1>6, <2>1 DEF Queue!Enqueue
  <2> QED BY <1>1, <1>2, <1>3, <1>6, <2>2, PutTyped DEF Queue!Enqueue
<1>7. ASSUME NEW id \in Ids, Queue!HandleCopy(id) PROVE Queue!TypeOK'
  <2>1. left' \in [Ids -> 0 .. Attempts]
    BY <1>5, <1>7 DEF Queue!HandleCopy, Queue!AfterAttempt
  <2> QED BY <1>1, <1>2, <1>3, <1>7, <2>1, PutTyped DEF Queue!HandleCopy
<1>8. ASSUME NEW id \in Ids, Queue!LoseCopy(id) PROVE Queue!TypeOK'
  <2>1. left' \in [Ids -> 0 .. Attempts]
    BY <1>5, <1>8 DEF Queue!LoseCopy
  <2> QED BY <1>1, <1>2, <1>8, <2>1 DEF Queue!LoseCopy
<1>9. ASSUME NEW n \in Queue!Sites, Queue!Dequeue(n) PROVE Queue!TypeOK'
  <2>1. pending[n] \in Seq(Ids) /\ pending[n] # <<>>
    BY <1>1, <1>9 DEF Queue!Dequeue
  <2>2. Head(pending[n]) \in Ids /\ Tail(pending[n]) \in Seq(Ids)
    BY <2>1, HeadTailProperties
  <2>3. PICK id \in Ids : id = Head(pending[n])
    BY <2>2
  <2>4. /\ state' = [state EXCEPT ![n][id] = "processing"]
        /\ pending' = [pending EXCEPT ![n] = Tail(@)]
        /\ went' = [went EXCEPT ![n][id] = @ + 1]
        /\ UNCHANGED <<left, came>>
    BY <1>9, <2>3 DEF Queue!Dequeue
  <2>5. state' \in [Queue!Sites -> [Ids -> Queue!States]]
    <3>1. "processing" \in Queue!States
      BY DEF Queue!States
    <3> QED BY <1>1, <2>4, <3>1
  <2>6. pending' \in [Queue!Sites -> Seq(Ids)]
    BY <1>1, <2>2, <2>4
  <2>7. went' \in [Queue!Sites -> [Ids -> Nat]]
    <3>1. went[n] \in [Ids -> Nat] /\ went[n][id] + 1 \in Nat
      BY <1>1
    <3> QED BY <1>1, <2>4, <3>1
  <2> QED BY <1>1, <1>2, <2>4, <2>5, <2>6, <2>7
<1>10. ASSUME NEW n \in Queue!Sites, NEW id \in Ids, Queue!Ack(n, id) PROVE Queue!TypeOK'
  <2>1. state' \in [Queue!Sites -> [Ids -> Queue!States]]
    <3>1. "completed" \in Queue!States
      BY DEF Queue!States
    <3> QED BY <1>1, <1>10, <3>1 DEF Queue!Ack
  <2> QED BY <1>1, <1>2, <1>10, <2>1 DEF Queue!Ack
<1>11. CASE UNCHANGED queueVars
  BY <1>1, <1>2, <1>11 DEF queueVars
<1> QED BY <1>6, <1>7, <1>8, <1>9, <1>10, <1>11 DEF Queue!Next

\* A message that comes is accounted for, and the others stay so.
LEMMA PutAccounted ==
    ASSUME QueueInv, NEW n \in Queue!Sites, NEW id \in Ids, Queue!Put(n, id), went' = went,
           NEW m \in Queue!Sites, NEW jd \in Ids
    PROVE  /\ Accounted(m, jd)'
           /\ came[m][jd]' = came[m][jd] + (IF m = n /\ jd = id THEN 1 ELSE 0)
           /\ state[m][jd]' = IF m = n /\ jd = id THEN "pending" ELSE state[m][jd]
<1>1. Queue!TypeOK /\ Accounted(m, jd)
  BY DEF QueueInv
<1>2. /\ pending[m] \in Seq(Ids) /\ came[m][jd] \in Nat /\ went[m][jd] \in Nat
      /\ Queued(m, jd) \in Nat
  BY <1>1, QueueTyped
<1>3. came[m][jd]' = came[m][jd] + (IF m = n /\ jd = id THEN 1 ELSE 0)
  BY <1>1, <1>2 DEF Queue!Put, Queue!TypeOK
<1>4. state[m][jd]' = IF m = n /\ jd = id THEN "pending" ELSE state[m][jd]
  BY <1>1 DEF Queue!Put, Queue!TypeOK
<1>5. pending[m]' = IF m = n THEN Append(pending[m], id) ELSE pending[m]
  BY <1>1 DEF Queue!Put, Queue!TypeOK
<1>6. Queued(m, jd)' = Queued(m, jd) + (IF m = n /\ jd = id THEN 1 ELSE 0)
  <2>1. Queued(m, jd)' = Cardinality(PlacesIn(pending[m]', jd))
    BY DEF Queued, PlacesIn
  <2>2. CASE m = n
    BY <1>2, <1>5, <2>1, <2>2, PlacesAppended DEF Queued
  <2>3. CASE m # n
    BY <1>2, <1>5, <2>1, <2>3 DEF Queued
  <2> QED BY <2>2, <2>3
<1> QED BY <1>1, <1>2, <1>3, <1>4, <1>6 DEF Accounted

LEMMA QueueInvStep ==
    ASSUME QueueInv, [Queue!Next]_queueVars
    PROVE  QueueInv'
<1>1. Queue!TypeOK /\ Queue!TypeOK'
  BY QueueNextTyped DEF QueueInv
<1>2. "origin" \in Queue!Sites /\ "replica" \in Queue!Sites /\ Queue!Sites' = Queue!Sites
  BY DEF Queue!Sites
<1>3. ASSUME \A id \in Ids : Limited(id)',
             \A n \in Queue!Sites, id \in Ids : Accounted(n, id)'
      PROVE  QueueInv'
  BY <1>1, <1>2, <1>3 DEF QueueInv
<1>4. \A id \in Ids : Limited(id)
  BY DEF QueueInv
<1>5. \A n \in Queue!Sites, id \in Ids : Accounted(n, id)
  BY DEF QueueInv
<1>6. \A id \in Ids : /\ left[id] \in Nat /\ Attempts \in Nat
                      /\ came["origin"][id] \in Nat /\ came["replica"][id] \in Nat
  BY <1>1, <1>2, QueueTyped
<1>7. DOMAIN left = Ids
  BY <1>1 DEF Queue!TypeOK
<1>8. ASSUME NEW id \in Ids, Queue!Enqueue(id) PROVE QueueInv'
  <2>1. /\ state["origin"][id] = "absent" /\ Queue!Put("origin", id)
        /\ left' = [left EXCEPT ![id] = Attempts] /\ went' = went
    BY <1>8 DEF Queue!Enqueue
  <2>2. \A n \in Queue!Sites, jd \in Ids :
            /\ Accounted(n, jd)'
            /\ came[n][jd]' = came[n][jd] + (IF n = "origin" /\ jd = id THEN 1 ELSE 0)
            /\ state[n][jd]' = IF n = "origin" /\ jd = id THEN "pending" ELSE state[n][jd]
    BY <1>2, <2>1, PutAccounted
  <2>3. ASSUME NEW jd \in Ids PROVE Limited(jd)'
    <3>1. /\ came["origin"][jd]' = came["origin"][jd] + (IF jd = id THEN 1 ELSE 0)
          /\ came["replica"][jd]' = came["replica"][jd]
          /\ state["origin"][jd]' = IF jd = id THEN "pending" ELSE state["origin"][jd]
          /\ left[jd]' = IF jd = id THEN Attempts ELSE left[jd]
      BY <1>2, <1>6, <1>7, <2>1, <2>2
    <3> QED BY <1>4, <1>6, <2>1, <3>1 DEF Limited
  <2> QED BY <1>3, <2>2, <2>3
<1>9. ASSUME NEW id \in Ids, Queue!HandleCopy(id) PROVE QueueInv'
  <2>1. /\ left[id] > 0 /\ Queue!Put("replica", id)
        /\ left' \in {[left EXCEPT ![id] = 0], [left EXCEPT ![id] = @ - 1]} /\ went' = went
    BY <1>9 DEF Queue!HandleCopy, Queue!AfterAttempt
  <2>2. \A n \in Queue!Sites, jd \in Ids :
            /\ Accounted(n, jd)'
            /\ came[n][jd]' = came[n][jd] + (IF n = "replica" /\ jd = id THEN 1 ELSE 0)
            /\ state[n][jd]' = IF n = "replica" /\ jd = id THEN "pending" ELSE state[n][jd]
    BY <1>2, <2>1, PutAccounted
  <2>3. ASSUME NEW jd \in Ids PROVE Limited(jd)'
    <3>1. /\ came["origin"][jd]' = came["origin"][jd]
          /\ came["replica"][jd]' = came["replica"][jd] + (IF jd = id THEN 1 ELSE 0)
          /\ state["origin"][jd]' = state["origin"][jd]
          /\ left[jd]' \in IF jd = id THEN {0, left[jd] - 1} ELSE {left[jd]}
      BY <1>2, <1>6, <1>7, <2>1, <2>2
    <3> QED BY <1>4, <1>6, <2>1, <3>1 DEF Limited
  <2> QED BY <1>3, <2>2, <2>3
<1>10. ASSUME NEW id \in Ids, Queue!LoseCopy(id) PROVE QueueInv'
  <2>1. /\ left[id] > 0 /\ left' = [left EXCEPT ![id] = @ - 1]
        /\ UNCHANGED <<state, pending, came, went>>
    BY <1>10 DEF Queue!LoseCopy
  <2>2. ASSUME NEW jd \in Ids PROVE Limited(jd)'
    <3>1. left[jd]' = IF jd = id THEN left[jd] - 1 ELSE left[jd]
      BY <1>7, <2>1
    <3> QED BY <1>4, <1>6, <2>1, <3>1 DEF Limited
  <2>3. ASSUME NEW n \in Queue!Sites, NEW jd \in Ids PROVE Accounted(n, jd)'
    BY <1>5, <2>1 DEF Accounted, Queued, PlacesIn
  <2> QED BY <1>3, <2>2, <2>3
<1>11. ASSUME NEW n \in Queue!Sites, Queue!Dequeue(n) PROVE QueueInv'
  <2>1. pending[n] \in Seq(Ids) /\ pending[n] # <<>>
    BY <1>1, <1>11 DEF Queue!Dequeue, Queue!TypeOK
  <2>2. PICK id \in Ids : id = Head(pending[n])
    BY <2>1, HeadTailProperties
  <2>3. /\ state' = [state EXCEPT ![n][id] = "processing"]
        /\ pending' = [pending EXCEPT ![n] = Tail(@)]
        /\ went' = [went EXCEPT ![n][id] = @ + 1]
        /\ UNCHANGED <<left, came>>
    BY <1>11, <2>2 DEF Queue!Dequeue
  <2>4. ASSUME NEW m \in Queue!Sites, NEW jd \in Ids
        PROVE  state[m][jd]' = IF m = n /\ jd = id THEN "processing" ELSE state[m][jd]
    BY <1>1, <2>3 DEF Queue!TypeOK
  <2>5. ASSUME NEW jd \in Ids PROVE Limited(jd)'
    <3>1. state["origin"][jd]' = "absent" => state["origin"][jd] = "absent"
      BY <1>2, <2>4
    <3> QED BY <1>4, <2>3, <3>1 DEF Limited
  <2>6. ASSUME NEW m \in Queue!Sites, NEW jd \in Ids PROVE Accounted(m, jd)'
    <3>1. /\ came[m][jd] \in Nat /\ went[m][jd] \in Nat /\ Queued(m, jd) \in Nat
      BY <1>1, QueueTyped
    <3>2. went[m][jd]' = went[m][jd] + (IF m = n /\ jd = id THEN 1 ELSE 0)
      <4>1. went \in [Queue!Sites -> [Ids -> Nat]] /\ went' = [went EXCEPT ![n][id] = @ + 1]
        BY <1>1, <2>3 DEF Queue!TypeOK
      <4> QED BY <3>1, <4>1
    <3>3. Queued(m, jd)' = Queued(m, jd) - (IF m = n /\ jd = id THEN 1 ELSE 0)
      <4>1. Queued(m, jd)' = Cardinality(PlacesIn(pending[m]', jd))
        BY DEF Queued, PlacesIn
      <4>2. pending[m]' = IF m = n THEN Tail(pending[m]) ELSE pending[m]
        BY <1>1, <2>3 DEF Queue!TypeOK
      <4>3. CASE m = n
        BY <2>1, <2>2, <4>1, <4>2, <4>3, PlacesOfTail DEF Queued
      <4>4. CASE m # n
        BY <3>1, <4>1, <4>2, <4>4 DEF Queued
      <4> QED BY <4>3, <4>4
    <3>4. Accounted(m, jd) /\ came[m][jd]' = came[m][jd]
      BY <1>5, <2>3
    <3>5. state[m][jd]' = "pending" => state[m][jd] = "pending" /\ ~(m = n /\ jd = id)
      BY <2>4
    <3> QED BY <3>1, <3>2, <3>3, <3>4, <3>5 DEF Accounted
  <2> QED BY <1>3, <2>5, <2>6
<1>12. ASSUME NEW n \in Queue!Sites, NEW id \in Ids, Queue!Ack(n, id) PROVE QueueInv'
  <2>1. /\ state[n][id] # "absent" /\ state' = [state EXCEPT ![n][id] = "completed"]
        /\ UNCHANGED <<pending, left, came, went>>
    BY <1>12 DEF Queue!Ack
  <2>2. ASSUME NEW m \in Queue!Sites, NEW jd \in Ids
        PROVE  state[m][jd]' = IF m = n /\ jd = id THEN "completed" ELSE state[m][jd]
    BY <1>1, <2>1 DEF Queue!TypeOK
  <2>3. ASSUME NEW jd \in Ids PROVE Limited(jd)'
    <3>1. state["origin"][jd]' = "absent" => state["origin"][jd] = "absent"
      BY <1>2, <2>2
    <3> QED BY <1>4, <2>1, <3>1 DEF Limited
  <2>4. ASSUME NEW m \in Queue!Sites, NEW jd \in Ids PROVE Accounted(m, jd)'
    <3>1. state[m][jd]' = "pending" => state[m][jd] = "pending"
      BY <2>2
    <3> QED BY <1>5, <2>1, <3>1 DEF Accounted, Queued, PlacesIn
  <2> QED BY <1>3, <2>3, <2>4
<1>13. CASE UNCHANGED queueVars
  <2>1. UNCHANGED <<state, pending, left, came, went>>
    BY <1>13 DEF queueVars
  <2>2. ASSUME NEW jd \in Ids PROVE Limited(jd)'
    BY <1>4, <2>1 DEF Limited
  <2>3. ASSUME NEW m \in Queue!Sites, NEW jd \in Ids PROVE Accounted(m, jd)'
    BY <1>5, <2>1 DEF Accounted, Queued, PlacesIn
  <2> QED BY <1>3, <2>2, <2>3
<1> QED BY <1>8, <1>9, <1>10, <1>11, <1>12, <1>13 DEF Queue!Next

LEMMA QueueInvariant == Spec => []QueueInv
<1>1. ASSUME Init PROVE QueueInv
  <2>1. /\ state = [n \in Queue!Sites |-> [id \in Ids |-> "absent"]]
        /\ pending = [n \in Queue!Sites |-> <<>>]
        /\ left = [id \in Ids |-> 0]
        /\ came = [n \in Queue!Sites |-> [id \in Ids |-> 0]] /\ went = came
    BY <1>1, PartsBegin DEF Queue!Init
  <2>2. Attempts \in Nat /\ 0 \in 0 .. Attempts
    BY PartsAssumption DEF Queue!AttemptsAssumption
  <2>3. "absent" \in Queue!States /\ <<>> \in Seq(Ids)
    BY EmptySeq DEF Queue!States
  <2>4. Queue!TypeOK
    BY <2>1, <2>2, <2>3 DEF Queue!TypeOK
  <2>5. "origin" \in Queue!Sites /\ "replica" \in Queue!Sites
    BY DEF Queue!Sites
  <2>6. ASSUME NEW id \in Ids PROVE Limited(id)
    BY <2>1, <2>2, <2>5 DEF Limited
  <2>7. ASSUME NEW n \in Queue!Sites, NEW id \in Ids PROVE Accounted(n, id)
    BY <2>1, PlacesInEmpty DEF Accounted, Queued
  <2> QED BY <2>4, <2>6, <2>7 DEF QueueInv
<1>2. QueueInv /\ [Next]_vars => QueueInv'
  BY PartsMove, QueueInvStep
<1> QED BY <1>1, <1>2, PTL DEF Spec

\* UnifiedQueue counts as this module does.
LEMMA CountedAlike == \A S : Queue!Cardinality(S) = Cardinality(S)
BY DEF Queue!Cardinality, Cardinality

\* HandedOutAsItCame (_handle_queue_enqueue, _handle_rpc, _handle_queue_dequeue
\* and _handle_queue_ack, src/src/main.py): each node hands a message out as often
\* as it came, acknowledged or not: once where it was sent to, and at the replica
\* at most once for each attempt to copy it.
THEOREM HandedOutOnceEach == Spec => []HandedOutAsItCame
<1>1. ASSUME QueueInv PROVE HandedOutAsItCame
  <2>1. ASSUME NEW n \in Queue!Sites, NEW id \in Ids
        PROVE  /\ came[n][id] = went[n][id] + Queue!Cardinality(Queue!Places(n, id))
               /\ came["origin"][id] <= 1 /\ came["replica"][id] <= Attempts
               /\ state[n][id] = "pending" => Queue!Places(n, id) # {}
    <3>1. Queue!Places(n, id) = PlacesIn(pending[n], id)
      BY DEF Queue!Places, PlacesIn
    <3>2. Accounted(n, id) /\ Limited(id) /\ Queue!TypeOK
      BY <1>1 DEF QueueInv
    <3>3. came["replica"][id] \in Nat /\ left[id] \in Nat /\ Attempts \in Nat
      BY <3>2, QueueTyped DEF Queue!Sites
    <3>4. Cardinality({}) = 0
      BY FS_EmptySet
    <3>5. Queue!Cardinality(Queue!Places(n, id)) = Queued(n, id)
      BY <3>1, CountedAlike DEF Queued
    <3> QED BY <3>1, <3>2, <3>3, <3>4, <3>5 DEF Accounted, Limited, Queued
  <2> QED BY <2>1 DEF HandedOutAsItCame, Queue!HandedOutAsItCame
<1> QED BY <1>1, QueueInvariant, PTL

-----------------------------------------------------------------------------
(* The hash ring *)

\* The places on the ring do not change.
RingInv == Ring!TypeOK /\ place \in [Nodes -> SUBSET Points]

LEMMA RingInvInit == Ring!Init => RingInv
<1> SUFFICES ASSUME Ring!Init PROVE RingInv
  OBVIOUS
<1>1. place \in [Nodes -> SUBSET Points]
  BY DEF Ring!Init, Ring!kSubset
<1>2. ring = <<>> /\ nodes = {}
  BY DEF Ring!Init
<1>3. DOMAIN ring = {}
  BY <1>2
<1> QED BY <1>1, <1>2, <1>3 DEF RingInv, Ring!TypeOK

LEMMA RingInvStep ==
    ASSUME RingInv, [Ring!Next]_ringVars
    PROVE  RingInv'
<1>1. /\ DOMAIN ring \subseteq Points /\ \A p \in DOMAIN ring : ring[p] \in Nodes
      /\ nodes \subseteq Nodes /\ place \in [Nodes -> SUBSET Points]
  BY DEF RingInv, Ring!TypeOK
<1>2. ASSUME NEW n \in Nodes, Ring!AddNode(n)
      PROVE  RingInv'
  <2>1. /\ nodes' = nodes \cup {n} /\ place' = place
        /\ ring' = [p \in DOMAIN ring \cup place[n] |-> IF p \in place[n] THEN n ELSE ring[p]]
    BY <1>2 DEF Ring!AddNode
  <2>2. place[n] \subseteq Points
    BY <1>1
  <2> QED BY <1>1, <2>1, <2>2 DEF RingInv, Ring!TypeOK
<1>3. ASSUME NEW n \in Nodes, Ring!RemoveNode(n)
      PROVE  RingInv'
  <2>1. /\ nodes' = nodes \ {n} /\ place' = place
        /\ ring' = [p \in DOMAIN ring \ place[n] |-> ring[p]]
    BY <1>3 DEF Ring!RemoveNode, Ring!Restrict, Ring!Leaving
  <2> QED BY <1>1, <2>1 DEF RingInv, Ring!TypeOK
<1>4. CASE UNCHANGED ringVars
  BY <1>1, <1>4 DEF ringVars, RingInv, Ring!TypeOK
<1> QED BY <1>2, <1>3, <1>4 DEF Ring!Next

\* The ring counts as this module does.
LEMMA RingCounts == \A S : Ring!Cardinality(S) = Cardinality(S)
BY DEF Ring!Cardinality, Cardinality

\* Sorting some numbers lists each of them once, in ascending order.
LEMMA SortedFacts ==
    ASSUME NEW S \in SUBSET Nat, IsFiniteSet(S)
    PROVE  /\ Ring!Sorted(S) \in [1 .. Cardinality(S) -> S]
           /\ \A i, j \in 1 .. Cardinality(S) : i < j => Ring!Sorted(S)[i] < Ring!Sorted(S)[j]
           /\ \A p \in S : \E i \in 1 .. Cardinality(S) : Ring!Sorted(S)[i] = p
           /\ Len(Ring!Sorted(S)) = Cardinality(S) /\ Cardinality(S) \in Nat
<1> DEFINE n == Cardinality(S)
           Below(p) == {q \in S : q < p}
           rank == [p \in S |-> Cardinality(Below(p))]
<1>1. n \in Nat
  BY FS_CardinalityType
<1>2. ASSUME NEW p \in S
      PROVE  IsFiniteSet(Below(p)) /\ Cardinality(Below(p)) \in 0 .. n - 1
  <2>1. Below(p) \in SUBSET S /\ p \notin Below(p)
    OBVIOUS
  <2>2. IsFiniteSet(Below(p)) /\ Cardinality(Below(p)) <= n /\ Cardinality(Below(p)) # n
    BY <2>1, FS_Subset
  <2>3. Cardinality(Below(p)) \in Nat
    BY <2>2, FS_CardinalityType
  <2> QED BY <1>1, <2>2, <2>3
<1>3. ASSUME NEW p \in S, NEW q \in S, p < q
      PROVE  rank[p] < rank[q]
  <2>0. p \in Nat /\ \A r \in S : r < p => r < q
    <3>1. p \in Nat /\ q \in Nat /\ \A r \in S : r \in Nat
      OBVIOUS
    <3> QED BY <1>3, <3>1
  <2>1. Below(p) \in SUBSET Below(q) /\ p \in Below(q) /\ p \notin Below(p)
    <3>1. ~ (p < p)
      BY <2>0
    <3>2. p \in Below(q) /\ p \notin Below(p)
      BY <1>3, <3>1, Zenon
    <3>3. \A r \in Below(p) : r \in Below(q)
      BY <2>0, Zenon
    <3> QED BY <3>2, <3>3, Zenon
  <2>2. IsFiniteSet(Below(p)) /\ IsFiniteSet(Below(q))
    BY <1>2
  <2>3. Cardinality(Below(p)) <= Cardinality(Below(q)) /\ Cardinality(Below(p)) # Cardinality(Below(q))
    BY <2>1, <2>2, FS_Subset
  <2>4. Cardinality(Below(p)) \in Nat /\ Cardinality(Below(q)) \in Nat
    BY <2>2, FS_CardinalityType
  <2>5. rank[p] = Cardinality(Below(p)) /\ rank[q] = Cardinality(Below(q))
    OBVIOUS
  <2> HIDE DEF Below, rank
  <2> QED BY <2>3, <2>4, <2>5
<1>4. \A p \in S : rank[p] = Cardinality(Below(p)) /\ rank[p] \in 0 .. n - 1
  BY <1>2
<1>5. rank \in [S -> 0 .. n - 1]
  BY <1>2
<1> HIDE DEF rank
<1>6. rank \in Injection(S, 0 .. n - 1)
  BY <1>3, <1>4, <1>5 DEF Injection, IsInjective
<1>7. rank \in Surjection(S, 0 .. n - 1)
  <2>1. IsFiniteSet(0 .. n - 1) /\ Cardinality(0 .. n - 1) = n
    <3> HIDE DEF n
    <3>1. 0 \in Int /\ n - 1 \in Int /\ (0 > n - 1 => n = 0) /\ n - 1 - 0 + 1 = n
      BY <1>1
    <3> QED BY <3>1, FS_Interval
  <2> QED BY <1>6, <2>1, FS_Injection
<1>8. ASSUME NEW i \in 1 .. n
      PROVE  Ring!Sorted(S)[i] \in S /\ rank[Ring!Sorted(S)[i]] = i - 1
  <2>1. i - 1 \in 0 .. n - 1
    BY <1>1
  <2>2. \E p \in S : rank[p] = i - 1
    BY <1>7, <2>1 DEF Surjection
  <2>3. \E p \in S : Cardinality({q \in S : q < p}) = i - 1
    BY <1>4, <2>2
  <2>4. Ring!Sorted(S)[i] = CHOOSE p \in S : Cardinality({q \in S : q < p}) = i - 1
    BY RingCounts DEF Ring!Sorted
  <2>5. Ring!Sorted(S)[i] \in S /\ Cardinality({q \in S : q < Ring!Sorted(S)[i]}) = i - 1
    BY <2>3, <2>4
  <2> QED BY <1>4, <2>5
<1>9. DOMAIN Ring!Sorted(S) = 1 .. n /\ Ring!Sorted(S) = [i \in 1 .. n |-> Ring!Sorted(S)[i]]
  <2> DEFINE t(i) == CHOOSE p \in S : Cardinality({q \in S : q < p}) = i - 1
  <2>1. Ring!Sorted(S) = [i \in 1 .. n |-> t(i)]
    BY DEF Ring!Sorted, Ring!Cardinality, Cardinality
  <2> HIDE DEF t, n
  <2> QED BY <2>1
<1> DEFINE s == Ring!Sorted(S)
<1> HIDE DEF s, n, Below
<1>10. s \in [1 .. n -> S]
  BY <1>8, <1>9 DEF s
<1>11. \A i \in 1 .. n : s[i] \in S /\ rank[s[i]] = i - 1
  BY <1>8 DEF s
<1>12. ASSUME NEW i \in 1 .. n, NEW j \in 1 .. n, i < j
       PROVE  s[i] < s[j]
  <2>1. s[i] \in Nat /\ s[j] \in Nat /\ rank[s[i]] < rank[s[j]]
    <3>1. s[i] \in S /\ s[j] \in S /\ rank[s[i]] = i - 1 /\ rank[s[j]] = j - 1
      BY <1>11
    <3>2. i \in Int /\ j \in Int /\ i - 1 < j - 1
      BY <1>1, <1>12
    <3> QED BY <3>1, <3>2
  <2>2. CASE s[j] < s[i]
    <3>1. rank[s[j]] < rank[s[i]]
      BY <1>3, <1>11, <2>2
    <3> QED BY <1>1, <1>11, <2>1, <3>1
  <2>3. s[i] # s[j]
    BY <1>1, <1>11, <2>1
  <2> QED BY <2>1, <2>2, <2>3
<1>13. ASSUME NEW p \in S
       PROVE  \E i \in 1 .. n : s[i] = p
  <2>1. rank[p] \in 0 .. n - 1
    BY <1>4
  <2>2. rank[p] + 1 \in 1 .. n /\ (rank[p] + 1) - 1 = rank[p]
    BY <1>1, <2>1
  <2>3. s[rank[p] + 1] \in S /\ rank[s[rank[p] + 1]] = rank[p]
    BY <1>11, <2>2
  <2>4. s[rank[p] + 1] = p
    BY <1>6, <2>3 DEF Injection, IsInjective
  <2> QED BY <2>2, <2>4
<1>14. Len(s) = n
  BY <1>1, <1>10
<1> QED BY <1>1, <1>10, <1>12, <1>13, <1>14 DEF s, n

\* From h on around the ring, p comes before q.
Before(h, p, q) == (p >= h /\ q < h) \/ (p < q /\ (p >= h <=> q >= h))

\* The places of nodes do not overlap, and the ring holds those of its nodes.
RingShape ==
    /\ \A n \in Nodes : place[n] # {}
    /\ \A n, o \in Nodes : n # o => place[n] \cap place[o] = {}
    /\ ring = [p \in DOMAIN ring |-> ring[p]]
    /\ \A p : p \in DOMAIN ring <=> \E n \in nodes : p \in place[n]
    /\ \A n \in nodes : \A p \in place[n] : ring[p] = n
    /\ sortedKeys = Ring!Sorted(DOMAIN ring)

\* What the constants are.
LEMMA RingConstants ==
    /\ IsFiniteSet(Nodes) /\ Replicas \in Nat \ {0}
    /\ IsFiniteSet(Points) /\ Points \in SUBSET Nat /\ Points # {}
BY PartsAssumption DEF Ring!RingAssumption, Ring!IsFiniteSet, IsFiniteSet

\* The keys of the ring in order.
LEMMA KeysSorted ==
    ASSUME RingInv, RingShape
    PROVE  /\ Len(sortedKeys) \in Nat /\ (Len(sortedKeys) = 0 <=> DOMAIN ring = {})
           /\ DOMAIN sortedKeys = 1 .. Len(sortedKeys)
           /\ \A i \in 1 .. Len(sortedKeys) : sortedKeys[i] \in DOMAIN ring /\ sortedKeys[i] \in Nat
           /\ \A i, j \in 1 .. Len(sortedKeys) : i < j => sortedKeys[i] < sortedKeys[j]
           /\ \A p \in DOMAIN ring : \E i \in 1 .. Len(sortedKeys) : sortedKeys[i] = p
<1> DEFINE D == DOMAIN ring
<1>1. D \in SUBSET Points /\ D \in SUBSET Nat
  BY RingConstants DEF RingInv, Ring!TypeOK
<1>2. IsFiniteSet(D)
  BY <1>1, RingConstants, FS_Subset
<1>3. sortedKeys = Ring!Sorted(D)
  BY DEF RingShape
<1>4. Cardinality(D) = 0 <=> D = {}
  BY <1>2, FS_EmptySet
<1> HIDE DEF D
<1>5. /\ sortedKeys \in [1 .. Cardinality(D) -> D] /\ Len(sortedKeys) = Cardinality(D)
      /\ Cardinality(D) \in Nat
      /\ \A i, j \in 1 .. Cardinality(D) : i < j => sortedKeys[i] < sortedKeys[j]
      /\ \A p \in D : \E i \in 1 .. Cardinality(D) : sortedKeys[i] = p
  BY <1>1, <1>2, <1>3, SortedFacts
<1>6. \A i \in 1 .. Len(sortedKeys) : sortedKeys[i] \in D /\ sortedKeys[i] \in Nat
  BY <1>1, <1>5
<1> QED BY <1>4, <1>5, <1>6 DEF D

\* The first virtual node at or behind h, or the very first.
LEMMA FirstFound ==
    ASSUME RingInv, RingShape, DOMAIN ring # {}, NEW h \in Nat
    PROVE  LET f == Ring!FirstFrom(h)
           IN /\ f \in 1 .. Len(sortedKeys)
              /\ \A i \in 1 .. f - 1 : sortedKeys[i] < h
              /\ sortedKeys[f] >= h \/ (f = 1 /\ \A i \in 1 .. Len(sortedKeys) : sortedKeys[i] < h)
<1> DEFINE behind == {i \in DOMAIN sortedKeys : sortedKeys[i] >= h}
           f == Ring!FirstFrom(h)
<1>1. /\ Len(sortedKeys) \in Nat \ {0} /\ DOMAIN sortedKeys = 1 .. Len(sortedKeys)
      /\ \A i \in 1 .. Len(sortedKeys) : sortedKeys[i] \in Nat
  BY KeysSorted
<1>2. f = IF behind = {} THEN 1 ELSE Ring!Min(behind)
  BY DEF Ring!FirstFrom
<1>3. CASE behind = {}
  <2>1. f = 1 /\ \A i \in 1 .. Len(sortedKeys) : ~ (sortedKeys[i] >= h)
    BY <1>1, <1>2, <1>3
  <2>2. \A i \in 1 .. Len(sortedKeys) : sortedKeys[i] < h
    BY <1>1, <2>1
  <2> HIDE DEF f
  <2> QED BY <1>1, <2>1, <2>2 DEF f
<1>4. CASE behind # {}
  <2>1. behind \in SUBSET Nat /\ behind \in SUBSET (1 .. Len(sortedKeys))
    BY <1>1
  <2>2. \E x \in behind : \A y \in behind : x <= y
    BY <1>4, <2>1, LeastExists
  <2>3. f = CHOOSE x \in behind : \A y \in behind : x <= y
    BY <1>2, <1>4 DEF Ring!Min
  <2> HIDE DEF f
  <2>4. f \in behind /\ \A y \in behind : f <= y
    BY <2>2, <2>3
  <2>5. f \in 1 .. Len(sortedKeys) /\ sortedKeys[f] >= h
    BY <2>1, <2>4
  <2>6. ASSUME NEW i \in 1 .. f - 1 PROVE sortedKeys[i] < h
    <3>1. i \in 1 .. Len(sortedKeys) /\ ~ (f <= i)
      BY <1>1, <2>5
    <3>2. i \notin behind
      BY <2>4, <3>1
    <3> QED BY <1>1, <3>1, <3>2
  <2> QED BY <2>5, <2>6 DEF f
<1> QED BY <1>3, <1>4
\* Keys are hashed to natural numbers.
LEMMA HashesNatural == \A h \in Ring!Hashes : h \in Nat
<1> DEFINE m == Ring!Max(Points) + 1
<1>1. Ring!Hashes = 0 .. m
  BY DEF Ring!Hashes
<1> HIDE DEF m
<1>2. ASSUME NEW h \in 0 .. m PROVE h \in Nat
  BY <1>2
<1> QED BY <1>1, <1>2

\* From h on around the ring, in the order of Before, every virtual node is met.
LEMMA RingWalked ==
    ASSUME RingInv, RingShape, NEW h \in Nat
    PROVE  /\ \A i \in 1 .. Len(sortedKeys) : Ring!PointFrom(h, i) \in DOMAIN ring
           /\ \A i, j \in 1 .. Len(sortedKeys) :
                  i < j => Before(h, Ring!PointFrom(h, i), Ring!PointFrom(h, j))
           /\ \A p \in DOMAIN ring : \E i \in 1 .. Len(sortedKeys) : Ring!PointFrom(h, i) = p
           /\ DOMAIN ring # {} => Ring!PointFrom(h, 1) = sortedKeys[Ring!FirstFrom(h)]
<1> DEFINE n == Len(sortedKeys)
           f == Ring!FirstFrom(h)
           At(i) == IF f + i - 1 <= n THEN f + i - 1 ELSE f + i - 1 - n
<1>1. CASE DOMAIN ring = {}
  BY <1>1, KeysSorted
<1>2. CASE DOMAIN ring # {}
  <2>1. /\ n \in Nat \ {0}
        /\ \A i \in 1 .. n : sortedKeys[i] \in DOMAIN ring
        /\ \A i \in 1 .. n : sortedKeys[i] \in Nat
        /\ \A i, j \in 1 .. n : i < j => sortedKeys[i] < sortedKeys[j]
        /\ \A p \in DOMAIN ring : \E i \in 1 .. n : sortedKeys[i] = p
    BY <1>2, KeysSorted
  <2>2. /\ f \in 1 .. n
        /\ \A i \in 1 .. f - 1 : sortedKeys[i] < h
        /\ sortedKeys[f] >= h \/ (f = 1 /\ \A i \in 1 .. n : sortedKeys[i] < h)
    BY <1>2, FirstFound
  <2> HIDE DEF f, n
  <2>3. ASSUME NEW i \in 1 .. n
        PROVE  Ring!PointFrom(h, i) = sortedKeys[At(i)] /\ At(i) \in 1 .. n
    <3>1. ((f + i - 2) % n) + 1 = At(i)
      BY <2>1, <2>2, IndexFrom
    <3>2. Ring!PointFrom(h, i) = sortedKeys[((f + i - 2) % n) + 1]
      BY DEF Ring!PointFrom, f, n
    <3>3. At(i) \in 1 .. n
      BY <2>1, <2>2
    <3> HIDE DEF At
    <3> QED BY <3>1, <3>2, <3>3
  <2>4. ASSUME NEW i \in 1 .. n, i >= f, sortedKeys[f] >= h
        PROVE  sortedKeys[i] >= h
    <3>1. i = f \/ sortedKeys[f] < sortedKeys[i]
      BY <2>1, <2>2, <2>4
    <3> QED BY <2>1, <2>2, <2>4, <3>1
  <2>5. ASSUME NEW i \in 1 .. n, NEW j \in 1 .. n, i < j
        PROVE  Before(h, sortedKeys[At(i)], sortedKeys[At(j)])
    <3>1. At(i) \in 1 .. n /\ At(j) \in 1 .. n
      BY <2>3
    <3>2. CASE f = 1 /\ \A k \in 1 .. n : sortedKeys[k] < h
      <4>1. At(i) < At(j)
        BY <2>1, <2>5, <3>2
      <4> HIDE DEF At
      <4>2. /\ sortedKeys[At(i)] < sortedKeys[At(j)]
            /\ sortedKeys[At(i)] < h /\ sortedKeys[At(j)] < h
            /\ sortedKeys[At(i)] \in Nat /\ sortedKeys[At(j)] \in Nat
        BY <2>1, <3>1, <3>2, <4>1
      <4>3. ~ (sortedKeys[At(i)] >= h) /\ ~ (sortedKeys[At(j)] >= h)
        BY <4>2
      <4> QED BY <4>2, <4>3 DEF Before
    <3>3. CASE sortedKeys[f] >= h
      <4>1. \/ At(i) < At(j) /\ At(i) >= f /\ At(j) >= f
            \/ At(i) >= f /\ At(j) \in 1 .. f - 1
            \/ At(i) < At(j) /\ At(i) \in 1 .. f - 1 /\ At(j) \in 1 .. f - 1
        BY <2>1, <2>2, <2>5
      <4> HIDE DEF At
      <4>2. sortedKeys[At(i)] \in Nat /\ sortedKeys[At(j)] \in Nat
        BY <2>1, <3>1
      <4>3. At(i) < At(j) => sortedKeys[At(i)] < sortedKeys[At(j)]
        BY <2>1, <3>1
      <4>4. /\ At(i) >= f => sortedKeys[At(i)] >= h
            /\ At(j) >= f => sortedKeys[At(j)] >= h
            /\ At(i) \in 1 .. f - 1 => sortedKeys[At(i)] < h
            /\ At(j) \in 1 .. f - 1 => sortedKeys[At(j)] < h
        BY <2>2, <2>4, <3>1, <3>3
      <4> QED BY <4>1, <4>2, <4>3, <4>4 DEF Before
    <3> QED BY <2>2, <3>2, <3>3
  <2>6. ASSUME NEW k \in 1 .. n
        PROVE  \E i \in 1 .. n : At(i) = k
    <3>1. CASE k >= f
      <4>1. k - f + 1 \in 1 .. n /\ At(k - f + 1) = k
        BY <2>1, <2>2, <3>1
      <4> HIDE DEF At
      <4> QED BY <4>1
    <3>2. CASE k < f
      <4>1. (k + n) - f + 1 \in 1 .. n /\ At((k + n) - f + 1) = k
        BY <2>1, <2>2, <3>2
      <4> HIDE DEF At
      <4> QED BY <4>1
    <3> QED BY <2>2, <3>1, <3>2
  <2>7. At(1) = f
    BY <2>1, <2>2
  <2> HIDE DEF At
  <2>8. \A i \in 1 .. n : Ring!PointFrom(h, i) \in DOMAIN ring
    BY <2>1, <2>3
  <2>9. \A i, j \in 1 .. n : i < j => Before(h, Ring!PointFrom(h, i), Ring!PointFrom(h, j))
    BY <2>3, <2>5
  <2>10. ASSUME NEW p \in DOMAIN ring
         PROVE  \E i \in 1 .. n : Ring!PointFrom(h, i) = p
    <3>1. PICK k \in 1 .. n : sortedKeys[k] = p
      BY <2>1
    <3>2. PICK i \in 1 .. n : At(i) = k
      BY <2>6
    <3> QED BY <2>3, <3>1, <3>2
  <2>11. Ring!PointFrom(h, 1) = sortedKeys[f]
    BY <2>1, <2>3, <2>7
  <2> QED BY <2>8, <2>9, <2>10, <2>11 DEF n, f
<1> QED BY <1>1, <1>2

\* No virtual node comes before itself, nor two before each other.
LEMMA BeforeStrict ==
    ASSUME NEW h \in Nat, NEW p \in Nat, NEW q \in Nat, Before(h, p, q)
    PROVE  p # q /\ ~ Before(h, q, p)
BY DEF Before

\* The first virtual node from h on is the owner's.
OwnerFirst ==
    \A h \in Ring!Hashes :
        IF DOMAIN ring = {} THEN Ring!GetNode(h) = Ring!None
        ELSE \E p \in DOMAIN ring : /\ Ring!GetNode(h) = ring[p]
                                    /\ p = Ring!PointFrom(h, 1)
                                    /\ \A q \in DOMAIN ring : q = p \/ Before(h, p, q)

LEMMA OwnerFound ==
    ASSUME RingInv, RingShape
    PROVE  OwnerFirst
<1> SUFFICES ASSUME NEW h \in Ring!Hashes
             PROVE  IF DOMAIN ring = {} THEN Ring!GetNode(h) = Ring!None
                    ELSE \E p \in DOMAIN ring : /\ Ring!GetNode(h) = ring[p]
                                                /\ p = Ring!PointFrom(h, 1)
                                                /\ \A q \in DOMAIN ring : q = p \/ Before(h, p, q)
  BY DEF OwnerFirst
<1>1. h \in Nat
  BY HashesNatural
<1>2. ring = <<>> <=> DOMAIN ring = {}
  <2>1. ring = [p \in DOMAIN ring |-> ring[p]]
    BY DEF RingShape
  <2> QED BY <2>1
<1>3. CASE DOMAIN ring = {}
  BY <1>2, <1>3 DEF Ring!GetNode
<1>4. CASE DOMAIN ring # {}
  <2> DEFINE p == Ring!PointFrom(h, 1)
  <2>1. Len(sortedKeys) \in Nat \ {0}
    BY <1>4, KeysSorted
  <2>2. p \in DOMAIN ring /\ p = sortedKeys[Ring!FirstFrom(h)]
    <3>1. 1 \in 1 .. Len(sortedKeys)
      BY <2>1
    <3>2. /\ \A i \in 1 .. Len(sortedKeys) : Ring!PointFrom(h, i) \in DOMAIN ring
          /\ DOMAIN ring # {} => Ring!PointFrom(h, 1) = sortedKeys[Ring!FirstFrom(h)]
      BY <1>1, RingWalked
    <3> QED BY <1>4, <3>1, <3>2
  <2>3. Ring!GetNode(h) = ring[p]
    BY <1>2, <1>4, <2>2 DEF Ring!GetNode
  <2>4. ASSUME NEW q \in DOMAIN ring PROVE q = p \/ Before(h, p, q)
    <3>1. PICK i \in 1 .. Len(sortedKeys) : Ring!PointFrom(h, i) = q
      BY <1>1, RingWalked
    <3>2. CASE i = 1
      BY <3>1, <3>2
    <3>3. CASE i # 1
      <4>1. 1 \in 1 .. Len(sortedKeys) /\ 1 < i
        BY <2>1, <3>3
      <4> QED BY <1>1, <3>1, <4>1, RingWalked
    <3> QED BY <3>2, <3>3
  <2> HIDE DEF p
  <2>5. \E x \in DOMAIN ring : /\ Ring!GetNode(h) = ring[x]
                               /\ x = Ring!PointFrom(h, 1)
                               /\ \A q \in DOMAIN ring : q = x \/ Before(h, x, q)
    <3>1. p = Ring!PointFrom(h, 1)
      BY DEF p
    <3> QED BY <2>2, <2>3, <2>4, <3>1
  <2> QED BY <1>4, <2>5
<1> QED BY <1>3, <1>4
\* The nodes of the ring are those at its points.
LEMMA NodesOnRing ==
    ASSUME RingInv, RingShape
    PROVE  /\ IsFiniteSet(nodes) /\ Cardinality(nodes) \in Nat
           /\ \A p \in DOMAIN ring : ring[p] \in nodes
           /\ \A n \in nodes : \E p \in DOMAIN ring : ring[p] = n
<1>1. IsFiniteSet(nodes) /\ nodes \subseteq Nodes
  BY RingConstants, FS_Subset DEF RingInv, Ring!TypeOK
<1>2. /\ \A n \in Nodes : place[n] # {}
      /\ \A p : p \in DOMAIN ring <=> \E n \in nodes : p \in place[n]
      /\ \A n \in nodes : \A p \in place[n] : ring[p] = n
  BY DEF RingShape
<1>3. ASSUME NEW p \in DOMAIN ring PROVE ring[p] \in nodes
  BY <1>2
<1>4. ASSUME NEW n \in nodes PROVE \E p \in DOMAIN ring : ring[p] = n
  <2>1. PICK p : p \in place[n]
    BY <1>1, <1>2
  <2> QED BY <1>2, <2>1
<1> QED BY <1>1, <1>3, <1>4, FS_CardinalityType

NodeFrom(h, i) == ring[Ring!PointFrom(h, i)]

\* Of each node of the ring exactly the first virtual node from h on is not
\* seen before.
LEMMA UnseenOnce ==
    ASSUME RingInv, RingShape, NEW h \in Nat
    PROVE  LET new == Ring!Unseen(h)
           IN /\ new \in SUBSET (1 .. Len(sortedKeys)) /\ new \in SUBSET Nat /\ IsFiniteSet(new)
              /\ \A i \in new : NodeFrom(h, i) \in nodes
              /\ \A i, j \in new : NodeFrom(h, i) = NodeFrom(h, j) => i = j
              /\ \A i \in 1 .. Len(sortedKeys) :
                     \E j \in new : j <= i /\ NodeFrom(h, j) = NodeFrom(h, i)
              /\ Cardinality(new) = Cardinality(nodes)
<1> DEFINE n == Len(sortedKeys)
           new == Ring!Unseen(h)
<1>1. n \in Nat
  BY KeysSorted
<1>2. \A i : i \in new <=> i \in 1 .. n /\ \A j \in 1 .. i - 1 : NodeFrom(h, j) # NodeFrom(h, i)
  BY DEF Ring!Unseen, NodeFrom
<1>3. /\ \A i \in 1 .. n : Ring!PointFrom(h, i) \in DOMAIN ring
      /\ \A p \in DOMAIN ring : \E i \in 1 .. n : Ring!PointFrom(h, i) = p
  BY RingWalked
<1> HIDE DEF n, new
<1>4. new \in SUBSET (1 .. n) /\ new \in SUBSET Nat
  BY <1>1, <1>2
<1>5. IsFiniteSet(new)
  <2>1. IsFiniteSet(1 .. n)
    BY <1>1, FS_Interval
  <2> QED BY <1>4, <2>1, FS_Subset
<1>6. \A i \in new : NodeFrom(h, i) \in nodes
  BY <1>3, <1>4, NodesOnRing DEF NodeFrom
<1>7. ASSUME NEW i \in new, NEW j \in new, NodeFrom(h, i) = NodeFrom(h, j)
      PROVE  i = j
  <2>1. i \in Nat /\ j \in Nat /\ i \in 1 .. n /\ j \in 1 .. n
    BY <1>4
  <2>2. CASE i < j
    <3>1. i \in 1 .. j - 1
      BY <2>1, <2>2
    <3> QED BY <1>2, <1>7, <3>1
  <2>3. CASE j < i
    <3>1. j \in 1 .. i - 1
      BY <2>1, <2>3
    <3> QED BY <1>2, <1>7, <3>1
  <2> QED BY <2>1, <2>2, <2>3
<1>8. ASSUME NEW i \in 1 .. n
      PROVE  \E j \in new : j <= i /\ NodeFrom(h, j) = NodeFrom(h, i)
  <2> DEFINE same == {j \in 1 .. n : NodeFrom(h, j) = NodeFrom(h, i)}
  <2>1. same \in SUBSET Nat /\ i \in same
    BY <1>1
  <2>2. PICK j \in same : \A k \in same : j <= k
    BY <2>1, LeastExists
  <2>3. j \in 1 .. n /\ NodeFrom(h, j) = NodeFrom(h, i) /\ j <= i
    BY <2>1, <2>2
  <2>4. ASSUME NEW k \in 1 .. j - 1 PROVE NodeFrom(h, k) # NodeFrom(h, j)
    <3>1. k \in 1 .. n /\ ~ (j <= k)
      BY <1>1, <2>3
    <3>2. k \notin same
      BY <2>2, <3>1
    <3> QED BY <2>3, <3>1, <3>2
  <2>5. j \in new
    BY <1>2, <2>3, <2>4
  <2> QED BY <2>3, <2>5
<1>9. Cardinality(new) = Cardinality(nodes)
  <2> DEFINE who == [i \in new |-> NodeFrom(h, i)]
  <2>1. who \in Injection(new, nodes)
    BY <1>6, <1>7 DEF Injection, IsInjective
  <2>2. ASSUME NEW m \in nodes PROVE \E i \in new : who[i] = m
    <3>1. PICK p \in DOMAIN ring : ring[p] = m
      BY NodesOnRing
    <3>2. PICK i \in 1 .. n : Ring!PointFrom(h, i) = p
      BY <1>3
    <3>3. NodeFrom(h, i) = m
      BY <3>1, <3>2 DEF NodeFrom
    <3> QED BY <1>8, <3>3
  <2>3. who \in Surjection(new, nodes)
    BY <2>1, <2>2 DEF Surjection, Injection
  <2>4. who \in Bijection(new, nodes)
    BY <2>1, <2>3 DEF Bijection
  <2> QED BY <1>5, <2>4, FS_Bijection DEF ExistsBijection
<1> QED BY <1>4, <1>5, <1>6, <1>7, <1>8, <1>9 DEF n, new

\* What get_nodes_for_key returns: one for each of the first nodes met.
LEMMA FoundInOrder ==
    ASSUME RingInv, RingShape, NEW h \in Nat, NEW count \in Nat
    PROVE  LET found == Ring!GetNodes(h, count)
               order == Ring!Sorted(Ring!Unseen(h))
               m == Ring!Min({count, Cardinality(nodes)})
           IN /\ m = (IF count <= Cardinality(nodes) THEN count ELSE Cardinality(nodes))
              /\ found = [k \in 1 .. m |-> NodeFrom(h, order[k])]
              /\ Len(found) = m /\ DOMAIN found = 1 .. m
              /\ \A k \in 1 .. m : found[k] = NodeFrom(h, order[k])
              /\ \A k \in 1 .. Cardinality(nodes) : order[k] \in Ring!Unseen(h)
              /\ \A k, l \in 1 .. Cardinality(nodes) : k < l => order[k] < order[l]
              /\ \A i \in Ring!Unseen(h) : \E k \in 1 .. Cardinality(nodes) : order[k] = i
<1> DEFINE found == Ring!GetNodes(h, count)
           order == Ring!Sorted(Ring!Unseen(h))
           c == Cardinality(nodes)
           m == Ring!Min({count, c})
<1>1. c \in Nat
  BY NodesOnRing
<1>2. /\ Ring!Unseen(h) \in SUBSET Nat /\ IsFiniteSet(Ring!Unseen(h))
      /\ Cardinality(Ring!Unseen(h)) = c
  BY UnseenOnce
<1>3. /\ order \in [1 .. c -> Ring!Unseen(h)] /\ Len(order) = c
      /\ \A k, l \in 1 .. c : k < l => order[k] < order[l]
      /\ \A i \in Ring!Unseen(h) : \E k \in 1 .. c : order[k] = i
  BY <1>2, SortedFacts
<1>4. found = [k \in 1 .. m |-> NodeFrom(h, order[k])]
  BY <1>3 DEF Ring!GetNodes, NodeFrom
<1> HIDE DEF order, c
<1>5. m = IF count <= c THEN count ELSE c
  <2>1. \E x \in {count, c} : \A y \in {count, c} : x <= y
    BY <1>1
  <2>2. m = CHOOSE x \in {count, c} : \A y \in {count, c} : x <= y
    BY DEF Ring!Min
  <2> HIDE DEF m
  <2>3. m \in {count, c} /\ \A y \in {count, c} : m <= y
    BY <2>1, <2>2
  <2> QED BY <1>1, <2>3
<1>6. m \in Nat
  BY <1>1, <1>5
<1> HIDE DEF m, found
<1>7. /\ Len(found) = m /\ DOMAIN found = 1 .. m
      /\ \A k \in 1 .. m : found[k] = NodeFrom(h, order[k])
  BY <1>4, <1>6
<1>8. \A k \in 1 .. c : order[k] \in Ring!Unseen(h)
  BY <1>3
<1> QED BY <1>3, <1>4, <1>5, <1>7, <1>8 DEF found, order, c, m
\* The first to be returned is the node of the first virtual node from h on.
LEMMA FirstUnseen ==
    ASSUME RingInv, RingShape, NEW h \in Nat, Cardinality(nodes) # 0
    PROVE  Ring!Sorted(Ring!Unseen(h))[1] = 1 /\ DOMAIN ring # {}
<1> DEFINE order == Ring!Sorted(Ring!Unseen(h))
           c == Cardinality(nodes)
           n == Len(sortedKeys)
<1>1. c \in Nat \ {0} /\ 1 \in 1 .. c
  BY NodesOnRing
<1>2. /\ \A k \in 1 .. c : order[k] \in Ring!Unseen(h)
      /\ \A k, l \in 1 .. c : k < l => order[k] < order[l]
      /\ \A i \in Ring!Unseen(h) : \E k \in 1 .. c : order[k] = i
  <2>1. 1 \in Nat
    OBVIOUS
  <2> QED BY <2>1, FoundInOrder
<1>3. /\ Ring!Unseen(h) \in SUBSET (1 .. n)
      /\ \A i \in 1 .. n : \E j \in Ring!Unseen(h) : j <= i /\ NodeFrom(h, j) = NodeFrom(h, i)
  BY UnseenOnce
<1>4. n \in Nat /\ (n = 0 <=> DOMAIN ring = {})
  BY KeysSorted
<1> HIDE DEF order, c, n
<1>5. order[1] \in 1 .. n
  BY <1>1, <1>2, <1>3
<1>6. n # 0 /\ 1 \in 1 .. n
  BY <1>4, <1>5
<1>7. 1 \in Ring!Unseen(h)
  <2>1. PICK j \in Ring!Unseen(h) : j <= 1
    BY <1>3, <1>6
  <2>2. j \in 1 .. n
    BY <1>3
  <2>3. j = 1
    BY <1>4, <2>1, <2>2
  <2> QED BY <2>3
<1>8. PICK k \in 1 .. c : order[k] = 1
  BY <1>2, <1>7
<1>9. k = 1
  <2>1. k \in Nat /\ (k = 1 \/ 1 < k)
    BY <1>1
  <2>2. ~ (1 < k)
    BY <1>1, <1>2, <1>4, <1>5, <1>8
  <2> QED BY <2>1, <2>2
<1> QED BY <1>4, <1>6, <1>8, <1>9 DEF order

\* OwnerLeadsReplicas of HashRing, from the shape of the ring.
LEMMA OwnerLeads ==
    ASSUME RingInv, RingShape
    PROVE  Ring!OwnerLeadsReplicas
<1> SUFFICES ASSUME NEW h \in Ring!Hashes, NEW count \in 1 .. Ring!Cardinality(Nodes)
             PROVE  LET found == Ring!GetNodes(h, count)
                    IN /\ Ring!IsInjective(found)
                       /\ Ring!Range(found) \subseteq nodes
                       /\ Len(found) = Ring!Min({count, Ring!Cardinality(nodes)})
                       /\ found # <<>> => found[1] = Ring!GetNode(h)
  BY DEF Ring!OwnerLeadsReplicas
<1> DEFINE found == Ring!GetNodes(h, count)
           order == Ring!Sorted(Ring!Unseen(h))
           c == Cardinality(nodes)
           m == Ring!Min({count, c})
<1>1. h \in Nat
  BY HashesNatural
<1>2. count \in Nat \ {0}
  <2>1. count \in 1 .. Cardinality(Nodes) /\ Cardinality(Nodes) \in Nat
    BY RingCounts, RingConstants, FS_CardinalityType
  <2> QED BY <2>1
<1>3. c \in Nat
  BY NodesOnRing
<1>4. /\ m = (IF count <= c THEN count ELSE c)
      /\ Len(found) = m /\ DOMAIN found = 1 .. m
      /\ \A k \in 1 .. m : found[k] = NodeFrom(h, order[k])
      /\ \A k \in 1 .. c : order[k] \in Ring!Unseen(h)
      /\ \A k, l \in 1 .. c : k < l => order[k] < order[l]
  BY <1>1, <1>2, FoundInOrder
<1>5. /\ Ring!Unseen(h) \in SUBSET Nat
      /\ \A i \in Ring!Unseen(h) : NodeFrom(h, i) \in nodes
      /\ \A i, j \in Ring!Unseen(h) : NodeFrom(h, i) = NodeFrom(h, j) => i = j
  BY <1>1, UnseenOnce
<1>6. c # 0 => order[1] = 1 /\ DOMAIN ring # {}
  BY <1>1, FirstUnseen
<1>7. Len(found) = Ring!Min({count, Ring!Cardinality(nodes)})
  BY <1>4, RingCounts
<1> HIDE DEF found, order, c, m
<1>8. m \in Nat /\ m <= c
  BY <1>2, <1>3, <1>4
<1>9. \A k \in 1 .. m : k \in 1 .. c
  BY <1>3, <1>8
<1>10. Ring!IsInjective(found)
  <2>1. ASSUME NEW k \in 1 .. m, NEW l \in 1 .. m, found[k] = found[l]
        PROVE  k = l
    <3>1. order[k] = order[l]
      BY <1>4, <1>5, <1>9, <2>1
    <3>2. k \in 1 .. c /\ l \in 1 .. c /\ k \in Int /\ l \in Int
      BY <1>9
    <3>3. order[k] \in Nat /\ order[l] \in Nat
      BY <1>4, <1>5, <3>2
    <3>4. ~ (k < l) /\ ~ (l < k)
      BY <1>4, <3>1, <3>2, <3>3
    <3> QED BY <3>2, <3>4
  <2> QED BY <1>4, <2>1 DEF Ring!IsInjective
<1>11. Ring!Range(found) \subseteq nodes
  BY <1>4, <1>5, <1>9 DEF Ring!Range
<1>12. ASSUME found # <<>> PROVE found[1] = Ring!GetNode(h)
  <2>1. m # 0
    <3>1. found = [k \in 1 .. m |-> NodeFrom(h, order[k])]
      BY <1>1, <1>2, FoundInOrder DEF found, order, c, m
    <3>2. CASE m = 0
      BY <1>12, <3>1, <3>2
    <3> QED BY <3>2
  <2>2. 1 \in 1 .. m /\ c # 0
    BY <1>3, <1>8, <2>1
  <2>3. found[1] = NodeFrom(h, 1) /\ DOMAIN ring # {}
    BY <1>4, <1>6, <2>2
  <2>4. Ring!GetNode(h) = ring[Ring!PointFrom(h, 1)]
    BY <2>3, OwnerFound DEF OwnerFirst
  <2> QED BY <2>3, <2>4 DEF NodeFrom
<1> QED BY <1>7, <1>10, <1>11, <1>12 DEF found

\* The second replica is the node of the first virtual node from h on that is not
\* the owner's; where there is none, all are the owner's.
SecondNext ==
    \A h \in Ring!Hashes :
        LET replicas == Ring!GetNodes(h, 2)
        IN IF Len(replicas) = 2
           THEN \E q \in DOMAIN ring :
                    /\ ring[q] = replicas[2] /\ ring[q] # Ring!GetNode(h)
                    /\ \A r \in DOMAIN ring :
                           r = q \/ ring[r] = Ring!GetNode(h) \/ Before(h, q, r)
           ELSE \A r \in DOMAIN ring : ring[r] = Ring!GetNode(h)

LEMMA SecondFound ==
    ASSUME RingInv, RingShape
    PROVE  SecondNext
<1> SUFFICES ASSUME NEW h \in Ring!Hashes
             PROVE  LET replicas == Ring!GetNodes(h, 2)
                    IN IF Len(replicas) = 2
                       THEN \E q \in DOMAIN ring :
                                /\ ring[q] = replicas[2] /\ ring[q] # Ring!GetNode(h)
                                /\ \A r \in DOMAIN ring :
                                       r = q \/ ring[r] = Ring!GetNode(h) \/ Before(h, q, r)
                       ELSE \A r \in DOMAIN ring : ring[r] = Ring!GetNode(h)
  BY DEF SecondNext
<1> DEFINE found == Ring!GetNodes(h, 2)
           order == Ring!Sorted(Ring!Unseen(h))
           new == Ring!Unseen(h)
           c == Cardinality(nodes)
           m == Ring!Min({2, c})
           n == Len(sortedKeys)
           owner == Ring!GetNode(h)
<1>1. h \in Nat /\ c \in Nat /\ n \in Nat
  BY HashesNatural, NodesOnRing, KeysSorted
<1>2. /\ m = (IF 2 <= c THEN 2 ELSE c)
      /\ Len(found) = m
      /\ \A k \in 1 .. m : found[k] = NodeFrom(h, order[k])
      /\ \A k \in 1 .. c : order[k] \in new
      /\ \A k, l \in 1 .. c : k < l => order[k] < order[l]
      /\ \A i \in new : \E k \in 1 .. c : order[k] = i
  BY <1>1, FoundInOrder
<1>3. /\ new \in SUBSET (1 .. n)
      /\ \A i, j \in new : NodeFrom(h, i) = NodeFrom(h, j) => i = j
      /\ \A i \in 1 .. n : \E j \in new : j <= i /\ NodeFrom(h, j) = NodeFrom(h, i)
  BY <1>1, UnseenOnce
<1>4. c # 0 => order[1] = 1 /\ DOMAIN ring # {}
  BY <1>1, FirstUnseen
<1>5. DOMAIN ring # {} => owner = NodeFrom(h, 1)
  BY OwnerFound DEF OwnerFirst, NodeFrom
<1>6. /\ \A i \in 1 .. n : Ring!PointFrom(h, i) \in DOMAIN ring
      /\ \A i, j \in 1 .. n : i < j => Before(h, Ring!PointFrom(h, i), Ring!PointFrom(h, j))
      /\ \A p \in DOMAIN ring : \E i \in 1 .. n : Ring!PointFrom(h, i) = p
  BY <1>1, RingWalked
<1> HIDE DEF found, order, new, c, m, n, owner
<1>7. CASE Len(found) = 2
  <2>1. m = 2 /\ 2 <= c /\ 1 \in 1 .. c /\ 2 \in 1 .. c /\ c # 0
    BY <1>1, <1>2, <1>7
  <2> DEFINE i == order[2]
             q == Ring!PointFrom(h, i)
  <2>2. i \in new /\ i \in 1 .. n /\ order[1] \in new /\ order[1] < i /\ order[1] = 1
    <3>1. i \in new /\ order[1] \in new /\ order[1] = 1
      BY <1>2, <1>4, <2>1
    <3>2. order[1] < i
      BY <1>2, <2>1
    <3> QED BY <1>3, <3>1, <3>2
  <2>3. q \in DOMAIN ring /\ ring[q] = NodeFrom(h, i) /\ found[2] = NodeFrom(h, i)
    BY <1>2, <1>6, <2>1, <2>2 DEF NodeFrom
  <2>4. ring[q] # owner
    <3>1. 1 # i
      BY <1>1, <2>2
    <3> QED BY <1>3, <1>4, <1>5, <2>1, <2>2, <2>3, <3>1
  <2>5. ASSUME NEW r \in DOMAIN ring
        PROVE  r = q \/ ring[r] = owner \/ Before(h, q, r)
    <3>1. PICK j \in 1 .. n : Ring!PointFrom(h, j) = r
      BY <1>6
    <3>2. PICK k \in new : k <= j /\ NodeFrom(h, k) = NodeFrom(h, j)
      BY <1>3
    <3>3. PICK l \in 1 .. c : order[l] = k
      BY <1>2
    <3>4. CASE l = 1
      BY <1>4, <1>5, <2>1, <3>1, <3>2, <3>3, <3>4 DEF NodeFrom
    <3>5. CASE l # 1
      <4>1. l = 2 \/ 2 < l
        BY <1>1, <3>5
      <4>2. i = k \/ i < k
        BY <1>2, <2>1, <3>3, <4>1
      <4>3. i = j \/ i < j
        <5>1. k \in 1 .. n
          BY <1>3
        <5> QED BY <1>1, <2>2, <3>2, <4>2, <5>1
      <4> QED BY <1>6, <2>2, <3>1, <4>3
    <3> QED BY <3>4, <3>5
  <2> HIDE DEF q, i
  <2> QED BY <1>7, <2>3, <2>4, <2>5 DEF found, owner
<1>8. CASE Len(found) # 2
  <2>1. c = 0 \/ c = 1
    BY <1>1, <1>2, <1>8
  <2>2. ASSUME NEW r \in DOMAIN ring
        PROVE  ring[r] = owner
    <3>1. PICK j \in 1 .. n : Ring!PointFrom(h, j) = r
      BY <1>6
    <3>2. PICK k \in new : k <= j /\ NodeFrom(h, k) = NodeFrom(h, j)
      BY <1>3
    <3>3. PICK l \in 1 .. c : order[l] = k
      BY <1>2
    <3>4. l = 1 /\ c # 0
      BY <2>1
    <3> QED BY <1>4, <1>5, <3>1, <3>2, <3>3, <3>4 DEF NodeFrom
  <2> QED BY <1>8, <2>2 DEF found, owner
<1> QED BY <1>7, <1>8
\* What a node that comes changes on the ring, and what one that leaves.
LEMMA RingAdds ==
    ASSUME RingInv, RingShape, NEW n \in Nodes, Ring!AddNode(n)
    PROVE  /\ DOMAIN ring' = DOMAIN ring \cup place[n]
           /\ \A p \in DOMAIN ring : ring'[p] = ring[p]
           /\ \A p \in DOMAIN ring' \ DOMAIN ring : ring'[p] = n /\ n \notin nodes
<1>1. /\ ring' = [p \in DOMAIN ring \cup place[n] |-> IF p \in place[n] THEN n ELSE ring[p]]
      /\ nodes \subseteq Nodes
  BY DEF Ring!AddNode, RingInv, Ring!TypeOK
<1>2. /\ \A i, o \in Nodes : i # o => place[i] \cap place[o] = {}
      /\ \A p : p \in DOMAIN ring <=> \E i \in nodes : p \in place[i]
      /\ \A i \in nodes : \A p \in place[i] : ring[p] = i
  BY DEF RingShape
<1>3. ASSUME NEW p \in DOMAIN ring PROVE ring'[p] = ring[p]
  <2>1. PICK i \in nodes : p \in place[i]
    BY <1>2
  <2>2. p \in place[n] => n = i
    BY <1>1, <1>2, <2>1
  <2> QED BY <1>1, <1>2, <2>1, <2>2
<1>4. ASSUME NEW p \in DOMAIN ring' \ DOMAIN ring PROVE ring'[p] = n /\ n \notin nodes
  BY <1>1, <1>2
<1> QED BY <1>1, <1>3, <1>4

LEMMA RingLoses ==
    ASSUME RingInv, RingShape, NEW n \in Nodes, Ring!RemoveNode(n)
    PROVE  /\ DOMAIN ring' = {p \in DOMAIN ring : ring[p] # n}
           /\ \A p \in DOMAIN ring' : ring'[p] = ring[p]
           /\ nodes' = nodes \ {n}
<1>1. ring' = [p \in DOMAIN ring \ place[n] |-> ring[p]] /\ nodes \subseteq Nodes
  BY DEF Ring!RemoveNode, Ring!Restrict, Ring!Leaving, RingInv, Ring!TypeOK
<1>2. /\ \A i, o \in Nodes : i # o => place[i] \cap place[o] = {}
      /\ \A p : p \in DOMAIN ring <=> \E i \in nodes : p \in place[i]
      /\ \A i \in nodes : \A p \in place[i] : ring[p] = i
  BY DEF RingShape
<1>3. ASSUME NEW p \in DOMAIN ring PROVE p \in place[n] <=> ring[p] = n
  <2>1. PICK i \in nodes : p \in place[i]
    BY <1>2
  <2>2. p \in place[n] => n = i
    BY <1>1, <1>2, <2>1
  <2> QED BY <1>2, <2>1, <2>2
<1>4. nodes' = nodes \ {n}
  BY DEF Ring!RemoveNode
<1> QED BY <1>1, <1>3, <1>4

LEMMA RingShapeInit == Ring!Init => RingShape
<1> SUFFICES ASSUME Ring!Init PROVE RingShape
  OBVIOUS
<1>1. place \in {f \in [Nodes -> Ring!kSubset(Replicas, Points)] : Ring!Placed(f)}
  BY DEF Ring!Init
<1>2. Ring!Placed(place) /\ place \in [Nodes -> Ring!kSubset(Replicas, Points)]
  BY <1>1
<1>3. \A n, o \in Nodes : n # o => place[n] \cap place[o] = {}
  BY <1>2 DEF Ring!Placed
<1>4. ASSUME NEW n \in Nodes PROVE place[n] # {}
  <2>1. Ring!Cardinality(place[n]) = Replicas
    BY <1>2 DEF Ring!kSubset
  <2>2. Cardinality(place[n]) # 0
    BY <2>1, RingCounts, RingConstants
  <2> QED BY <2>2, FS_EmptySet
<1>5. ring = <<>> /\ sortedKeys = <<>> /\ nodes = {}
  BY DEF Ring!Init
<1>6. DOMAIN ring = {} /\ ring = [p \in DOMAIN ring |-> ring[p]]
  BY <1>5
<1>7. sortedKeys = Ring!Sorted(DOMAIN ring)
  <2>1. Ring!Cardinality({}) = 0
    BY RingCounts, FS_EmptySet
  <2>2. Ring!Sorted({}) = <<>>
    BY <2>1 DEF Ring!Sorted
  <2> QED BY <1>5, <1>6, <2>2
<1> QED BY <1>3, <1>4, <1>5, <1>6, <1>7 DEF RingShape

LEMMA RingShapeStep ==
    ASSUME RingInv, RingShape, [Ring!Next]_ringVars
    PROVE  RingShape'
<1>1. /\ \A n \in Nodes : place[n] # {}
      /\ \A n, o \in Nodes : n # o => place[n] \cap place[o] = {}
      /\ \A p : p \in DOMAIN ring <=> \E n \in nodes : p \in place[n]
      /\ \A n \in nodes : \A p \in place[n] : ring[p] = n
      /\ nodes \subseteq Nodes
  BY DEF RingShape, RingInv, Ring!TypeOK
<1>2. ASSUME NEW n \in Nodes, Ring!AddNode(n)
      PROVE  RingShape'
  <2>1. /\ nodes' = nodes \cup {n} /\ place' = place
        /\ sortedKeys' = Ring!Sorted(DOMAIN ring')
        /\ ring' = [p \in DOMAIN ring \cup place[n] |-> IF p \in place[n] THEN n ELSE ring[p]]
    BY <1>2 DEF Ring!AddNode
  <2>2. ring' = [p \in DOMAIN ring' |-> ring'[p]]
    BY <2>1
  <2>3. /\ DOMAIN ring' = DOMAIN ring \cup place[n]
        /\ \A p \in DOMAIN ring : ring'[p] = ring[p]
        /\ \A p \in DOMAIN ring' \ DOMAIN ring : ring'[p] = n
    BY <1>2, RingAdds
  <2>4. \A p : p \in DOMAIN ring' <=> \E i \in nodes' : p \in place[i]
    BY <1>1, <2>1, <2>3
  <2>5. ASSUME NEW i \in nodes', NEW p \in place[i] PROVE ring'[p] = i
    <3>1. CASE i = n
      BY <2>1, <2>5, <3>1
    <3>2. CASE i # n
      <4>1. i \in nodes /\ p \in DOMAIN ring
        BY <1>1, <2>1, <2>5, <3>2
      <4> QED BY <1>1, <2>3, <2>5, <4>1
    <3> QED BY <3>1, <3>2
  <2> QED BY <1>1, <2>1, <2>2, <2>4, <2>5 DEF RingShape
<1>3. ASSUME NEW n \in Nodes, Ring!RemoveNode(n)
      PROVE  RingShape'
  <2>1. /\ place' = place /\ sortedKeys' = Ring!Sorted(DOMAIN ring')
        /\ ring' = [p \in DOMAIN ring \ place[n] |-> ring[p]]
    BY <1>3 DEF Ring!RemoveNode, Ring!Restrict, Ring!Leaving
  <2>2. ring' = [p \in DOMAIN ring' |-> ring'[p]]
    BY <2>1
  <2>3. /\ DOMAIN ring' = {p \in DOMAIN ring : ring[p] # n}
        /\ \A p \in DOMAIN ring' : ring'[p] = ring[p]
        /\ nodes' = nodes \ {n}
    BY <1>3, RingLoses
  <2>4. \A p : p \in DOMAIN ring' <=> \E i \in nodes' : p \in place[i]
    BY <1>1, <2>3
  <2>5. \A i \in nodes' : \A p \in place[i] : ring'[p] = i
    BY <1>1, <2>3, <2>4
  <2> QED BY <1>1, <2>1, <2>2, <2>4, <2>5 DEF RingShape
<1>4. CASE UNCHANGED ringVars
  BY <1>4 DEF ringVars, RingShape
<1> QED BY <1>2, <1>3, <1>4 DEF Ring!Next

\* SuccessorTakesOver of HashRing, for one step.
LEMMA SuccessorStep ==
    ASSUME RingInv, RingShape, OwnerFirst, SecondNext, RingInv', OwnerFirst', Ring!Next
    PROVE  \A h \in Ring!Hashes :
              LET replicas == Ring!GetNodes(h, 2)
              IN IF Ring!GetNode(h) \in nodes \ nodes'
                 THEN Ring!GetNode(h)' = IF Len(replicas) = 2 THEN replicas[2] ELSE Ring!None
                 ELSE Ring!GetNode(h)' \in {Ring!GetNode(h)} \cup (nodes' \ nodes)
<1> SUFFICES ASSUME NEW h \in Ring!Hashes
             PROVE  LET replicas == Ring!GetNodes(h, 2)
                    IN IF Ring!GetNode(h) \in nodes \ nodes'
                       THEN Ring!GetNode(h)' = IF Len(replicas) = 2 THEN replicas[2] ELSE Ring!None
                       ELSE Ring!GetNode(h)' \in {Ring!GetNode(h)} \cup (nodes' \ nodes)
  OBVIOUS
<1> DEFINE replicas == Ring!GetNodes(h, 2)
           owner == Ring!GetNode(h)
           later == Ring!GetNode(h)'
           D == DOMAIN ring
           E == DOMAIN ring'
<1>1. IF D = {} THEN owner = Ring!None
      ELSE \E p \in D : owner = ring[p] /\ \A q \in D : q = p \/ Before(h, p, q)
  BY DEF OwnerFirst
<1>2. IF E = {} THEN later = Ring!None
      ELSE \E p \in E : later = ring'[p] /\ \A q \in E : q = p \/ Before(h, p, q)
  BY DEF OwnerFirst
<1>3. IF Len(replicas) = 2
      THEN \E q \in D : /\ ring[q] = replicas[2] /\ ring[q] # owner
                        /\ \A r \in D : r = q \/ ring[r] = owner \/ Before(h, q, r)
      ELSE \A r \in D : ring[r] = owner
  BY DEF SecondNext
<1>4. \A p \in D \cup E : p \in Nat
  BY RingConstants DEF RingInv, Ring!TypeOK
<1>5. \A p \in D \cup E, q \in D \cup E : Before(h, p, q) => p # q /\ ~ Before(h, q, p)
  BY <1>4, HashesNatural, BeforeStrict
<1>6. \A p \in D : ring[p] \in nodes
  BY NodesOnRing
<1> HIDE DEF replicas, owner, later, D, E
<1>7. ASSUME NEW n \in Nodes, Ring!AddNode(n)
      PROVE  owner \notin nodes \ nodes' /\ later \in {owner} \cup (nodes' \ nodes)
  <2>1. /\ E = D \cup place[n] /\ nodes' = nodes \cup {n}
        /\ \A p \in D : ring'[p] = ring[p]
        /\ \A p \in E \ D : ring'[p] = n /\ n \notin nodes
    BY <1>7, RingAdds DEF Ring!AddNode, D, E
  <2>2. CASE E = {}
    BY <1>1, <1>2, <2>1, <2>2
  <2>3. CASE E # {}
    <3>1. PICK p \in E : later = ring'[p] /\ \A q \in E : q = p \/ Before(h, p, q)
      BY <1>2, <2>3
    <3>2. CASE p \notin D
      BY <2>1, <3>1, <3>2
    <3>3. CASE p \in D
      <4>1. PICK o \in D : owner = ring[o] /\ \A q \in D : q = o \/ Before(h, o, q)
        BY <1>1, <3>3
      <4>2. p = o
        BY <1>5, <2>1, <3>1, <3>3, <4>1
      <4> QED BY <2>1, <3>1, <4>1, <4>2
    <3> QED BY <3>2, <3>3
  <2> QED BY <2>1, <2>2, <2>3
<1>8. ASSUME NEW n \in Nodes, Ring!RemoveNode(n)
      PROVE  IF owner \in nodes \ nodes'
             THEN later = IF Len(replicas) = 2 THEN replicas[2] ELSE Ring!None
             ELSE later = owner
  <2>1. /\ E = {p \in D : ring[p] # n} /\ nodes' = nodes \ {n}
        /\ \A p \in E : ring'[p] = ring[p]
    BY <1>8, RingLoses DEF D, E
  <2>2. ASSUME owner \in nodes \ nodes'
        PROVE  later = IF Len(replicas) = 2 THEN replicas[2] ELSE Ring!None
    <3>1. owner = n
      BY <2>1, <2>2
    <3>2. CASE Len(replicas) = 2
      <4>1. PICK q \in D : /\ ring[q] = replicas[2] /\ ring[q] # owner
                           /\ \A r \in D : r = q \/ ring[r] = owner \/ Before(h, q, r)
        BY <1>3, <3>2
      <4>2. q \in E
        BY <2>1, <3>1, <4>1
      <4>3. PICK p \in E : later = ring'[p] /\ \A r \in E : r = p \/ Before(h, p, r)
        BY <1>2, <4>2
      <4>4. p = q
        BY <1>5, <2>1, <3>1, <4>1, <4>2, <4>3
      <4> QED BY <2>1, <3>2, <4>1, <4>3, <4>4
    <3>3. CASE Len(replicas) # 2
      <4>1. E = {}
        BY <1>3, <2>1, <3>1, <3>3
      <4> QED BY <1>2, <3>3, <4>1
    <3> QED BY <3>2, <3>3
  <2>3. ASSUME owner \notin nodes \ nodes'
        PROVE  later = owner
    <3>1. CASE D = {}
      BY <1>1, <1>2, <2>1, <3>1
    <3>2. CASE D # {}
      <4>1. PICK o \in D : owner = ring[o] /\ \A q \in D : q = o \/ Before(h, o, q)
        BY <1>1, <3>2
      <4>2. o \in E
        BY <1>6, <2>1, <2>3, <4>1
      <4>3. PICK p \in E : later = ring'[p] /\ \A r \in E : r = p \/ Before(h, p, r)
        BY <1>2, <4>2
      <4>4. p = o
        BY <1>5, <2>1, <4>1, <4>2, <4>3
      <4> QED BY <2>1, <4>1, <4>3, <4>4
    <3> QED BY <3>1, <3>2
  <2> QED BY <2>2, <2>3
<1> USE DEF replicas, owner, later
<1>9. CASE \E n \in Nodes : Ring!AddNode(n)
  BY <1>7, <1>9
<1>10. CASE \E n \in Nodes : Ring!RemoveNode(n)
  BY <1>8, <1>10
<1> QED BY <1>9, <1>10 DEF Ring!Next

LEMMA RingInvariant == Spec => [](RingInv /\ RingShape)
<1>1. Init => RingInv /\ RingShape
  BY PartsBegin, RingInvInit, RingShapeInit
<1>2. RingInv /\ RingShape /\ [Next]_vars => (RingInv /\ RingShape)'
  BY PartsMove, RingInvStep, RingShapeStep
<1> QED BY <1>1, <1>2, PTL DEF Spec

\* OwnerLeadsReplicas (get_node and get_nodes_for_key of ConsistentHashRing,
\* src/src/nodes/queue_node.py): whatever joined and left, the replicas of a key
\* are as many distinct nodes as asked for, or all there are, its owner first.
THEOREM ReplicasFollowOwner == Spec => []OwnerLeadsReplicas
<1>1. RingInv /\ RingShape => OwnerLeadsReplicas
  BY OwnerLeads DEF OwnerLeadsReplicas
<1> QED BY <1>1, RingInvariant, PTL

\* SuccessorTakesOver (add_node and remove_node of ConsistentHashRing,
\* src/src/nodes/queue_node.py): a node that leaves hands each of its keys to the
\* key's next replica and no other key moves; one that comes only takes keys.
THEOREM KeysMoveToSuccessor == Spec => SuccessorTakesOver
<1> DEFINE Handed ==
             \A h \in Ring!Hashes :
                LET replicas == Ring!GetNodes(h, 2)
                IN IF Ring!GetNode(h) \in nodes \ nodes'
                   THEN Ring!GetNode(h)' = IF Len(replicas) = 2 THEN replicas[2] ELSE Ring!None
                   ELSE Ring!GetNode(h)' \in {Ring!GetNode(h)} \cup (nodes' \ nodes)
<1>1. RingInv /\ RingShape => OwnerFirst /\ SecondNext
  BY OwnerFound, SecondFound
<1>2. RingInv /\ RingShape /\ OwnerFirst /\ SecondNext /\ RingInv' /\ OwnerFirst' /\ [Next]_vars
      => [Handed]_ringVars
  <2>1. [Next]_vars => [Ring!Next]_ringVars
    BY PartsMove
  <2>2. RingInv /\ RingShape /\ OwnerFirst /\ SecondNext /\ RingInv' /\ OwnerFirst' /\ Ring!Next => Handed
    BY SuccessorStep
  <2> HIDE DEF Handed
  <2> QED BY <2>1, <2>2
<1>3. [][Handed]_ringVars => SuccessorTakesOver
  BY DEF SuccessorTakesOver, Ring!SuccessorTakesOver, Ring!vars, ringVars
<1> HIDE DEF Handed
<1> QED BY <1>1, <1>2, <1>3, RingInvariant, PTL DEF Spec

-----------------------------------------------------------------------------
(* The search for deadlocks *)

\* Each client on the path waits for the next; the last one still looks at some
\* of those it waits for.
Follows ==
    /\ Len(todo) = Len(path)
    /\ \A i \in DOMAIN todo : todo[i] \subseteq Search!WaitsFor(path[i])
    /\ \A i, j \in DOMAIN path : j = i + 1 => path[j] \in Search!WaitsFor(path[i])

SearchInv == Search!TypeOK /\ Follows /\ \A s \in cycles : Search!IsCycle(s)

LEMMA SearchTyped ==
    ASSUME Search!TypeOK
    PROVE  /\ path \in Seq(visited) /\ Len(path) \in Nat /\ DOMAIN path = 1 .. Len(path)
           /\ todo \in Seq(SUBSET Clients) /\ Len(todo) \in Nat /\ DOMAIN todo = 1 .. Len(todo)
           /\ Len(todo) = Len(path) /\ visited \subseteq Clients
           /\ \A i, j \in DOMAIN path : path[i] = path[j] => i = j
           /\ \A c : Search!WaitsFor(c) \subseteq Clients
BY LenProperties DEF Search!TypeOK, Search!IsInjective, Search!WaitsFor

\* dfs begins with a client that was not visited.
LEMMA EnterStep ==
    ASSUME SearchInv, NEW c \in Clients, NEW rest \in Seq(SUBSET Clients),
           c \notin visited, Len(rest) = Len(path),
           \A i \in DOMAIN rest : rest[i] \subseteq Search!WaitsFor(path[i]),
           path # <<>> => c \in Search!WaitsFor(path[Len(path)]),
           Search!Enter(c, rest), UNCHANGED <<waitFor, cycles>>
    PROVE  SearchInv'
<1>1. /\ path \in Seq(visited) /\ Len(path) \in Nat /\ DOMAIN path = 1 .. Len(path)
      /\ visited \subseteq Clients /\ \A d : Search!WaitsFor(d) \subseteq Clients
      /\ \A i, j \in DOMAIN path : path[i] = path[j] => i = j
      /\ DOMAIN waitFor \subseteq Clients
      /\ \A d \in DOMAIN waitFor : waitFor[d] \subseteq Clients
  BY SearchTyped DEF SearchInv, Search!TypeOK
<1>2. /\ visited' = visited \cup {c} /\ path' = Append(path, c)
      /\ todo' = Append(rest, Search!WaitsFor(c)) /\ waitFor' = waitFor /\ cycles' = cycles
  BY DEF Search!Enter
<1>3. \A d : Search!WaitsFor(d)' = Search!WaitsFor(d)
  BY <1>2 DEF Search!WaitsFor
<1>4. /\ path' \in Seq(visited') /\ Len(path') = Len(path) + 1
      /\ \A i \in 1 .. Len(path) : path'[i] = path[i] /\ path[i] \in visited
      /\ path'[Len(path) + 1] = c /\ DOMAIN path' = 1 .. Len(path) + 1
  <2>1. \A i \in 1 .. Len(path) : path[i] \in visited
    BY <1>1, ElementOfSeq
  <2>2. path \in Seq(visited')
    <3>1. \A i \in 1 .. Len(path) : path[i] \in visited'
      BY <1>2, <2>1
    <3>2. path = [i \in 1 .. Len(path) |-> path[i]]
      BY <1>1
    <3> QED BY <1>1, <3>1, <3>2, IsASeq
  <2>3. c \in visited'
    BY <1>2
  <2> QED BY <1>2, <2>1, <2>2, <2>3, AppendProperties, LenProperties
<1>5. /\ todo' \in Seq(SUBSET Clients) /\ Len(todo') = Len(path) + 1
      /\ \A i \in 1 .. Len(path) : todo'[i] = rest[i] /\ i \in DOMAIN rest
      /\ todo'[Len(path) + 1] = Search!WaitsFor(c) /\ DOMAIN todo' = 1 .. Len(path) + 1
  <2>1. Search!WaitsFor(c) \in SUBSET Clients /\ DOMAIN rest = 1 .. Len(path)
    BY <1>1, LenProperties
  <2> QED BY <1>2, <2>1, AppendProperties, LenProperties
<1>6. Search!IsInjective(path')
  <2>1. ASSUME NEW i \in 1 .. Len(path) + 1, NEW j \in 1 .. Len(path) + 1, path'[i] = path'[j]
        PROVE  i = j
    <3>1. \A k \in 1 .. Len(path) + 1 : k # Len(path) + 1 => k \in 1 .. Len(path)
      BY <1>1
    <3> QED BY <1>1, <1>4, <2>1, <3>1
  <2> QED BY <1>4, <2>1 DEF Search!IsInjective
<1>7. Search!TypeOK'
  BY <1>1, <1>2, <1>4, <1>5, <1>6 DEF Search!TypeOK
<1>8. Follows'
  <2>1. ASSUME NEW i \in 1 .. Len(path) + 1
        PROVE  todo'[i] \subseteq Search!WaitsFor(path'[i])
    <3>1. CASE i = Len(path) + 1
      BY <1>4, <1>5, <3>1
    <3>2. CASE i # Len(path) + 1
      <4>1. i \in 1 .. Len(path)
        BY <1>1, <3>2
      <4> QED BY <1>4, <1>5, <4>1
    <3> QED BY <3>1, <3>2
  <2>2. ASSUME NEW i \in 1 .. Len(path) + 1, NEW j \in 1 .. Len(path) + 1, j = i + 1
        PROVE  path'[j] \in Search!WaitsFor(path'[i])
    <3>1. i \in 1 .. Len(path) /\ path'[i] = path[i]
      BY <1>1, <1>4, <2>2
    <3>2. CASE j = Len(path) + 1
      <4>1. i = Len(path) /\ path # <<>>
        BY <1>1, <2>2, <3>1, <3>2
      <4> QED BY <1>4, <3>1, <3>2, <4>1
    <3>3. CASE j # Len(path) + 1
      <4>1. j \in DOMAIN path /\ path'[j] = path[j]
        BY <1>1, <1>4, <3>3
      <4> QED BY <1>1, <2>2, <3>1, <4>1 DEF SearchInv, Follows
    <3> QED BY <3>2, <3>3
  <2> QED BY <1>3, <1>4, <1>5, <2>1, <2>2 DEF Follows
<1>9. \A s : Search!IsCycle(s)' = Search!IsCycle(s)
  BY <1>3 DEF Search!IsCycle, Search!IsInjective
<1> QED BY <1>2, <1>7, <1>8, <1>9 DEF SearchInv

\* From the client that was met again on, the path is a cycle.
LEMMA ClosedIsCycle ==
    ASSUME SearchInv, path # <<>>, NEW c \in Search!Range(path),
           c \in Search!WaitsFor(path[Len(path)])
    PROVE  Search!IsCycle(Search!Closed(c))
<1> DEFINE from == CHOOSE i \in DOMAIN path : path[i] = c
           s == SubSeq(path, from, Len(path))
<1>1. /\ path \in Seq(visited) /\ Len(path) \in Nat /\ DOMAIN path = 1 .. Len(path)
      /\ \A i, j \in DOMAIN path : path[i] = path[j] => i = j
  BY SearchTyped DEF SearchInv
<1>2. from \in DOMAIN path /\ path[from] = c
  BY DEF Search!Range
<1>3. Search!Closed(c) = s
  BY DEF Search!Closed
<1> HIDE DEF from
<1>4. PICK m \in Nat, n \in Nat : m = from /\ n = Len(path)
  <2>1. from \in Nat /\ Len(path) \in Nat
    BY <1>1, <1>2
  <2> QED BY <2>1
<1>5. m \in 1 .. n /\ path[m] = c /\ DOMAIN path = 1 .. n
  BY <1>1, <1>2, <1>4
<1>6. /\ SubSeq(path, m, n) \in Seq(visited) /\ Len(SubSeq(path, m, n)) = n - m + 1
      /\ \A i \in 1 .. n - m + 1 : SubSeq(path, m, n)[i] = path[m + i - 1]
  <2>1. m \in Int /\ n \in Int /\ m <= n + 1
    BY <1>5
  <2>2. \A i \in m .. n : path[i] \in visited
    <3>1. \A i \in m .. n : i \in 1 .. Len(path)
      BY <1>4, <1>5
    <3> QED BY <1>1, <3>1, ElementOfSeq
  <2>3. /\ SubSeq(path, m, n) \in Seq(visited)
        /\ Len(SubSeq(path, m, n)) = IF m <= n THEN n - m + 1 ELSE 0
        /\ \A i \in 1 .. n - m + 1 : SubSeq(path, m, n)[i] = path[m + i - 1]
    BY <2>1, <2>2, SubSeqProperties
  <2> QED BY <1>5, <2>3
<1>7. PICK size \in Nat \ {0} : size = n - m + 1
  BY <1>5
<1>8. /\ s = SubSeq(path, m, n) /\ Len(s) = size /\ DOMAIN s = 1 .. size
      /\ \A i \in 1 .. size : s[i] = path[m + i - 1] /\ m + i - 1 \in 1 .. n
  <2>1. s = SubSeq(path, m, n)
    BY <1>4
  <2>2. Len(s) = size /\ DOMAIN s = 1 .. size
    BY <1>6, <1>7, <2>1, LenProperties
  <2>3. \A i \in 1 .. size : m + i - 1 \in 1 .. n
    BY <1>5, <1>7
  <2> QED BY <1>6, <1>7, <2>1, <2>2, <2>3
<1> HIDE DEF s
<1>9. Search!IsInjective(s)
  <2>1. ASSUME NEW i \in 1 .. size, NEW j \in 1 .. size, s[i] = s[j]
        PROVE  i = j
    <3>1. m + i - 1 = m + j - 1
      <4>1. /\ m + i - 1 \in DOMAIN path /\ m + j - 1 \in DOMAIN path
            /\ path[m + i - 1] = path[m + j - 1]
        BY <1>5, <1>8, <2>1
      <4> QED BY <1>1, <4>1
    <3> QED BY <1>5, <3>1
  <2> QED BY <1>8, <2>1 DEF Search!IsInjective
<1>10. ASSUME NEW i \in 1 .. size
       PROVE  s[(i % size) + 1] \in Search!WaitsFor(s[i])
  <2>1. (i % size) + 1 = IF i = size THEN 1 ELSE i + 1
    BY IndexAfter
  <2>2. CASE i = size
    <3>1. s[1] = c /\ s[i] = path[n]
      <4>1. m + 1 - 1 = m /\ m + i - 1 = n /\ 1 \in 1 .. size
        BY <1>5, <1>7, <2>2
      <4> QED BY <1>5, <1>8, <4>1
    <3> QED BY <1>4, <2>1, <2>2, <3>1
  <2>3. CASE i # size
    <3>1. i + 1 \in 1 .. size /\ m + (i + 1) - 1 = m + i - 1 + 1
      BY <1>5, <2>3
    <3>2. s[i] = path[m + i - 1] /\ s[i + 1] = path[m + i - 1 + 1]
      BY <1>8, <3>1
    <3>3. m + i - 1 \in DOMAIN path /\ m + i - 1 + 1 \in DOMAIN path
      BY <1>5, <1>8, <3>1
    <3> QED BY <2>1, <2>3, <3>2, <3>3 DEF SearchInv, Follows
  <2> QED BY <2>2, <2>3
<1> QED BY <1>3, <1>8, <1>9, <1>10 DEF Search!IsCycle

\* The neighbour looked at is taken off the last client's list.
LEMMA RestStep ==
    ASSUME SearchInv, path # <<>>, NEW c
    PROVE  LET rest == [todo EXCEPT ![Len(todo)] = @ \ {c}]
           IN /\ rest \in Seq(SUBSET Clients) /\ Len(rest) = Len(path)
              /\ DOMAIN rest = DOMAIN todo
              /\ \A i \in DOMAIN rest : rest[i] \subseteq Search!WaitsFor(path[i])
<1> DEFINE n == Len(todo)
           rest == [todo EXCEPT ![n] = @ \ {c}]
<1>1. /\ todo \in Seq(SUBSET Clients) /\ n \in Nat /\ DOMAIN todo = 1 .. n /\ n = Len(path)
      /\ \A i \in DOMAIN todo : todo[i] \subseteq Search!WaitsFor(path[i])
  BY SearchTyped DEF SearchInv, Follows
<1>2. n \in 1 .. n
  <2>1. n # 0
    BY <1>1, EmptySeq DEF SearchInv, Search!TypeOK
  <2> QED BY <1>1, <2>1
<1>3. todo[n] \ {c} \in SUBSET Clients
  BY <1>1, <1>2, ElementOfSeq
<1>4. rest = [todo EXCEPT ![n] = todo[n] \ {c}]
  OBVIOUS
<1>5. /\ rest \in Seq(SUBSET Clients) /\ Len(rest) = n
      /\ \A i \in 1 .. n : rest[i] = IF i = n THEN todo[n] \ {c} ELSE todo[i]
  BY <1>1, <1>2, <1>3, <1>4, ExceptSeq
<1>6. DOMAIN rest = DOMAIN todo
  OBVIOUS
<1> HIDE DEF rest, n
<1>7. \A i \in DOMAIN rest : rest[i] \subseteq Search!WaitsFor(path[i])
  BY <1>1, <1>5, <1>6
<1> QED BY <1>1, <1>5, <1>6, <1>7 DEF rest, n

LEMMA FollowStep ==
    ASSUME SearchInv, NEW c \in Clients, Search!Follow(c)
    PROVE  SearchInv'
<1> DEFINE rest == [todo EXCEPT ![Len(todo)] = @ \ {c}]
<1>1. path # <<>> /\ c \in todo[Len(todo)] /\ waitFor' = waitFor
  BY DEF Search!Follow, Search!Last
<1>2. /\ rest \in Seq(SUBSET Clients) /\ Len(rest) = Len(path)
      /\ DOMAIN rest = DOMAIN todo
      /\ \A i \in DOMAIN rest : rest[i] \subseteq Search!WaitsFor(path[i])
  BY <1>1, RestStep
<1>3. IF c \in visited THEN Search!LookAt(c) /\ todo' = rest
      ELSE Search!Enter(c, rest) /\ UNCHANGED cycles
  BY DEF Search!Follow
<1> HIDE DEF rest
<1>4. c \in Search!WaitsFor(path[Len(path)])
  <2>1. /\ Len(todo) = Len(path) /\ DOMAIN todo = 1 .. Len(todo) /\ Len(todo) \in Nat
    BY SearchTyped DEF SearchInv
  <2>2. Len(todo) # 0
    BY <1>1, <2>1, EmptySeq DEF SearchInv, Search!TypeOK
  <2>3. Len(todo) \in DOMAIN todo
    BY <2>1, <2>2
  <2> QED BY <1>1, <2>1, <2>3 DEF SearchInv, Follows
<1>5. CASE c \notin visited
  BY <1>1, <1>2, <1>3, <1>4, <1>5, EnterStep
<1>6. CASE c \in visited
  <2>1. /\ cycles' = IF c \in Search!Range(path) THEN cycles \cup {Search!Closed(c)} ELSE cycles
        /\ visited' = visited /\ path' = path /\ todo' = rest
    BY <1>3, <1>6 DEF Search!LookAt
  <2>2. \A d : Search!WaitsFor(d)' = Search!WaitsFor(d)
    BY <1>1 DEF Search!WaitsFor
  <2>3. \A s : Search!IsCycle(s)' = Search!IsCycle(s)
    BY <2>2 DEF Search!IsCycle, Search!IsInjective
  <2>4. c \in Search!Range(path) => Search!IsCycle(Search!Closed(c))
    BY <1>1, <1>4, ClosedIsCycle
  <2>5. \A s \in cycles' : Search!IsCycle(s)'
    BY <2>1, <2>3, <2>4 DEF SearchInv
  <2>6. Search!TypeOK'
    BY <1>1, <1>2, <2>1 DEF SearchInv, Search!TypeOK, Search!IsInjective
  <2>7. Follows'
    BY <1>2, <2>1, <2>2 DEF SearchInv, Follows
  <2> QED BY <2>5, <2>6, <2>7 DEF SearchInv
<1> QED BY <1>5, <1>6

\* What is left of a sequence without its last element
LEMMA FrontOf ==
    ASSUME NEW S, NEW s \in Seq(S), Len(s) # 0
    PROVE  /\ Search!Front(s) \in Seq(S) /\ Len(Search!Front(s)) = Len(s) - 1
           /\ DOMAIN Search!Front(s) = 1 .. Len(s) - 1
           /\ \A i \in 1 .. Len(s) - 1 : i \in DOMAIN s /\ Search!Front(s)[i] = s[i]
<1>1. PICK n \in Nat : n = Len(s)
  BY LenProperties
<1>2. PICK k \in Nat : k = n - 1
  BY <1>1
<1>3. Search!Front(s) = SubSeq(s, 1, k)
  BY <1>1, <1>2 DEF Search!Front
<1>4. \A i \in 1 .. k : s[i] \in S /\ i \in DOMAIN s
  <2>1. \A i \in 1 .. k : i \in 1 .. Len(s)
    BY <1>1, <1>2
  <2>2. DOMAIN s = 1 .. Len(s)
    BY LenProperties
  <2> QED BY <2>1, <2>2, ElementOfSeq
<1>5. /\ SubSeq(s, 1, k) \in Seq(S) /\ Len(SubSeq(s, 1, k)) = k
      /\ \A i \in 1 .. k : SubSeq(s, 1, k)[i] = s[i]
  <2>1. 1 \in Int /\ k \in Int
    OBVIOUS
  <2> QED BY <1>4, <2>1, SubSeqProperties
<1> QED BY <1>1, <1>2, <1>3, <1>4, <1>5, LenProperties

LEMMA LeaveStep ==
    ASSUME SearchInv, Search!Leave
    PROVE  SearchInv'
<1>1. /\ path # <<>> /\ path' = Search!Front(path) /\ todo' = Search!Front(todo)
      /\ UNCHANGED <<waitFor, visited, cycles>>
  BY DEF Search!Leave
<1>2. /\ path \in Seq(visited) /\ Len(path) \in Nat /\ DOMAIN path = 1 .. Len(path)
      /\ todo \in Seq(SUBSET Clients) /\ Len(todo) = Len(path)
      /\ \A i, j \in DOMAIN path : path[i] = path[j] => i = j
  BY SearchTyped DEF SearchInv
<1>3. Len(path) # 0
  BY <1>1, <1>2, EmptySeq
<1>4. /\ path' \in Seq(visited) /\ Len(path') = Len(path) - 1
      /\ DOMAIN path' = 1 .. Len(path) - 1
      /\ \A i \in 1 .. Len(path) - 1 : i \in DOMAIN path /\ path'[i] = path[i]
  BY <1>1, <1>2, <1>3, FrontOf
<1>5. /\ todo' \in Seq(SUBSET Clients) /\ Len(todo') = Len(path) - 1
      /\ DOMAIN todo' = 1 .. Len(path) - 1
      /\ \A i \in 1 .. Len(path) - 1 : i \in DOMAIN todo /\ todo'[i] = todo[i]
  <2>1. /\ todo' \in Seq(SUBSET Clients) /\ Len(todo') = Len(todo) - 1
        /\ DOMAIN todo' = 1 .. Len(todo) - 1
        /\ \A i \in 1 .. Len(todo) - 1 : i \in DOMAIN todo /\ todo'[i] = todo[i]
    BY <1>1, <1>2, <1>3, FrontOf
  <2> QED BY <1>2, <2>1
<1>6. \A d : Search!WaitsFor(d)' = Search!WaitsFor(d)
  BY <1>1 DEF Search!WaitsFor
<1>7. Search!TypeOK'
  BY <1>1, <1>2, <1>4, <1>5 DEF SearchInv, Search!TypeOK, Search!IsInjective
<1>8. Follows'
  BY <1>4, <1>5, <1>6 DEF SearchInv, Follows
<1>9. \A s \in cycles' : Search!IsCycle(s)'
  BY <1>1, <1>6 DEF SearchInv, Search!IsCycle, Search!IsInjective
<1> QED BY <1>7, <1>8, <1>9 DEF SearchInv

LEMMA SearchInvStep ==
    ASSUME SearchInv, [Search!Next]_searchVars
    PROVE  SearchInv'
<1>1. ASSUME NEW c \in Clients, Search!Start(c)
      PROVE  SearchInv'
  <2>1. /\ path = <<>> /\ c \notin visited /\ Search!Enter(c, <<>>)
        /\ UNCHANGED <<waitFor, cycles>>
    BY <1>1 DEF Search!Start
  <2>2. <<>> \in Seq(SUBSET Clients) /\ Len(<<>>) = 0 /\ DOMAIN <<>> = {}
    BY EmptySeq
  <2> QED BY <2>1, <2>2, EnterStep
<1>2. CASE UNCHANGED searchVars
  BY <1>2 DEF searchVars, SearchInv, Follows, Search!TypeOK, Search!IsInjective, Search!IsCycle,
              Search!WaitsFor
<1> QED BY <1>1, <1>2, FollowStep, LeaveStep DEF Search!Next

LEMMA SearchInvInit == Search!Init => SearchInv
<1> SUFFICES ASSUME Search!Init PROVE SearchInv
  OBVIOUS
<1>1. PICK K \in SUBSET Clients : waitFor \in [K -> SUBSET Clients]
  BY DEF Search!Init
<1>2. visited = {} /\ path = <<>> /\ todo = <<>> /\ cycles = {}
  BY DEF Search!Init
<1>3. path \in Seq(visited) /\ todo \in Seq(SUBSET Clients) /\ DOMAIN path = {} /\ DOMAIN todo = {}
  BY <1>2, EmptySeq
<1>4. Search!TypeOK
  BY <1>1, <1>2, <1>3 DEF Search!TypeOK, Search!IsInjective
<1> QED BY <1>2, <1>3, <1>4 DEF SearchInv, Follows

LEMMA SearchInvariant == Spec => []SearchInv
<1>1. Init => SearchInv
  BY PartsBegin, SearchInvInit
<1>2. SearchInv /\ [Next]_vars => SearchInv'
  BY PartsMove, SearchInvStep
<1> QED BY <1>1, <1>2, PTL DEF Spec

-----------------------------------------------------------------------------
(* The search finds what there is *)

\* Whom a client waits for through others: those behind it, those behind them.
LEMMA BehindClosed ==
    ASSUME Search!TypeOK, NEW c
    PROVE  /\ Search!Behind(c) \subseteq Clients
           /\ Search!WaitsFor(c) \subseteq Search!Behind(c)
           /\ \A d \in Search!Behind(c) : Search!WaitsFor(d) \subseteq Search!Behind(c)
<1>1. \A d : Search!WaitsFor(d) \subseteq Clients
  BY SearchTyped
<1> QED BY <1>1 DEF Search!Behind

LEMMA BehindLeast ==
    ASSUME NEW c, NEW S \in SUBSET Clients,
           Search!WaitsFor(c) \subseteq S, \A e \in S : Search!WaitsFor(e) \subseteq S
    PROVE  Search!Behind(c) \subseteq S
BY DEF Search!Behind

LEMMA BehindTransitive ==
    ASSUME Search!TypeOK, NEW c, NEW d \in Search!Behind(c)
    PROVE  Search!Behind(d) \subseteq Search!Behind(c)
<1>1. /\ Search!Behind(c) \in SUBSET Clients
      /\ Search!WaitsFor(d) \subseteq Search!Behind(c)
      /\ \A e \in Search!Behind(c) : Search!WaitsFor(e) \subseteq Search!Behind(c)
  BY BehindClosed
<1> QED BY <1>1, BehindLeast

\* A client that waits for itself has one behind it that waits for it directly.
LEMMA BehindLast ==
    ASSUME Search!TypeOK, NEW c, c \in Search!Behind(c)
    PROVE  \E p \in Search!Behind(c) : c \in Search!WaitsFor(p)
<1> SUFFICES ASSUME \A p \in Search!Behind(c) : c \notin Search!WaitsFor(p) PROVE FALSE
  OBVIOUS
<1> DEFINE S == Search!Behind(c) \ {c}
<1>1. /\ S \in SUBSET Clients /\ Search!WaitsFor(c) \subseteq Search!Behind(c)
      /\ \A d \in Search!Behind(c) : Search!WaitsFor(d) \subseteq Search!Behind(c)
  BY BehindClosed
<1>2. Search!WaitsFor(c) \subseteq S /\ \A e \in S : Search!WaitsFor(e) \subseteq S
  BY <1>1
<1>3. Search!Behind(c) \subseteq S
  BY <1>1, <1>2, BehindLeast
<1> QED BY <1>3

Mutual(b, d) == d \in Search!Behind(b) /\ b \in Search!Behind(d)

LEMMA MutualTransitive ==
    ASSUME Search!TypeOK, NEW b, NEW c, NEW d, Mutual(b, c), Mutual(c, d)
    PROVE  Mutual(b, d)
BY BehindTransitive DEF Mutual

\* Clients of one cycle wait for each other.
LEMMA CycleMutual ==
    ASSUME Search!TypeOK, NEW s \in Seq(Clients), Search!IsCycle(s),
           NEW i \in DOMAIN s, NEW j \in DOMAIN s
    PROVE  s[j] \in Search!Behind(s[i])
<1>1. PICK n \in Nat : n = Len(s) /\ DOMAIN s = 1 .. n
  BY LenProperties
<1>2. n \in Nat \ {0} /\ i \in 1 .. n /\ j \in 1 .. n
  BY <1>1
<1> DEFINE D == {k \in 1 .. n : s[k] \in Search!Behind(s[i])}
<1>3. ASSUME NEW k \in 1 .. n PROVE s[IF k = n THEN 1 ELSE k + 1] \in Search!WaitsFor(s[k])
  <2>1. s[(k % n) + 1] \in Search!WaitsFor(s[k])
    BY <1>1 DEF Search!IsCycle
  <2> QED BY <1>2, <2>1, IndexAfter
<1>4. \A k \in D : (IF k = n THEN 1 ELSE k + 1) \in D
  <2> SUFFICES ASSUME NEW k \in D PROVE (IF k = n THEN 1 ELSE k + 1) \in D
    OBVIOUS
  <2>1. s[IF k = n THEN 1 ELSE k + 1] \in Search!Behind(s[i])
    BY <1>3, BehindClosed
  <2> QED BY <1>2, <2>1
<1>5. (IF i = n THEN 1 ELSE i + 1) \in D
  <2>1. s[IF i = n THEN 1 ELSE i + 1] \in Search!Behind(s[i])
    BY <1>2, <1>3, BehindClosed
  <2> QED BY <1>2, <2>1
<1> HIDE DEF D
<1>6. 1 \in D
  <2> SUFFICES ASSUME 1 \notin D PROVE FALSE
    OBVIOUS
  <2> DEFINE Gap == {k \in i + 1 .. n : k \notin D}
  <2>1. i # n /\ n \notin D /\ n \in Gap
    BY <1>2, <1>4, <1>5
  <2>2. Gap \in SUBSET Nat /\ Gap # {}
    BY <1>2, <2>1
  <2>3. PICK k \in Gap : \A m \in Gap : k <= m
    BY <2>2, LeastExists
  <2>4. k \in i + 1 .. n /\ k \notin D
    BY <2>3
  <2>5. CASE k = i + 1
    BY <1>2, <1>5, <2>1, <2>4, <2>5
  <2>6. CASE k # i + 1
    <3>1. k - 1 \in i + 1 .. n /\ k - 1 \notin Gap /\ k - 1 # n /\ (k - 1) + 1 = k
      BY <1>2, <2>3, <2>4, <2>6
    <3>2. k - 1 \in D
      BY <3>1
    <3> QED BY <1>4, <2>4, <3>1, <3>2
  <2> QED BY <2>5, <2>6
<1>7. \A k \in 1 .. n : k \in D
  <2> DEFINE Gap == {k \in 1 .. n : k \notin D}
  <2> SUFFICES ASSUME Gap # {} PROVE FALSE
    OBVIOUS
  <2>1. Gap \in SUBSET Nat
    BY <1>2
  <2>2. PICK k \in Gap : \A m \in Gap : k <= m
    BY <2>1, LeastExists
  <2>3. k \in 1 .. n /\ k \notin D /\ k # 1
    BY <1>6, <2>2
  <2>4. k - 1 \in 1 .. n /\ k - 1 \notin Gap /\ k - 1 # n /\ (k - 1) + 1 = k
    BY <1>2, <2>2, <2>3
  <2>5. k - 1 \in D
    BY <2>4
  <2> QED BY <1>4, <2>3, <2>4, <2>5
<1> QED BY <1>2, <1>7 DEF D

\* All a client waits for was visited when dfs of it returned, and of a client on
\* the path all that is no longer to be looked at.
NeighboursSeen ==
    /\ \A b \in visited \ Search!Range(path) : Search!WaitsFor(b) \subseteq visited
    /\ \A i \in DOMAIN path : Search!WaitsFor(path[i]) \ todo[i] \subseteq visited

\* The clients that are on a cycle that is reported.
Reported ==
    {c \in Clients : \E s \in cycles :
        s \in Seq(Clients) /\ Search!IsCycle(s) /\ c \in Search!Range(s)}

\* dfs of b returned, or it was called by that of the i-th client on the path, or
\* is that, and has looked at this client.
LookedBack(b, i) ==
    \/ b \notin Search!Range(path)
    \/ \E j \in DOMAIN path : i <= j /\ path[j] = b /\ path[i] \notin todo[j]

\* Who looked at a client on the path closed a cycle.
ClosedWhenMet ==
    \A i \in DOMAIN path : \A b \in visited :
        path[i] \in Search!WaitsFor(b) /\ LookedBack(b, i) => path[i] \in Reported

\* Of those that wait for each other, some are on the path still, or a cycle
\* through one of them is reported.
NoneMissed ==
    \A b \in visited \ Search!Range(path) : b \in Search!Behind(b) =>
        \/ \E d : Mutual(b, d) /\ d \in Reported
        \/ \E i \in DOMAIN path : Mutual(b, path[i])

FindInv == SearchInv /\ NeighboursSeen /\ ClosedWhenMet /\ NoneMissed

LEMMA GraphStays ==
    ASSUME waitFor' = waitFor
    PROVE  /\ \A c : Search!WaitsFor(c)' = Search!WaitsFor(c)
           /\ \A c : Search!Behind(c)' = Search!Behind(c)
           /\ \A b, d : Mutual(b, d)' = Mutual(b, d)
           /\ \A s : Search!IsCycle(s)' = Search!IsCycle(s)
           /\ cycles \subseteq cycles' => Reported \subseteq Reported'
<1>1. \A c : Search!WaitsFor(c)' = Search!WaitsFor(c)
  BY DEF Search!WaitsFor
<1>2. \A c : Search!Behind(c)' = Search!Behind(c)
  BY <1>1 DEF Search!Behind
<1>3. \A b, d : Mutual(b, d)' = Mutual(b, d)
  BY <1>2 DEF Mutual
<1>4. \A s : Search!IsCycle(s)' = Search!IsCycle(s)
  BY <1>1 DEF Search!IsCycle, Search!IsInjective
<1>5. cycles \subseteq cycles' => Reported \subseteq Reported'
  BY <1>4 DEF Reported, Search!Range
<1> QED BY <1>1, <1>2, <1>3, <1>4, <1>5

LEMMA EnterFinds ==
    ASSUME FindInv, NEW c \in Clients, NEW rest \in Seq(SUBSET Clients),
           c \notin visited, Len(rest) = Len(path),
           \A i \in DOMAIN path : todo[i] \subseteq rest[i] \cup {c},
           Search!Enter(c, rest), UNCHANGED <<waitFor, cycles>>
    PROVE  NeighboursSeen' /\ ClosedWhenMet' /\ NoneMissed'
<1> DEFINE n == Len(path)
<1>1. /\ path \in Seq(visited) /\ n \in Nat /\ DOMAIN path = 1 .. n
      /\ \A d : Search!WaitsFor(d) \subseteq Clients
      /\ visited \subseteq Clients /\ \A i \in 1 .. n : path[i] \in visited
  <2>1. /\ path \in Seq(visited) /\ n \in Nat /\ DOMAIN path = 1 .. n
        /\ \A d : Search!WaitsFor(d) \subseteq Clients /\ visited \subseteq Clients
    BY SearchTyped DEF FindInv, SearchInv
  <2> QED BY <2>1, ElementOfSeq
<1>2. /\ visited' = visited \cup {c} /\ path' = Append(path, c)
      /\ todo' = Append(rest, Search!WaitsFor(c)) /\ waitFor' = waitFor /\ cycles' = cycles
  BY DEF Search!Enter
<1>3. /\ \A d : Search!WaitsFor(d)' = Search!WaitsFor(d)
      /\ \A d : Search!Behind(d)' = Search!Behind(d)
      /\ \A b, d : Mutual(b, d)' = Mutual(b, d)
      /\ Reported \subseteq Reported'
  BY <1>2, GraphStays
<1>4. /\ DOMAIN path' = 1 .. n + 1 /\ path'[n + 1] = c
      /\ \A i \in 1 .. n : path'[i] = path[i]
  BY <1>1, <1>2, AppendProperties
<1>5. /\ todo'[n + 1] = Search!WaitsFor(c) /\ \A i \in 1 .. n : todo'[i] = rest[i]
  <2>1. Search!WaitsFor(c) \in SUBSET Clients /\ DOMAIN rest = 1 .. n
    BY <1>1, LenProperties
  <2> QED BY <1>1, <1>2, <2>1, AppendProperties
<1> HIDE DEF n
<1>6. \A i \in 1 .. n + 1 : i = n + 1 \/ i \in 1 .. n
  BY <1>1
<1>7. /\ \A b : b \in Search!Range(path)' <=> b = c \/ b \in Search!Range(path)
      /\ c \notin Search!Range(path)
  <2>1. n + 1 \in 1 .. n + 1 /\ \A i \in 1 .. n : i \in 1 .. n + 1
    BY <1>1
  <2> QED BY <1>1, <1>4, <1>6, <2>1 DEF Search!Range
<1>8. visited' \ Search!Range(path)' = visited \ Search!Range(path)
  BY <1>2, <1>7
<1>9. NeighboursSeen'
  <2>1. ASSUME NEW i \in 1 .. n + 1
        PROVE  Search!WaitsFor(path'[i]) \ todo'[i] \subseteq visited'
    <3>1. CASE i = n + 1
      BY <1>4, <1>5, <3>1
    <3>2. CASE i \in 1 .. n
      BY <1>1, <1>2, <1>4, <1>5, <3>2 DEF FindInv, NeighboursSeen
    <3> QED BY <1>6, <3>1, <3>2
  <2>2. \A b \in visited \ Search!Range(path) : Search!WaitsFor(b) \subseteq visited'
    BY <1>2 DEF FindInv, NeighboursSeen
  <2> QED BY <1>3, <1>4, <1>8, <2>1, <2>2 DEF NeighboursSeen
<1>10. ClosedWhenMet'
  <2> SUFFICES ASSUME NEW i \in 1 .. n + 1, NEW b \in visited',
                      path'[i] \in Search!WaitsFor(b), LookedBack(b, i)'
               PROVE  path'[i] \in Reported'
    BY <1>3, <1>4 DEF ClosedWhenMet
  <2>1. ASSUME NEW j \in 1 .. n + 1, i <= j, path'[j] = b, path'[i] \notin todo'[j]
        PROVE  j # n + 1 /\ i \in 1 .. n /\ j \in 1 .. n /\ path[j] = b /\ path[i] \notin todo[j]
    <3>1. j # n + 1
      BY <1>4, <1>5, <2>1
    <3>2. j \in 1 .. n /\ i \in 1 .. n
      BY <1>1, <2>1, <3>1
    <3>3. path[i] \notin rest[j] /\ path[i] # c
      BY <1>1, <1>4, <1>5, <2>1, <3>2
    <3> QED BY <1>1, <1>4, <2>1, <3>1, <3>2, <3>3
  <2>2. CASE b \notin Search!Range(path)'
    <3>1. b \in visited \ Search!Range(path)
      BY <1>8, <2>2
    <3>2. path'[i] \in visited
      BY <3>1 DEF FindInv, NeighboursSeen
    <3>3. i \in 1 .. n
      BY <1>4, <1>6, <3>2
    <3> QED BY <1>1, <1>3, <1>4, <3>1, <3>3 DEF FindInv, ClosedWhenMet, LookedBack
  <2>3. ASSUME NEW j \in 1 .. n + 1, i <= j, path'[j] = b, path'[i] \notin todo'[j]
        PROVE  path'[i] \in Reported'
    <3>1. i \in 1 .. n /\ j \in 1 .. n /\ path[j] = b /\ path[i] \notin todo[j]
      BY <2>1, <2>3
    <3>2. b \in visited /\ path'[i] = path[i]
      BY <1>1, <1>4, <3>1
    <3>3. LookedBack(b, i)
      BY <1>1, <2>3, <3>1 DEF LookedBack
    <3> QED BY <1>1, <1>3, <3>1, <3>2, <3>3 DEF FindInv, ClosedWhenMet
  <2> QED BY <1>4, <2>2, <2>3 DEF LookedBack
<1>11. NoneMissed'
  <2>1. ASSUME NEW b, NEW i \in 1 .. n, Mutual(b, path[i])
        PROVE  i \in 1 .. n + 1 /\ Mutual(b, path'[i])
    BY <1>1, <1>4, <2>1
  <2>2. ASSUME NEW b \in visited \ Search!Range(path), b \in Search!Behind(b)
        PROVE  (\E d : Mutual(b, d) /\ d \in Reported') \/ \E i \in 1 .. n + 1 : Mutual(b, path'[i])
    BY <1>1, <1>3, <2>1, <2>2 DEF FindInv, NoneMissed
  <2> QED BY <1>3, <1>4, <1>8, <2>2 DEF NoneMissed
<1> QED BY <1>9, <1>10, <1>11

\* The cycle that closes at a client has that client.
LEMMA ClosedReported ==
    ASSUME SearchInv, path # <<>>, NEW c \in Search!Range(path),
           c \in Search!WaitsFor(path[Len(path)])
    PROVE  Search!Closed(c) \in Seq(Clients) /\ c \in Search!Range(Search!Closed(c))
<1> DEFINE from == CHOOSE i \in DOMAIN path : path[i] = c
<1>1. /\ path \in Seq(visited) /\ Len(path) \in Nat /\ DOMAIN path = 1 .. Len(path)
      /\ visited \subseteq Clients
  BY SearchTyped DEF SearchInv
<1>2. from \in DOMAIN path /\ path[from] = c /\ Search!Closed(c) = SubSeq(path, from, Len(path))
  BY DEF Search!Range, Search!Closed
<1> HIDE DEF from
<1>3. PICK m \in Nat, n \in Nat : m = from /\ n = Len(path)
  <2>1. from \in Nat /\ Len(path) \in Nat
    BY <1>1, <1>2
  <2> QED BY <2>1
<1>4. m \in 1 .. n /\ path[m] = c /\ Search!Closed(c) = SubSeq(path, m, n)
  BY <1>1, <1>2, <1>3
<1>5. \A i \in m .. n : path[i] \in Clients
  <2>1. \A i \in m .. n : i \in 1 .. Len(path)
    BY <1>3, <1>4
  <2> QED BY <1>1, <2>1, ElementOfSeq
<1>6. /\ SubSeq(path, m, n) \in Seq(Clients)
      /\ Len(SubSeq(path, m, n)) = IF m <= n THEN n - m + 1 ELSE 0
      /\ \A i \in 1 .. n - m + 1 : SubSeq(path, m, n)[i] = path[m + i - 1]
  <2>1. m \in Int /\ n \in Int /\ m <= n + 1
    BY <1>4
  <2> QED BY <1>5, <2>1, SubSeqProperties
<1> DEFINE s == SubSeq(path, m, n)
<1>7. 1 \in 1 .. n - m + 1 /\ m + 1 - 1 = m /\ Len(s) = n - m + 1
  BY <1>4, <1>6
<1>8. s[1] = c /\ 1 \in DOMAIN s
  <2>1. s \in Seq(Clients)
    BY <1>6
  <2>2. DOMAIN s = 1 .. Len(s)
    BY <2>1, LenProperties
  <2>3. s[1] = path[m + 1 - 1]
    BY <1>6, <1>7
  <2> HIDE DEF s
  <2> QED BY <1>4, <1>7, <2>2, <2>3
<1> QED BY <1>4, <1>6, <1>8 DEF Search!Range

\* The last client on the path looks at one that was visited.
LEMMA LookFinds ==
    ASSUME FindInv, path # <<>>, NEW c \in visited, c \in Search!WaitsFor(path[Len(path)]),
           Search!LookAt(c), waitFor' = waitFor,
           \A i \in DOMAIN path : todo[i] \ {c} \subseteq todo'[i],
           \A i \in DOMAIN path : i # Len(path) => todo'[i] = todo[i]
    PROVE  NeighboursSeen' /\ ClosedWhenMet' /\ NoneMissed'
<1>1. /\ visited' = visited /\ path' = path /\ cycles \subseteq cycles'
      /\ c \in Search!Range(path) => Search!Closed(c) \in cycles'
  BY DEF Search!LookAt
<1>2. /\ \A d : Search!WaitsFor(d)' = Search!WaitsFor(d)
      /\ \A d : Search!Behind(d)' = Search!Behind(d)
      /\ \A b, d : Mutual(b, d)' = Mutual(b, d)
      /\ \A s : Search!IsCycle(s)' = Search!IsCycle(s)
      /\ Reported \subseteq Reported'
  BY <1>1, GraphStays
<1>3. Search!Range(path)' = Search!Range(path)
  BY <1>1 DEF Search!Range
<1>4. /\ DOMAIN path = 1 .. Len(path) /\ Len(path) \in Nat /\ visited \subseteq Clients
      /\ \A i, j \in DOMAIN path : path[i] = path[j] => i = j
  BY SearchTyped DEF FindInv, SearchInv
<1>5. c \in Search!Range(path) => c \in Reported'
  <2> SUFFICES ASSUME c \in Search!Range(path) PROVE c \in Reported'
    OBVIOUS
  <2>1. /\ Search!Closed(c) \in Seq(Clients) /\ c \in Search!Range(Search!Closed(c))
        /\ Search!IsCycle(Search!Closed(c))
    BY ClosedReported, ClosedIsCycle DEF FindInv
  <2> PICK s : s = Search!Closed(c)
    OBVIOUS
  <2>2. s \in cycles' /\ s \in Seq(Clients) /\ c \in Search!Range(s) /\ Search!IsCycle(s)'
    BY <1>1, <1>2, <2>1
  <2>3. c \in Clients
    BY <1>4
  <2> QED BY <2>2, <2>3 DEF Reported, Search!Range
<1>6. NeighboursSeen'
  BY <1>1, <1>2, <1>3 DEF FindInv, NeighboursSeen
<1>7. ClosedWhenMet'
  <2> SUFFICES ASSUME NEW i \in DOMAIN path, NEW b \in visited,
                      path[i] \in Search!WaitsFor(b), LookedBack(b, i)'
               PROVE  path[i] \in Reported'
    BY <1>1, <1>2 DEF ClosedWhenMet
  <2>1. CASE LookedBack(b, i)
    BY <1>2, <2>1 DEF FindInv, ClosedWhenMet
  <2>2. CASE ~LookedBack(b, i)
    <3>1. PICK j \in DOMAIN path : i <= j /\ path[j] = b /\ path[i] \notin todo'[j]
      BY <1>1, <1>3, <2>2 DEF LookedBack
    <3>2. path[i] \in todo[j]
      BY <2>2, <3>1 DEF LookedBack
    <3>3. path[i] = c
      BY <3>1, <3>2
    <3> QED BY <1>5, <3>3 DEF Search!Range
  <2> QED BY <2>1, <2>2
<1>8. NoneMissed'
  <2>1. ASSUME NEW b \in visited \ Search!Range(path), b \in Search!Behind(b)
        PROVE  (\E d : Mutual(b, d) /\ d \in Reported') \/ \E i \in DOMAIN path : Mutual(b, path[i])
    BY <1>2, <2>1 DEF FindInv, NoneMissed
  <2> QED BY <1>1, <1>2, <1>3, <2>1 DEF NoneMissed
<1> QED BY <1>6, <1>7, <1>8

\* When dfs of a client returns that waits for itself through others, one of these
\* is on the path still, or a cycle through one of them is reported.
LEMMA LastFinds ==
    ASSUME FindInv, path # <<>>, todo[Len(path)] = {},
           path[Len(path)] \in Search!Behind(path[Len(path)])
    PROVE  \/ \E d : Mutual(path[Len(path)], d) /\ d \in Reported
           \/ \E i \in DOMAIN path : i # Len(path) /\ Mutual(path[Len(path)], path[i])
<1> DEFINE n == Len(path)
           c == path[n]
<1>1. /\ path \in Seq(visited) /\ DOMAIN path = 1 .. n /\ n \in Nat /\ Search!TypeOK
      /\ visited \subseteq Clients
  BY SearchTyped DEF FindInv, SearchInv
<1>2. n # 0 /\ n \in DOMAIN path /\ c \in visited
  <2>1. n # 0
    BY <1>1, EmptySeq
  <2> QED BY <1>1, <2>1, ElementOfSeq
<1> SUFFICES ASSUME \A i \in DOMAIN path : i # n => ~Mutual(c, path[i])
             PROVE  \E d : Mutual(c, d) /\ d \in Reported
  OBVIOUS
<1> DEFINE S == {x \in Search!Behind(c) : x \in visited \/ c \notin Search!Behind(x)}
<1>3. Search!WaitsFor(c) \subseteq visited
  BY <1>2 DEF FindInv, NeighboursSeen
<1>4. /\ Search!Behind(c) \subseteq Clients /\ Search!WaitsFor(c) \subseteq Search!Behind(c)
      /\ \A d \in Search!Behind(c) : Search!WaitsFor(d) \subseteq Search!Behind(c)
  BY <1>1, BehindClosed
<1>5. S \in SUBSET Clients /\ Search!WaitsFor(c) \subseteq S
  BY <1>3, <1>4
<1>6. ASSUME NEW x \in S, NEW y \in Search!WaitsFor(x)
      PROVE  y \in S
  <2>1. y \in Search!Behind(c)
    BY <1>4
  <2>2. CASE c \notin Search!Behind(x)
    <3>1. y \in Search!Behind(x)
      BY <1>1, BehindClosed
    <3>2. Search!Behind(y) \subseteq Search!Behind(x)
      BY <1>1, <3>1, BehindTransitive
    <3> QED BY <2>1, <2>2, <3>2
  <2>3. CASE x \in visited /\ x \notin Search!Range(path)
    BY <2>1, <2>3 DEF FindInv, NeighboursSeen
  <2>4. CASE c \in Search!Behind(x) /\ x \in Search!Range(path)
    <3>1. PICK i \in DOMAIN path : path[i] = x
      BY <2>4 DEF Search!Range
    <3>2. i = n
      BY <2>4, <3>1 DEF Mutual
    <3> QED BY <1>3, <2>1, <3>1, <3>2
  <2> QED BY <2>2, <2>3, <2>4
<1>7. Search!Behind(c) \subseteq S
  <2> HIDE DEF S, c
  <2> QED BY <1>5, <1>6, BehindLeast
<1>8. PICK p \in Search!Behind(c) : c \in Search!WaitsFor(p)
  BY <1>1, BehindLast
<1>9. c \in Search!Behind(p)
  BY <1>1, <1>8, BehindClosed
<1>10. p \in visited
  BY <1>7, <1>9
<1>11. LookedBack(p, n)
  <2>1. CASE p \notin Search!Range(path)
    BY <2>1 DEF LookedBack
  <2>2. CASE p \in Search!Range(path)
    <3>1. PICK i \in DOMAIN path : path[i] = p
      BY <2>2 DEF Search!Range
    <3>2. i = n
      BY <1>8, <1>9, <3>1 DEF Mutual
    <3> QED BY <1>1, <1>2, <3>1, <3>2 DEF LookedBack
  <2> QED BY <2>1, <2>2
<1>12. c \in Reported
  BY <1>2, <1>8, <1>10, <1>11 DEF FindInv, ClosedWhenMet
<1> QED BY <1>12 DEF Mutual

LEMMA LeaveFinds ==
    ASSUME FindInv, Search!Leave
    PROVE  NeighboursSeen' /\ ClosedWhenMet' /\ NoneMissed'
<1> DEFINE n == Len(path)
           c == path[n]
<1>1. /\ path # <<>> /\ path' = Search!Front(path) /\ todo' = Search!Front(todo)
      /\ UNCHANGED <<waitFor, visited, cycles>> /\ todo[Len(todo)] = {}
  BY DEF Search!Leave, Search!Last
<1>2. /\ path \in Seq(visited) /\ n \in Nat /\ DOMAIN path = 1 .. n
      /\ todo \in Seq(SUBSET Clients) /\ Len(todo) = n /\ Search!TypeOK
      /\ \A i, j \in DOMAIN path : path[i] = path[j] => i = j
  BY SearchTyped DEF FindInv, SearchInv
<1>3. n # 0 /\ n \in 1 .. n /\ todo[n] = {}
  <2>1. n # 0
    BY <1>1, <1>2, EmptySeq
  <2> QED BY <1>1, <1>2, <2>1
<1>4. DOMAIN path' = 1 .. n - 1 /\ \A i \in 1 .. n - 1 : path'[i] = path[i]
  BY <1>1, <1>2, <1>3, FrontOf
<1>5. \A i \in 1 .. n - 1 : todo'[i] = todo[i]
  <2>1. \A i \in 1 .. Len(todo) - 1 : todo'[i] = todo[i]
    BY <1>1, <1>2, <1>3, FrontOf
  <2> QED BY <1>2, <2>1
<1> HIDE DEF n
<1>6. \A i \in 1 .. n - 1 : i \in 1 .. n /\ i # n /\ i <= n
  BY <1>2
<1>7. \A i \in 1 .. n : i # n => i \in 1 .. n - 1
  BY <1>2
<1>8. /\ \A d : Search!WaitsFor(d)' = Search!WaitsFor(d)
      /\ \A d : Search!Behind(d)' = Search!Behind(d)
      /\ \A b, d : Mutual(b, d)' = Mutual(b, d)
      /\ Reported \subseteq Reported'
  BY <1>1, GraphStays
<1>9. \A b : b \notin Search!Range(path)' => b \notin Search!Range(path) \/ b = c
  BY <1>2, <1>4, <1>7 DEF Search!Range
<1>10. NeighboursSeen'
  <2>1. Search!WaitsFor(c) \subseteq visited
    BY <1>2, <1>3 DEF FindInv, NeighboursSeen
  <2>2. \A b \in visited : b \notin Search!Range(path)' => Search!WaitsFor(b) \subseteq visited
    BY <1>9, <2>1 DEF FindInv, NeighboursSeen
  <2>3. \A i \in 1 .. n - 1 : Search!WaitsFor(path'[i]) \ todo'[i] \subseteq visited
    BY <1>2, <1>4, <1>5, <1>6 DEF FindInv, NeighboursSeen
  <2> QED BY <1>1, <1>4, <1>8, <2>2, <2>3 DEF NeighboursSeen
<1>11. ClosedWhenMet'
  <2> SUFFICES ASSUME NEW i \in 1 .. n - 1, NEW b \in visited,
                      path[i] \in Search!WaitsFor(b), LookedBack(b, i)'
               PROVE  path[i] \in Reported
    BY <1>1, <1>4, <1>8 DEF ClosedWhenMet
  <2>1. i \in 1 .. n /\ i <= n
    BY <1>6
  <2>2. LookedBack(b, i)
    <3>1. CASE b \notin Search!Range(path)
      BY <3>1 DEF LookedBack
    <3>2. CASE b = c
      BY <1>2, <1>3, <2>1, <3>2 DEF LookedBack
    <3>3. ASSUME NEW j \in 1 .. n - 1, i <= j, path'[j] = b, path'[i] \notin todo'[j]
          PROVE  LookedBack(b, i)
      BY <1>2, <1>4, <1>5, <1>6, <3>3 DEF LookedBack
    <3> QED BY <1>4, <1>9, <3>1, <3>2, <3>3 DEF LookedBack
  <2> QED BY <1>2, <2>1, <2>2 DEF FindInv, ClosedWhenMet
<1>12. NoneMissed'
  <2>1. ASSUME c \in Search!Behind(c)
        PROVE  \/ \E d : Mutual(c, d) /\ d \in Reported
               \/ \E i \in 1 .. n - 1 : Mutual(c, path[i])
    BY <1>1, <1>2, <1>3, <1>7, <2>1, LastFinds DEF n
  <2>2. ASSUME NEW b, Mutual(b, c)
        PROVE  \/ \E d : Mutual(b, d) /\ d \in Reported
               \/ \E i \in 1 .. n - 1 : Mutual(b, path[i])
    <3>1. c \in Search!Behind(c)
      BY <1>2, <2>2, BehindTransitive DEF Mutual
    <3> QED BY <1>2, <2>1, <2>2, <3>1, MutualTransitive
  <2>3. ASSUME NEW b \in visited, b \notin Search!Range(path)', b \in Search!Behind(b)
        PROVE  \/ \E d : Mutual(b, d) /\ d \in Reported
               \/ \E i \in 1 .. n - 1 : Mutual(b, path[i])
    <3>1. CASE b = c
      BY <2>1, <2>3, <3>1
    <3>2. CASE b \notin Search!Range(path)
      <4>1. \/ \E d : Mutual(b, d) /\ d \in Reported
            \/ \E i \in DOMAIN path : Mutual(b, path[i])
        BY <2>3, <3>2 DEF FindInv, NoneMissed
      <4> QED BY <1>2, <1>7, <2>2, <4>1
    <3> QED BY <1>9, <2>3, <3>1, <3>2
  <2>4. ASSUME NEW b \in visited, b \notin Search!Range(path)', b \in Search!Behind(b)
        PROVE  \/ \E d : Mutual(b, d) /\ d \in Reported'
               \/ \E i \in 1 .. n - 1 : Mutual(b, path'[i])
    BY <1>4, <1>8, <2>3, <2>4
  <2> QED BY <1>1, <1>4, <1>8, <2>4 DEF NoneMissed
<1> QED BY <1>10, <1>11, <1>12

LEMMA FindInvStep ==
    ASSUME FindInv, [Search!Next]_searchVars
    PROVE  FindInv'
<1>1. SearchInv /\ SearchInv'
  BY SearchInvStep DEF FindInv
<1>2. /\ DOMAIN path = 1 .. Len(path) /\ Len(path) \in Nat /\ Len(todo) = Len(path)
      /\ DOMAIN todo = 1 .. Len(todo) /\ todo \in Seq(SUBSET Clients) /\ path \in Seq(visited)
  BY <1>1, SearchTyped DEF SearchInv
<1>3. ASSUME NEW c \in Clients, Search!Start(c)
      PROVE  NeighboursSeen' /\ ClosedWhenMet' /\ NoneMissed'
  <2>1. /\ path = <<>> /\ c \notin visited /\ Search!Enter(c, <<>>)
        /\ UNCHANGED <<waitFor, cycles>>
    BY <1>3 DEF Search!Start
  <2>2. <<>> \in Seq(SUBSET Clients) /\ Len(<<>>) = Len(path) /\ DOMAIN path = {}
    BY <2>1, EmptySeq
  <2> QED BY <2>1, <2>2, EnterFinds
<1>4. ASSUME NEW c \in Clients, Search!Follow(c)
      PROVE  NeighboursSeen' /\ ClosedWhenMet' /\ NoneMissed'
  <2> DEFINE rest == [todo EXCEPT ![Len(todo)] = @ \ {c}]
  <2>1. path # <<>> /\ c \in todo[Len(todo)] /\ waitFor' = waitFor
    BY <1>4 DEF Search!Follow, Search!Last
  <2>2. rest \in Seq(SUBSET Clients) /\ Len(rest) = Len(path)
    BY <1>1, <2>1, RestStep
  <2>3. /\ \A i \in DOMAIN path : todo[i] \subseteq rest[i] \cup {c}
        /\ \A i \in DOMAIN path : todo[i] \ {c} \subseteq rest[i]
        /\ \A i \in DOMAIN path : i # Len(path) => rest[i] = todo[i]
    BY <1>2
  <2>4. IF c \in visited THEN Search!LookAt(c) /\ todo' = rest
        ELSE Search!Enter(c, rest) /\ UNCHANGED cycles
    BY <1>4 DEF Search!Follow
  <2> HIDE DEF rest
  <2>5. CASE c \notin visited
    <3>1. Search!Enter(c, rest) /\ UNCHANGED <<waitFor, cycles>>
      BY <2>1, <2>4, <2>5
    <3>2. \A i \in DOMAIN path : todo[i] \subseteq rest[i] \cup {c}
      BY <2>3
    <3> QED BY <2>2, <2>5, <3>1, <3>2, EnterFinds
  <2>6. CASE c \in visited
    <3>1. c \in Search!WaitsFor(path[Len(path)])
      <4>1. Len(path) # 0
        BY <1>2, <2>1, EmptySeq
      <4> QED BY <1>1, <1>2, <2>1, <4>1 DEF SearchInv, Follows
    <3>2. Search!LookAt(c) /\ todo' = rest
      BY <2>4, <2>6
    <3>3. /\ \A i \in DOMAIN path : todo[i] \ {c} \subseteq todo'[i]
          /\ \A i \in DOMAIN path : i # Len(path) => todo'[i] = todo[i]
      BY <2>3, <3>2
    <3> QED BY <2>1, <2>6, <3>1, <3>2, <3>3, LookFinds
  <2> QED BY <2>5, <2>6
<1>5. ASSUME UNCHANGED searchVars
      PROVE  NeighboursSeen' /\ ClosedWhenMet' /\ NoneMissed'
  <2>1. UNCHANGED <<waitFor, visited, path, todo, cycles>>
    BY <1>5 DEF searchVars
  <2>2. /\ \A d : Search!WaitsFor(d)' = Search!WaitsFor(d)
        /\ \A d : Search!Behind(d)' = Search!Behind(d)
        /\ \A b, d : Mutual(b, d)' = Mutual(b, d)
        /\ Reported \subseteq Reported'
    BY <2>1, GraphStays
  <2>3. /\ Search!Range(path)' = Search!Range(path)
        /\ \A b : \A i : LookedBack(b, i)' = LookedBack(b, i)
    BY <2>1 DEF Search!Range, LookedBack
  <2>4. NeighboursSeen'
    BY <2>1, <2>2, <2>3 DEF FindInv, NeighboursSeen
  <2>5. ClosedWhenMet'
    BY <2>1, <2>2, <2>3 DEF FindInv, ClosedWhenMet
  <2>6. NoneMissed'
    <3>1. ASSUME NEW b \in visited \ Search!Range(path), b \in Search!Behind(b)
          PROVE  \/ \E d : Mutual(b, d) /\ d \in Reported'
                 \/ \E i \in DOMAIN path : Mutual(b, path[i])
      BY <2>2, <3>1 DEF FindInv, NoneMissed
    <3> QED BY <2>1, <2>2, <2>3, <3>1 DEF NoneMissed
  <2> QED BY <2>4, <2>5, <2>6
<1>6. NeighboursSeen' /\ ClosedWhenMet' /\ NoneMissed'
  BY <1>3, <1>4, <1>5, LeaveFinds DEF Search!Next
<1> QED BY <1>1, <1>6 DEF FindInv

LEMMA FindInvariant == Spec => []FindInv
<1>1. Init => FindInv
  <2> SUFFICES ASSUME Init PROVE FindInv
    OBVIOUS
  <2>1. SearchInv /\ visited = {} /\ path = <<>>
    BY PartsBegin, SearchInvInit DEF Search!Init
  <2>2. DOMAIN path = {}
    BY <2>1, EmptySeq
  <2> QED BY <2>1, <2>2 DEF FindInv, NeighboursSeen, ClosedWhenMet, NoneMissed
<1>2. FindInv /\ [Next]_vars => FindInv'
  BY PartsMove, FindInvStep
<1> QED BY <1>1, <1>2, PTL DEF Spec

\* detect_cycles (DeadlockDetector, src/src/nodes/lock_manager.py) is right and
\* complete, for any graph and any order of keys and neighbours: all it returns are
\* cycles, and if a client waits for itself through others, then when the search is
\* over a cycle is reported whose clients all wait for it, and it for them.
THEOREM CyclesFound == Spec => []DeadlocksFound
<1>1. FindInv => DeadlocksFound
  <2> SUFFICES ASSUME FindInv, NEW c \in Clients, Search!Finished, c \in Search!Behind(c)
               PROVE  \E s \in cycles : \A d \in Search!Range(s) :
                          d \in Search!Behind(c) /\ c \in Search!Behind(d)
    BY DEF DeadlocksFound, Search!DeadlocksFound, FindInv, SearchInv
  <2>1. Search!TypeOK /\ path = <<>> /\ DOMAIN waitFor \subseteq visited
    BY DEF FindInv, SearchInv, Search!Finished
  <2>2. DOMAIN path = {} /\ Search!Range(path) = {}
    BY <2>1, EmptySeq DEF Search!Range
  <2>3. c \in visited
    <3> SUFFICES ASSUME c \notin DOMAIN waitFor PROVE FALSE
      BY <2>1
    <3>1. Search!WaitsFor(c) = {}
      BY DEF Search!WaitsFor
    <3>2. {} \in SUBSET Clients /\ Search!Behind(c) \subseteq {}
      BY <3>1, BehindLeast
    <3> QED BY <3>2
  <2>4. PICK d \in Reported : Mutual(c, d)
    BY <2>2, <2>3 DEF FindInv, NoneMissed
  <2>5. PICK s \in cycles : s \in Seq(Clients) /\ Search!IsCycle(s) /\ d \in Search!Range(s)
    BY <2>4 DEF Reported
  <2>6. ASSUME NEW e \in Search!Range(s)
        PROVE  e \in Search!Behind(c) /\ c \in Search!Behind(e)
    <3>1. PICK i \in DOMAIN s, j \in DOMAIN s : s[i] = d /\ s[j] = e
      BY <2>5 DEF Search!Range
    <3>2. s[j] \in Search!Behind(s[i]) /\ s[i] \in Search!Behind(s[j])
      BY <2>1, <2>5, CycleMutual
    <3>3. Mutual(d, e)
      BY <3>1, <3>2 DEF Mutual
    <3> QED BY <2>1, <2>4, <3>3, MutualTransitive DEF Mutual
  <2> QED BY <2>6
<1> QED BY <1>1, FindInvariant, PTL

-----------------------------------------------------------------------------
(* All parts *)

\* TypeOK of MCNode: every variable of every part has its type.
THEOREM PartsTyped == Spec => []TypeOK
<1>1. DetectorInv /\ AuditInv /\ SearchInv /\ RingInv /\ LocksInv /\ QueueInv
        /\ GeoTyped => TypeOK
  BY DEF DetectorInv, AuditInv, SearchInv, RingInv, LocksInv, QueueInv, GeoTyped, TypeOK
<1> QED BY <1>1, DetectorInvariant, AuditInvariant, SearchInvariant, RingInvariant,
           LocksInvariant, QueueInvariant, GeoTypedInvariant, PTL

=============================================================================
