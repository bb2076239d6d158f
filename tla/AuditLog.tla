------------------------------- MODULE AuditLog -------------------------------
(***************************************************************************)
(* AuditLogger (src/src/security/audit_logger.py): a chain of entries in   *)
(* memory and the file it is appended to and loaded from.                  *)
(*                                                                         *)
(* What an entry says is the number of the call of log that made it.  A    *)
(* hash stands for all that was hashed, which by prev_hash is the contents *)
(* of the chain up to the entry: hashes do not collide.                    *)
(***************************************************************************)
EXTENDS Integers, Sequences, SequencesExt

CONSTANTS
    MaxEntries,     \* bound: entries logged
    MaxRestarts,    \* bound: restarts
    MaxChanges      \* bound: changes to the file by others

AuditAssumption == MaxEntries \in Nat /\ MaxRestarts \in Nat /\ MaxChanges \in Nat

VARIABLES
    entries,        \* self._entries
    sequence,       \* self._sequence
    file,           \* the lines of the file: entries and Garbage
    torn,           \* the last line has no end yet
    logged,         \* entries logged so far
    restarts,
    changes         \* changes to the file by others

\* What has happened so far; no action reads it.
VARIABLES
    sound,          \* entries logged before a write to the file failed
    genuine         \* entries logged behind genuine ones, or as the first

history == <<sound, genuine>>
vars == <<entries, sequence, file, torn, logged, restarts, changes, history>>

-----------------------------------------------------------------------------
Hashes == Seq(Nat \X Nat)
AuditEntry == [sequence : Nat, says : Nat, prev : Hashes, hash : Hashes]

Genesis == <<>>             \* the prev_hash of the first entry
Missing == <<>>             \* no entry_hash; no hash is empty
Garbage == [says |-> -1]    \* a line that cannot be parsed
Other == 0                  \* what no call of log said

\* _compute_hash
Hash(e) == Append(e.prev, <<e.sequence, e.says>>)

\* AuditEntry.__init__: an entry without a hash is given one.
Made(e) == IF e.hash = Missing THEN [e EXCEPT !.hash = Hash(e)] ELSE e

Init ==
    /\ entries = <<>> /\ sequence = 0
    /\ file = <<>> /\ torn = FALSE
    /\ logged = 0 /\ restarts = 0 /\ changes = 0
    /\ sound = 0 /\ genuine = {}

LastHash == IF entries = <<>> THEN Genesis ELSE Last(entries).hash

\* log: the entry that comes next
NewEntry ==
    Made([sequence |-> sequence + 1, says |-> logged + 1, prev |-> LastHash, hash |-> Missing])

\* log, up to the write
Chained ==
    /\ logged < MaxEntries /\ logged' = logged + 1
    /\ sequence' = sequence + 1
    /\ entries' = Append(entries, NewEntry)
    /\ genuine' = IF entries = <<>> \/ Last(entries) \in genuine
                  THEN genuine \cup {NewEntry} ELSE genuine
    /\ UNCHANGED <<restarts, changes>>

\* What the file holds after a line came behind what is there.
Extended(line) == IF torn THEN Append(Front(file), Garbage) ELSE Append(file, line)

Log ==
    /\ Chained
    /\ file' = Extended(NewEntry) /\ torn' = FALSE
    /\ sound' = IF sound = logged THEN sound + 1 ELSE sound

\* The error is logged and swallowed.
LogNotWritten == Chained /\ UNCHANGED <<file, torn, sound>>

\* Half of the line is written.
LogTorn ==
    /\ Chained
    /\ file' = Extended(Garbage) /\ torn' = TRUE
    /\ UNCHANGED sound

Change ==
    /\ changes < MaxChanges /\ changes' = changes + 1
    /\ UNCHANGED <<entries, sequence, logged, restarts, history>>

\* The hash the line before i was made with, if there is one
HashBefore(i) == IF i > 1 /\ file[i - 1] # Garbage THEN {Made(file[i - 1]).hash} ELSE {}

\* Somebody changes what line i says and the hash it points at, or leaves them,
\* and its own hash is left as it was, removed or made to fit.
Alter(i) ==
    /\ Change
    /\ i \in DOMAIN file /\ file[i] # Garbage
    /\ \E says \in {file[i].says, Other}, prev \in {file[i].prev} \cup HashBefore(i) :
         LET line == [file[i] EXCEPT !.says = says, !.prev = prev]
         IN \E hash \in {line.hash, Missing, Hash(line)} :
                file' = [file EXCEPT ![i] = [line EXCEPT !.hash = hash]]
    /\ UNCHANGED torn

\* The last line is cut off.
Cut ==
    /\ Change
    /\ file # <<>> /\ file' = Front(file)
    /\ torn' = FALSE

\* _load_from_file gives up at the first line it cannot parse.
Parsed ==
    LET good == {k \in 0 .. Len(file) : \A i \in 1 .. k : file[i] # Garbage}
        last == CHOOSE k \in good : \A j \in good : j <= k
    IN [i \in 1 .. last |-> Made(file[i])]

\* Slip: the sequence is the number of the entries.
LoadedCount(loaded) == Len(loaded)

LoadedSequence(loaded) ==
    CHOOSE s \in {0} \cup {loaded[i].sequence : i \in DOMAIN loaded} :
        \A i \in DOMAIN loaded : loaded[i].sequence <= s

Restart ==
    /\ restarts < MaxRestarts /\ restarts' = restarts + 1
    /\ entries' = Parsed
    /\ sequence' = LoadedSequence(Parsed)
    /\ UNCHANGED <<file, torn, logged, changes, history>>

Next ==
    \/ Log \/ LogNotWritten \/ LogTorn \/ Cut \/ Restart
    \/ \E i \in DOMAIN file : Alter(i)

Spec == Init /\ [][Next]_vars

-----------------------------------------------------------------------------
\* Each entry points at the one before.
Linked ==
    \A i \in DOMAIN entries : entries[i].prev = IF i = 1 THEN Genesis ELSE entries[i - 1].hash

\* Slip: only the links are verified, not what the entries say.
LinksVerified == Linked

\* verify_chain
Verified == Linked /\ \A i \in DOMAIN entries : entries[i].hash = Hash(entries[i])

(* Properties *)

\* Every variable has its type.
TypeOK ==
    /\ entries \in Seq(AuditEntry)
    /\ sequence \in Nat /\ logged \in Nat /\ restarts \in Nat /\ changes \in Nat
    /\ file \in Seq(AuditEntry \cup {Garbage})
    /\ torn \in BOOLEAN
    /\ torn => (file # <<>> /\ Last(file) = Garbage)
    /\ sound \in 0 .. logged
    /\ genuine \subseteq AuditEntry

\* What the verdict of verify_chain is worth, through restarts:
\* - in a chain found intact everything before a genuine entry is genuine, so that
\*   a changed entry is found out unless all that was logged behind it is lost;
\* - if nobody changed the file, the chain has every entry logged before a write
\*   failed, in order;
\* - and if no write failed either, the chain is found intact and complete.
VerdictRight ==
    /\ Verified =>
         \A i \in DOMAIN entries \ {1} : entries[i] \in genuine => entries[i - 1] \in genuine
    /\ changes = 0 => /\ sound <= Len(entries)
                      /\ \A i \in 1 .. sound : entries[i].says = i
    /\ changes = 0 /\ sound = logged => Verified /\ Len(entries) = logged

\* Sequence numbers only grow along the chain, and the next one is new to it,
\* whatever writes failed and however often the file was loaded.
SequenceGrows ==
    /\ \A i, j \in DOMAIN entries : i < j => entries[i].sequence < entries[j].sequence
    /\ \A i \in DOMAIN entries : entries[i].sequence <= sequence

=============================================================================
