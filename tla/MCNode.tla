-------------------------------- MODULE MCNode --------------------------------
(***************************************************************************)
(* The parts of a node that share no state with each other, for TLC.  A    *)
(* behaviour is one of one part; the others stay as they were made.        *)
(***************************************************************************)
EXTENDS Integers, FiniteSetsExt, TLC

CONSTANTS Peers, RpcTimeout, Pause, SuspectTimeout, DeadTimeout
VARIABLES age, status, peer, turn, wait, checked, since, calm
Detector == INSTANCE FailureDetector
detectorVars == <<age, status, peer, turn, wait, checked, since, calm>>

CONSTANTS MaxEntries, MaxRestarts, MaxChanges
VARIABLES entries, sequence, file, torn, logged, restarts, changes, sound, genuine
Audit == INSTANCE AuditLog
auditVars == <<entries, sequence, file, torn, logged, restarts, changes, sound, genuine>>

CONSTANT Clients
VARIABLES waitFor, visited, path, todo, cycles
Search == INSTANCE DeadlockSearch
searchVars == <<waitFor, visited, path, todo, cycles>>

CONSTANTS Nodes, Replicas, Points
VARIABLES place, ring, sortedKeys, nodes
Ring == INSTANCE HashRing
ringVars == <<place, ring, sortedKeys, nodes>>

CONSTANT MaxCommands
VARIABLES lock, calls, commands, asked, told
Locks == INSTANCE UnifiedLocks
locksVars == <<lock, calls, commands, asked, told>>

CONSTANTS Ids, Attempts
VARIABLES state, pending, left, came, went
Queue == INSTANCE UnifiedQueue
queueVars == <<state, pending, left, came, went>>

CONSTANTS Regions, Keys, Times, MaxWrites, MaxRepeats, MaxGeoRestarts
VARIABLES store, clock, sends, repeats, written, handled, restarted
Geo == INSTANCE Replicator WITH Nodes <- Regions, MaxRestarts <- MaxGeoRestarts
geoVars == <<store, clock, sends, repeats, written, handled, restarted>>

ASSUME PartsAssumption ==
    /\ Detector!DetectorAssumption /\ Audit!AuditAssumption
    /\ Queue!AttemptsAssumption /\ Ring!RingAssumption /\ Geo!ReplicatorAssumption

VARIABLE part       \* the one that moves

vars == <<detectorVars, auditVars, searchVars, ringVars, locksVars, queueVars, geoVars, part>>

-----------------------------------------------------------------------------
Places == CHOOSE f \in [Nodes -> kSubset(Replicas, Points)] : Ring!Placed(f)

\* The graph to search and the points of the ring matter to their part only.
Init ==
    /\ part \in {"detector", "audit", "search", "ring", "locks", "queue", "geo"}
    /\ Detector!Init /\ Audit!Init /\ Locks!Init /\ Queue!Init /\ Geo!Init
    /\ Search!Init /\ (part = "search" \/ waitFor = <<>>)
    /\ Ring!Init /\ (part = "ring" \/ place = Places)

DetectorStep ==
    /\ part = "detector" /\ Detector!Next
    /\ UNCHANGED <<auditVars, searchVars, ringVars, locksVars, queueVars, geoVars, part>>

AuditStep ==
    /\ part = "audit" /\ Audit!Next
    /\ UNCHANGED <<detectorVars, searchVars, ringVars, locksVars, queueVars, geoVars, part>>

SearchStep ==
    /\ part = "search" /\ Search!Next
    /\ UNCHANGED <<detectorVars, auditVars, ringVars, locksVars, queueVars, geoVars, part>>

RingStep ==
    /\ part = "ring" /\ Ring!Next
    /\ UNCHANGED <<detectorVars, auditVars, searchVars, locksVars, queueVars, geoVars, part>>

LocksStep ==
    /\ part = "locks" /\ Locks!Next
    /\ UNCHANGED <<detectorVars, auditVars, searchVars, ringVars, queueVars, geoVars, part>>

QueueStep ==
    /\ part = "queue" /\ Queue!Next
    /\ UNCHANGED <<detectorVars, auditVars, searchVars, ringVars, locksVars, geoVars, part>>

\* Bound: a restart goes with fewer writes.
GeoStep ==
    /\ part = "geo" /\ Geo!Next
    /\ restarted' # {} => Cardinality(written') < MaxWrites
    /\ UNCHANGED <<detectorVars, auditVars, searchVars, ringVars, locksVars, queueVars, part>>

Next ==
    \/ DetectorStep \/ AuditStep \/ SearchStep \/ RingStep
    \/ LocksStep \/ QueueStep \/ GeoStep

Spec == Init /\ [][Next]_vars

-----------------------------------------------------------------------------
\* The sites of the geo replicator are alike.
Symmetry == Permutations(Regions)

(* The properties of the parts *)

\* Every variable of every part has its type.
TypeOK ==
    /\ Detector!TypeOK /\ Audit!TypeOK /\ Search!TypeOK
    /\ Ring!TypeOK /\ Locks!TypeOK /\ Queue!TypeOK /\ Geo!TypeOK

\* A running peer is not found dead, nor suspected without a hanging one.
RunningNotBlamed == Detector!RunningNotBlamed

\* A peer that does not run is found dead.
SilentFoundDead == Detector!SilentFoundDead

\* An audit chain that is found intact is genuine up to the last genuine entry,
\* and one that was written and not changed is found intact and complete.
VerdictRight == Audit!VerdictRight

\* Audit sequence numbers grow, through failed writes and restarts.
SequenceGrows == Audit!SequenceGrows

\* Of clients that wait for each other at least one cycle is reported.
DeadlocksFound == Search!DeadlocksFound

\* A key's owner and its replicas fit together.
OwnerLeadsReplicas == Ring!OwnerLeadsReplicas

\* Keys move only from a node that leaves to the next replica, or to one that comes.
SuccessorTakesOver == Ring!SuccessorTakesOver

\* A client has or waits for the lock it asked for until it releases it itself.
KeptUntilReleased == Locks!KeptUntilReleased

\* A node hands a message out as often as it came.
HandedOutAsItCame == Queue!HandedOutAsItCame

\* A node's clock covers all that it stores.
ClockCovers == Geo!ClockCovers

\* An entry stays PENDING at its origin, whoever has copies, and is so nowhere else.
StatusTells == Geo!StatusTells

\* Nodes that have handled the same writes store the same.
SameWritesSameValue == Geo!SameWritesSameValue

\* A node does not end up with a write older than one it has handled.
NeverOlder == Geo!NeverOlder

=============================================================================
