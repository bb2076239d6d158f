--------------------------- MODULE FailureDetector ---------------------------
(***************************************************************************)
(* The failure detector of a node (FailureDetector,                        *)
(* src/src/communication/failure_detector.py) with what feeds it: the      *)
(* heartbeat loop, which asks one peer after the other and waits for each  *)
(* answer, and the requests that come in from peers (BaseNode and          *)
(* DistributedNode).  Time goes by in seconds; within a second the loops   *)
(* do all that is due, in any order.                                       *)
(*                                                                         *)
(* A peer runs, is down (connections are refused at once) or hangs (the    *)
(* request is given up after RpcTimeout, or answered when the peer runs    *)
(* again).                                                                 *)
(***************************************************************************)
EXTENDS Integers

CONSTANTS
    Peers,          \* the number of peers
    RpcTimeout,     \* MessagePassing.timeout
    Pause,          \* the sleep of _heartbeat_loop
    SuspectTimeout, \* suspect_timeout
    DeadTimeout     \* dead_timeout

\* The time from one heartbeat of a running peer to the next, if all others hang.
Round == Pause + (Peers - 1) * RpcTimeout

\* The time to the first heartbeat of a peer that runs again: a request that was
\* sent before may still be given up.
Comeback == Round + RpcTimeout

\* So it is for three nodes: 2 + 5 against 10 in main.py, 15 in base_node.py.
DetectorAssumption ==
    /\ Peers \in Nat \ {0} /\ RpcTimeout \in Nat \ {0} /\ Pause \in Nat \ {0}
    /\ SuspectTimeout \in Nat /\ DeadTimeout \in Nat
    /\ Pause <= SuspectTimeout /\ SuspectTimeout < DeadTimeout
    /\ Round <= DeadTimeout

VARIABLES
    age,            \* time.time() - _last_heartbeat, at most DeadTimeout + 1
    status,         \* _node_status
    peer,           \* what a peer does: "runs", "down" or "hangs"
    turn,           \* the peer _heartbeat_loop is at; 0 while it sleeps
    wait,           \* how long it still sleeps or waits for the answer
    checked         \* _monitor_loop looked at the peers in this second

\* What has happened so far; no action reads it.
VARIABLES
    since,          \* for how long a peer has run, or not run
    calm            \* for how long no peer has hung

vars == <<age, status, peer, turn, wait, checked, since, calm>>

-----------------------------------------------------------------------------
PeerIds == 1 .. Peers
Horizon == DeadTimeout + Comeback + 1      \* counters stop here

CountedTo(bound, k) == IF k < bound THEN k + 1 ELSE k

Init ==
    /\ age = [p \in PeerIds |-> 0]
    /\ status = [p \in PeerIds |-> "alive"]
    /\ peer = [p \in PeerIds |-> "runs"]
    /\ turn = 1 /\ wait = 0
    /\ checked = FALSE
    /\ since = [p \in PeerIds |-> 0]
    /\ calm = Horizon

\* record_heartbeat
Recorded(p) ==
    /\ age' = [age EXCEPT ![p] = 0]
    /\ status' = [status EXCEPT ![p] = "alive"]

\* The loop goes on to the next peer, or to sleep.
GoOn(p) ==
    IF p < Peers THEN turn' = p + 1 /\ wait' = 0 ELSE turn' = 0 /\ wait' = Pause

\* A request is sent to a peer that hangs: the loop waits.
Ask ==
    /\ turn # 0 /\ wait = 0
    /\ peer[turn] = "hangs"
    /\ wait' = RpcTimeout
    /\ UNCHANGED <<age, status, peer, turn, checked, since, calm>>

\* The peer answers, at once or when it runs again.
Answered ==
    /\ turn # 0 /\ peer[turn] = "runs"
    /\ Recorded(turn)
    /\ GoOn(turn)
    /\ UNCHANGED <<peer, checked, since, calm>>

\* Slip: any end of a request counts as a heartbeat.
NotAnsweredRecorded ==
    /\ turn # 0 /\ peer[turn] = "down"
    /\ Recorded(turn)
    /\ GoOn(turn)
    /\ UNCHANGED <<peer, checked, since, calm>>

\* The connection is refused or broken.
NotAnswered ==
    /\ turn # 0 /\ peer[turn] = "down"
    /\ GoOn(turn)
    /\ UNCHANGED <<age, status, peer, checked, since, calm>>

\* A request of the peer comes in.
Incoming(p) ==
    /\ peer[p] = "runs"
    /\ Recorded(p)
    /\ UNCHANGED <<peer, turn, wait, checked, since, calm>>

\* Slip: missed heartbeats make a peer dead at once.
StatusAtSuspect(t) == IF t > SuspectTimeout THEN "dead" ELSE "alive"

StatusAt(t) ==
    IF t > DeadTimeout THEN "dead" ELSE IF t > SuspectTimeout THEN "suspected" ELSE "alive"

\* A pass of _monitor_loop
Monitor ==
    /\ ~checked
    /\ status' = [p \in PeerIds |-> StatusAt(age[p])]
    /\ checked' = TRUE
    /\ UNCHANGED <<age, peer, turn, wait, since, calm>>

\* A second goes by; a request that was not answered in it may be given up.
Tick ==
    /\ checked /\ wait > 0
    /\ checked' = FALSE
    /\ age' = [p \in PeerIds |-> CountedTo(DeadTimeout + 1, age[p])]
    /\ since' = [p \in PeerIds |-> CountedTo(Horizon, since[p])]
    /\ calm' = IF \E p \in PeerIds : peer[p] = "hangs" THEN 0 ELSE CountedTo(Horizon, calm)
    /\ IF wait > 1 THEN wait' = wait - 1 /\ UNCHANGED turn
       ELSE IF turn = 0 THEN turn' = 1 /\ wait' = 0
       ELSE GoOn(turn)
    /\ UNCHANGED <<status, peer>>

\* A peer stops, hangs or runs again.
Change(p, does) ==
    /\ peer[p] # does
    /\ peer' = [peer EXCEPT ![p] = does]
    /\ since' = [since EXCEPT ![p] = IF "runs" \in {does, peer[p]} THEN 0 ELSE @]
    /\ calm' = IF does = "hangs" THEN 0 ELSE calm
    /\ UNCHANGED <<age, status, turn, wait, checked>>

Next ==
    \/ Ask \/ Answered \/ NotAnswered \/ Monitor \/ Tick
    \/ \E p \in PeerIds : Incoming(p)
    \/ \E p \in PeerIds, does \in {"runs", "down", "hangs"} : Change(p, does)

Spec == Init /\ [][Next]_vars

-----------------------------------------------------------------------------
(* Properties *)

\* Every variable has its type.
TypeOK ==
    /\ age \in [PeerIds -> 0 .. DeadTimeout + 1]
    /\ status \in [PeerIds -> {"alive", "suspected", "dead"}]
    /\ peer \in [PeerIds -> {"runs", "down", "hangs"}]
    /\ turn \in 0 .. Peers
    /\ wait \in 0 .. (IF Pause > RpcTimeout THEN Pause ELSE RpcTimeout)
    /\ turn = 0 => wait \in 1 .. Pause
    /\ checked \in BOOLEAN
    /\ since \in [PeerIds -> 0 .. Horizon] /\ calm \in 0 .. Horizon

\* A running peer is never DEAD, although the loop waits for every other peer
\* that hangs, and it is suspected only because one did.
RunningNotBlamed ==
    \A p \in PeerIds : peer[p] = "runs" /\ since[p] > Comeback =>
        /\ status[p] # "dead"
        /\ calm > Comeback => status[p] = "alive"

\* A peer that does not run is found DEAD, however the loops' readings of the
\* clock fall: at the latest with the check of the second after dead_timeout.
SilentFoundDead ==
    \A p \in PeerIds :
        peer[p] # "runs" /\ since[p] > DeadTimeout /\ checked => status[p] = "dead"

=============================================================================
