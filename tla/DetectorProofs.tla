---------------------------- MODULE DetectorProofs ----------------------------
(***************************************************************************)
(* Theorems about the failure detector, a part of MCNode, for every number *)
(* of peers and all timeouts that keep the proportions DetectorAssumption  *)
(* states: a peer that runs is heard of in time although every other one   *)
(* may hang, and one that does not run is found dead.                      *)
(***************************************************************************)
EXTENDS MCNode, TLAPS

-----------------------------------------------------------------------------
(* One part moves at a time *)

LEMMA PartsBegin ==
    Init => /\ Detector!Init /\ Audit!Init /\ Search!Init
            /\ Ring!Init /\ Locks!Init /\ Queue!Init /\ Geo!Init
BY DEF Init

LEMMA PartsMove ==
    ASSUME [Next]_vars
    PROVE  /\ [Detector!Next]_detectorVars /\ [Audit!Next]_auditVars
           /\ [Search!Next]_searchVars /\ [Ring!Next]_ringVars
           /\ [Locks!Next]_locksVars /\ [Queue!Next]_queueVars
           /\ [Geo!Next]_geoVars
<1>1. CASE UNCHANGED vars
  BY <1>1 DEF vars
<1>2. CASE Next
  BY <1>2 DEF Next, DetectorStep, AuditStep, SearchStep, RingStep, LocksStep, QueueStep, GeoStep
<1> QED BY <1>1, <1>2

-----------------------------------------------------------------------------
(* Types and constants *)

\* What the constants are, and the times the heartbeat loop needs.
LEMMA DetectorTimes ==
    /\ Peers \in Nat \ {0} /\ RpcTimeout \in Nat \ {0} /\ Pause \in Nat \ {0}
    /\ SuspectTimeout \in Nat /\ DeadTimeout \in Nat
    /\ Pause <= SuspectTimeout /\ SuspectTimeout < DeadTimeout
    /\ Detector!Round \in Nat /\ Detector!Comeback = Detector!Round + RpcTimeout
    /\ Detector!Horizon = DeadTimeout + Detector!Comeback + 1
    /\ Pause <= Detector!Round /\ Detector!Round <= DeadTimeout
<1>1. Detector!DetectorAssumption
  BY PartsAssumption
<1>2. /\ Peers \in Nat \ {0} /\ RpcTimeout \in Nat \ {0} /\ Pause \in Nat \ {0}
      /\ SuspectTimeout \in Nat /\ DeadTimeout \in Nat
      /\ Pause <= SuspectTimeout /\ SuspectTimeout < DeadTimeout
      /\ Detector!Round <= DeadTimeout
  BY <1>1 DEF Detector!DetectorAssumption
<1>3. (Peers - 1) * RpcTimeout \in Nat
  BY <1>2
<1>4. Detector!Round \in Nat /\ Pause <= Detector!Round
  BY <1>2, <1>3 DEF Detector!Round
<1> QED BY <1>2, <1>4 DEF Detector!Comeback, Detector!Horizon

-----------------------------------------------------------------------------
(* How long until the loop hears of a peer again *)

\* The time to ask k peers that all hang
AskingHung(k) == k * RpcTimeout

\* Each of them takes as long as a request may.
LEMMA AskingOneMore ==
    /\ AskingHung(0) = 0
    /\ \A k \in Nat : AskingHung(k) \in Nat /\ AskingHung(k + 1) = AskingHung(k) + RpcTimeout
    /\ \A k \in Nat : k # 0 => AskingHung(k) = AskingHung(k - 1) + RpcTimeout
    /\ \A p \in 1 .. Peers : AskingHung(Peers - 1) = AskingHung(Peers - p) + AskingHung(p - 1)
    /\ Detector!Round = Pause + AskingHung(Peers - 1)
<1>1. RpcTimeout \in Nat /\ Peers \in Nat \ {0}
  BY DetectorTimes
<1>2. \A k \in Nat : AskingHung(k) \in Nat
  BY <1>1 DEF AskingHung
<1>3. \A k \in Nat : AskingHung(k + 1) = AskingHung(k) + RpcTimeout
  BY <1>1 DEF AskingHung
<1>4. \A k \in Nat : k # 0 => AskingHung(k) = AskingHung(k - 1) + RpcTimeout
  BY <1>1 DEF AskingHung
<1>5. \A p \in 1 .. Peers : AskingHung(Peers - 1) = AskingHung(Peers - p) + AskingHung(p - 1)
  BY <1>1 DEF AskingHung
<1>6. AskingHung(0) = 0 /\ Detector!Round = Pause + AskingHung(Peers - 1)
  BY <1>1 DEF AskingHung, Detector!Round
<1> QED BY <1>2, <1>3, <1>4, <1>5, <1>6

\* What is left of the request that is out, or about to be sent, or of the sleep
Current == IF turn # 0 /\ wait = 0 THEN RpcTimeout ELSE wait

\* The time until a peer that runs is heard of, if all others hang; the answer
\* that is out when it comes back may never arrive, then it is the next one.
Due(p) ==
    IF turn = p /\ wait = 0 THEN 0
    ELSE IF turn < p THEN Current + AskingHung(p - 1 - turn)
    ELSE Current + AskingHung(Peers - turn) + Pause + AskingHung(p - 1)

-----------------------------------------------------------------------------
(* Types *)

\* Where the loop goes from a peer
LEMMA GoneOn ==
    ASSUME Detector!TypeOK, turn # 0, Detector!GoOn(turn)
    PROVE  /\ turn \in 1 .. Peers
           /\ turn' = (IF turn < Peers THEN turn + 1 ELSE 0)
           /\ wait' = (IF turn < Peers THEN 0 ELSE Pause)
           /\ turn' \in 0 .. Peers /\ (turn' = 0 => wait' \in 1 .. Pause)
           /\ wait' \in 0 .. (IF Pause > RpcTimeout THEN Pause ELSE RpcTimeout)
<1>1. turn \in 1 .. Peers /\ Peers \in Nat /\ Pause \in Nat \ {0} /\ RpcTimeout \in Nat
  BY DetectorTimes DEF Detector!TypeOK
<1>2. /\ turn < Peers => turn' = turn + 1 /\ wait' = 0
      /\ ~(turn < Peers) => turn' = 0 /\ wait' = Pause
  BY DEF Detector!GoOn
<1> QED BY <1>1, <1>2

LEMMA DetectorTyped ==
    ASSUME Detector!TypeOK, [Detector!Next]_detectorVars
    PROVE  Detector!TypeOK'
<1> DEFINE longest == IF Pause > RpcTimeout THEN Pause ELSE RpcTimeout
           ids == Detector!PeerIds
<1>1. /\ age \in [ids -> 0 .. DeadTimeout + 1]
      /\ status \in [ids -> {"alive", "suspected", "dead"}]
      /\ peer \in [ids -> {"runs", "down", "hangs"}]
      /\ turn \in 0 .. Peers /\ wait \in 0 .. longest
      /\ turn = 0 => wait \in 1 .. Pause
      /\ checked \in BOOLEAN
      /\ since \in [ids -> 0 .. Detector!Horizon] /\ calm \in 0 .. Detector!Horizon
  BY DEF Detector!TypeOK
<1>2. /\ DeadTimeout \in Nat /\ Detector!Horizon \in Nat /\ ids = 1 .. Peers
      /\ Peers \in Nat \ {0} /\ Pause \in Nat \ {0} /\ RpcTimeout \in Nat \ {0}
  BY DetectorTimes DEF Detector!PeerIds
<1>3. longest \in Nat /\ RpcTimeout \in 0 .. longest
  BY <1>2
<1> HIDE DEF longest, ids
<1>4. ASSUME age' \in [ids -> 0 .. DeadTimeout + 1],
             status' \in [ids -> {"alive", "suspected", "dead"}],
             peer' \in [ids -> {"runs", "down", "hangs"}],
             turn' \in 0 .. Peers, wait' \in 0 .. longest,
             turn' = 0 => wait' \in 1 .. Pause,
             checked' \in BOOLEAN,
             since' \in [ids -> 0 .. Detector!Horizon], calm' \in 0 .. Detector!Horizon
      PROVE  Detector!TypeOK'
  BY <1>4 DEF Detector!TypeOK, longest, ids, Detector!PeerIds, Detector!Horizon,
              Detector!Comeback, Detector!Round
<1>5. ASSUME NEW p, Detector!Recorded(p)
      PROVE  /\ age' \in [ids -> 0 .. DeadTimeout + 1]
             /\ status' \in [ids -> {"alive", "suspected", "dead"}]
  <2>1. age' = [age EXCEPT ![p] = 0] /\ status' = [status EXCEPT ![p] = "alive"]
    BY <1>5 DEF Detector!Recorded
  <2>2. 0 \in 0 .. DeadTimeout + 1
    BY <1>2
  <2>3. age' \in [ids -> 0 .. DeadTimeout + 1]
    BY <1>1, <2>1, <2>2
  <2>4. status' \in [ids -> {"alive", "suspected", "dead"}]
    BY <1>1, <2>1
  <2> QED BY <2>3, <2>4
<1>6. turn # 0 /\ Detector!GoOn(turn)
          => turn' \in 0 .. Peers /\ wait' \in 0 .. longest /\ (turn' = 0 => wait' \in 1 .. Pause)
  BY GoneOn DEF longest
<1>7. CASE Detector!Ask
  BY <1>1, <1>2, <1>3, <1>4, <1>7 DEF Detector!Ask
<1>8. CASE Detector!Answered
  BY <1>1, <1>4, <1>5, <1>6, <1>8 DEF Detector!Answered
<1>9. CASE Detector!NotAnswered
  BY <1>1, <1>4, <1>6, <1>9 DEF Detector!NotAnswered
<1>10. ASSUME NEW p \in Detector!PeerIds, Detector!Incoming(p)
       PROVE  Detector!TypeOK'
  BY <1>1, <1>4, <1>5, <1>10 DEF Detector!Incoming
<1>11. CASE Detector!Monitor
  <2>1. status' \in [ids -> {"alive", "suspected", "dead"}]
    BY <1>11 DEF Detector!Monitor, Detector!StatusAt, ids
  <2> QED BY <1>1, <1>4, <1>11, <2>1 DEF Detector!Monitor
<1>12. CASE Detector!Tick
  <2>1. \A b \in Nat : \A k \in 0 .. b : Detector!CountedTo(b, k) \in 0 .. b
    BY DEF Detector!CountedTo
  <2>2. age' \in [ids -> 0 .. DeadTimeout + 1]
    <3>1. \A k \in 0 .. DeadTimeout + 1 :
              Detector!CountedTo(DeadTimeout + 1, k) \in 0 .. DeadTimeout + 1
      BY <1>2 DEF Detector!CountedTo
    <3> QED BY <1>1, <1>12, <3>1 DEF Detector!Tick, ids
  <2>3. since' \in [ids -> 0 .. Detector!Horizon]
    BY <1>1, <1>2, <1>12, <2>1 DEF Detector!Tick, ids
  <2>4. calm' \in 0 .. Detector!Horizon
    BY <1>1, <1>2, <1>12, <2>1 DEF Detector!Tick
  <2>5. turn' \in 0 .. Peers /\ wait' \in 0 .. longest /\ (turn' = 0 => wait' \in 1 .. Pause)
    <3>1. CASE wait > 1
      BY <1>1, <1>2, <1>3, <1>12, <3>1 DEF Detector!Tick
    <3>2. CASE ~(wait > 1) /\ turn = 0
      BY <1>1, <1>2, <1>3, <1>12, <3>2 DEF Detector!Tick
    <3>3. CASE ~(wait > 1) /\ turn # 0
      BY <1>6, <1>12, <3>3 DEF Detector!Tick
    <3> QED BY <3>1, <3>2, <3>3
  <2> QED BY <1>1, <1>4, <1>12, <2>2, <2>3, <2>4, <2>5 DEF Detector!Tick
<1>13. ASSUME NEW p \in Detector!PeerIds, NEW does \in {"runs", "down", "hangs"},
              Detector!Change(p, does)
       PROVE  Detector!TypeOK'
  <2>1. peer' \in [ids -> {"runs", "down", "hangs"}]
    BY <1>1, <1>13 DEF Detector!Change
  <2>2. since' \in [ids -> 0 .. Detector!Horizon]
    BY <1>1, <1>2, <1>13 DEF Detector!Change, ids
  <2>3. calm' \in 0 .. Detector!Horizon
    BY <1>1, <1>2, <1>13 DEF Detector!Change
  <2> QED BY <1>1, <1>4, <1>13, <2>1, <2>2, <2>3 DEF Detector!Change
<1>14. CASE UNCHANGED detectorVars
  BY <1>1, <1>4, <1>14 DEF detectorVars
<1> QED BY <1>7, <1>8, <1>9, <1>10, <1>11, <1>12, <1>13, <1>14 DEF Detector!Next

-----------------------------------------------------------------------------
(* The loop comes round *)

\* When the loop goes on, every peer but the one it was at is as much nearer, and
\* that one is heard of after a round at the latest.
LEMMA DueGoneOn ==
    ASSUME Detector!TypeOK, turn # 0, Detector!GoOn(turn), NEW p \in Detector!PeerIds
    PROVE  /\ Due(p)' \in Int /\ Due(p) \in Int
           /\ turn # p => Due(p)' <= Due(p) - wait
           /\ turn = p => /\ Due(p)' = Detector!Round
                          /\ Due(p) = IF wait = 0 THEN 0 ELSE wait + Detector!Round
<1>1. /\ turn \in 1 .. Peers /\ p \in 1 .. Peers /\ wait \in Nat
      /\ turn' = (IF turn < Peers THEN turn + 1 ELSE 0)
      /\ wait' = (IF turn < Peers THEN 0 ELSE Pause)
  BY GoneOn, DetectorTimes DEF Detector!TypeOK, Detector!PeerIds
<1>2. /\ Peers \in Nat \ {0} /\ RpcTimeout \in Nat \ {0} /\ Pause \in Nat \ {0}
      /\ Detector!Round = Pause + AskingHung(Peers - 1)
  BY DetectorTimes, AskingOneMore
<1>3. Due(p)' = IF turn' = p /\ wait' = 0 THEN 0
                ELSE IF turn' < p THEN Current' + AskingHung(p - 1 - turn')
                ELSE Current' + AskingHung(Peers - turn') + Pause + AskingHung(p - 1)
  BY DEF Due, AskingHung
<1>4. Current' = (IF turn < Peers THEN RpcTimeout ELSE Pause)
  BY <1>1, <1>2 DEF Current
<1>5. Current \in Nat /\ wait <= Current
  BY <1>1, <1>2 DEF Current
<1>6. AskingHung(p - 1) \in Nat
  BY <1>1, <1>2, AskingOneMore
<1>7. AskingHung(Peers - 1) = AskingHung(Peers - p) + AskingHung(p - 1)
  BY <1>1, AskingOneMore
<1>8. /\ Peers - turn \in Nat /\ AskingHung(Peers - turn) \in Nat
      /\ turn < Peers => /\ AskingHung(Peers - (turn + 1)) \in Nat
                         /\ AskingHung(Peers - turn) = AskingHung(Peers - (turn + 1)) + RpcTimeout
  <2>1. Peers - turn \in Nat
    BY <1>1, <1>2
  <2>2. ASSUME turn < Peers
        PROVE  Peers - turn # 0 /\ Peers - (turn + 1) \in Nat /\ Peers - turn - 1 = Peers - (turn + 1)
    BY <1>1, <1>2, <2>2
  <2> QED BY <2>1, <2>2, AskingOneMore
<1>9. CASE turn = p
  <2>1. Due(p) = IF wait = 0 THEN 0 ELSE wait + Detector!Round
    <3>1. wait # 0 => Current = wait
      BY DEF Current
    <3>2. Due(p) = IF wait = 0 THEN 0
                   ELSE Current + AskingHung(Peers - p) + Pause + AskingHung(p - 1)
      BY <1>1, <1>9 DEF Due
    <3> QED BY <1>1, <1>2, <1>6, <1>7, <1>8, <1>9, <3>1, <3>2
  <2>2. CASE turn < Peers
    <3>1. Due(p)' = RpcTimeout + AskingHung(Peers - (turn + 1)) + Pause + AskingHung(p - 1)
      BY <1>1, <1>3, <1>4, <1>9, <2>2
    <3> QED BY <1>1, <1>2, <1>6, <1>7, <1>8, <1>9, <2>1, <2>2, <3>1
  <2>3. CASE ~(turn < Peers)
    <3>1. Due(p)' = Pause + AskingHung(p - 1)
      <4>1. p - 1 - 0 = p - 1
        BY <1>1
      <4> QED BY <1>1, <1>2, <1>3, <1>4, <1>9, <2>3, <4>1
    <3>2. AskingHung(Peers - 1) = AskingHung(p - 1)
      <4>1. Peers = p
        BY <1>1, <1>2, <1>9, <2>3
      <4> QED BY <4>1
    <3> QED BY <1>1, <1>2, <1>6, <1>9, <2>1, <3>1, <3>2
  <2> QED BY <1>1, <2>2, <2>3
<1>10. CASE turn < p
  <2>1. Due(p) = Current + AskingHung(p - 1 - turn)
    BY <1>1, <1>10 DEF Due
  <2>2. p - 1 - turn \in Nat /\ AskingHung(p - 1 - turn) \in Nat
    BY <1>1, <1>10, AskingOneMore
  <2>3. CASE turn + 1 = p
    <3>1. Due(p)' = 0
      BY <1>1, <1>2, <1>3, <1>10, <2>3
    <3> QED BY <1>1, <1>5, <1>10, <2>1, <2>2, <3>1
  <2>4. CASE turn + 1 < p
    <3>1. Due(p)' = RpcTimeout + AskingHung(p - 1 - (turn + 1))
      BY <1>1, <1>2, <1>3, <1>4, <1>10, <2>4
    <3>2. AskingHung(p - 1 - turn) = AskingHung(p - 1 - (turn + 1)) + RpcTimeout
      <4>1. p - 1 - turn # 0 /\ p - 1 - turn - 1 = p - 1 - (turn + 1) /\ p - 1 - (turn + 1) \in Nat
        BY <1>1, <2>4
      <4> QED BY <2>2, <4>1, AskingOneMore
    <3>3. Due(p)' = AskingHung(p - 1 - turn)
      <4>1. p - 1 - (turn + 1) \in Nat
        BY <1>1, <2>4
      <4> QED BY <1>2, <3>1, <3>2, <4>1, AskingOneMore
    <3> QED BY <1>1, <1>5, <1>10, <2>1, <2>2, <3>3
  <2> QED BY <1>1, <1>10, <2>3, <2>4
<1>11. CASE turn > p
  <2>1. Due(p) = Current + AskingHung(Peers - turn) + Pause + AskingHung(p - 1)
    BY <1>1, <1>11 DEF Due
  <2>2. CASE turn < Peers
    <3>1. Due(p)' = RpcTimeout + AskingHung(Peers - (turn + 1)) + Pause + AskingHung(p - 1)
      BY <1>1, <1>3, <1>4, <1>11, <2>2
    <3> QED BY <1>1, <1>2, <1>5, <1>6, <1>8, <1>11, <2>1, <2>2, <3>1
  <2>3. CASE ~(turn < Peers)
    <3>1. Due(p)' = Pause + AskingHung(p - 1)
      <4>1. p - 1 - 0 = p - 1
        BY <1>1
      <4> QED BY <1>1, <1>2, <1>3, <1>4, <1>11, <2>3, <4>1
    <3>2. Due(p)' \in Int /\ Due(p) \in Int /\ Due(p)' <= Due(p) - wait
      BY <1>1, <1>2, <1>5, <1>6, <1>8, <2>1, <3>1
    <3> QED BY <1>1, <1>11, <3>2
  <2> QED BY <1>1, <2>2, <2>3
<1> QED BY <1>1, <1>9, <1>10, <1>11

\* A second brings every peer nearer, and time does not pass when one is due.
LEMMA DueTick ==
    ASSUME Detector!TypeOK, Detector!Tick, NEW p \in Detector!PeerIds
    PROVE  Due(p)' \in Int /\ Due(p) \in Nat \ {0} /\ Due(p)' < Due(p)
<1>1. /\ turn \in 0 .. Peers /\ p \in 1 .. Peers /\ wait \in Nat \ {0}
      /\ Peers \in Nat \ {0} /\ RpcTimeout \in Nat \ {0} /\ Pause \in Nat \ {0}
      /\ Detector!Round \in Nat
  BY DetectorTimes DEF Detector!TypeOK, Detector!PeerIds, Detector!Tick
<1>2. Due(p) = IF turn < p THEN wait + AskingHung(p - 1 - turn)
               ELSE wait + AskingHung(Peers - turn) + Pause + AskingHung(p - 1)
  BY <1>1 DEF Due, Current
<1>3. /\ turn < p => AskingHung(p - 1 - turn) \in Nat
      /\ AskingHung(Peers - turn) \in Nat /\ AskingHung(p - 1) \in Nat
  <2>1. turn < p => p - 1 - turn \in Nat
    BY <1>1
  <2>2. Peers - turn \in Nat /\ p - 1 \in Nat
    BY <1>1
  <2> QED BY <2>1, <2>2, AskingOneMore
<1>4. Due(p) \in Nat \ {0} /\ Due(p) >= wait
  BY <1>1, <1>2, <1>3
<1>5. CASE wait > 1
  <2>1. turn' = turn /\ wait' = wait - 1 /\ wait' # 0
    BY <1>1, <1>5 DEF Detector!Tick
  <2>2. Due(p)' = IF turn < p THEN wait' + AskingHung(p - 1 - turn)
                  ELSE wait' + AskingHung(Peers - turn) + Pause + AskingHung(p - 1)
    BY <2>1 DEF Due, Current, AskingHung
  <2> QED BY <1>1, <1>2, <1>3, <1>4, <2>1, <2>2
<1>6. CASE wait = 1 /\ turn = 0
  <2>1. turn' = 1 /\ wait' = 0
    BY <1>6 DEF Detector!Tick
  <2>2. CASE p = 1
    <3>1. Due(p)' = 0
      BY <2>1, <2>2 DEF Due
    <3> QED BY <1>4, <3>1
  <2>3. CASE p # 1
    <3>1. 1 < p
      BY <1>1, <2>3
    <3>2. Due(p)' = RpcTimeout + AskingHung(p - 1 - 1)
      BY <2>1, <3>1 DEF Due, Current, AskingHung
    <3>3. AskingHung(p - 1) = AskingHung(p - 1 - 1) + RpcTimeout /\ AskingHung(p - 1 - 1) \in Nat
      <4>1. p - 1 \in Nat /\ p - 1 # 0 /\ p - 1 - 1 \in Nat
        BY <1>1, <3>1
      <4> QED BY <4>1, AskingOneMore
    <3>4. Due(p) = 1 + AskingHung(p - 1)
      <4>1. p - 1 - 0 = p - 1
        BY <1>1
      <4> QED BY <1>1, <1>2, <1>6, <4>1
    <3> QED BY <1>1, <1>3, <1>4, <3>2, <3>3, <3>4
  <2> QED BY <2>2, <2>3
<1>7. CASE wait = 1 /\ turn # 0
  <2>1. Detector!GoOn(turn)
    BY <1>7 DEF Detector!Tick
  <2>2. /\ Due(p)' \in Int
        /\ turn # p => Due(p)' <= Due(p) - wait
        /\ turn = p => Due(p)' = Detector!Round /\ Due(p) = wait + Detector!Round
    BY <1>7, <2>1, DueGoneOn
  <2> QED BY <1>1, <1>4, <1>7, <2>2
<1> QED BY <1>1, <1>5, <1>6, <1>7

\* Nothing is overdue, nor further away than a comeback.
LEMMA DueWithin ==
    ASSUME Detector!TypeOK, turn # 0 => wait <= RpcTimeout, NEW p \in Detector!PeerIds
    PROVE  Due(p) \in 0 .. Detector!Comeback
<1>1. /\ turn \in 0 .. Peers /\ p \in 1 .. Peers /\ wait \in Nat
      /\ turn = 0 => wait \in 1 .. Pause
      /\ Peers \in Nat \ {0} /\ RpcTimeout \in Nat \ {0} /\ Pause \in Nat \ {0}
      /\ Detector!Round = Pause + AskingHung(Peers - 1)
      /\ Detector!Comeback = Detector!Round + RpcTimeout
  BY DetectorTimes, AskingOneMore DEF Detector!TypeOK, Detector!PeerIds
<1>2. AskingHung(Peers - 1) = AskingHung(Peers - p) + AskingHung(p - 1)
  BY <1>1, AskingOneMore
<1>3. /\ AskingHung(Peers - p) \in Nat /\ AskingHung(p - 1) \in Nat
  <2>1. Peers - p \in Nat /\ p - 1 \in Nat
    BY <1>1
  <2> QED BY <2>1, AskingOneMore
<1>4. \A j, k \in Nat : j <= k => AskingHung(j) \in Nat /\ AskingHung(j) <= AskingHung(k)
  <2> SUFFICES ASSUME NEW j \in Nat, NEW k \in Nat, j <= k
               PROVE  AskingHung(j) \in Nat /\ AskingHung(j) <= AskingHung(k)
    OBVIOUS
  <2>1. (k - j) * RpcTimeout \in Nat
    BY <1>1
  <2>2. k * RpcTimeout = j * RpcTimeout + (k - j) * RpcTimeout
    BY <1>1
  <2>3. j * RpcTimeout \in Nat
    BY <1>1
  <2> QED BY <2>1, <2>2, <2>3 DEF AskingHung
<1>5. Current \in 0 .. (IF turn = 0 THEN Pause ELSE RpcTimeout)
  BY <1>1 DEF Current
<1>6. CASE turn < p
  <2>1. p - 1 - turn \in Nat /\ p - 1 - turn <= p - 1 /\ p - 1 \in Nat
    BY <1>1, <1>6
  <2>2. AskingHung(p - 1 - turn) \in Nat /\ AskingHung(p - 1 - turn) <= AskingHung(p - 1)
    BY <1>4, <2>1
  <2>3. Due(p) = 0 \/ Due(p) = Current + AskingHung(p - 1 - turn)
    BY <1>6 DEF Due
  <2> QED BY <1>1, <1>2, <1>3, <1>5, <2>2, <2>3
<1>7. CASE ~(turn < p)
  <2>1. Peers - turn \in Nat /\ Peers - turn <= Peers - p /\ Peers - p \in Nat
    BY <1>1, <1>7
  <2>2. AskingHung(Peers - turn) \in Nat /\ AskingHung(Peers - turn) <= AskingHung(Peers - p)
    BY <1>4, <2>1
  <2>3. \/ Due(p) = 0
        \/ Due(p) = Current + AskingHung(Peers - turn) + Pause + AskingHung(p - 1)
    BY <1>7 DEF Due
  <2>4. turn # 0
    BY <1>1, <1>7
  <2> QED BY <1>1, <1>2, <1>3, <1>5, <2>2, <2>3, <2>4
<1> QED BY <1>6, <1>7

-----------------------------------------------------------------------------
(* The invariant *)

\* The same if no peer hangs
DueCalm(p) == IF turn < p \/ (turn = p /\ wait = 0) THEN wait ELSE wait + Pause

\* A request is given up in time.
RequestsEnd == turn # 0 => wait <= RpcTimeout

\* What the loop waits for is due within a round of the last heartbeat, or the
\* peer came back so lately that it has not come by yet.
Punctual(p) ==
    peer[p] = "runs" => \/ age[p] + Due(p) <= Detector!Round
                        \/ since[p] + Due(p) <= Detector!Comeback

\* The same with the sleep for a round, unless a peer has hung lately.
PunctualCalm(p) ==
    peer[p] = "runs" => \/ age[p] + DueCalm(p) <= Pause
                        \/ since[p] + DueCalm(p) <= Detector!Comeback
                        \/ calm + DueCalm(p) <= Detector!Comeback

\* A peer that does not run was not heard of since it stopped.
Silent(p) == peer[p] # "runs" => age[p] >= since[p] \/ age[p] = DeadTimeout + 1

\* From the check on, the status fits the age until a second has gone by.
UpToDate(p) == checked => status[p] = Detector!StatusAt(age[p])

Unblamed(p) ==
    peer[p] = "runs" /\ since[p] > Detector!Comeback =>
        /\ status[p] # "dead"
        /\ calm > Detector!Comeback => status[p] = "alive"

PeerInv(p) ==
    /\ peer[p] = "hangs" => calm = 0
    /\ Punctual(p) /\ PunctualCalm(p) /\ Silent(p) /\ UpToDate(p) /\ Unblamed(p)

DetectorInv ==
    /\ Detector!TypeOK /\ RequestsEnd
    /\ \A p \in Detector!PeerIds : PeerInv(p)

\* The peers' variables as numbers
LEMMA PeerTyped ==
    ASSUME Detector!TypeOK, NEW p \in Detector!PeerIds
    PROVE  /\ age[p] \in 0 .. DeadTimeout + 1 /\ since[p] \in 0 .. Detector!Horizon
           /\ peer[p] \in {"runs", "down", "hangs"}
           /\ turn \in 0 .. Peers /\ wait \in Nat /\ calm \in 0 .. Detector!Horizon
           /\ p \in 1 .. Peers
BY DetectorTimes DEF Detector!TypeOK, Detector!PeerIds

\* The time without a hanging peer falls in the same way.
LEMMA DueCalmSteps ==
    ASSUME Detector!TypeOK, NEW p \in Detector!PeerIds
    PROVE  /\ DueCalm(p) \in Nat
           /\ RequestsEnd => DueCalm(p) <= Detector!Comeback
           /\ turn # 0 /\ Detector!GoOn(turn) =>
                 /\ DueCalm(p)' \in Nat
                 /\ turn # p => DueCalm(p)' <= DueCalm(p)
                 /\ turn = p => DueCalm(p)' = Pause
           /\ Detector!Tick => DueCalm(p)' \in Nat /\ DueCalm(p)' < DueCalm(p)
<1>1. /\ turn \in 0 .. Peers /\ wait \in Nat /\ p \in 1 .. Peers
      /\ turn = 0 => wait \in 1 .. Pause
      /\ Peers \in Nat \ {0} /\ Pause \in Nat \ {0} /\ RpcTimeout \in Nat
      /\ Pause <= Detector!Round /\ Detector!Round \in Nat
      /\ Detector!Comeback = Detector!Round + RpcTimeout
  BY PeerTyped, DetectorTimes DEF Detector!TypeOK
<1>2. DueCalm(p) \in Nat
  BY <1>1 DEF DueCalm
<1>3. RequestsEnd => DueCalm(p) <= Detector!Comeback
  BY <1>1 DEF DueCalm, RequestsEnd
<1>4. ASSUME turn # 0, Detector!GoOn(turn)
      PROVE  /\ DueCalm(p)' \in Nat
             /\ turn # p => DueCalm(p)' <= DueCalm(p)
             /\ turn = p => DueCalm(p)' = Pause
             /\ wait # 0 => DueCalm(p)' < DueCalm(p)
  <2>1. /\ turn' = (IF turn < Peers THEN turn + 1 ELSE 0)
        /\ wait' = (IF turn < Peers THEN 0 ELSE Pause)
    BY <1>4, GoneOn
  <2>2. DueCalm(p)' = IF turn' < p \/ (turn' = p /\ wait' = 0) THEN wait' ELSE wait' + Pause
    BY DEF DueCalm
  <2>3. CASE turn < Peers
    <3>1. turn' = turn + 1 /\ wait' = 0
      BY <2>1, <2>3
    <3> QED BY <1>1, <1>4, <2>2, <2>3, <3>1 DEF DueCalm
  <2>4. CASE ~(turn < Peers)
    <3>1. turn' = 0 /\ wait' = Pause /\ turn >= p
      BY <1>1, <2>1, <2>4
    <3> QED BY <1>1, <1>4, <2>2, <2>4, <3>1 DEF DueCalm
  <2> QED BY <2>3, <2>4
<1>5. ASSUME Detector!Tick
      PROVE  DueCalm(p)' \in Nat /\ DueCalm(p)' < DueCalm(p)
  <2>1. wait # 0
    BY <1>1, <1>5 DEF Detector!Tick
  <2>2. CASE wait > 1
    BY <1>1, <1>5, <2>2 DEF Detector!Tick, DueCalm
  <2>3. CASE ~(wait > 1) /\ turn = 0
    BY <1>1, <1>5, <2>1, <2>3 DEF Detector!Tick, DueCalm
  <2>4. CASE ~(wait > 1) /\ turn # 0
    <3>1. Detector!GoOn(turn)
      BY <1>5, <2>4 DEF Detector!Tick
    <3> QED BY <1>4, <2>1, <2>4, <3>1
  <2> QED BY <2>2, <2>3, <2>4
<1> QED BY <1>2, <1>3, <1>4, <1>5

-----------------------------------------------------------------------------
(* Steps *)

\* What a heartbeat and a second do to the records of a peer
LEMMA RecordsChange ==
    ASSUME Detector!TypeOK, NEW p \in Detector!PeerIds
    PROVE  /\ \A q : Detector!Recorded(q) =>
                  /\ age[p]' = IF p = q THEN 0 ELSE age[p]
                  /\ status[p]' = IF p = q THEN "alive" ELSE status[p]
           /\ Detector!Tick =>
                  /\ age[p]' = IF age[p] < DeadTimeout + 1 THEN age[p] + 1 ELSE age[p]
                  /\ since[p]' = IF since[p] < Detector!Horizon THEN since[p] + 1 ELSE since[p]
                  /\ calm' \in {0, IF calm < Detector!Horizon THEN calm + 1 ELSE calm}
                  /\ peer[p] = "hangs" => calm' = 0
                  /\ status[p]' = status[p] /\ peer[p]' = peer[p] /\ checked /\ ~checked'
           /\ Detector!Monitor => status[p]' = Detector!StatusAt(age[p])
<1>1. DOMAIN age = Detector!PeerIds /\ DOMAIN status = Detector!PeerIds
  BY DEF Detector!TypeOK
<1>2. ASSUME NEW q, Detector!Recorded(q)
      PROVE  /\ age[p]' = IF p = q THEN 0 ELSE age[p]
             /\ status[p]' = IF p = q THEN "alive" ELSE status[p]
  BY <1>1, <1>2 DEF Detector!Recorded
<1>3. ASSUME Detector!Tick
      PROVE  /\ age[p]' = IF age[p] < DeadTimeout + 1 THEN age[p] + 1 ELSE age[p]
             /\ since[p]' = IF since[p] < Detector!Horizon THEN since[p] + 1 ELSE since[p]
             /\ calm' \in {0, IF calm < Detector!Horizon THEN calm + 1 ELSE calm}
             /\ peer[p] = "hangs" => calm' = 0
             /\ status[p]' = status[p] /\ peer[p]' = peer[p] /\ checked /\ ~checked'
  BY <1>3 DEF Detector!Tick, Detector!CountedTo
<1>4. Detector!Monitor => status[p]' = Detector!StatusAt(age[p])
  BY DEF Detector!Monitor
<1> QED BY <1>2, <1>3, <1>4

\* A peer that was just heard of is alive.
LEMMA StatusOf ==
    /\ Detector!StatusAt(0) = "alive"
    /\ \A t \in Nat : /\ t <= SuspectTimeout => Detector!StatusAt(t) = "alive"
                      /\ t <= DeadTimeout => Detector!StatusAt(t) # "dead"
                      /\ t > DeadTimeout => Detector!StatusAt(t) = "dead"
BY DetectorTimes DEF Detector!StatusAt

\* A peer whose records, and whose way to go, do not change for the worse
LEMMA PeerKept ==
    ASSUME DetectorInv, Detector!TypeOK', NEW p \in Detector!PeerIds,
           peer[p]' = peer[p], since[p]' = since[p], calm' = calm,
           checked' = checked,
           \/ age[p]' = age[p] /\ status[p]' = status[p]
           \/ age[p]' = 0 /\ status[p]' = "alive" /\ peer[p] = "runs",
           peer[p] = "runs" =>
               \/ /\ Due(p)' \in Int /\ Due(p) \in Int /\ Due(p)' <= Due(p)
                  /\ DueCalm(p)' \in Nat /\ DueCalm(p)' <= DueCalm(p)
               \/ age[p]' = 0 /\ Due(p)' = Detector!Round /\ DueCalm(p)' = Pause
    PROVE  PeerInv(p)'
<1>1. /\ age[p] \in Nat /\ since[p] \in Nat /\ calm \in Nat
      /\ age[p]' \in Nat
      /\ Detector!Round \in Nat /\ Pause \in Nat /\ Detector!Comeback \in Nat
      /\ DeadTimeout \in Nat /\ Detector!Horizon \in Nat /\ DueCalm(p) \in Nat
  <2>1. /\ age[p] \in 0 .. DeadTimeout + 1 /\ since[p] \in 0 .. Detector!Horizon
        /\ calm \in 0 .. Detector!Horizon /\ DueCalm(p) \in Nat
    BY PeerTyped, DueCalmSteps DEF DetectorInv
  <2> QED BY <2>1, DetectorTimes
<1>2. PeerInv(p)
  BY DEF DetectorInv
<1>3. (peer[p] = "hangs" => calm = 0)'
  BY <1>2 DEF PeerInv
<1>4. Punctual(p)'
  <2>1. Punctual(p)
    BY <1>2 DEF PeerInv
  <2> SUFFICES ASSUME peer[p] = "runs"
               PROVE  \/ age[p]' + Due(p)' <= Detector!Round
                      \/ since[p]' + Due(p)' <= Detector!Comeback
    BY DEF Punctual, Detector!Round, Detector!Comeback
  <2> QED BY <1>1, <2>1 DEF Punctual
<1>5. PunctualCalm(p)'
  <2>1. PunctualCalm(p)
    BY <1>2 DEF PeerInv
  <2> SUFFICES ASSUME peer[p] = "runs"
               PROVE  \/ age[p]' + DueCalm(p)' <= Pause
                      \/ since[p]' + DueCalm(p)' <= Detector!Comeback
                      \/ calm' + DueCalm(p)' <= Detector!Comeback
    BY DEF PunctualCalm, Detector!Round, Detector!Comeback
  <2> QED BY <1>1, <2>1 DEF PunctualCalm
<1>6. Silent(p)'
  BY <1>2 DEF PeerInv, Silent
<1>7. UpToDate(p)'
  <2>1. Detector!StatusAt(age[p])' = Detector!StatusAt(age[p]')
    BY DEF Detector!StatusAt
  <2> QED BY <1>2, <2>1, StatusOf DEF PeerInv, UpToDate
<1>8. Unblamed(p)'
  <2>1. Unblamed(p)
    BY <1>2 DEF PeerInv
  <2> QED BY <2>1 DEF Unblamed, Detector!Comeback, Detector!Round
<1> QED BY <1>3, <1>4, <1>5, <1>6, <1>7, <1>8 DEF PeerInv

\* Going on, after an answer or without one
LEMMA PeerAfterGoOn ==
    ASSUME DetectorInv, Detector!TypeOK', Detector!Answered \/ Detector!NotAnswered,
           NEW p \in Detector!PeerIds
    PROVE  PeerInv(p)'
<1>1. Detector!TypeOK /\ turn # 0 /\ Detector!GoOn(turn)
  BY DEF DetectorInv, Detector!Answered, Detector!NotAnswered
<1>2. /\ Due(p)' \in Int /\ Due(p) \in Int
      /\ turn # p => Due(p)' <= Due(p) - wait
      /\ turn = p => Due(p)' = Detector!Round
  BY <1>1, DueGoneOn
<1>3. /\ DueCalm(p)' \in Nat
      /\ turn # p => DueCalm(p)' <= DueCalm(p)
      /\ turn = p => DueCalm(p)' = Pause
  BY <1>1, DueCalmSteps
<1>4. wait \in Nat
  BY <1>1, PeerTyped
<1>5. turn # p => Due(p)' <= Due(p)
  BY <1>2, <1>4
<1>6. CASE Detector!Answered
  <2>1. /\ age[p]' = IF p = turn THEN 0 ELSE age[p]
        /\ status[p]' = IF p = turn THEN "alive" ELSE status[p]
        /\ peer[turn] = "runs" /\ UNCHANGED <<peer, checked, since, calm>>
    BY <1>1, <1>6, RecordsChange DEF Detector!Answered
  <2>2. CASE p = turn
    BY <1>2, <1>3, <2>1, <2>2, PeerKept
  <2>3. CASE p # turn
    BY <1>2, <1>3, <1>5, <2>1, <2>3, PeerKept
  <2> QED BY <2>2, <2>3
<1>7. CASE Detector!NotAnswered
  <2>1. peer[turn] = "down" /\ UNCHANGED <<age, status, peer, checked, since, calm>>
    BY <1>7 DEF Detector!NotAnswered
  <2>2. peer[p] = "runs" => p # turn
    BY <2>1
  <2> QED BY <1>2, <1>3, <1>5, <2>1, <2>2, PeerKept
<1> QED BY <1>6, <1>7

\* Asking a peer that hangs, or hearing of one
LEMMA PeerAfterAsk ==
    ASSUME DetectorInv, Detector!TypeOK', NEW p \in Detector!PeerIds,
           Detector!Ask \/ \E q \in Detector!PeerIds : Detector!Incoming(q)
    PROVE  PeerInv(p)'
<1>1. Detector!TypeOK /\ RequestsEnd
  BY DEF DetectorInv
<1>2. Due(p) \in Int /\ DueCalm(p) \in Nat /\ DueCalm(p) <= Detector!Comeback
  BY <1>1, DueWithin, DueCalmSteps, DetectorTimes DEF RequestsEnd
<1>3. ASSUME NEW q \in Detector!PeerIds, Detector!Incoming(q)
      PROVE  PeerInv(p)'
  <2>1. /\ age[p]' = IF p = q THEN 0 ELSE age[p]
        /\ status[p]' = IF p = q THEN "alive" ELSE status[p]
        /\ peer[q] = "runs" /\ UNCHANGED <<peer, turn, wait, checked, since, calm>>
    BY <1>1, <1>3, RecordsChange DEF Detector!Incoming
  <2>2. Due(p)' = Due(p) /\ DueCalm(p)' = DueCalm(p)
    BY <2>1 DEF Due, DueCalm, Current, AskingHung
  <2> QED BY <1>2, <2>1, <2>2, PeerKept
<1>4. CASE Detector!Ask
  <2>1. /\ turn # 0 /\ wait = 0 /\ peer[turn] = "hangs" /\ wait' = RpcTimeout
        /\ UNCHANGED <<age, status, peer, turn, checked, since, calm>>
    BY <1>4 DEF Detector!Ask
  <2>2. RpcTimeout \in Nat \ {0} /\ turn \in Detector!PeerIds
    BY <1>1, <2>1, DetectorTimes DEF Detector!TypeOK, Detector!PeerIds
  <2>3. PeerInv(turn) /\ PeerInv(p)
    BY <2>2 DEF DetectorInv
  <2>4. calm = 0
    BY <2>1, <2>3 DEF PeerInv
  <2>5. RequestsEnd'
    BY <2>1, <2>2 DEF RequestsEnd
  <2>6. DueCalm(p)' \in Nat /\ DueCalm(p)' <= Detector!Comeback
    <3>1. DueCalm(p)' \in Nat
      BY <2>1, <2>2, DetectorTimes DEF DueCalm
    <3>2. /\ DueCalm(p)' = (IF turn < p THEN RpcTimeout ELSE RpcTimeout + Pause)
          /\ Detector!Comeback = Detector!Round + RpcTimeout /\ Pause <= Detector!Round
          /\ Pause \in Nat /\ Detector!Round \in Nat
      BY <2>1, <2>2, DetectorTimes DEF DueCalm
    <3> QED BY <2>2, <3>1, <3>2
  <2>7. PunctualCalm(p)'
    BY <2>1, <2>4, <2>6 DEF PunctualCalm, Detector!Comeback, Detector!Round
  <2>8. Punctual(p)'
    <3>1. peer[p] = "runs" => turn # p
      BY <2>1
    <3>2. turn # p => Due(p)' = Due(p)
      <4>1. Current' = Current
        BY <2>1, <2>2 DEF Current
      <4> QED BY <2>1, <4>1 DEF Due, AskingHung
    <3>3. Punctual(p)
      BY <2>3 DEF PeerInv
    <3> QED BY <2>1, <3>1, <3>2, <3>3 DEF Punctual, Detector!Comeback, Detector!Round
  <2>9. Silent(p)' /\ UpToDate(p)' /\ Unblamed(p)' /\ (peer[p] = "hangs" => calm = 0)'
    BY <2>1, <2>3 DEF PeerInv, Silent, UpToDate, Unblamed, Detector!StatusAt,
                      Detector!Comeback, Detector!Round
  <2> QED BY <2>7, <2>8, <2>9 DEF PeerInv
<1> QED BY <1>3, <1>4

LEMMA PeerAfterMonitor ==
    ASSUME DetectorInv, Detector!Monitor, NEW p \in Detector!PeerIds
    PROVE  PeerInv(p)'
<1>1. Detector!TypeOK /\ RequestsEnd /\ PeerInv(p)
  BY DEF DetectorInv
<1>2. /\ status[p]' = Detector!StatusAt(age[p])
      /\ checked' = TRUE /\ UNCHANGED <<age, peer, turn, wait, since, calm>>
  BY <1>1, RecordsChange DEF Detector!Monitor
<1>3. Due(p)' = Due(p) /\ DueCalm(p)' = DueCalm(p)
  BY <1>2 DEF Due, DueCalm, Current, AskingHung
<1>4. Due(p) \in Nat /\ DueCalm(p) \in Nat
  BY <1>1, DueWithin, DueCalmSteps, DetectorTimes DEF RequestsEnd
<1>5. Punctual(p)' /\ PunctualCalm(p)'
  BY <1>1, <1>2, <1>3 DEF PeerInv, Punctual, PunctualCalm, Detector!Comeback, Detector!Round
<1>6. Silent(p)' /\ UpToDate(p)' /\ (peer[p] = "hangs" => calm = 0)'
  BY <1>1, <1>2 DEF PeerInv, Silent, UpToDate, Detector!StatusAt
<1>7. Unblamed(p)'
  <2> SUFFICES ASSUME peer[p] = "runs", since[p] > Detector!Comeback
               PROVE  /\ Detector!StatusAt(age[p]) # "dead"
                      /\ calm > Detector!Comeback => Detector!StatusAt(age[p]) = "alive"
    BY <1>2 DEF Unblamed, Detector!Comeback, Detector!Round
  <2>1. /\ age[p] \in Nat /\ since[p] \in Nat /\ calm \in Nat
        /\ Pause \in Nat /\ Detector!Comeback \in Nat /\ Detector!Round \in Nat
        /\ SuspectTimeout \in Nat /\ DeadTimeout \in Nat
        /\ Pause <= SuspectTimeout /\ Detector!Round <= DeadTimeout
    <3>1. /\ age[p] \in 0 .. DeadTimeout + 1 /\ since[p] \in 0 .. Detector!Horizon
          /\ calm \in 0 .. Detector!Horizon
      BY <1>1, PeerTyped
    <3> QED BY <3>1, DetectorTimes
  <2>2. age[p] <= Detector!Round
    BY <1>1, <1>4, <2>1 DEF PeerInv, Punctual
  <2>3. calm > Detector!Comeback => age[p] <= Pause
    BY <1>1, <1>4, <2>1 DEF PeerInv, PunctualCalm
  <2>4. age[p] <= DeadTimeout /\ (calm > Detector!Comeback => age[p] <= SuspectTimeout)
    BY <2>1, <2>2, <2>3
  <2> QED BY <2>1, <2>4, StatusOf
<1> QED BY <1>5, <1>6, <1>7 DEF PeerInv

LEMMA PeerAfterTick ==
    ASSUME DetectorInv, Detector!Tick, NEW p \in Detector!PeerIds
    PROVE  PeerInv(p)'
<1>1. Detector!TypeOK /\ RequestsEnd /\ PeerInv(p)
  BY DEF DetectorInv
<1>2. /\ age[p]' = IF age[p] < DeadTimeout + 1 THEN age[p] + 1 ELSE age[p]
      /\ since[p]' = IF since[p] < Detector!Horizon THEN since[p] + 1 ELSE since[p]
      /\ calm' \in {0, IF calm < Detector!Horizon THEN calm + 1 ELSE calm}
      /\ peer[p] = "hangs" => calm' = 0
      /\ status[p]' = status[p] /\ peer[p]' = peer[p] /\ checked /\ ~checked'
  BY <1>1, RecordsChange
<1>3. Due(p)' \in Int /\ Due(p) \in Nat \ {0} /\ Due(p)' < Due(p)
  BY <1>1, DueTick
<1>4. /\ DueCalm(p)' \in Nat /\ DueCalm(p) \in Nat /\ DueCalm(p)' < DueCalm(p)
      /\ DueCalm(p) <= Detector!Comeback
  BY <1>1, DueCalmSteps
<1>5. /\ age[p] \in 0 .. DeadTimeout + 1 /\ since[p] \in 0 .. Detector!Horizon
      /\ calm \in 0 .. Detector!Horizon
      /\ Pause \in Nat /\ Detector!Comeback \in Nat /\ Detector!Round \in Nat
      /\ SuspectTimeout \in Nat /\ DeadTimeout \in Nat
      /\ Pause <= SuspectTimeout /\ Detector!Round <= DeadTimeout
      /\ Detector!Horizon = DeadTimeout + Detector!Comeback + 1
  BY <1>1, PeerTyped, DetectorTimes
<1>6. /\ age[p]' \in Nat /\ age[p]' <= age[p] + 1
      /\ since[p]' \in Nat /\ since[p]' <= since[p] + 1
      /\ calm' \in Nat /\ (calm' = 0 \/ calm' <= calm + 1)
  BY <1>2, <1>5
<1>7. Punctual(p)'
  <2> SUFFICES ASSUME peer[p] = "runs"
               PROVE  \/ age[p]' + Due(p)' <= Detector!Round
                      \/ since[p]' + Due(p)' <= Detector!Comeback
    BY <1>2 DEF Punctual, Detector!Round, Detector!Comeback
  <2> QED BY <1>1, <1>3, <1>5, <1>6 DEF PeerInv, Punctual
<1>8. PunctualCalm(p)'
  <2> SUFFICES ASSUME peer[p] = "runs"
               PROVE  \/ age[p]' + DueCalm(p)' <= Pause
                      \/ since[p]' + DueCalm(p)' <= Detector!Comeback
                      \/ calm' + DueCalm(p)' <= Detector!Comeback
    BY <1>2 DEF PunctualCalm, Detector!Round, Detector!Comeback
  <2>1. calm' = 0 => calm' + DueCalm(p)' <= Detector!Comeback
    BY <1>4, <1>5
  <2> QED BY <1>1, <1>4, <1>5, <1>6, <2>1 DEF PeerInv, PunctualCalm
<1>9. Silent(p)'
  BY <1>1, <1>2, <1>5 DEF PeerInv, Silent
<1>10. UpToDate(p)' /\ (peer[p] = "hangs" => calm = 0)'
  BY <1>2 DEF UpToDate
<1>11. Unblamed(p)'
  <2> SUFFICES ASSUME peer[p] = "runs", since[p]' > Detector!Comeback
               PROVE  /\ status[p] # "dead"
                      /\ calm' > Detector!Comeback => status[p] = "alive"
    BY <1>2 DEF Unblamed, Detector!Comeback, Detector!Round
  <2>1. status[p] = Detector!StatusAt(age[p])
    BY <1>1, <1>2 DEF PeerInv, UpToDate
  <2>2. age[p] \in Nat /\ since[p] \in Nat /\ calm \in Nat /\ since[p] >= Detector!Comeback
    BY <1>2, <1>5
  <2>3. age[p] < Detector!Round
    BY <1>1, <1>3, <1>5, <2>2 DEF PeerInv, Punctual
  <2>4. ASSUME calm' > Detector!Comeback
        PROVE  age[p] < Pause
    <3>1. calm >= Detector!Comeback
      BY <1>5, <1>6, <2>2, <2>4
    <3>2. DueCalm(p) > 0
      BY <1>4
    <3> QED BY <1>1, <1>4, <1>5, <2>2, <3>1, <3>2 DEF PeerInv, PunctualCalm
  <2>5. age[p] <= DeadTimeout /\ (calm' > Detector!Comeback => age[p] <= SuspectTimeout)
    BY <1>5, <2>2, <2>3, <2>4
  <2> QED BY <2>1, <2>2, <2>5, StatusOf
<1> QED BY <1>7, <1>8, <1>9, <1>10, <1>11 DEF PeerInv

LEMMA PeerAfterChange ==
    ASSUME DetectorInv, NEW q \in Detector!PeerIds, NEW does \in {"runs", "down", "hangs"},
           Detector!Change(q, does), NEW p \in Detector!PeerIds
    PROVE  PeerInv(p)'
<1>1. Detector!TypeOK /\ RequestsEnd /\ PeerInv(p)
  BY DEF DetectorInv
<1>2. /\ peer[q] # does /\ UNCHANGED <<age, status, turn, wait, checked>>
      /\ peer[p]' = IF p = q THEN does ELSE peer[p]
      /\ since[p]' = IF p = q /\ "runs" \in {does, peer[p]} THEN 0 ELSE since[p]
      /\ calm' = IF does = "hangs" THEN 0 ELSE calm
  BY <1>1 DEF Detector!Change, Detector!TypeOK
<1>3. Due(p)' = Due(p) /\ DueCalm(p)' = DueCalm(p)
  BY <1>2 DEF Due, DueCalm, Current, AskingHung
<1>4. /\ Due(p) \in Nat /\ DueCalm(p) \in Nat
      /\ Due(p) <= Detector!Comeback /\ DueCalm(p) <= Detector!Comeback
  BY <1>1, DueWithin, DueCalmSteps, DetectorTimes DEF RequestsEnd
<1>5. /\ age[p] \in Nat /\ since[p] \in Nat /\ calm \in Nat
      /\ Pause \in Nat /\ Detector!Comeback \in Nat /\ Detector!Round \in Nat
  <2>1. /\ age[p] \in 0 .. DeadTimeout + 1 /\ since[p] \in 0 .. Detector!Horizon
        /\ calm \in 0 .. Detector!Horizon
    BY <1>1, PeerTyped
  <2> QED BY <2>1, DetectorTimes
<1>6. (peer[p] = "hangs" => calm = 0)'
  BY <1>1, <1>2 DEF PeerInv
<1>7. Punctual(p)'
  <2>1. CASE p = q
    <3>1. peer[p]' = "runs" => since[p]' = 0
      BY <1>2, <2>1
    <3> QED BY <1>3, <1>4, <1>5, <3>1 DEF Punctual, Detector!Comeback, Detector!Round
  <2>2. CASE p # q
    BY <1>1, <1>2, <1>3, <2>2 DEF PeerInv, Punctual, Detector!Comeback, Detector!Round
  <2> QED BY <2>1, <2>2
<1>8. PunctualCalm(p)'
  <2> SUFFICES ASSUME peer[p]' = "runs"
               PROVE  \/ age[p] + DueCalm(p) <= Pause
                      \/ since[p]' + DueCalm(p) <= Detector!Comeback
                      \/ calm' + DueCalm(p) <= Detector!Comeback
    BY <1>2, <1>3 DEF PunctualCalm, Detector!Round, Detector!Comeback
  <2>1. CASE p = q
    BY <1>2, <1>4, <1>5, <2>1
  <2>2. CASE p # q
    BY <1>1, <1>2, <1>4, <1>5, <2>2 DEF PeerInv, PunctualCalm
  <2> QED BY <2>1, <2>2
<1>9. Silent(p)'
  BY <1>1, <1>2, <1>5, PeerTyped DEF PeerInv, Silent
<1>10. UpToDate(p)'
  BY <1>1, <1>2 DEF PeerInv, UpToDate, Detector!StatusAt
<1>11. Unblamed(p)'
  <2>1. CASE p = q
    BY <1>2, <1>5, <2>1 DEF Unblamed, Detector!Comeback, Detector!Round
  <2>2. CASE p # q
    BY <1>1, <1>2, <1>5, <2>2 DEF PeerInv, Unblamed, Detector!Comeback, Detector!Round
  <2> QED BY <2>1, <2>2
<1> QED BY <1>6, <1>7, <1>8, <1>9, <1>10, <1>11 DEF PeerInv

LEMMA RequestsEndStep ==
    ASSUME DetectorInv, [Detector!Next]_detectorVars
    PROVE  RequestsEnd'
<1>1. Detector!TypeOK /\ RequestsEnd /\ RpcTimeout \in Nat /\ wait \in Nat
  BY DetectorTimes, DetectorTyped DEF DetectorInv, Detector!TypeOK
<1>2. turn # 0 /\ Detector!GoOn(turn) => RequestsEnd'
  BY <1>1, GoneOn DEF RequestsEnd
<1>3. CASE Detector!Tick
  <2>1. CASE wait > 1
    BY <1>1, <1>3, <2>1 DEF Detector!Tick, RequestsEnd
  <2>2. CASE ~(wait > 1) /\ turn = 0
    BY <1>1, <1>3, <2>2 DEF Detector!Tick, RequestsEnd
  <2>3. CASE ~(wait > 1) /\ turn # 0
    BY <1>2, <1>3, <2>3 DEF Detector!Tick
  <2> QED BY <2>1, <2>2, <2>3
<1>4. CASE Detector!Answered \/ Detector!NotAnswered
  BY <1>2, <1>4 DEF Detector!Answered, Detector!NotAnswered
<1>5. CASE Detector!Ask
  BY <1>1, <1>5 DEF Detector!Ask, RequestsEnd
<1>6. ASSUME UNCHANGED <<turn, wait>> PROVE RequestsEnd'
  BY <1>1, <1>6 DEF RequestsEnd
<1> QED BY <1>3, <1>4, <1>5, <1>6
        DEF Detector!Next, Detector!Monitor, Detector!Incoming, Detector!Change, detectorVars

LEMMA DetectorInvStep ==
    ASSUME DetectorInv, [Detector!Next]_detectorVars
    PROVE  DetectorInv'
<1>1. Detector!TypeOK' /\ RequestsEnd'
  BY DetectorTyped, RequestsEndStep DEF DetectorInv
<1>2. ASSUME NEW p \in Detector!PeerIds PROVE PeerInv(p)'
  <2>1. CASE Detector!Next
    BY <1>1, <2>1, PeerAfterGoOn, PeerAfterAsk, PeerAfterMonitor, PeerAfterTick, PeerAfterChange
       DEF Detector!Next
  <2>2. CASE UNCHANGED detectorVars
    BY <2>2 DEF detectorVars, DetectorInv, PeerInv, Punctual, PunctualCalm, Silent, UpToDate,
                Unblamed, Due, DueCalm, Current, AskingHung, Detector!StatusAt,
                Detector!Comeback, Detector!Round
  <2> QED BY <2>1, <2>2
<1>3. Detector!PeerIds' = Detector!PeerIds
  BY DEF Detector!PeerIds
<1> QED BY <1>1, <1>2, <1>3 DEF DetectorInv

LEMMA DetectorInvInit == Detector!Init => DetectorInv
<1> SUFFICES ASSUME Detector!Init PROVE DetectorInv
  OBVIOUS
<1>1. Detector!TypeOK
  <2>1. /\ 0 \in 0 .. DeadTimeout + 1 /\ 0 \in 0 .. Detector!Horizon
        /\ Detector!Horizon \in 0 .. Detector!Horizon /\ 1 \in 0 .. Peers
        /\ 0 \in 0 .. (IF Pause > RpcTimeout THEN Pause ELSE RpcTimeout)
    BY DetectorTimes
  <2>2. /\ age = [p \in Detector!PeerIds |-> 0] /\ since = age /\ turn = 1 /\ wait = 0
        /\ status = [p \in Detector!PeerIds |-> "alive"]
        /\ peer = [p \in Detector!PeerIds |-> "runs"]
        /\ checked = FALSE /\ calm = Detector!Horizon
    BY DEF Detector!Init
  <2>3. /\ age \in [Detector!PeerIds -> 0 .. DeadTimeout + 1]
        /\ since \in [Detector!PeerIds -> 0 .. Detector!Horizon]
        /\ status \in [Detector!PeerIds -> {"alive", "suspected", "dead"}]
        /\ peer \in [Detector!PeerIds -> {"runs", "down", "hangs"}]
    BY <2>1, <2>2
  <2>4. /\ turn \in 0 .. Peers /\ (turn = 0 => wait \in 1 .. Pause)
        /\ wait \in 0 .. (IF Pause > RpcTimeout THEN Pause ELSE RpcTimeout)
        /\ checked \in BOOLEAN /\ calm \in 0 .. Detector!Horizon
    <3>1. turn = 1 /\ wait = 0 /\ checked = FALSE /\ calm = Detector!Horizon
      BY <2>2
    <3>2. turn \in 0 .. Peers
      BY <2>1, <3>1
    <3>3. turn # 0
      BY <3>1
    <3>4. wait \in 0 .. (IF Pause > RpcTimeout THEN Pause ELSE RpcTimeout)
      BY <2>1, <3>1
    <3>5. calm \in 0 .. Detector!Horizon
      BY <2>1, <3>1
    <3> QED BY <3>1, <3>2, <3>3, <3>4, <3>5
  <2> QED BY <2>3, <2>4 DEF Detector!TypeOK
<1>2. RequestsEnd
  BY DetectorTimes DEF Detector!Init, RequestsEnd
<1>3. ASSUME NEW p \in Detector!PeerIds PROVE PeerInv(p)
  <2>1. /\ age[p] = 0 /\ status[p] = "alive" /\ peer[p] = "runs" /\ since[p] = 0
        /\ ~checked
    BY DEF Detector!Init
  <2>2. Due(p) \in 0 .. Detector!Comeback /\ DueCalm(p) <= Detector!Comeback /\ DueCalm(p) \in Nat
    BY <1>1, <1>2, DueWithin, DueCalmSteps DEF RequestsEnd
  <2>3. Detector!Comeback \in Nat
    BY DetectorTimes
  <2> QED BY <2>1, <2>2, <2>3 DEF PeerInv, Punctual, PunctualCalm, Silent, UpToDate, Unblamed
<1> QED BY <1>1, <1>2, <1>3 DEF DetectorInv

-----------------------------------------------------------------------------
(* Theorems *)

LEMMA DetectorInvariant == Spec => []DetectorInv
<1>1. Init => DetectorInv
  BY PartsBegin, DetectorInvInit
<1>2. DetectorInv /\ [Next]_vars => DetectorInv'
  BY PartsMove, DetectorInvStep
<1> QED BY <1>1, <1>2, PTL DEF Spec

\* RunningNotBlamed (src/src/communication/failure_detector.py): for every number
\* of peers and all timeouts in which a round of the heartbeat loop fits into
\* dead_timeout, a peer that runs is never found dead, whatever the others do,
\* and is suspected only if one of them hung.
THEOREM RunningPeersAlive == Spec => []RunningNotBlamed
<1>1. DetectorInv => RunningNotBlamed
  BY DEF DetectorInv, PeerInv, Unblamed, RunningNotBlamed, Detector!RunningNotBlamed
<1> QED BY <1>1, DetectorInvariant, PTL

\* SilentFoundDead: a peer that does not run is found dead with the check of the
\* second after dead_timeout.
THEOREM SilentPeersDead == Spec => []SilentFoundDead
<1>1. ASSUME DetectorInv PROVE SilentFoundDead
  <2> SUFFICES ASSUME NEW p \in Detector!PeerIds, peer[p] # "runs", since[p] > DeadTimeout, checked
               PROVE  status[p] = "dead"
    BY DEF SilentFoundDead, Detector!SilentFoundDead
  <2>1. Silent(p) /\ UpToDate(p)
    BY <1>1 DEF DetectorInv, PeerInv
  <2>2. age[p] \in Nat /\ since[p] \in Nat /\ DeadTimeout \in Nat
    BY <1>1, PeerTyped, DetectorTimes DEF DetectorInv
  <2>3. age[p] > DeadTimeout
    BY <2>1, <2>2 DEF Silent
  <2> QED BY <2>1, <2>2, <2>3, StatusOf DEF UpToDate
<1> QED BY <1>1, DetectorInvariant, PTL

=============================================================================
