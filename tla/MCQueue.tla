------------------------------- MODULE MCQueue -------------------------------
(* A small instance of Queue for TLC. *)
EXTENDS Queue, TLC

CONSTANTS n1, n2, m1, m2

Both(a, b) == (n1 :> a) @@ (n2 :> b)

Copies == Both({n2}, {})
WritesAtATime == Both(1, 2)

\* One message that comes as a copy, or from a client, and a restart; or two
\* messages and no restart.
RestartOrTwo ==
    {[lives |-> Both(0, 1), fresh |-> Both({m1}, {}), acks |-> 1],
     [lives |-> Both(0, 1), fresh |-> Both({}, {m1}), acks |-> 1],
     [lives |-> Both(0, 0), fresh |-> Both({m1}, {m2}), acks |-> 1]}
=============================================================================
