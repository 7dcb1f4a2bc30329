----------------------------- MODULE MCNetConn -----------------------------
(* Instances of NetConn: which buffer goes where, and how long it is.       *)
EXTENDS NetConn, TLC

CONSTANTS c1, c2, b1, b2, b3

\* All senders on one connection, with buffers that take two units or one.
OneTarget == [b \in Bufs |-> c1]
TwoUnits == [b \in Bufs |-> 2]
TwoOneOne == (b1 :> 2 @@ b2 :> 1 @@ b3 :> 1)
OneUnit == [b \in Bufs |-> 1]
=============================================================================
