------------------------------- MODULE MCBroker -------------------------------
(* Small instances of Broker for TLC: P1 and P3 are values of PullOf. *)
EXTENDS BrokerInvariant, TLC

CONSTANTS r1, p1, p2, q1, q2, q3

P1 == q1 :> p1
P3 == q1 :> p1 @@ q2 :> p1 @@ q3 :> p2
==============================================================================
