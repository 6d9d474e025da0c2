---------------------------- MODULE MCScheduler ----------------------------
(* The scheduler on a small instance: two clients, three events, and       *)
(* identifiers that wrap around.                                           *)
EXTENDS Scheduler, TLC

CONSTANTS game, net, e1, e2, e3

MCClients == {game, net}
MCEvents  == {e1, e2, e3}
MCDelays  == {0, 1}
=============================================================================
