---------------------------- MODULE MCDispatcher ----------------------------
(* The dispatcher on a small instance.                                     *)
EXTENDS Dispatcher, TLC

CONSTANTS net, sched, worker, t1, t2, t3, close, game, term, none

MCProducers == {net, sched}
MCTasks     == {t1, t2, t3}
MCTimed     == {t3}
=============================================================================
