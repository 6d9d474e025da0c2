-------------------------- MODULE MCDatabaseTasks --------------------------
(* The database thread, the dispatcher thread and one more client.         *)
EXTENDS DatabaseTasks, TLC

CONSTANTS game, net, worker, q1, q2, q3, none

MCClients == {game, net}
MCQueries == {q1, q2, q3}
=============================================================================
