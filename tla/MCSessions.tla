----------------------------- MODULE MCSessions -----------------------------
(* Connections that all ask for one character. *)
EXTENDS Sessions

CONSTANTS ann

MCAsks == [c \in Conns |-> ann]
=============================================================================
