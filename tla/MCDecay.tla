------------------------------ MODULE MCDecay ------------------------------
(* A container and what it holds.                                         *)
EXTENDS Decay, TLC

CONSTANTS box, gem

MCItems     == {box, gem}
MCInside    == [i \in MCItems |-> IF i = box THEN {gem} ELSE {}]
MCDurations == {1, 3}
=============================================================================
