------------------------------ MODULE MCParty ------------------------------
(* Four players; as many parties as they can lead.                         *)
EXTENDS Party, TLC

CONSTANTS q1, q2, q3, q4, p1, p2, p3, p4

MCPlayers == {q1, q2, q3, q4}
MCParties == {p1, p2, p3, p4}
MCSymmetry == Permutations(MCPlayers) \cup Permutations(MCParties)
=============================================================================
