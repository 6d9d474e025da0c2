------------------------------ MODULE MCTrade ------------------------------
(* Three players; a coin, a box and a bag, so that things nest three deep. *)
EXTENDS Trade, TLC

CONSTANTS p1, p2, p3, coin, box, bag, h1, h2

MCPlayers == {p1, p2, p3}
MCSymmetry == Permutations(MCPlayers)
=============================================================================
