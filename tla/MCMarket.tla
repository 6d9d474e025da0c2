------------------------------ MODULE MCMarket ------------------------------
(* One player has the goods, the other has the gold. *)
EXTENDS Market, TLC

CONSTANTS ann, bob

MCWealth == (ann :> [bank |-> 0, cash |-> 0, goods |-> 3])
         @@ (bob :> [bank |-> 2, cash |-> 1, goods |-> 0])
=============================================================================
