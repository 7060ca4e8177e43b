------------------------------- MODULE MCServer -------------------------------
(* Instances of Server for TLC. *)
EXTENDS Server, TLC

OneRoom  == <<3>>      \* two players and one onlooker
MCCoors  == {0, 1, 17, 2}  \* three cells of the 2x2 board, and one off it
MCSymmetry == Permutations(Conns)
=============================================================================
