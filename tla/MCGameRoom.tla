------------------------------ MODULE MCGameRoom ------------------------------
(* An instance of GameRoom for TLC: every cell of a two-by-two board, and one byte off it. *)
EXTENDS GameRoom, TLC

MCCoors == {0, 1, 16, 17, 2}
MCSymmetry == Permutations(Users)
=============================================================================
