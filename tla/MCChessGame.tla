----------------------------- MODULE MCChessGame -----------------------------
(* Instances of ChessGame for TLC: every cell of a small board and coordinates
   off it.                                                                      *)
EXTENDS ChessGame

OnBoard == {16 * c + r : r \in 0..Size-1, c \in 0..Size-1}
OffBoard == {Size, 16 * Size, 255}
MCCoors == OnBoard \cup OffBoard
=============================================================================
