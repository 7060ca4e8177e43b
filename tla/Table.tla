-------------------------------- MODULE Table --------------------------------
(* What the rooms promise to those who play in them, and nothing of connections,
   requests or messages: tables with two seats, at which somebody sits down, gets
   up, and with the other one plays games on free cells.  Server implements it.

   Of the moves only the cells are seen, so that a coordinate byte that stands for
   the same cell as another would be noticed.                                   *)
EXTENDS Naturals, Sequences

CONSTANTS
    Tables,
    Colours,   \* the seats of a table
    Players,   \* who may ever sit down
    Nobody,
    Cells      \* of a board

VARIABLES
    seat,      \* table -> colour -> who sits there
    playing,   \* table -> whether a game is on
    moves      \* table -> the cells taken in the game, first to last

vars == <<seat, playing, moves>>

Init ==
    /\ seat    = [t \in Tables |-> [c \in Colours |-> Nobody]]
    /\ playing = [t \in Tables |-> FALSE]
    /\ moves   = [t \in Tables |-> << >>]

(* Nobody sits twice, at one table or at two, and a seat that is taken stays so. *)
SitDown(t, c, p) ==
    /\ seat[t][c] = Nobody
    /\ \A other \in Tables, d \in Colours : seat[other][d] # p
    /\ seat' = [seat EXCEPT ![t] = [@ EXCEPT ![c] = p]]
    /\ UNCHANGED <<playing, moves>>

(* Whoever gets up ends the game; what was played remains to be seen. *)
GetUp(t, c) ==
    /\ seat[t][c] # Nobody
    /\ seat' = [seat EXCEPT ![t] = [@ EXCEPT ![c] = Nobody]]
    /\ playing' = [playing EXCEPT ![t] = FALSE]
    /\ UNCHANGED moves

(* A game begins, or begins again, between two, on an empty board. *)
Begin(t) ==
    /\ \A c \in Colours : seat[t][c] # Nobody
    /\ playing' = [playing EXCEPT ![t] = TRUE]
    /\ moves' = [moves EXCEPT ![t] = << >>]
    /\ UNCHANGED seat

Place(t, cell) ==
    /\ playing[t]
    /\ \A i \in 1..Len(moves[t]) : moves[t][i] # cell
    /\ moves' = [moves EXCEPT ![t] = Append(@, cell)]
    /\ UNCHANGED <<seat, playing>>

Next ==
    \E t \in Tables :
        \/ \E c \in Colours, p \in Players : SitDown(t, c, p)
        \/ \E c \in Colours : GetUp(t, c)
        \/ Begin(t)
        \/ \E cell \in Cells : Place(t, cell)

Spec == Init /\ [][Next]_vars
=============================================================================
