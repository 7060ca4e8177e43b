-------------------------------- MODULE Room --------------------------------
(* A room (backend/game/room.go) with its member list (backend/middlewares/
   mdwroom/room.go), as pure operators on a record

     seat     BlackPlayer and WhitePlayer: colour -> user, NoUser for nil
     regret   RegretColor: who asked to take a move back, SPACE for nobody
     tie      TieColor
     ready    ReadyColor
     playing  IsPlaying
     chess    the game
     users    the member list; users are pointers and every join makes a new
              one, so none is in the list twice and the list is a set.  Its
              order decides only in which order members are written to.

   A user stands for a *mdwuser.User: identity is pointer identity.             *)
EXTENDS Chess

CONSTANT NoUser   \* nil

RoomStates(Users) ==
    [seat    : [Stones -> Users \cup {NoUser}],
     regret  : Colors,
     tie     : Colors,
     ready   : Colors,
     playing : BOOLEAN,
     chess   : ChessStates,
     users   : SUBSET Users]

NewRoom ==
    [seat    |-> [color \in Stones |-> NoUser],
     regret  |-> SPACE,
     tie     |-> SPACE,
     ready   |-> SPACE,
     playing |-> FALSE,
     chess   |-> ChessInit,
     users   |-> {}]

(* The configured size of a room, brought into 2..MaxUsers. *)
MaxUsers == 200

ClampedMaxUsers(n) == IF n > MaxUsers THEN MaxUsers ELSE IF n < 2 THEN 2 ELSE n

Opponent(color) == 1 - color

PlayerColor(room, user) ==
    IF room.seat[BLACK] = user THEN BLACK
    ELSE IF room.seat[WHITE] = user THEN WHITE
    ELSE SPACE

PlayerCount(room) == Cardinality({color \in Stones : room.seat[color] # NoUser})

IsPlayer(room, user) == PlayerColor(room, user) # SPACE

-----------------------------------------------------------------------------
(* Joining *)

(* Slip: the second seat is not looked at before it is taken. *)
CanSit_Always(room) == TRUE

CanSit(room) == \E color \in Stones : room.seat[color] = NoUser

FreeSeat(room) == IF room.seat[BLACK] = NoUser THEN BLACK ELSE WHITE

joinAsPlayer(room, user) ==
    [room EXCEPT !.seat  = [@ EXCEPT ![FreeSeat(room)] = user],
                 !.users = @ \cup {user}]

CanWatch(room, max) == ~ (max - 2 <= Cardinality(room.users) - PlayerCount(room))

joinAsOnlooker(room, user) == [room EXCEPT !.users = @ \cup {user}]

(* The members a joining client is told about as onlookers: every member that
   holds no seat.                                                               *)
Onlookers(room) == {u \in room.users : ~ IsPlayer(room, u)}

-----------------------------------------------------------------------------
(* Leaving *)

(* Slip: leaving forgets the requests of the leaver. *)
Cleared_Never(flag, color) == flag

Cleared(flag, color) == IF flag = color THEN SPACE ELSE flag

(* Slip: only the black seat is given up. *)
Leave_BlackOnly(room, user) ==
    [room EXCEPT !.seat = [@ EXCEPT ![BLACK] = NoUser], !.playing = FALSE]

(* Leave of the embedded game room: only a player has anything to give up. *)
Leave(room, user) ==
    LET color == PlayerColor(room, user)
    IN  [room EXCEPT !.seat    = [@ EXCEPT ![color] = NoUser],
                     !.regret  = Cleared(@, color),
                     !.tie     = Cleared(@, color),
                     !.ready   = Cleared(@, color),
                     !.playing = FALSE]

(* leave of the room: it returns on everything but ErrNotPlayer, success
   included, so a player gives up the seat and stays in the member list.        *)
leave(room, user) ==
    IF IsPlayer(room, user) THEN Leave(room, user)
                            ELSE [room EXCEPT !.users = @ \ {user}]

-----------------------------------------------------------------------------
(* Playing *)

(* Both players are ready when the opponent was the one waiting. *)
BothReady(room, color) == room.ready = Opponent(color)

Ready(room, color) ==
    [room EXCEPT !.ready = IF BothReady(room, color) THEN SPACE ELSE color]

(* Slip: a new game rewinds the record and leaves the old stones. *)
Start_OldStones(room) == [room EXCEPT !.chess.record = << >>, !.playing = TRUE]

Start(room) == [room EXCEPT !.chess = ChessInit, !.playing = TRUE]

(* ReceiveReady: Ready, then Start when both are. *)
ReceiveReady(room, user) ==
    LET color == PlayerColor(room, user)
    IN  IF BothReady(room, color) THEN Start(Ready(room, color)) ELSE Ready(room, color)

(* The turn test of ReceivePlayerStone as the code has it: a player is turned
   away when WhoseTurn names the player's own colour.                           *)
TurnedAway(room, user) ==
    \/ user = room.seat[BLACK] /\ WhoseTurn(room.chess) = BLACK
    \/ user = room.seat[WHITE] /\ WhoseTurn(room.chess) = WHITE

(* Slip: onlookers are not turned away. *)
CanPlayStone_Anyone(room, user, move, coor) ==
    /\ room.playing
    /\ ~ TurnedAway(room, user)
    /\ CanStone(room.chess, move, coor)

CanPlayStone(room, user, move, coor) ==
    /\ room.playing
    /\ ~ TurnedAway(room, user)
    /\ IsPlayer(room, user)
    /\ CanStone(room.chess, move, coor)

PlayStone(room, coor) == [room EXCEPT !.chess = Stone(@, coor)]

(* Regret and Tie record the request of a player; they answer with an error
   even then, so their handlers never get to announce it.                       *)
Regret(room, user) ==
    IF room.regret = SPACE THEN [room EXCEPT !.regret = PlayerColor(room, user)] ELSE room

Tie(room, user) ==
    IF room.tie = SPACE THEN [room EXCEPT !.tie = PlayerColor(room, user)] ELSE room

(* Whether the opponent agrees is not looked at: any answer takes moves back. *)
CanReplyRegret(room, user) ==
    /\ IsPlayer(room, user)
    /\ room.regret = Opponent(PlayerColor(room, user))

ReplyRegret(room, user) ==
    LET asker == Opponent(PlayerColor(room, user))
    IN  [room EXCEPT !.regret = SPACE,
                     !.chess  = IF CanRegret(@, asker) THEN ChessRegret(@, asker) ELSE @]

-----------------------------------------------------------------------------
(* What makes a room consistent *)

(* A request or a readiness outstanding belongs to a player who is there, and a
   game is on only between two players.                                         *)
FlagsSeated(room) ==
    /\ \A color \in Stones :
          color \in {room.ready, room.regret, room.tie} => room.seat[color] # NoUser
    /\ room.playing => \A color \in Stones : room.seat[color] # NoUser

(* Nobody holds both seats, and whoever holds one is a member. *)
SeatsDistinct(room) ==
    /\ \A color \in Stones : room.seat[color] # NoUser => room.seat[color] \in room.users
    /\ room.seat[BLACK] = room.seat[WHITE] => room.seat[BLACK] = NoUser
=============================================================================
