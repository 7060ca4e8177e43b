# gobang: a verification project

gobang is a five-in-a-row game: a server in Go (`src/backend`) with rooms for two
players and onlookers, and a desktop client in C++ (`src/frontend`) on a small
framework of its own (`src/frontend/3rdparty/mixi`). This directory holds TLA+ models
of both sides and of what is between them, runs that TLC checks, and theorems that
TLAPS checks. Every definition is taken from the source; `PROJECT.json` gives the
lines for each one.

## The system

| Part | State | Operations |
|---|---|---|
| Chess rules, `game/chess.go` | board, record array, cursor | `Init`, `Stone`, `DidYouWin`, `Regret`, `WhoseTurn` |
| Game room, `game/room.go`, `mdwroom/room.go` | two seats, member list, ready/regret/tie colours, `IsPlaying`, the chess | `Start`, `Join`, `Leave`, `Ready`, `Regret`, `ReplyRegret`, `Tie`, `joinAsPlayer`, `joinAsOnlooker`, `leave` |
| Connection pipes, `idtcp/` | one goroutine per connection, payloads, `pipelineMutex`; the listener under `listenerMutex`, the set of connections, a wait group | accept, read a frame, run the middleware chain, disconnect; `Run`, `CloseAll` |
| Middlewares, `mdwfatal`, `mdwuser`, `mdwroom` | per connection: its user and its room | authenticate a join, seat the user, leave, close on a fatal error |
| Endpoints, `server/distribute.go`, `server/send.go` | none of their own | ready, leaving, stone, regret and the reply to one, chat, user information; broadcasts |
| Accounts, `mdwuser/database.go` | an SQLite table: name, hashed password, statistics | `authenticate`, `register`, `getUser` |
| Codecs, `utils/serializer.go`, mixi `serializer.cpp` | a byte buffer and a cursor | fields to bytes and back |
| UDP search, `server/udp.go`, `udp/server.go` | one receive buffer | answer a request with the list of rooms |
| Client room, `server_game_room.cpp`, `game/room.cpp` | a copy of the room in a double buffer, join state | a handler per message, a sender per click |
| Client search, `server_room_search.cpp`, `modal_room_search.cpp` | receive buffer, queue, list of rooms | search, receive, list |
| Client locks, mixi `core/lock.h` | two rooms and an index under a shared mutex; a queue under a mutex | read for a frame, copy, edit, flip |
| Client transport, mixi `idtcp.cpp` | send buffer, receive buffer | pack, send, receive, unpack, dispatch |
| Client windows, `component/` | which windows are open and for which role | clicks that send something |

How they interact: a request is read outside the mutex, then handled under
`pipelineMutex` by the chain fatal - user - room - endpoint, which changes a room and
writes to the connections of its members. A write that fails closes that connection;
the goroutine of the closed connection finds out later, at its next read, and then
runs the disconnect chain under the mutex. UDP goroutines read the same rooms and
take no lock. `CloseAll` closes the connections that are in the set and leaves the rest to
their goroutines. On the client a network thread applies messages to the copy of the room
and the main thread draws it and sends clicks.

What is hard here: the steps of several connections between the read of a request and
its handling; joins that fail half way; connections that are closed by other pipes;
messages under way while the player clicks; a peer that does not read, with the mutex
held by whoever writes to it; a shutdown while connections are accepted; two threads on one room; numbers that do
not fit behind their prefix; TCP pieces, lost and doubled datagrams; database sessions
that fail one by one. `hazards` in `PROJECT.json` lists them with their lines.

## Modules

| Module | Models | Notes |
|---|---|---|
| `Chess` | `game/chess.go` | operators on a record `[board, record, cursor]`; `Size` and `Row` stand for 15 and 5 |
| `ChessGame` | one chess under stones and restarts | take-backs are in `GameRoom` |
| `Room` | `game/room.go`, `mdwroom/room.go` | operators on a room record, extends `Chess` |
| `Table` | what a room promises: seats that are taken and given up, games of two, moves on free cells | abstract; `Server!AsTables` is the mapping, `ImplementsTables` the claim |
| `GameRoom` | one room under every operation, also those no endpoint reaches | a user joins once: user objects are made for every join |
| `Server` | goroutines, middlewares, endpoints | `pipe[c]` is where the goroutine is, `link[c]` the TCP connection, `userOf`/`roomOf` the payloads; `Read` is a step of its own, a handler under the mutex is one step |
| `Lifecycle` | `Run`, `requestPipe`, `CloseAll` with both mutexes, the set, the wait group and writes that block | what `Server` takes for one step: a request has no contents here but the set of those who are written to while it is handled |
| `Gobang` | `Server` with clients, and channels between them | extends `Server`; `c2s`, `s2c` are streams, `view` the client's copy of the room |
| `Accounts` | `mdwuser/database.go`, `view.go` | one step per database session |
| `Serializer`, `Codec` | the three codecs; the messages of the protocol | a byte has `Radix` values |
| `Frames` | framing on TCP | extends `Serializer` |
| `Search` | UDP search, both sides | extends `Serializer`; the server's goroutine takes a step per field |
| `ReadFirstBuffer` | `RfbReader`, `RfbWriter` | a room is two counters of applied messages |
| `*Proofs` | the theorems about the module of that name; `GobangProofs` also those about `Server`, `WireProofs` those about `Serializer`, `Frames` and `Codec` | |
| `MC*` | instances for TLC | |

Definitions whose comment begins with "Slip" are plausible mistakes in the definition
after them. No specification uses them: they are there to see that a property
notices (`mutants` in `PROJECT.json`).

Things that are the same throughout: logging, wording and drawing are left out. User
names and passwords are model values, except where their bytes matter (`Codec`,
`Search`). `Server` treats the answer of the account database, and whether the reply to a
join can be encoded and written, as free choices; only that no list of more than
`ListMax` onlookers can be is held fast. `Accounts` and `Codec` look inside.

## Runs

| Run | Question | Bounds, and why they are enough |
|---|---|---|
| `chess` | is a row announced exactly when there is one? | 3x3 board, rows of 3, all games of up to 7 moves: rows in all four directions, closed at the end or in the middle, along edges |
| `room` | is a room consistent under any operations? | 4 users: two players, an onlooker, one who replaces a player; 2x2 board, 5 moves: the full board and one move more, with take-backs |
| `server` | several connections and one room; does it implement `Table`? | 2 connections that join up to twice, so that there are up to four users: two players, an onlooker, one turned away, and one whose connection has another user by now; the answer to any join may fail to be encoded, and must with a second onlooker in it; one room, so that what `SeatsConsistent` and `PlayersOnly` say of two rooms rests on the proofs; 2 stones on three cells and one off the board: the second may be tried on the first one's cell. A win changes nothing on the server; it is in `room` and `gobang` |
| `gobang` | does the client's copy keep up, are windows opened for the right seat, and is an overtaken stone refused? | 3 clients and a room of 3: two players and an onlooker, or one who joins during a game or takes a seat that was given up; 2 messages under way to a client, so that two stones share a channel, or a stone and a join's answer; one request, enough for stones of two players that cross; up to 2 games, 3 moves, rows of 2, so that the end of a game and the lost connections after it happen. `OneThingAtATime` in `MCGobang` cuts off what would be too much: the three cells are taken in one order (any two of them touch), of a client that dropped out, a game started anew and a client with two messages to read there is one at a time, and with all three clients there nobody drops out and nobody wins |
| `gobang_live` | is a join answered, is a lost connection torn down? | 2 clients, of whom one quits or is lost, one game, no stones (liveness allows no symmetry; stones add no way to wait); no constraint, so `RoleIsSeat` is checked here for joins and clicks in every interleaving |
| `lifecycle` | does `CloseAll` miss a connection, and do goroutines end? | 2 connections, 7,289 states: one whose peer does not read, and one that is held up by a write to it, or is just being accepted; a third would stand beside one of these |
| `accounts` | who gets in? | 2 connections, 2 names, 2 passwords, 2 salts, any failure, any number of restarts |
| `codec` | do the two ends of every message agree? | `Radix` 4, so that strings and lists of 3, 4 and more are on both sides of the limit of one byte |
| `frames` | do frames survive the stream? | `Radix` 3: a frame is at most 8 bytes; 3 messages; a connection holds 10 bytes, which is one frame and a piece of the next |
| `search` | is what is listed true? | 2 clients, one of them outdated, 2 requests, 2 rooms, one change while answers are written |
| `buffer` | do the two threads of a client get along? | shared locks that overtake a waiting writer, and such that do not; one reader, as in the client; 4 messages, so that each buffer is read and written twice |

Symmetry is used over connections, users, names and passwords where the run checks no
liveness. A bound never stops the server: the bounds on games and moves of `Gobang` are in
what clients ask for. `CHECK_DEADLOCK FALSE` stands where everybody may really have gone home or
where the bound on requests is reached.

### Runs that show a disagreement

| Run | What it shows |
|---|---|
| `stone_by_turn` | the turn test is inverted: white places the first, black stone |

It has an entry under `findings` with the comment it contradicts. More of the kind are
part of the models, as the code has them, and are what the passing properties leave out:

- A player who leaves or is disconnected gives up the seat and stays in the member list
  for ever (`Room!leave`), and counts in the list of rooms.

- A take-back leaves its stones on the board that moves are checked against, where their
  cells stay taken (`Chess!Regret`). `RecordOnBoard` says what holds all the same: what the
  record has is on the board. `BoardIsRecord`, which says that nothing else is, is about
  `Server`, where no take-back is ever granted (`distribute.go:44` has `Empty` for the
  reply to one).
- After a join whose answer could not be written, and after a second join on the same
  connection, the seat of the earlier user stays taken (`SeatReleased` speaks of the
  current user of a completed join).
- Leave notices go to the one who leaves, with the names of the others
  (`Gobang!LeaveNotices`); the members that stay are told nothing.
- Two members may have one name, and the client tells its role by name (`RoleIsSeat`
  is checked and proved for clients of different names).
- A client that joins during a game paints every stone in one colour
  (`Room::set_board_by_records` takes the parity of their number); the model's copy has
  the cells only, and no rule of the client asks for their colours.
- The error of a closed listener comes wrapped and never equals `net.ErrClosed`, so that
  `Run` tries to accept for ever and never comes to its wait for the goroutines
  (`Lifecycle!AcceptFails`).
- UDP requests overwrite each other in the receive buffer, so that a client of another
  version may be answered and one of the same version turned away
  (`Search!ReadVersion`).
- The end of a game is written as one byte and read as two, so that every client of
  the room drops its connection (`Understood` excepts that message,
  `Gobang!ReceiveGameOver` has it).
- The time a user has played is written with eight bytes (`send.go:81`) and read with four
  (`server_game_room.cpp:330`, a `uint32_t` in `user.h:18`); a longer one loses its front
  (`Codec!Overlong`, which `Understood` excepts).
- The client writes a truth value in two bytes (mixi `serializer.cpp:129`) and everybody
  reads one (`Serializer!Written`). The only message of the client that has one ends with
  it, so that nothing behind it slips.
- Where a shared lock does not overtake a waiting writer (libc++, which
  `frontend/CMakeLists.txt:50` builds with on a Mac), a click, which takes the shared lock a
  second time, and the network thread that comes to its exclusive lock in between wait
  for each other for ever (`ReadFirstBuffer!SelfBlocked`).
- The client keeps the records of the last game when the next one starts
  (`RecordAgrees` speaks of the end of its record, `PlacedAsSeen` of the first game).

## Fairness

- `gobang_live`: clients read what has arrived. A pipe that can take a step again and
  again takes one (strong fairness: the step may be disabled for a while, by a full
  channel or, in the code, by the mutex). A peer that is gone left finitely many
  requests to read, so the error behind them is met. This assumes that a write returns.
- `lifecycle`: peers need not read, nobody need connect, and `CloseAll` need not be
  called. A goroutine that waits for a mutex gets it (strong fairness: a Go mutex that
  somebody has waited for longer than a millisecond is handed over in order), one that
  holds a mutex goes on unless it is in a write to a peer that does not read, and such a
  write goes through if again and again it could. `TornDownUnlessHeldUp` says that a
  lost connection's goroutine ends unless such a write goes on for ever, `ClosedDown`
  that `CloseAll`, which closes the connections that are not read from, ends all of it.
- `frames`: the connection moves bytes and readers read. Nobody has to send.
- `search`: frames are drawn, and one of them gets the lock of the queue.
- `buffer`: a frame ends, with however many clicks in it (strong fairness of the outer
  unlock); the network thread runs; a writer that waits gets the lock if again and again
  it could. `std::shared_mutex` leaves open whether readers overtake a waiting writer, so
  both kinds are checked (`overtake`): `FlippedIn` says that a flip comes to its turn
  unless the two threads wait for each other (`SelfBlocked`), which only a lock of the
  second kind allows and which is for good (`BlockedForGood`). With several readers whose
  frames overlap for ever a flip may wait for ever too; the client has one.

## Proofs

All for any number of connections, users, rooms, messages and so on, under the named
assumptions in the modules that declare the constants.

| Module | Theorems | Argument |
|---|---|---|
| `RoomProofs` | lemmas | what each operator of `Chess` and `Room` keeps: `RoomGood` (seats are members and distinct, colours asked for are seated, a game has two players), `LiveMoves` and `NoStrayStone` (below the cursor every record is on the board; and nothing else is, as long as no move is taken back) |
| `GameRoomProofs` | `TypeCorrect`, `RequestsAlwaysSeated`, `SeatsAlwaysConsistent`, `RecordAlwaysOnBoard`, `RecordAlwaysFits`, `SeatsAlwaysHandedOver` | the moves below the cursor lie on different cells, and there are no more of those than the record has places; `GameRoomInv` adds that users who have not joined are in no room |
| `GobangProofs` | of `Server`: `ServerTypes`, `RoomAlwaysKnown`, `RequestsAlwaysSeated`, `SeatsAlwaysConsistent`, `BoardAlwaysRecord`, `SeatAlwaysReleased`, `SeatNeverStolen`, `GamesForPlayersOnly`, `TablesImplemented` | `ServerInv`: rooms share no user, a member's number is not above the joins of its connection (so the user of the next join is new everywhere), and a user in a payload belongs to that connection. Under it every step is one of `Table`, or none: an accepted join is a `SitDown` or nothing, a leave a `GetUp` or nothing, the second of two ready requests a `Begin`, a stone a `Place` |
| `GobangProofs` | of `Gobang`: `RoleAlwaysSeat`, if all players have different names | every step of the server in `Gobang` is by its form one of `Server`, and those of clients and channels leave the server alone (`GobangStep`; `RequestsInv` says that channels hold requests the server knows), so that `ServerInv` may be used here. `ClientsInv` follows a colour from the server's seat into the answer of a join, the client's copy and the windows: the answer comes first and once (`AnswerRight`), nothing is written to who has not joined (`Newcomer`), and until its windows are open no request to be ready and no start of a game, which would change the colours over, is under way (`NotReadyYet`). A client joins once, so that a seat can be lost on the way but not changed (`ColorKept`) |
| `GobangProofs` | `RecordAlwaysAgrees`, `AlwaysPlacedAsSeen` | `PresentInv` says where each client is, whatever its name, and what may be under way to it; `Replayed`, the record it will have, is followed through what is appended to and read off its channel (lemmas on `RecordAfter`). `SeenInv`: in the first game of a room every connected member's replayed record is the server's, and each stone under way names a position of it (`Follows`); nothing is placed before that game (`NoGameYet`) |
| `WireProofs` | `ReceivedAsSent`, of `Frames` | `FramesInv`: as long as nobody sent into a full connection, the bytes read, on the way and unsent together are exactly the frames of the messages that have not been received, and a list of ends says where each begins (`Cut`); the reader never has more than one frame. A write that is cut and a read that is cut move the borders only; a frame that was read to its end drops the first end off the list (`OneLess`) |
| `WireProofs` | `EveryMessageUnderstood`, `EveryCutNoticed`, of `Codec` | bottom up: a number is read back from its bytes and from the first of them (`NumberBack`, `UintBack`), then byte strings, lists, fields, messages; for each a lemma says what comes out where its bytes stand (`Stands`) and that the reading fails where they end early (`CutOff`). `ReadOn` and `UpTo` go along a list or the fields of a message up to the first that fails. `CodecInv`: what is under way is what was written or a front of it, and the values of a reader who ended are those put in, as far as their widths go; every number fits the width it is written in (`InWidth`), and the widths of the two lists differ in one place (`ReadsAsWritten`) |
| `WireProofs` | `ListedRoomsWereTrue`, of `Search` | `SearchInv`: while no room has more users than a byte can tell, each answer under way or being put together is the head of an answer followed by the fields of the rooms before its own one, each with a value the room once had (`Tells`), and a pipe's copies of the seats were the seats at some time. The history only grows, so what was true stays so (`WasStill`); each step of a pipe adds fields (`Extended`); a client reads all of an answer's fields back, wherever the rest of its buffer comes from (`AnswerFields`), and lists them under the number of their room (`ToldTrue`) |
| `LifecycleProofs` | `LifecycleTypeCorrect`, `AlwaysTracked`, `NeverMissed` | `OneIncoming`: of the connections in no set there is at most one, and it keeps the accepter at its place, with the mutex; `ClosingInv`: how far `CloseAll` has come; `PipesLinked` |
| `ChessGameProofs` | `GameTypes`, `WinAlwaysAnnounced` | a row that was not there before goes through the new stone; counting the stones of its colour on both sides of it, without induction: what is counted is an interval from 1, so a row through the stone and a count that is long enough are the same |
| `AccountsProofs` | `AccountsTypes`, `AlwaysInByPassword`, `AccountsStay`, `OnlyWrongEverRefused` | `RequestProven`: a request that is past the test brought the right password, and one that met no failure finds its name free |
| `ReadFirstBufferProofs` | `BufferTypes`, `AlwaysWhole`, `AlwaysStable`, `BlockedForGood` | `CopyAhead`: the copy is ahead of what is read by exactly the part of the message applied so far; a lock that no reader can get and a flip that waits for one keep each other as they are |

`ChessGame!TypeOK` and `GameRoom!SeatsConsistent` are only proved: no run of those two
modules checks them (the run `server` checks `SeatsConsistent` for every room).

Where an invariant is not inductive it fails in the same way: the promise is about one
object (this seat, this payload), and the step that could break it takes its input from
another (a user object, a request, a copy) of which the promise says nothing.

What the codecs compute is recursive, and the induction theorems of the library take an
operator as a parameter, which the provers cannot instantiate. `SetInduction` gets round it:
a set of numbers that has zero and every successor is all of `Nat`, because the
intervals from zero to a missing number would have no smallest one, and strict inclusion of
finite sets is well founded. The recursions are functions over an interval; `Recursion`
says that such a function exists, and `UpTo` does the induction over the interval.

The assumptions on constants these proofs use are: in `Frames`, that what a client sends is
below the limit of a frame's length (`Pack_` of the client checks nothing, but what it sends
comes out of input fields of 256 bytes, `window_chat.h:29`, `modal_room_search.h:39`); in
`Codec`, that numbers fit the width of their field, as their types say, and that strings
consist of bytes; in `Search`, that the number of rooms fits a byte (`MaxRooms` is 200,
`mdwroom/middleware.go:7`), and so do the number of users a room takes (`MaxUsers`, 200,
`mdwroom/room.go:12`) and the lengths of names: a player's came in behind one byte of
length, while nothing checks the names in the configuration.

Model-checked only: all liveness (`TornDown`, `TornDownUnlessHeldUp`, `ClosedDown`,
`JoinAnswered`, `FlippedIn`, `AllReceived`, `ToldIsListed`), which the prover cannot do.
Every invariant and every safety property of a step that a passing run checks is a
theorem.

## Not modelled

- Drawing, geometry, images, the GUI framework: output without protocol state.
- Configuration and start-up: a file is read and the parts are wired.
- `ReadTryQueue`: a queue under a plain mutex; `Search` has the queue.
- Waiting for the goroutines at the end of `Run`: it is never reached.
- The public-key handshake of the client (`receive_public_key_`): the server never
  sends that message.
- In `Gobang`: regret, tie and chat, and connecting again. `on_disconnected_` keeps the
  room of the lost connection, and `connected` is told before the new one is flipped in
  (`server_game_room.cpp:317`), so that a client that joins again may open its windows by
  the old room; a client of `Gobang` connects once.
- Requests that are shorter than their fields: `mdwfatal/middleware.go:107` and
  `distribute.go:58` read with the old `Serializer`, which slices beyond the data
  (`serializer.go:371`, `:391`) and may panic; no goroutine recovers, so the process
  ends. `Server` has requests with all their fields, as the client sends them.
- `[][]byte` fields of the codec: no message has one.

## Plan

In order:

1. Regret, tie, give up and chat in `Gobang`, and a client that connects again while
   its copy of the room is the old one.
2. `Accounts` and `Server` composed: the outcome of authentication in `Server` as
   `Accounts` gives it.
3. Proofs: the invariants of `Gobang` again for whatever step 1 adds to it.
4. The windows that remain (room creation, chat, emoji input with its limits), and
   `ReadTryQueue`.
