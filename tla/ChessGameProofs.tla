--------------------------- MODULE ChessGameProofs ---------------------------
(* The winning test announces exactly the rows there are, on boards of every size
   and for rows of every length.  The test counts from the last stone, the rule
   speaks of the whole board: what joins them is that a stone can only complete a
   row it is part of.                                                           *)
EXTENDS ChessGame, FiniteSetTheorems, TLAPS

(* The cell k steps of d away, backwards when k is negative. *)
At(cell, d, k) == <<cell[1] + (k * d[1]), cell[2] + (k * d[2])>>

(* That cell is on the board and shows the same stone. *)
Same(board, cell, d, k) ==
    /\ At(cell, d, k) \in Cells
    /\ board[At(cell, d, k)] = board[cell]

(* Row stones of one colour, from start on in direction d. *)
RowFrom(board, start, d, color) ==
    \A k \in 0..Row-1 : At(start, d, k) \in Cells /\ board[At(start, d, k)] = color

-----------------------------------------------------------------------------
(* Cells on a line *)

(* A step is at most one cell wide, so that nothing is multiplied but by -1, 0 and 1. *)
LEMMA Times ==
    ASSUME NEW x \in {-1, 0, 1}, NEW k \in Int, NEW j \in Int
    PROVE  /\ k * x \in Int /\ 0 * x = 0
           /\ (k + j) * x = (k * x) + (j * x)
<1>1. CASE x = 0
  BY <1>1
<1>2. CASE x = 1
  BY <1>2
<1>3. CASE x = -1
  BY <1>3
<1>4. QED BY <1>1, <1>2, <1>3

(* Steps along a line add up. *)
LEMMA AtCell ==
    ASSUME NEW cell \in Int \X Int, NEW d \in Directions, NEW k \in Int
    PROVE  /\ At(cell, d, k)[1] \in Int /\ At(cell, d, k)[2] \in Int
           /\ At(cell, d, k) \in Int \X Int
           /\ \A j \in Int : At(At(cell, d, k), d, j) = At(cell, d, k + j)
           /\ At(cell, d, 0) = cell
<1>1. cell[1] \in Int /\ cell[2] \in Int /\ cell = <<cell[1], cell[2]>>
  OBVIOUS
<1>2. d[1] \in {-1, 0, 1} /\ d[2] \in {-1, 0, 1}
  BY DEF Directions
<1>3. k * d[1] \in Int /\ k * d[2] \in Int /\ 0 * d[1] = 0 /\ 0 * d[2] = 0
  BY <1>2, Times
<1>4. At(cell, d, k)[1] = cell[1] + (k * d[1]) /\ At(cell, d, k)[2] = cell[2] + (k * d[2])
      /\ At(cell, d, k) \in Int \X Int
  BY <1>1, <1>3 DEF At
<1>5. At(cell, d, 0) = cell
  BY <1>1, <1>3 DEF At
<1>6. ASSUME NEW j \in Int PROVE At(At(cell, d, k), d, j) = At(cell, d, k + j)
  <2>1. /\ j * d[1] \in Int /\ j * d[2] \in Int
        /\ (k + j) * d[1] = (k * d[1]) + (j * d[1])
        /\ (k + j) * d[2] = (k * d[2]) + (j * d[2])
    BY <1>2, Times
  <2>2. /\ (cell[1] + (k * d[1])) + (j * d[1]) = cell[1] + ((k + j) * d[1])
        /\ (cell[2] + (k * d[2])) + (j * d[2]) = cell[2] + ((k + j) * d[2])
    BY <1>1, <1>3, <2>1
  <2>3. QED BY <1>4, <2>2 DEF At
<1>7. QED BY <1>1, <1>3, <1>4, <1>5, <1>6

-----------------------------------------------------------------------------
(* Counting *)

(* A set of numbers that has all below each of its members is known by its size. *)
LEMMA CountedFromOne ==
    ASSUME NEW n \in Nat, NEW D, D \subseteq 1..n, \A j \in D : 1..j \subseteq D
    PROVE  Cardinality(D) \in 0..n /\ D = 1..Cardinality(D)
<1> DEFINE m == Cardinality(D)
<1>1. \A j \in 0..n : IsFiniteSet(1..j) /\ Cardinality(1..j) = j
  <2> SUFFICES ASSUME NEW j \in 0..n PROVE IsFiniteSet(1..j) /\ Cardinality(1..j) = j
    OBVIOUS
  <2>1. 1 \in Int /\ j \in Int
    OBVIOUS
  <2>2. QED BY <2>1, FS_Interval
<1>2. IsFiniteSet(D) /\ m \in Nat /\ m <= n
  <2>1. IsFiniteSet(1..n) /\ Cardinality(1..n) = n /\ D \in SUBSET (1..n)
    BY <1>1
  <2>2. IsFiniteSet(D) /\ Cardinality(D) <= n
    BY <2>1, FS_Subset
  <2>3. Cardinality(D) \in Nat
    BY <2>2, FS_CardinalityType
  <2>4. QED BY <2>2, <2>3
<1> HIDE DEF m
<1>3. \A j \in D : j <= m
  <2> SUFFICES ASSUME NEW j \in D PROVE j <= m
    OBVIOUS
  <2>1. 1..j \subseteq D /\ j \in 0..n
    OBVIOUS
  <2>2. Cardinality(1..j) <= Cardinality(D)
    BY <1>2, <2>1, FS_Subset
  <2>3. QED BY <1>1, <2>1, <2>2 DEF m
<1>4. m # 0 => m \in D
  <2> SUFFICES ASSUME m # 0 PROVE m \in D
    OBVIOUS
  <2>1. CASE D \subseteq 1..(m - 1)
    <3>1. m - 1 \in 0..n /\ IsFiniteSet(1..(m - 1))
      BY <1>1, <1>2
    <3>2. Cardinality(D) <= Cardinality(1..(m - 1))
      BY <2>1, <3>1, FS_Subset
    <3>3. QED BY <1>1, <1>2, <3>1, <3>2 DEF m
  <2>2. ASSUME NEW j \in D, j \notin 1..(m - 1) PROVE m \in D
    BY <1>2, <1>3, <2>2
  <2>3. QED BY <2>1, <2>2
<1>5. D = 1..m
  <2>1. ASSUME NEW j \in 1..m PROVE j \in D
    BY <1>2, <1>4, <2>1
  <2>2. ASSUME NEW j \in D PROVE j \in 1..m
    BY <1>2, <1>3, <2>2
  <2>3. QED BY <2>1, <2>2
<1>6. QED BY <1>2, <1>5 DEF m

(* The walk (chess.go:60-79) counts how far the same stones go without a gap. *)
LEMMA ReachCounts ==
    ASSUME NEW board, NEW cell \in Int \X Int, NEW d \in Directions, NEW sign \in {1, -1},
           NEW j \in 1..Row-1
    PROVE  /\ Reach(board, cell, d, sign) \in 0..Row-1
           /\ j <= Reach(board, cell, d, sign) <=>
                  \A k \in 1..j : Same(board, cell, d, sign * k)
<1> DEFINE D == {i \in 1..Row-1 : \A k \in 1..i : Same(board, cell, d, sign * k)}
<1>1. \A k \in Int :
         LET a == <<cell[1] + sign * k * d[1], cell[2] + sign * k * d[2]>>
         IN  /\ a = At(cell, d, sign * k)
             /\ isVaildCoor(a) <=> a \in Cells
  <2> SUFFICES ASSUME NEW k \in Int
               PROVE  LET a == <<cell[1] + sign * k * d[1], cell[2] + sign * k * d[2]>>
                      IN  /\ a = At(cell, d, sign * k)
                          /\ isVaildCoor(a) <=> a \in Cells
    OBVIOUS
  <2> DEFINE a == <<cell[1] + sign * k * d[1], cell[2] + sign * k * d[2]>>
  <2>1. a = At(cell, d, sign * k)
    BY DEF At
  <2>2. a[1] \in Int /\ a[2] \in Int
    BY AtCell, <2>1
  <2>3. isVaildCoor(a) <=> a \in Cells
    <3> HIDE DEF a
    <3>1. isVaildCoor(a) <=> a[1] \in 0..Size-1 /\ a[2] \in 0..Size-1
      BY <2>2, SizeAssumption DEF isVaildCoor
    <3>2. a = <<a[1], a[2]>>
      BY DEF a
    <3>3. QED BY <3>1, <3>2 DEF Cells
  <2>4. QED BY <2>1, <2>3
<1>2. Reach(board, cell, d, sign) = Cardinality(D)
  <2>1. \A i \in 1..Row-1 : 1..i \subseteq Int
    OBVIOUS
  <2>2. D = {i \in 1..Row-1 : \A k \in 1..i :
               LET a == <<cell[1] + sign * k * d[1], cell[2] + sign * k * d[2]>>
               IN  isVaildCoor(a) /\ board[a] = board[cell]}
    BY <1>1, <2>1 DEF Same
  <2>3. QED BY <2>2 DEF Reach
<1>3. Row - 1 \in Nat
  BY RowAssumption
<1>4. \A i \in D : 1..i \subseteq D
  <2>1. \A i \in 1..Row-1 : \A k \in 1..i : k \in 1..Row-1 /\ 1..k \subseteq 1..i
    BY <1>3
  <2>2. QED BY <2>1
<1>5. Cardinality(D) \in 0..(Row-1) /\ D = 1..Cardinality(D)
  <2>1. D \subseteq 1..(Row-1)
    OBVIOUS
  <2> HIDE DEF D
  <2>2. QED BY <1>3, <1>4, <2>1, CountedFromOne
<1>6. j \in D <=> \A k \in 1..j : Same(board, cell, d, sign * k)
  OBVIOUS
<1> HIDE DEF D
<1>7. j \in D <=> j <= Cardinality(D)
  BY <1>3, <1>5
<1>8. QED BY <1>2, <1>5, <1>6, <1>7

(* The two walks together are long enough exactly when a row runs through the stone,
   whatever its place in the row (chess.go:81).                                 *)
LEMMA RowThroughStone ==
    ASSUME NEW board, NEW cell \in Cells, NEW d \in Directions
    PROVE  1 + Reach(board, cell, d, 1) + Reach(board, cell, d, -1) >= Row
           <=> \E i \in 0..Row-1 : \A k \in 0..Row-1 : Same(board, cell, d, k - i)
<1> DEFINE f == Reach(board, cell, d, 1)
           b == Reach(board, cell, d, -1)
           S(k) == Same(board, cell, d, k)
<1>1. cell \in Int \X Int /\ Row \in Nat /\ Row >= 1
  BY SizeAssumption, RowAssumption DEF Cells
<1>2. f \in 0..Row-1 /\ b \in 0..Row-1
  <2>1. CASE Row = 1
    <3>1. 1..Row-1 = {}
      BY <2>1
    <3>2. Cardinality({}) = 0
      BY FS_EmptySet
    <3>3. \A sign \in {1, -1} : Reach(board, cell, d, sign) = Cardinality({})
      BY <3>1 DEF Reach
    <3>4. QED BY <1>1, <3>2, <3>3
  <2>2. CASE Row # 1
    <3>1. 1 \in 1..Row-1
      BY <1>1, <2>2
    <3>2. QED BY <1>1, <3>1, ReachCounts
  <2>3. QED BY <2>1, <2>2
<1>3. \A j \in 1..Row-1 : /\ j <= f <=> \A k \in 1..j : S(1 * k)
                          /\ j <= b <=> \A k \in 1..j : S((-1) * k)
  BY <1>1, ReachCounts
<1>4. S(0)
  BY <1>1, AtCell DEF Same
<1> HIDE DEF f, b, S
<1>5. \A j \in 1..Row-1 : /\ j <= f <=> \A k \in 1..j : S(k)
                          /\ j <= b <=> \A k \in 1..j : S(-k)
  <2> SUFFICES ASSUME NEW j \in 1..Row-1
               PROVE  /\ j <= f <=> \A k \in 1..j : S(k)
                      /\ j <= b <=> \A k \in 1..j : S(-k)
    OBVIOUS
  <2>1. \A k \in 1..j : 1 * k = k /\ (-1) * k = -k
    BY <1>1
  <2>2. QED BY <1>3, <2>1
<1>6. ASSUME 1 + f + b >= Row
      PROVE  \E i \in 0..Row-1 : \A k \in 0..Row-1 : S(k - i)
  <2>1. ASSUME NEW k \in 0..Row-1 PROVE S(k - b)
    <3>1. CASE k = b
      BY <1>2, <1>4, <3>1
    <3>2. CASE k > b
      <4>1. f \in 1..Row-1 /\ k - b \in 1..f
        BY <1>1, <1>2, <1>6, <3>2
      <4>2. QED BY <1>2, <1>5, <4>1
    <3>3. CASE k < b
      <4>1. b \in 1..Row-1 /\ b - k \in 1..b /\ -(b - k) = k - b
        BY <1>1, <1>2, <3>3
      <4>2. S(-(b - k))
        BY <1>2, <1>5, <4>1
      <4>3. QED BY <4>1, <4>2
    <3>4. QED BY <1>2, <3>1, <3>2, <3>3
  <2>2. QED BY <1>2, <2>1
<1>7. ASSUME NEW i \in 0..Row-1, \A k \in 0..Row-1 : S(k - i)
      PROVE  1 + f + b >= Row
  <2>1. Row - 1 - i <= f
    <3>1. CASE i = Row - 1
      BY <1>1, <1>2, <3>1
    <3>2. CASE i # Row - 1
      <4>1. Row - 1 - i \in 1..Row-1
        BY <1>1, <3>2
      <4>2. ASSUME NEW k \in 1..(Row - 1 - i) PROVE S(k)
        <5>1. k + i \in 0..Row-1 /\ (k + i) - i = k
          BY <1>1
        <5>2. S((k + i) - i)
          BY <1>7, <5>1
        <5>3. QED BY <5>1, <5>2
      <4>3. QED BY <1>5, <4>1, <4>2
    <3>3. QED BY <3>1, <3>2
  <2>2. i <= b
    <3>1. CASE i = 0
      BY <1>2, <3>1
    <3>2. CASE i # 0
      <4>1. ASSUME NEW k \in 1..i PROVE S(-k)
        <5>1. i - k \in 0..Row-1 /\ (i - k) - i = -k
          BY <1>1
        <5>2. S((i - k) - i)
          BY <1>7, <5>1
        <5>3. QED BY <5>1, <5>2
      <4>2. QED BY <1>1, <1>5, <3>2, <4>1
    <3>3. QED BY <3>1, <3>2
  <2>3. QED BY <1>1, <1>2, <2>1, <2>2
<1>8. QED BY <1>6, <1>7 DEF f, b, S

-----------------------------------------------------------------------------
(* Rows *)

(* The rule of the game, by the first stone of the row. *)
LEMMA RowByStart ==
    ASSUME NEW board
    PROVE  RowOnBoard(board) <=>
               \E start \in Cells, d \in Directions, color \in Stones :
                   RowFrom(board, start, d, color)
<1> DEFINE LineOf(r, c, d) == {<<r + k * d[1], c + k * d[2]>> : k \in 0..Row-1}
           Full(line, color) == line \subseteq Cells /\ \A cell \in line : board[cell] = color
<1>1. ASSUME NEW r \in 0..Size-1, NEW c \in 0..Size-1, NEW d \in Directions, NEW color \in Stones
      PROVE  Full(LineOf(r, c, d), color) <=> RowFrom(board, <<r, c>>, d, color)
  BY DEF RowFrom, At
<1>2. Lines = {LineOf(r, c, d) : r \in 0..Size-1, c \in 0..Size-1, d \in Directions}
  BY DEF Lines
<1>3. RowOnBoard(board) <=> \E line \in Lines, color \in Stones : Full(line, color)
  BY DEF RowOnBoard
<1> HIDE DEF LineOf, Full
<1>4. ASSUME NEW line \in Lines, NEW color \in Stones, Full(line, color)
      PROVE  \E start \in Cells, d \in Directions : RowFrom(board, start, d, color)
  <2>1. PICK r \in 0..Size-1, c \in 0..Size-1, d \in Directions : line = LineOf(r, c, d)
    BY <1>2
  <2>2. <<r, c>> \in Cells /\ RowFrom(board, <<r, c>>, d, color)
    BY <1>1, <1>4, <2>1 DEF Cells
  <2>3. QED BY <2>2
<1>5. ASSUME NEW start \in Cells, NEW d \in Directions, NEW color \in Stones,
             RowFrom(board, start, d, color)
      PROVE  \E line \in Lines : Full(line, color)
  <2>1. PICK r \in 0..Size-1, c \in 0..Size-1 : start = <<r, c>>
    BY DEF Cells
  <2>2. LineOf(r, c, d) \in Lines /\ Full(LineOf(r, c, d), color)
    BY <1>1, <1>2, <1>5, <2>1
  <2>3. QED BY <2>2
<1>6. QED BY <1>3, <1>4, <1>5

(* A stone put on a free cell leaves the rows there are, and completes only rows it is
   part of.                                                                     *)
LEMMA RowsAfterStone ==
    ASSUME NEW board \in [Cells -> Colors], NEW cell \in Cells, board[cell] = SPACE,
           NEW color \in Stones, NEW new, new[cell] = color,
           \A other \in Cells : other # cell => new[other] = board[other]
    PROVE  RowOnBoard(new) <=>
               \/ RowOnBoard(board)
               \/ \E d \in Directions, i \in 0..Row-1 :
                     \A k \in 0..Row-1 : Same(new, cell, d, k - i)
<1>1. /\ SPACE \notin Stones /\ Row \in Nat /\ Row >= 1
      /\ Cells \subseteq Int \X Int
  BY RowAssumption, SizeAssumption DEF Stones, SPACE, BLACK, WHITE, Cells
<1>2. ASSUME NEW start \in Cells, NEW d \in Directions, NEW c \in Stones,
             RowFrom(board, start, d, c)
      PROVE  RowFrom(new, start, d, c)
  BY <1>1, <1>2 DEF RowFrom
<1>3. ASSUME NEW d \in Directions, NEW i \in 0..Row-1,
             \A k \in 0..Row-1 : Same(new, cell, d, k - i)
      PROVE  \E start \in Cells : RowFrom(new, start, d, color)
  <2>1. 0 \in 0..Row-1 /\ At(cell, d, 0 - i) \in Cells
    <3>1. 0 \in 0..Row-1
      BY <1>1
    <3>2. Same(new, cell, d, 0 - i)
      BY <1>3, <3>1
    <3>3. QED BY <3>1, <3>2 DEF Same
  <2>2. ASSUME NEW k \in 0..Row-1
        PROVE  At(At(cell, d, 0 - i), d, k) = At(cell, d, k - i)
    <3>1. 0 - i \in Int /\ k \in Int /\ (0 - i) + k = k - i
      BY <1>1
    <3>2. At(At(cell, d, 0 - i), d, k) = At(cell, d, (0 - i) + k)
      BY <1>1, <3>1, AtCell
    <3>3. QED BY <3>1, <3>2
  <2>3. RowFrom(new, At(cell, d, 0 - i), d, color)
    BY <1>1, <1>3, <2>2 DEF RowFrom, Same
  <2>4. QED BY <2>1, <2>3
<1>4. ASSUME NEW start \in Cells, NEW d \in Directions, NEW c \in Stones,
             RowFrom(new, start, d, c),
             NEW i \in 0..Row-1, At(start, d, i) = cell
      PROVE  \A k \in 0..Row-1 : Same(new, cell, d, k - i)
  <2> SUFFICES ASSUME NEW k \in 0..Row-1 PROVE Same(new, cell, d, k - i)
    OBVIOUS
  <2>1. i \in Int /\ k - i \in Int /\ i + (k - i) = k
    BY <1>1
  <2>2. At(cell, d, k - i) = At(start, d, i + (k - i))
    BY <1>1, <1>4, <2>1, AtCell
  <2>3. new[cell] = c
    BY <1>4 DEF RowFrom
  <2>4. QED BY <1>4, <2>1, <2>2, <2>3 DEF RowFrom, Same
<1>5. ASSUME NEW start \in Cells, NEW d \in Directions, NEW c \in Stones,
             RowFrom(new, start, d, c), \A i \in 0..Row-1 : At(start, d, i) # cell
      PROVE  RowFrom(board, start, d, c)
  BY <1>1, <1>5 DEF RowFrom
<1>6. RowOnBoard(board) => RowOnBoard(new)
  BY <1>2, RowByStart
<1>7. (\E d \in Directions, i \in 0..Row-1 : \A k \in 0..Row-1 : Same(new, cell, d, k - i))
      => RowOnBoard(new)
  BY <1>3, RowByStart
<1>8. ASSUME RowOnBoard(new)
      PROVE  \/ RowOnBoard(board)
             \/ \E d \in Directions, i \in 0..Row-1 :
                   \A k \in 0..Row-1 : Same(new, cell, d, k - i)
  <2>1. PICK start \in Cells, d \in Directions, c \in Stones : RowFrom(new, start, d, c)
    BY <1>8, RowByStart
  <2>2. CASE \E i \in 0..Row-1 : At(start, d, i) = cell
    BY <1>4, <2>1, <2>2
  <2>3. CASE \A i \in 0..Row-1 : At(start, d, i) # cell
    <3>1. RowFrom(board, start, d, c)
      BY <1>5, <2>1, <2>3
    <3>2. QED BY <3>1, RowByStart
  <2>4. QED BY <2>2, <2>3
<1>9. QED BY <1>6, <1>7, <1>8

-----------------------------------------------------------------------------
(* The game *)

GameInv == TypeOK /\ WinAnnounced

(* No row on the empty board. *)
LEMMA GameInit ==
    chess = ChessInit /\ won = FALSE => GameInv
<1> SUFFICES ASSUME chess = ChessInit, won = FALSE PROVE GameInv
  OBVIOUS
<1>1. chess.board = [cell \in Cells |-> SPACE] /\ chess.record = << >>
  BY DEF ChessInit
<1>2. TypeOK
  <2>1. [cell \in Cells |-> SPACE] \in [Cells -> Colors] /\ << >> \in Seq(Byte)
    BY DEF Colors
  <2>2. ChessInit \in ChessStates
    BY <2>1 DEF ChessInit, ChessStates
  <2>3. QED BY <2>2 DEF TypeOK
<1>3. ASSUME NEW start \in Cells, NEW d \in Directions, NEW color \in Stones,
             RowFrom(chess.board, start, d, color)
      PROVE  FALSE
  <2>1. 0 \in 0..Row-1 /\ SPACE \notin Stones
    BY RowAssumption DEF Stones, SPACE, BLACK, WHITE
  <2>2. QED BY <1>1, <1>3, <2>1 DEF RowFrom
<1>4. ~ RowOnBoard(chess.board)
  BY <1>3, RowByStart
<1>5. QED BY <1>2, <1>4 DEF GameInv, WinAnnounced

(* A stone: what the test answers is what the new board shows. *)
LEMMA GameStone ==
    ASSUME GameInv, PlayStone
    PROVE  GameInv'
<1>1. PICK move \in 0..MaxMoves-1, coor \in Coors :
         /\ CanStone(chess, move, coor)
         /\ chess' = Stone(chess, coor)
         /\ won' = (won \/ DidYouWin(chess'))
  BY DEF PlayStone
<1> DEFINE cell  == parseCoor(coor)
           color == WhoseTurn(chess)
           n     == Len(chess.record)
<1>2. chess \in ChessStates /\ chess.record \in Seq(Byte) /\ n \in Nat
      /\ chess.board \in [Cells -> Colors] /\ won \in BOOLEAN /\ coor \in Byte
  BY CoorsAssumption DEF GameInv, TypeOK, ChessStates
<1>3. cell \in Cells /\ chess.board[cell] = SPACE
  <2>1. cell[1] \in Int /\ cell[2] \in Int /\ cell = <<cell[1], cell[2]>>
    BY <1>2 DEF Byte, parseCoor
  <2>2. isVaildCoor(cell) /\ chess.board[cell] = SPACE
    BY <1>1 DEF CanStone
  <2> HIDE DEF cell
  <2>3. QED BY <2>1, <2>2, SizeAssumption DEF isVaildCoor, Cells
<1>4. color \in Stones
  <2>1. n % 2 \in {0, 1}
    <3> HIDE DEF n
    <3>1. QED BY <1>2
  <2>2. QED BY <2>1 DEF WhoseTurn, Stones, BLACK, WHITE
<1>5. /\ chess'.board = [chess.board EXCEPT ![cell] = color]
      /\ chess'.record = Append(chess.record, coor)
  BY <1>1 DEF Stone
<1>6. /\ chess'.record \in Seq(Byte) /\ chess'.record # << >>
      /\ chess'.record[Len(chess'.record)] = coor
  BY <1>2, <1>5
<1>7. DidYouWin(chess') <=> \E d \in Directions :
         1 + Reach(chess'.board, cell, d, 1) + Reach(chess'.board, cell, d, -1) >= Row
  BY <1>6 DEF DidYouWin
<1> HIDE DEF cell, color
<1>8. TypeOK'
  <2>1. chess' = [board |-> chess'.board, record |-> chess'.record]
    BY <1>1 DEF Stone
  <2>2. chess'.board \in [Cells -> Colors]
    BY <1>2, <1>4, <1>5 DEF Colors
  <2>3. chess' \in ChessStates
    BY <1>6, <2>1, <2>2 DEF ChessStates
  <2>4. QED BY <1>1, <1>2, <2>3 DEF TypeOK, DidYouWin
<1>9. DidYouWin(chess') <=> \E d \in Directions, i \in 0..Row-1 :
         \A k \in 0..Row-1 : Same(chess'.board, cell, d, k - i)
  BY <1>3, <1>7, RowThroughStone
<1>10. RowOnBoard(chess'.board) <=> RowOnBoard(chess.board) \/ DidYouWin(chess')
  <2> DEFINE board == chess.board
             new   == chess'.board
  <2>1. /\ board \in [Cells -> Colors] /\ board[cell] = SPACE
        /\ new[cell] = color /\ \A other \in Cells : other # cell => new[other] = board[other]
    BY <1>2, <1>3, <1>5
  <2>2. DidYouWin(chess') <=> \E d \in Directions, i \in 0..Row-1 :
           \A k \in 0..Row-1 : Same(new, cell, d, k - i)
    BY <1>9
  <2> HIDE DEF board, new
  <2>3. RowOnBoard(new) <=>
           \/ RowOnBoard(board)
           \/ \E d \in Directions, i \in 0..Row-1 :
                 \A k \in 0..Row-1 : Same(new, cell, d, k - i)
    BY <1>3, <1>4, <2>1, RowsAfterStone
  <2>4. QED BY <2>2, <2>3 DEF board, new
<1>11. WinAnnounced'
  BY <1>1, <1>10 DEF GameInv, WinAnnounced
<1>12. QED BY <1>8, <1>11 DEF GameInv

(* The invariant of every game, stones and restarts. *)
LEMMA GameAlways == Spec => []GameInv
<1>1. Init => GameInv
  BY GameInit DEF Init
<1>2. GameInv /\ [Next]_vars => GameInv'
  <2> SUFFICES ASSUME GameInv, [Next]_vars PROVE GameInv'
    OBVIOUS
  <2>1. CASE PlayStone
    BY <2>1, GameStone
  <2>2. CASE Restart
    <3>1. (chess = ChessInit /\ won = FALSE)'
      BY <2>2 DEF Restart, ChessInit
    <3>2. (chess = ChessInit /\ won = FALSE => GameInv)'
      BY GameInit, PTL
    <3>3. QED BY <3>1, <3>2
  <2>3. CASE UNCHANGED vars
    BY <2>3 DEF vars, GameInv, TypeOK, WinAnnounced
  <2>4. QED BY <2>1, <2>2, <2>3 DEF Next
<1>3. QED BY <1>1, <1>2, PTL DEF Spec

-----------------------------------------------------------------------------
(* The game stays a game: the board is full of colours, the record of bytes. *)
THEOREM GameTypes == Spec => []TypeOK
<1>1. GameInv => TypeOK
  BY DEF GameInv
<1>2. QED BY <1>1, GameAlways, PTL

(* The winning test (chess.go:52-82), which looks at the last stone only, announces a
   win exactly when the board shows a row: for every size of the board, every length
   of a row and every game.                                                     *)
THEOREM WinAlwaysAnnounced == Spec => []WinAnnounced
<1>1. GameInv => WinAnnounced
  BY DEF GameInv
<1>2. QED BY <1>1, GameAlways, PTL
=============================================================================
