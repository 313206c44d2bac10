-------------------------- MODULE XoHandlerProofs --------------------------
(***************************************************************************)
(* XoHandler for every set of names, players and addresses: the stored     *)
(* games are sound, and each name is one game of XoGames, whichever names  *)
(* share an address.                                                       *)
(***************************************************************************)
EXTENDS XoHandler, FiniteSetTheorems, TLAPS

USE AddressAssumption, NameAssumption, PlayerAssumption, NoGameAssumption

Boards == [1..9 -> {"-", "X", "O"}]

(* A board has nine spaces.                                                *)
LEMMA SpacesFinite == IsFiniteSet(1..9) /\ Cardinality(1..9) = 9
<1>1. IsFiniteSet(1..9) /\ Cardinality(1..9) = IF 1 > 9 THEN 0 ELSE 9 - 1 + 1
  BY ONLY FS_Interval, 1 \in Int, 9 \in Int
<1>2. QED  BY <1>1

(* The marks of a kind can be counted.                                     *)
LEMMA Countable ==
  ASSUME NEW b, NEW m
  PROVE  /\ IsFiniteSet(Marked(b, m)) /\ Cardinality(Marked(b, m)) \in Nat
         /\ Marked(b, m) \subseteq 1..9
<1>1. IsFiniteSet(1..9)
  BY SpacesFinite
<1>2. Marked(b, m) \in SUBSET (1..9)
  BY DEF Marked
<1>3. QED  BY <1>1, <1>2, FS_Subset, FS_CardinalityType

(* A mark on a free space changes the spaces of that mark only.            *)
LEMMA AddMark ==
  ASSUME NEW b \in Boards, NEW s \in 1..9, b[s] = "-",
         NEW m \in {"X", "O"}, NEW other \in {"X", "O"}, other # m,
         NEW b2, b2 = [b EXCEPT ![s] = m]
  PROVE  /\ b2 \in Boards
         /\ Marked(b2, m) = Marked(b, m) \cup {s}
         /\ Cardinality(Marked(b2, m)) = Cardinality(Marked(b, m)) + 1
         /\ Marked(b2, other) = Marked(b, other)
<1>1. b2 \in Boards
  BY DEF Boards
<1>2. Marked(b2, m) = Marked(b, m) \cup {s} /\ s \notin Marked(b, m)
  BY DEF Boards, Marked
<1>3. Marked(b2, other) = Marked(b, other)
  BY DEF Boards, Marked
<1>4. Cardinality(Marked(b2, m)) = Cardinality(Marked(b, m)) + 1
  BY <1>2, Countable, FS_AddElement
<1>5. QED  BY <1>1, <1>2, <1>3, <1>4

(* Nine marks fill the board.                                              *)
LEMMA FullBoard ==
  ASSUME NEW b \in Boards, Marked(b, "-") = {}
  PROVE  Cardinality(Marked(b, "X")) + Cardinality(Marked(b, "O")) = 9
<1>1. /\ Marked(b, "X") \cup Marked(b, "O") = 1..9
      /\ Marked(b, "X") \cap Marked(b, "O") = {}
  BY DEF Boards, Marked
<1>2. Cardinality(1..9) = 9
  BY SpacesFinite
<1>3. Cardinality(Marked(b, "X") \cap Marked(b, "O")) = 0
  BY <1>1, FS_EmptySet
<1>4. Cardinality(1..9) = Cardinality(Marked(b, "X")) + Cardinality(Marked(b, "O"))
                          - Cardinality(Marked(b, "X") \cap Marked(b, "O"))
  BY <1>1, Countable, FS_Union
<1>5. QED  BY <1>2, <1>3, <1>4, Countable

-----------------------------------------------------------------------------
(* One game.                                                               *)

SeatsFit(g) == /\ g.player1 = Nobody <=> Marked(g.board, "X") = {}
               /\ g.player2 = Nobody <=> Marked(g.board, "O") = {}

GoodGame(g) == g \in Games /\ StateFitsBoard(g) /\ SeatsFit(g)

(* A new game has an empty board.                                          *)
LEMMA NewGameGood == GoodGame(NewGame)
<1>1. NewGame \in Games
  BY DEF NewGame, Games
<1>2. /\ Marked(NewGame.board, "X") = {} /\ Marked(NewGame.board, "O") = {}
      /\ Marked(NewGame.board, "-") = 1..9 /\ NewGame.state = "P1-NEXT"
      /\ NewGame.player1 = Nobody /\ NewGame.player2 = Nobody
  BY DEF NewGame, Marked
<1>3. ~IsWin(NewGame.board, "X") /\ ~IsWin(NewGame.board, "O")
  BY <1>2 DEF IsWin, Wins
<1>4. 1..9 # {}
  OBVIOUS
<1>5. StateFitsBoard(NewGame)
  BY <1>2, <1>3, <1>4, FS_EmptySet DEF StateFitsBoard, NumberOf
<1>6. QED  BY <1>1, <1>2, <1>5 DEF GoodGame, SeatsFit

(* What a take makes of each part of the game.                             *)
LEMMA TakenParts ==
  ASSUME NEW g \in Games, NEW signer \in Players, NEW s \in 1..9
  PROVE  LET t == Taken(g, signer, s)
             b2 == UpdateBoard(g.board, s, g.state)
         IN /\ t \in Games
            /\ t.board = b2
            /\ t.state = UpdateGameState(g.state, b2)
            /\ t.player1 = IF g.player1 = Nobody THEN signer ELSE g.player1
            /\ t.player2 = IF g.player1 # Nobody /\ g.player2 = Nobody
                           THEN signer ELSE g.player2
<1> DEFINE b2 == UpdateBoard(g.board, s, g.state)
<1>1. b2 \in Boards
  BY DEF Games, Boards, UpdateBoard
<1>2. UpdateGameState(g.state, b2) \in
        {"P1-NEXT", "P2-NEXT", "P1-WIN", "P2-WIN", "TIE"}
  BY DEF UpdateGameState
<1> HIDE DEF b2
<1>3. QED  BY <1>1, <1>2 DEF Games, Boards, Taken, TakeSeat, b2

(* The board a take leaves, in X's turn and in O's.                        *)
LEMMA TakenBoard ==
  ASSUME NEW g, GoodGame(g), NEW signer \in Players, NEW s \in 1..9,
         CanTake(g, signer, s),
         NEW m \in {"X", "O"}, NEW other \in {"X", "O"}, other # m,
         m = "X" <=> g.state = "P1-NEXT"
  PROVE  LET b2 == UpdateBoard(g.board, s, g.state) IN
         /\ g.state \in {"P1-NEXT", "P2-NEXT"}
         /\ b2 \in Boards
         /\ Marked(b2, m) = Marked(g.board, m) \cup {s}
         /\ Cardinality(Marked(b2, m)) = Cardinality(Marked(g.board, m)) + 1
         /\ Marked(b2, other) = Marked(g.board, other)
         /\ ~IsWin(b2, other)
<1>1. /\ g.board \in Boards /\ g.board[s] = "-"
      /\ g.state \in {"P1-NEXT", "P2-NEXT"}
  BY DEF GoodGame, Games, Boards, CanTake
<1>2. UpdateBoard(g.board, s, g.state) = [g.board EXCEPT ![s] = m]
  BY <1>1 DEF UpdateBoard
<1>3. ~IsWin(g.board, other)
  BY <1>1 DEF GoodGame, StateFitsBoard
<1> DEFINE b2 == [g.board EXCEPT ![s] = m]
<1>4. /\ b2 \in Boards /\ Marked(b2, m) = Marked(g.board, m) \cup {s}
      /\ Cardinality(Marked(b2, m)) = Cardinality(Marked(g.board, m)) + 1
      /\ Marked(b2, other) = Marked(g.board, other)
  <2>1. PICK b : b = g.board
    OBVIOUS
  <2>2. b \in Boards /\ b[s] = "-" /\ b2 = [b EXCEPT ![s] = m]
    BY <1>1, <2>1
  <2> HIDE DEF b2
  <2>3. QED  BY <2>1, <2>2, AddMark
<1>5. ~IsWin(b2, other)
  BY <1>3, <1>4 DEF IsWin
<1>6. QED  BY <1>1, <1>2, <1>4, <1>5

(* Only the player who moves can win by the move.                          *)
LEMMA TakeWins ==
  ASSUME NEW g, GoodGame(g), NEW signer \in Players, NEW s \in 1..9,
         CanTake(g, signer, s)
  PROVE  ~TwoWinners(UpdateBoard(g.board, s, g.state))
<1>1. CASE g.state = "P1-NEXT"
  BY <1>1, TakenBoard DEF TwoWinners
<1>2. CASE g.state # "P1-NEXT"
  BY <1>2, TakenBoard DEF TwoWinners
<1>3. QED  BY <1>1, <1>2

(* A take leaves a good game.                                              *)
LEMMA TakenGood ==
  ASSUME NEW g, GoodGame(g), NEW signer \in Players, NEW s \in 1..9,
         CanTake(g, signer, s)
  PROVE  GoodGame(Taken(g, signer, s))
<1> DEFINE t == Taken(g, signer, s)
           b2 == UpdateBoard(g.board, s, g.state)
<1>1. /\ t \in Games /\ t.board = b2 /\ t.state = UpdateGameState(g.state, b2)
      /\ t.player1 = IF g.player1 = Nobody THEN signer ELSE g.player1
      /\ t.player2 = IF g.player1 # Nobody /\ g.player2 = Nobody
                     THEN signer ELSE g.player2
  BY TakenParts DEF GoodGame
<1>2. /\ Cardinality(Marked(g.board, "X")) \in Nat
      /\ Cardinality(Marked(g.board, "O")) \in Nat
  BY Countable
<1> HIDE DEF t, b2
<1>3. CASE g.state = "P1-NEXT"
  <2>1. /\ b2 \in Boards
        /\ Marked(b2, "X") = Marked(g.board, "X") \cup {s}
        /\ Cardinality(Marked(b2, "X")) = Cardinality(Marked(g.board, "X")) + 1
        /\ Marked(b2, "O") = Marked(g.board, "O") /\ ~IsWin(b2, "O")
    BY <1>3, TakenBoard DEF b2
  <2>2. Cardinality(Marked(g.board, "X")) = Cardinality(Marked(g.board, "O"))
    BY <1>2, <1>3 DEF GoodGame, StateFitsBoard, NumberOf
  <2>3. StateFitsBoard(t)
    BY <1>1, <1>2, <1>3, <2>1, <2>2 DEF StateFitsBoard, NumberOf, UpdateGameState
  <2>4. g.player1 = Nobody => g.player2 = Nobody
    <3>1. HAVE g.player1 = Nobody
    <3>2. Cardinality(Marked(g.board, "O")) = 0
      BY <2>2, <3>1, FS_EmptySet DEF GoodGame, SeatsFit
    <3>3. QED  BY <3>2, Countable, FS_EmptySet DEF GoodGame, SeatsFit
  <2>5. g.player1 # Nobody => g.player2 # Nobody
    <3>1. HAVE g.player1 # Nobody
    <3>2. Cardinality(Marked(g.board, "X")) # 0
      BY <3>1, Countable, FS_EmptySet DEF GoodGame, SeatsFit
    <3>3. QED  BY <2>2, <3>2, FS_EmptySet DEF GoodGame, SeatsFit
  <2>6. SeatsFit(t)
    BY <1>1, <2>1, <2>4, <2>5 DEF GoodGame, SeatsFit
  <2>7. QED  BY <1>1, <2>3, <2>6 DEF GoodGame, t
<1>4. CASE g.state # "P1-NEXT"
  <2>1. /\ g.state = "P2-NEXT" /\ b2 \in Boards
        /\ Marked(b2, "O") = Marked(g.board, "O") \cup {s}
        /\ Cardinality(Marked(b2, "O")) = Cardinality(Marked(g.board, "O")) + 1
        /\ Marked(b2, "X") = Marked(g.board, "X") /\ ~IsWin(b2, "X")
    BY <1>4, TakenBoard DEF b2
  <2>2. Cardinality(Marked(g.board, "X")) = Cardinality(Marked(g.board, "O")) + 1
    BY <1>2, <2>1 DEF GoodGame, StateFitsBoard, NumberOf
  <2>3. Marked(b2, "-") # {}
    BY <1>2, <2>1, <2>2, FullBoard
  <2>4. StateFitsBoard(t)
    BY <1>1, <1>2, <2>1, <2>2, <2>3 DEF StateFitsBoard, NumberOf, UpdateGameState
  <2>5. g.player1 # Nobody
    <3>1. Cardinality(Marked(g.board, "X")) # 0
      BY <1>2, <2>2
    <3>2. QED  BY <3>1, FS_EmptySet DEF GoodGame, SeatsFit
  <2>6. SeatsFit(t)
    BY <1>1, <2>1, <2>5 DEF GoodGame, SeatsFit
  <2>7. QED  BY <1>1, <2>4, <2>6 DEF GoodGame, t
<1>5. QED  BY <1>3, <1>4

-----------------------------------------------------------------------------
(* All games: the inductive invariant.                                     *)

MarksOf(n) ==
  /\ \A s \in Marked(GetGame(n).board, "X") : by[n][s] = GetGame(n).player1
  /\ \A s \in Marked(GetGame(n).board, "O") : by[n][s] = GetGame(n).player2

XInv == /\ TypeOK
        /\ \A n \in Names : GetGame(n) # NoGame => GoodGame(GetGame(n)) /\ MarksOf(n)

(* The invariant holds before any transaction.                             *)
LEMMA InitXInv == Init => XInv
BY DEF Init, XInv, TypeOK, GetGame

(* A game that is set is the only one that changes.                        *)
LEMMA SetGameStep ==
  ASSUME TypeOK, NEW n \in Names, NEW g \in Games \cup {NoGame}, SetGame(n, g),
         by' \in [Names -> [1..9 -> Players \cup {Nobody}]]
  PROVE  /\ TypeOK' /\ GetGame(n)' = g
         /\ \A m \in Names : m # n => GetGame(m)' = GetGame(m)
<1>1. AddressOf[n] \in Addresses
  OBVIOUS
<1>2. \A a \in Addresses, m \in Names :
        state'[a][m] = IF a = AddressOf[n] /\ m = n THEN g ELSE state[a][m]
  BY <1>1 DEF SetGame, TypeOK
<1>3. state' \in [Addresses -> [Names -> Games \cup {NoGame}]]
  BY <1>1 DEF SetGame, TypeOK
<1>4. QED  BY <1>1, <1>2, <1>3 DEF TypeOK, GetGame

(* A created game is empty, and so is the history of its marks.            *)
LEMMA CreateStep ==
  ASSUME XInv, NEW p \in Payloads, NEW signer \in Players, Create(p, signer)
  PROVE  XInv'
<1>1. p.name \in Names /\ NewGame \in Games /\ GoodGame(NewGame)
  BY NewGameGood DEF Create, WellFormed, GoodGame
<1>2. /\ TypeOK' /\ GetGame(p.name)' = NewGame
      /\ \A m \in Names : m # p.name => GetGame(m)' = GetGame(m)
  BY <1>1, SetGameStep DEF Create, XInv, TypeOK
<1>3. MarksOf(p.name)'
  BY <1>2 DEF MarksOf, NewGame, Marked
<1>4. \A m \in Names : m # p.name => by'[m] = by[m]
  BY DEF Create, XInv, TypeOK
<1>5. QED  BY <1>1, <1>2, <1>3, <1>4 DEF XInv, MarksOf

(* A deleted game leaves the others as they are.                           *)
LEMMA DeleteStep ==
  ASSUME XInv, NEW p \in Payloads, NEW signer \in Players, Delete(p, signer)
  PROVE  XInv'
<1>1. p.name \in Names /\ SetGame(p.name, NoGame)
  BY DEF Delete, WellFormed, DeleteGame, SetGame
<1>2. /\ TypeOK' /\ GetGame(p.name)' = NoGame
      /\ \A m \in Names : m # p.name => GetGame(m)' = GetGame(m)
  BY <1>1, SetGameStep DEF Delete, XInv, TypeOK
<1>3. QED  BY <1>2 DEF XInv, MarksOf, Delete

(* The mark of a take is its signer's, who holds the seat of that mark.    *)
LEMMA TakeMarks ==
  ASSUME XInv, NEW p \in Payloads, NEW signer \in Players, Take(p, signer),
         GetGame(p.name)' = Taken(GetGame(p.name), signer, p.space)
  PROVE  MarksOf(p.name)'
<1> DEFINE n == p.name
           g == GetGame(n)
           s == p.space
           t == Taken(g, signer, s)
<1>1. /\ n \in Names /\ s \in 1..9 /\ CanTake(g, signer, s)
      /\ g \in Games /\ GoodGame(g) /\ MarksOf(n)
  BY DEF Take, WellFormed, CanTake, XInv, GoodGame
<1>2. /\ by'[n][s] = signer
      /\ \A r \in 1..9 : r # s => by'[n][r] = by[n][r]
  BY <1>1 DEF Take, XInv, TypeOK
<1>3. /\ t.board = UpdateBoard(g.board, s, g.state)
      /\ t.player1 = IF g.player1 = Nobody THEN signer ELSE g.player1
      /\ t.player2 = IF g.player1 # Nobody /\ g.player2 = Nobody
                     THEN signer ELSE g.player2
  BY <1>1, TakenParts
<1>4. g.board[s] = "-" /\ g.board \in Boards
  BY <1>1 DEF CanTake, Games, Boards
<1>free. s \notin Marked(g.board, "X") /\ s \notin Marked(g.board, "O")
  BY <1>4 DEF Marked
<1>5. CASE g.state = "P1-NEXT"
  <2>1. /\ Marked(t.board, "X") = Marked(g.board, "X") \cup {s}
        /\ Marked(t.board, "O") = Marked(g.board, "O")
    BY <1>1, <1>3, <1>5, TakenBoard
  <2>2. t.player1 = signer /\ (g.player1 # Nobody => g.player1 = signer)
    BY <1>1, <1>3, <1>5 DEF CanTake, IsTurn
  <2>3. \A r \in Marked(g.board, "X") : by'[n][r] = t.player1
    BY <1>1, <1>2, <1>free, <2>2, Countable DEF GoodGame, SeatsFit, MarksOf
  <2>4. \A r \in Marked(g.board, "O") : by'[n][r] = t.player2
    BY <1>1, <1>2, <1>3, <1>free, Countable DEF GoodGame, SeatsFit, MarksOf
  <2>5. QED  BY <1>2, <2>1, <2>2, <2>3, <2>4 DEF MarksOf
<1>6. CASE g.state # "P1-NEXT"
  <2>1. /\ g.state = "P2-NEXT"
        /\ Marked(t.board, "O") = Marked(g.board, "O") \cup {s}
        /\ Marked(t.board, "X") = Marked(g.board, "X")
    BY <1>1, <1>3, <1>6, TakenBoard
  <2>2. g.player1 # Nobody
    <3>1. Cardinality(Marked(g.board, "X")) = Cardinality(Marked(g.board, "O")) + 1
      BY <1>1, <2>1, Countable DEF GoodGame, StateFitsBoard, NumberOf
    <3>2. Cardinality(Marked(g.board, "X")) # 0
      BY <3>1, Countable
    <3>3. QED  BY <1>1, <3>2, FS_EmptySet DEF GoodGame, SeatsFit
  <2>3. t.player1 = g.player1 /\ t.player2 = signer
        /\ (g.player2 # Nobody => g.player2 = signer)
    BY <1>1, <1>3, <2>1, <2>2 DEF CanTake, IsTurn
  <2>4. \A r \in Marked(g.board, "X") : by'[n][r] = t.player1
    BY <1>1, <1>2, <1>free, <2>3, Countable DEF MarksOf
  <2>5. \A r \in Marked(g.board, "O") : by'[n][r] = t.player2
    BY <1>1, <1>2, <1>free, <2>3, Countable DEF GoodGame, SeatsFit, MarksOf
  <2>6. QED  BY <1>2, <2>1, <2>3, <2>4, <2>5 DEF MarksOf
<1>7. QED  BY <1>5, <1>6

(* A take leaves a good game and the others as they are.                   *)
LEMMA TakeStep ==
  ASSUME XInv, NEW p \in Payloads, NEW signer \in Players, Take(p, signer)
  PROVE  XInv'
<1> DEFINE n == p.name
           g == GetGame(n)
           t == Taken(g, signer, p.space)
<1>1. /\ n \in Names /\ p.space \in 1..9 /\ CanTake(g, signer, p.space)
      /\ g \in Games /\ GoodGame(g)
  BY DEF Take, WellFormed, CanTake, XInv, GoodGame
<1>2. t \in Games /\ GoodGame(t) /\ t # NoGame
  BY <1>1, TakenGood DEF GoodGame
<1>3. by' \in [Names -> [1..9 -> Players \cup {Nobody}]]
  BY <1>1 DEF Take, XInv, TypeOK
<1>4. SetGame(n, t)
  BY DEF Take
<1> HIDE DEF t
<1>5. /\ TypeOK' /\ GetGame(n)' = t
      /\ \A m \in Names : m # n => GetGame(m)' = GetGame(m)
  BY <1>1, <1>2, <1>3, <1>4, SetGameStep DEF XInv
<1>6. MarksOf(n)'
  BY <1>5, TakeMarks DEF t
<1>7. \A m \in Names : m # n => by'[m] = by[m]
  BY <1>1 DEF Take, XInv, TypeOK
<1>8. QED  BY <1>2, <1>5, <1>6, <1>7 DEF XInv, MarksOf

(* Every transaction preserves the invariant.                              *)
LEMMA NextXInv == XInv /\ [Next]_vars => XInv'
<1> SUFFICES ASSUME XInv, [Next]_vars PROVE XInv'
  OBVIOUS
<1>1. ASSUME NEW p \in Payloads, NEW signer \in Players,
             Refuse(p, signer) \/ Fail(p, signer)
      PROVE  XInv'
  BY <1>1 DEF Refuse, Fail, XInv, TypeOK, GetGame, MarksOf
<1>2. CASE UNCHANGED vars
  BY <1>2 DEF vars, XInv, TypeOK, GetGame, MarksOf
<1>3. QED  BY <1>1, <1>2, CreateStep, DeleteStep, TakeStep DEF Next

(* The invariant holds in every reachable state.                           *)
THEOREM XInvAlways == Spec => []XInv
<1>1. QED  BY InitXInv, NextXInv, PTL DEF Spec

(* Stored games have their type and lie at their names' addresses.         *)
THEOREM TypeCorrect == Spec => []TypeOK
<1>1. XInv => TypeOK
  BY DEF XInv
<1>2. QED  BY <1>1, XInvAlways, PTL

(* The stored state of every game is the one its board calls for.          *)
THEOREM BoardsAndStatesAgree == Spec => []BoardMatchesState
<1>1. XInv => BoardMatchesState
  BY DEF XInv, GoodGame, BoardMatchesState
<1>2. QED  BY <1>1, XInvAlways, PTL

(* The InternalError for two winners is never raised.                      *)
THEOREM NeverTwoWinners == Spec => []OnlyOneWinner
<1>1. XInv => OnlyOneWinner
  BY TakeWins DEF XInv, OnlyOneWinner, CanTake
<1>2. QED  BY <1>1, XInvAlways, PTL

(* Every mark is its player's.                                             *)
THEOREM MarksAreTheirPlayers == Spec => []MarksByTheirPlayer
<1>1. XInv => MarksByTheirPlayer
  BY DEF XInv, GoodGame, SeatsFit, MarksOf, MarksByTheirPlayer
<1>2. QED  BY <1>1, XInvAlways, PTL

-----------------------------------------------------------------------------
(* XoHandler implements XoGames.                                           *)

(* XoGames counts with the same Cardinality.                               *)
LEMMA SameCardinality ==
  ASSUME NEW S
  PROVE  Play!Cardinality(S) = Cardinality(S)
BY DEF Play!Cardinality, Cardinality, Play!IsFiniteSet, IsFiniteSet

(* The game of XoGames that a good game stands for: its turn, its end and  *)
(* its free spaces.                                                        *)
LEMMA AbstractGame ==
  ASSUME NEW g, GoodGame(g)
  PROVE  LET a == Abstract(g) IN
         /\ g # NoGame /\ a # NoGame
         /\ a = [x |-> Marked(g.board, "X"), o |-> Marked(g.board, "O"),
                 player1 |-> g.player1, player2 |-> g.player2]
         /\ g.state \in {"P1-NEXT", "P2-NEXT"} =>
              (Play!XMoves(a) <=> g.state = "P1-NEXT")
         /\ Play!Over(a) <=> g.state \in {"P1-WIN", "P2-WIN", "TIE"}
         /\ \A s \in 1..9 : s \notin a.x \cup a.o <=> g.board[s] = "-"
<1> DEFINE a == Abstract(g)
<1>1. g # NoGame /\ g \in Games
  BY DEF GoodGame
<1>2. a = [x |-> Marked(g.board, "X"), o |-> Marked(g.board, "O"),
           player1 |-> g.player1, player2 |-> g.player2]
  BY <1>1 DEF Abstract
<1>3. a # NoGame
  BY <1>1, <1>2 DEF Games, Marked
<1>4. g.state \in {"P1-NEXT", "P2-NEXT"} => (Play!XMoves(a) <=> g.state = "P1-NEXT")
  <2>1. /\ Cardinality(a.x) \in Nat /\ Cardinality(a.o) \in Nat
        /\ Cardinality(a.x) = Cardinality(a.o)
             + (IF g.state \in {"P2-NEXT", "P1-WIN", "TIE"} THEN 1 ELSE 0)
    BY <1>2, Countable DEF GoodGame, StateFitsBoard, NumberOf
  <2> HIDE DEF a
  <2>2. CASE g.state = "P1-NEXT"
    BY <2>1, <2>2, SameCardinality DEF Play!XMoves
  <2>3. CASE g.state = "P2-NEXT"
    BY <2>1, <2>3, SameCardinality DEF Play!XMoves
  <2>4. QED  BY <2>2, <2>3
<1>5. /\ Play!HasLine(a.x) <=> g.state = "P1-WIN"
      /\ Play!HasLine(a.o) <=> g.state = "P2-WIN"
  BY <1>2 DEF GoodGame, StateFitsBoard, IsWin, Wins, Play!HasLine, Play!Lines
<1>6. a.x \cup a.o = 1..9 <=> Marked(g.board, "-") = {}
  BY <1>1, <1>2 DEF Games, Marked
<1>7. Play!Over(a) <=> g.state \in {"P1-WIN", "P2-WIN", "TIE"}
  BY <1>1, <1>5, <1>6 DEF GoodGame, Games, StateFitsBoard, Play!Over
<1>8. \A s \in 1..9 : s \notin a.x \cup a.o <=> g.board[s] = "-"
  BY <1>1, <1>2 DEF Games, Marked
<1>9. QED  BY <1>1, <1>2, <1>3, <1>4, <1>7, <1>8

(* apply() accepts a move exactly when the game of XoGames does.           *)
LEMMA TakePossible ==
  ASSUME NEW g, GoodGame(g), NEW signer \in Players, NEW s \in 1..9
  PROVE  LET a == Abstract(g) IN
         CanTake(g, signer, s) <=>
           /\ s \notin a.x \cup a.o
           /\ ~Play!Over(a)
           /\ Play!Seat(a) \in {Nobody, signer}
<1> DEFINE a == Abstract(g)
<1>1. g \in Games
  BY DEF GoodGame
<1>2. CASE g.state \in {"P1-NEXT", "P2-NEXT"}
  <2>1. Play!Seat(a) = IF g.state = "P1-NEXT" THEN g.player1 ELSE g.player2
    BY <1>2, AbstractGame DEF Play!Seat
  <2>2. Play!Seat(a) \in {Nobody, signer} <=> IsTurn(g, signer)
    BY <1>2, <2>1 DEF IsTurn
  <2>3. QED  BY <1>2, <2>2, AbstractGame DEF CanTake
<1>3. CASE g.state \in {"P1-WIN", "P2-WIN", "TIE"}
  BY <1>3, AbstractGame DEF CanTake
<1>4. QED  BY <1>1, <1>2, <1>3 DEF Games

(* And the move it makes is the move of XoGames.                           *)
LEMMA TakeMoves ==
  ASSUME NEW g, GoodGame(g), NEW signer \in Players, NEW s \in 1..9,
         CanTake(g, signer, s), NEW t, t.space = s, t.signer = signer
  PROVE  Abstract(Taken(g, signer, s)) = Play!Moved(Abstract(g), t)
<1> DEFINE a == Abstract(g)
           u == Taken(g, signer, s)
<1>1. /\ u # NoGame /\ u.board = UpdateBoard(g.board, s, g.state)
      /\ u.player1 = IF g.player1 = Nobody THEN signer ELSE g.player1
      /\ u.player2 = IF g.player1 # Nobody /\ g.player2 = Nobody
                     THEN signer ELSE g.player2
  <2>1. g \in Games
    BY DEF GoodGame
  <2>2. u \in Games
    BY <2>1, TakenParts
  <2>3. QED  BY <2>1, <2>2, TakenParts
<1>2. Abstract(u) = [x |-> Marked(u.board, "X"), o |-> Marked(u.board, "O"),
                     player1 |-> u.player1, player2 |-> u.player2]
  BY <1>1 DEF Abstract
<1>3. a = [x |-> Marked(g.board, "X"), o |-> Marked(g.board, "O"),
           player1 |-> g.player1, player2 |-> g.player2]
  BY AbstractGame
<1>4. GoodGame(u)
  BY TakenGood
<1> HIDE DEF u, a
<1>5. CASE g.state = "P1-NEXT"
  <2>1. /\ Marked(u.board, "X") = Marked(g.board, "X") \cup {s}
        /\ Marked(u.board, "O") = Marked(g.board, "O")
    BY <1>1, <1>5, TakenBoard
  <2>2. u.player1 = signer /\ u.player2 = g.player2
    <3>1. u.player1 = signer
      BY <1>1, <1>5 DEF CanTake, IsTurn
    <3>2. CASE g.player2 = Nobody
      BY <1>4, <2>1, <3>1, <3>2 DEF GoodGame, SeatsFit
    <3>3. CASE g.player2 # Nobody
      BY <1>1, <3>1, <3>3
    <3>4. QED  BY <3>1, <3>2, <3>3
  <2>3. Play!XMoves(a)
    BY <1>5, AbstractGame DEF a
  <2>4. Play!Moved(a, t) = [a EXCEPT !.x = a.x \cup {s}, !.player1 = signer]
    BY <2>3 DEF Play!Moved
  <2>5. Abstract(u) = Play!Moved(a, t)
    BY <1>2, <1>3, <2>1, <2>2, <2>4
  <2>6. QED  BY <2>5 DEF a, u
<1>6. CASE g.state # "P1-NEXT"
  <2>1. /\ g.state = "P2-NEXT"
        /\ Marked(u.board, "O") = Marked(g.board, "O") \cup {s}
        /\ Marked(u.board, "X") = Marked(g.board, "X")
    BY <1>1, <1>6, TakenBoard
  <2>2. g.player1 # Nobody
    <3>1. Cardinality(Marked(g.board, "X")) = Cardinality(Marked(g.board, "O")) + 1
      BY <2>1, Countable DEF GoodGame, StateFitsBoard, NumberOf
    <3>2. Cardinality(Marked(g.board, "X")) # 0
      BY <3>1, Countable
    <3>3. QED  BY <3>2, FS_EmptySet DEF GoodGame, SeatsFit
  <2>3. u.player1 = g.player1 /\ u.player2 = signer
    BY <1>1, <2>1, <2>2 DEF CanTake, IsTurn
  <2>4. ~Play!XMoves(a)
    BY <2>1, AbstractGame DEF a
  <2>5. Play!Moved(a, t) = [a EXCEPT !.o = a.o \cup {s}, !.player2 = signer]
    BY <2>4 DEF Play!Moved
  <2>6. Abstract(u) = Play!Moved(a, t)
    BY <1>2, <1>3, <2>1, <2>3, <2>5
  <2>7. QED  BY <2>6 DEF a, u
<1>7. QED  BY <1>5, <1>6

(* No games at the start.                                                  *)
LEMMA InitRefines == Init => Play!Init
BY DEF Init, Play!Init, GetGame, Abstract, NoneYet, Play!NoneYet

(* Every transaction is one of XoGames.                                    *)
LEMMA NextRefines == XInv /\ [Next]_vars => [Play!Next]_(Play!vars)
<1> SUFFICES ASSUME XInv, [Next]_vars PROVE [Play!Next]_(Play!vars)
  OBVIOUS
<1> DEFINE games == [n \in Names |-> Abstract(GetGame(n))]
<1>good. \A n \in Names : GetGame(n) # NoGame => GoodGame(GetGame(n))
  BY DEF XInv
<1>none. \A n \in Names : games[n] = NoGame <=> GetGame(n) = NoGame
  BY <1>good, AbstractGame DEF Abstract
<1>accept. ASSUME NEW p \in Payloads, NEW signer \in Players, End(p, signer, "OK"),
                  p.name \in Names, Play!Possible(last'),
                  NEW g \in Games \cup {NoGame}, SetGame(p.name, g),
                  by' \in [Names -> [1..9 -> Players \cup {Nobody}]],
                  Abstract(g) = Play!Result(last')
           PROVE  Play!Next
  <2>1. last'.name = p.name /\ last'.status = "OK"
    BY <1>accept DEF End
  <2>2. /\ GetGame(p.name)' = g
        /\ \A m \in Names : m # p.name => GetGame(m)' = GetGame(m)
    BY <1>accept, SetGameStep DEF XInv
  <2>3. games' = [games EXCEPT ![p.name] = Abstract(g)]
    BY <1>accept, <2>2 DEF Abstract
  <2>4. Play!Accept
    BY <1>accept, <2>1, <2>3 DEF Play!Accept
  <2>5. QED  BY <2>4 DEF Play!Next
<1>1. ASSUME NEW p \in Payloads, NEW signer \in Players, Create(p, signer)
      PROVE  Play!Next
  <2>1. /\ p.name \in Names /\ GetGame(p.name) = NoGame
        /\ last'.name = p.name /\ last'.action = "create"
    BY <1>1 DEF Create, WellFormed, End
  <2>2. Play!Possible(last')
    BY <2>1, <1>none DEF Play!Possible
  <2>3. NewGame \in Games /\ GoodGame(NewGame)
    BY NewGameGood DEF GoodGame
  <2>4. Abstract(NewGame) = Play!NewGame
    BY <2>3, AbstractGame DEF Play!NewGame, NewGame, Marked
  <2>5. Abstract(NewGame) = Play!Result(last')
    BY <2>1, <2>4 DEF Play!Result
  <2>6. by' \in [Names -> [1..9 -> Players \cup {Nobody}]]
    BY <1>1, <2>1 DEF Create, XInv, TypeOK
  <2>7. QED  BY <1>1, <2>1, <2>2, <2>3, <2>5, <2>6, <1>accept DEF Create
<1>2. ASSUME NEW p \in Payloads, NEW signer \in Players, Delete(p, signer)
      PROVE  Play!Next
  <2>1. /\ p.name \in Names /\ GetGame(p.name) # NoGame
        /\ last'.name = p.name /\ last'.action = "delete"
    BY <1>2 DEF Delete, WellFormed, End
  <2>2. Play!Possible(last')
    BY <2>1, <1>none DEF Play!Possible
  <2>3. Abstract(NoGame) = Play!Result(last')
    BY <2>1 DEF Play!Result, Abstract
  <2>4. by' \in [Names -> [1..9 -> Players \cup {Nobody}]]
    BY <1>2 DEF Delete, XInv, TypeOK
  <2>5. SetGame(p.name, NoGame)
    BY <1>2 DEF Delete, DeleteGame, SetGame
  <2>6. QED  BY <1>2, <2>1, <2>2, <2>3, <2>4, <2>5, <1>accept DEF Delete
<1>3. ASSUME NEW p \in Payloads, NEW signer \in Players, Take(p, signer)
      PROVE  Play!Next
  <2> DEFINE g == GetGame(p.name)
             t == Taken(g, signer, p.space)
  <2>1. /\ p.name \in Names /\ p.space \in 1..9 /\ g # NoGame
        /\ CanTake(g, signer, p.space)
        /\ last'.name = p.name /\ last'.action = "take"
        /\ last'.space = p.space /\ last'.signer = signer
    BY <1>3 DEF Take, WellFormed, CanTake, End
  <2>2. GoodGame(g) /\ games[p.name] = Abstract(g)
    BY <2>1, <1>good
  <2>3. Play!Possible(last')
    BY <2>1, <2>2, <1>none, TakePossible DEF Play!Possible
  <2>4. Abstract(t) = Play!Result(last')
    BY <2>1, <2>2, TakeMoves DEF Play!Result
  <2>5. t \in Games
    BY <2>1, <2>2, TakenParts DEF GoodGame
  <2>6. by' \in [Names -> [1..9 -> Players \cup {Nobody}]]
    BY <1>3, <2>1 DEF Take, XInv, TypeOK
  <2>7. SetGame(p.name, t) /\ End(p, signer, "OK")
    BY <1>3 DEF Take
  <2> HIDE DEF t
  <2>8. QED  BY <2>1, <2>3, <2>4, <2>5, <2>6, <2>7, <1>accept
<1>4. ASSUME NEW p \in Payloads, NEW signer \in Players, Refuse(p, signer)
      PROVE  Play!Next
  <2>1. /\ last'.name = p.name /\ last'.action = p.action
        /\ last'.space = p.space /\ last'.signer = signer
        /\ last'.status = "INVALID_TRANSACTION" /\ UNCHANGED games
    BY <1>4 DEF Refuse, End, GetGame
  <2>2. ASSUME Play!Possible(last') PROVE FALSE
    <3>1. p.name \in Names
      BY <2>1, <2>2 DEF Play!Possible
    <3>2. CASE p.action = "create" /\ games[p.name] = NoGame
      BY <1>4, <1>none, <3>1, <3>2 DEF Refuse, WellFormed
    <3>3. CASE p.action = "delete" /\ games[p.name] # NoGame
      BY <1>4, <1>none, <3>1, <3>3 DEF Refuse, WellFormed
    <3>4. CASE /\ p.action = "take" /\ games[p.name] # NoGame
               /\ p.space \in (1..9) \ (games[p.name].x \cup games[p.name].o)
               /\ ~Play!Over(games[p.name])
               /\ Play!Seat(games[p.name]) \in {Nobody, signer}
      <4>1. GoodGame(GetGame(p.name)) /\ games[p.name] = Abstract(GetGame(p.name))
        BY <1>good, <1>none, <3>1, <3>4
      <4>2. CanTake(GetGame(p.name), signer, p.space)
        BY <3>4, <4>1, TakePossible
      <4>3. QED  BY <1>4, <3>1, <3>4, <4>2 DEF Refuse, WellFormed
    <3>5. QED  BY <2>1, <2>2, <3>2, <3>3, <3>4 DEF Play!Possible
  <2>3. Play!Refuse
    BY <2>1, <2>2 DEF Play!Refuse, Play!Due
  <2>4. QED  BY <2>3 DEF Play!Next
<1>5. ASSUME NEW p \in Payloads, NEW signer \in Players, Fail(p, signer)
      PROVE  Play!Next
  <2>1. last'.status = "failed" /\ UNCHANGED games
    BY <1>5 DEF Fail, End, GetGame
  <2>2. QED  BY <2>1 DEF Play!Refuse, Play!Next
<1>6. CASE UNCHANGED vars
  BY <1>6 DEF vars, Play!vars, GetGame
<1>7. QED  BY <1>1, <1>2, <1>3, <1>4, <1>5, <1>6 DEF Next

(* Each name is one game of XoGames, also where names share an address.    *)
THEOREM GamesKept == Spec => KeepsGames
<1>1. QED
  BY InitRefines, NextRefines, XInvAlways, PTL DEF Spec, KeepsGames, Play!Spec
=============================================================================
