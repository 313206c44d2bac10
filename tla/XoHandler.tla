----------------------------- MODULE XoHandler -----------------------------
(***************************************************************************)
(* The Python xo family: XoPayload's validation, XoTransactionHandler's    *)
(* apply() and XoState, which keeps the games of all names that hash to    *)
(* one address in that address's entry.                                    *)
(*                                                                         *)
(* A transaction is one step: the validator runs it in a context of its    *)
(* own and keeps the context's writes only if the status is OK, and        *)
(* XoState's cache lives no longer than the transaction.                   *)
(***************************************************************************)
EXTENDS Integers, FiniteSets

CONSTANTS
  Names,      \* names a payload may carry
  BadNames,   \* the empty name, and names with a '|'
  Addresses,
  AddressOf,  \* _make_xo_address()
  Players,    \* public keys of signers
  Spaces,     \* spaces payloads carry
  BadSpaces,  \* what they carry besides: numbers off the board
  NoGame,     \* None
  Nobody      \* ''

ASSUME AddressAssumption == AddressOf \in [Names -> Addresses]
ASSUME NameAssumption == Names \cap BadNames = {}
ASSUME SpaceAssumption == Spaces \subseteq 1..9 /\ BadSpaces \cap 1..9 = {}
ASSUME PlayerAssumption == Nobody \notin Players

Games == [board : [1..9 -> {"-", "X", "O"}],
          state : {"P1-NEXT", "P2-NEXT", "P1-WIN", "P2-WIN", "TIE"},
          player1 : Players \cup {Nobody}, player2 : Players \cup {Nobody}]

\* No game, here and in XoGames, is None.
ASSUME NoGameAssumption ==
  /\ NoGame \notin Games
  /\ NoGame \notin [x : SUBSET (1..9), o : SUBSET (1..9),
                    player1 : Players \cup {Nobody},
                    player2 : Players \cup {Nobody}]

VARIABLES
  state,      \* state[a][n]: the Game called n in the entry at a, or NoGame
  last,       \* the last transaction and how it ended
  by          \* history: by[n][s] is the signer that marked space s

vars == << state, last, by >>

Payloads ==
  [name : Names \cup BadNames, action : {"create", "delete", "other"}, space : {0}]
    \cup [name : Names \cup BadNames, action : {"take"}, space : Spaces \cup BadSpaces]

\* XoPayload's checks.
WellFormed(p) == /\ p.name \in Names
                 /\ p.action \in {"create", "delete", "take"}
                 /\ p.action = "take" => p.space \in 1..9

-----------------------------------------------------------------------------
(* The board and the state of a game.                                      *)

Marked(board, mark) == {s \in 1..9 : board[s] = mark}

Wins == { {1, 2, 3}, {4, 5, 6}, {7, 8, 9},
          {1, 4, 7}, {2, 5, 8}, {3, 6, 9},
          {1, 5, 9}, {3, 5, 7} }

IsWin(board, letter) == \E w \in Wins : w \subseteq Marked(board, letter)

UpdateBoard(board, space, st) ==
  [board EXCEPT ![space] = IF st = "P1-NEXT" THEN "X" ELSE "O"]

\* Mutant: a full board is a tie, whether or not the last mark wins.
FullIsTie(st, board) ==
  CASE Marked(board, "-") = {} -> "TIE"
    [] IsWin(board, "X") -> "P1-WIN"
    [] IsWin(board, "O") -> "P2-WIN"
    [] st = "P1-NEXT" -> "P2-NEXT"
    [] st = "P2-NEXT" -> "P1-NEXT"

\* Mutant: the name of a won state is the one the last test looks for.
PlayerWins(st, board) ==
  IF IsWin(board, "X") THEN "P1-WINS"
  ELSE IF st = "P1-NEXT" THEN "P2-NEXT" ELSE "P1-NEXT"

\* _update_game_state() where there are not two winners.
UpdateGameState(st, board) ==
  IF IsWin(board, "X") THEN "P1-WIN"
  ELSE IF IsWin(board, "O") THEN "P2-WIN"
  ELSE IF Marked(board, "-") = {} THEN "TIE"
  ELSE IF st = "P1-NEXT" THEN "P2-NEXT" ELSE "P1-NEXT"

TwoWinners(board) == IsWin(board, "X") /\ IsWin(board, "O")

NewGame == [board |-> [s \in 1..9 |-> "-"], state |-> "P1-NEXT",
            player1 |-> Nobody, player2 |-> Nobody]

-----------------------------------------------------------------------------
(* XoState                                                                 *)

GetGame(n) == state[AddressOf[n]][n]

SetGame(n, g) == state' = [state EXCEPT ![AddressOf[n]][n] = g]

\* Mutant: the entry is deleted with the game, whatever else it holds.
DeleteEntry(n) ==
  state' = [state EXCEPT ![AddressOf[n]] = [m \in Names |-> NoGame]]

\* The other games at the address are stored again.
DeleteGame(n) == state' = [state EXCEPT ![AddressOf[n]][n] = NoGame]

-----------------------------------------------------------------------------
(* apply()                                                                 *)

\* Mutant: only player 1's turn is protected.
TurnOfPlayer1(g, signer) ==
  ~(g.player1 # Nobody /\ g.state = "P1-NEXT" /\ g.player1 # signer)

IsTurn(g, signer) ==
  /\ ~(g.player1 # Nobody /\ g.state = "P1-NEXT" /\ g.player1 # signer)
  /\ ~(g.player2 # Nobody /\ g.state = "P2-NEXT" /\ g.player2 # signer)

\* Mutant: moves are accepted after the end of the game.
TakeAfterEnd(g, signer, space) ==
  /\ g # NoGame
  /\ IsTurn(g, signer)
  /\ g.board[space] = "-"

CanTake(g, signer, space) ==
  /\ g # NoGame
  /\ g.state \notin {"P1-WIN", "P2-WIN", "TIE"}
  /\ IsTurn(g, signer)
  /\ g.board[space] = "-"

\* The free seat that comes first is the signer's.
TakeSeat(g, signer) ==
  IF g.player1 = Nobody THEN [g EXCEPT !.player1 = signer]
  ELSE IF g.player2 = Nobody THEN [g EXCEPT !.player2 = signer] ELSE g

Taken(g, signer, space) ==
  LET board == UpdateBoard(g.board, space, g.state) IN
  [TakeSeat(g, signer) EXCEPT !.board = board,
                              !.state = UpdateGameState(g.state, board)]

End(p, signer, status) ==
  last' = [name |-> p.name, action |-> p.action, space |-> p.space,
           signer |-> signer, status |-> status]

NoneYet == [name |-> NoGame, action |-> "none", space |-> 0, signer |-> Nobody,
            status |-> "none"]

Init ==
  /\ state = [a \in Addresses |-> [n \in Names |-> NoGame]]
  /\ last = NoneYet
  /\ by = [n \in Names |-> [s \in 1..9 |-> Nobody]]

Create(p, signer) ==
  /\ WellFormed(p) /\ p.action = "create"
  /\ GetGame(p.name) = NoGame
  /\ SetGame(p.name, NewGame)
  /\ by' = [by EXCEPT ![p.name] = [s \in 1..9 |-> Nobody]]
  /\ End(p, signer, "OK")

Delete(p, signer) ==
  /\ WellFormed(p) /\ p.action = "delete"
  /\ GetGame(p.name) # NoGame
  /\ DeleteGame(p.name)
  /\ End(p, signer, "OK")
  /\ UNCHANGED by

Take(p, signer) ==
  LET g == GetGame(p.name) IN
  /\ WellFormed(p) /\ p.action = "take"
  /\ CanTake(g, signer, p.space)
  /\ ~TwoWinners(UpdateBoard(g.board, p.space, g.state))
  /\ SetGame(p.name, Taken(g, signer, p.space))
  /\ by' = [by EXCEPT ![p.name][p.space] = signer]
  /\ End(p, signer, "OK")

Refuse(p, signer) ==
  /\ ~ /\ WellFormed(p)
       /\ \/ p.action = "create" /\ GetGame(p.name) = NoGame
          \/ p.action = "delete" /\ GetGame(p.name) # NoGame
          \/ p.action = "take" /\ CanTake(GetGame(p.name), signer, p.space)
  /\ End(p, signer, "INVALID_TRANSACTION")
  /\ UNCHANGED << state, by >>

\* InternalError (two winners), and whatever a context call raises: it timed
\* out, was refused, or the validator has disconnected.
Fail(p, signer) ==
  /\ WellFormed(p)
  /\ End(p, signer, "failed")
  /\ UNCHANGED << state, by >>

Next == \E p \in Payloads, signer \in Players :
          \/ Create(p, signer) \/ Delete(p, signer) \/ Take(p, signer)
          \/ Refuse(p, signer) \/ Fail(p, signer)

Spec == Init /\ [][Next]_vars

-----------------------------------------------------------------------------
(* Every stored game has its type and is stored at its name's address.     *)
TypeOK ==
  /\ state \in [Addresses -> [Names -> Games \cup {NoGame}]]
  /\ \A a \in Addresses, n \in Names : state[a][n] # NoGame => a = AddressOf[n]
  /\ by \in [Names -> [1..9 -> Players \cup {Nobody}]]

NumberOf(g, mark) == Cardinality(Marked(g.board, mark))

(* The stored state of a game is the one its board calls for: the marks    *)
(* alternate, a line ends the game for its owner and no one else, and a    *)
(* game goes on exactly as long as there is no line and a free space.      *)
StateFitsBoard(g) ==
  /\ NumberOf(g, "X") = NumberOf(g, "O")
                        + (IF g.state \in {"P2-NEXT", "P1-WIN", "TIE"} THEN 1 ELSE 0)
  /\ IsWin(g.board, "X") <=> g.state = "P1-WIN"
  /\ IsWin(g.board, "O") <=> g.state = "P2-WIN"
  /\ g.state = "TIE" => Marked(g.board, "-") = {}
  /\ g.state \in {"P1-NEXT", "P2-NEXT"} => Marked(g.board, "-") # {}

BoardMatchesState ==
  \A n \in Names : GetGame(n) # NoGame => StateFitsBoard(GetGame(n))

(* "Two winners (there can be only one)": no take that passes the checks   *)
(* meets the InternalError of _update_game_state().                        *)
OnlyOneWinner ==
  \A n \in Names, signer \in Players, s \in 1..9 :
    CanTake(GetGame(n), signer, s)
      => ~TwoWinners(UpdateBoard(GetGame(n).board, s, GetGame(n).state))

(* Every X on the board was put there by player 1 and every O by player 2, *)
(* from the move that took the seat to the last one.                       *)
MarksByTheirPlayer ==
  \A n \in Names : GetGame(n) # NoGame =>
    LET g == GetGame(n) IN
    /\ g.player1 = Nobody <=> Marked(g.board, "X") = {}
    /\ g.player2 = Nobody <=> Marked(g.board, "O") = {}
    /\ \A s \in Marked(g.board, "X") : by[n][s] = g.player1
    /\ \A s \in Marked(g.board, "O") : by[n][s] = g.player2

(* Each name is a game of its own, whichever names share its address:      *)
(* apply() accepts what XoGames makes due and nothing it rules out, and    *)
(* changes the game XoGames changes.  Whether one player may move for both *)
(* seats is open there, because the tests and the handler disagree.        *)
Abstract(g) == IF g = NoGame THEN NoGame
               ELSE [x |-> Marked(g.board, "X"), o |-> Marked(g.board, "O"),
                     player1 |-> g.player1, player2 |-> g.player2]

Play == INSTANCE XoGames WITH games <- [n \in Names |-> Abstract(GetGame(n))]
KeepsGames == Play!Spec

(* test_tp_xo.py on the turns: "If the signer's public key matches         *)
(* player_1 and the state is P2-NEXT, the transaction is invalid, and vice *)
(* versa."  While player 2's seat is free, apply() gives it to player 1.   *)
WrongTurnRefused ==
  [][ last'.action = "take" /\ last'.status = "OK" =>
        LET g == GetGame(last'.name)
        IN  /\ g.state = "P2-NEXT" => g.player1 # last'.signer
            /\ g.state = "P1-NEXT" => g.player2 # last'.signer ]_vars
=============================================================================
