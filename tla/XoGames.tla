------------------------------ MODULE XoGames ------------------------------
(***************************************************************************)
(* What the xo family promises its players: each name is one game of its   *)
(* own, X and O alternate, a seat belongs to whoever takes it first, and a *)
(* game with a line or a full board admits no more moves.  A game is the   *)
(* spaces of each mark and the two seats; whose turn it is and how the     *)
(* game stands follow from the spaces.                                     *)
(***************************************************************************)
EXTENDS Integers, FiniteSets

CONSTANTS Names, NoGame, Nobody

VARIABLES games,     \* games[n]: the game called n, or NoGame
          last       \* the last transaction: [name, action, signer, space, status]

vars == << games, last >>

Lines == { {1, 2, 3}, {4, 5, 6}, {7, 8, 9},
           {1, 4, 7}, {2, 5, 8}, {3, 6, 9},
           {1, 5, 9}, {3, 5, 7} }

HasLine(s) == \E l \in Lines : l \subseteq s
Over(g) == HasLine(g.x) \/ HasLine(g.o) \/ g.x \cup g.o = 1..9
XMoves(g) == Cardinality(g.x) = Cardinality(g.o)
Seat(g) == IF XMoves(g) THEN g.player1 ELSE g.player2

Possible(t) ==
  /\ t.name \in Names
  /\ \/ t.action = "create" /\ games[t.name] = NoGame
     \/ t.action = "delete" /\ games[t.name] # NoGame
     \/ /\ t.action = "take" /\ games[t.name] # NoGame
        /\ t.space \in (1..9) \ (games[t.name].x \cup games[t.name].o)
        /\ ~Over(games[t.name])
        /\ Seat(games[t.name]) \in {Nobody, t.signer}

\* One player may be left to play both seats, or be held to the one that is
\* theirs: a move for the one seat by the holder of the other is open.
OtherSeat(g) == IF XMoves(g) THEN g.player2 ELSE g.player1
Due(t) == Possible(t) /\ (t.action = "take" => OtherSeat(games[t.name]) # t.signer)

NewGame == [x |-> {}, o |-> {}, player1 |-> Nobody, player2 |-> Nobody]

Moved(g, t) ==
  IF XMoves(g) THEN [g EXCEPT !.x = @ \cup {t.space}, !.player1 = t.signer]
               ELSE [g EXCEPT !.o = @ \cup {t.space}, !.player2 = t.signer]

Result(t) == CASE t.action = "create" -> NewGame
               [] t.action = "delete" -> NoGame
               [] t.action = "take" -> Moved(games[t.name], t)

NoneYet == [name |-> NoGame, action |-> "none", space |-> 0, signer |-> Nobody,
            status |-> "none"]
Init == games = [n \in Names |-> NoGame] /\ last = NoneYet

Accept ==
  /\ last'.status = "OK"
  /\ Possible(last')
  /\ games' = [games EXCEPT ![last'.name] = Result(last')]

Refuse ==
  /\ last'.status # "OK"
  /\ last'.status = "INVALID_TRANSACTION" => ~Due(last')
  /\ UNCHANGED games

Next == Accept \/ Refuse
Spec == Init /\ [][Next]_vars
=============================================================================
