----------------------------- MODULE MCFamilies -----------------------------
(* The two transaction families on one validator: IntegerKey with two names *)
(* at addresses of their own, and XoHandler with two names at one address.  *)
(* Their entries lie apart, so that a run sends one family's transactions.  *)
EXTENDS IntegerKey, TLC

CONSTANTS foo, bar, long, a1, a2,
          g1, g2, pipe, x1, x2, alice, bob, carol, NoGame, Nobody

VARIABLES family, games, lastMove, by

MCNames == {foo, bar}
MCBadNames == {long}
MCAddresses == {a1, a2}
Apart == foo :> a1 @@ bar :> a2
MCValues == -1..4

MCPlayers == {alice, bob, carol}
Xo == INSTANCE XoHandler
        WITH Names <- {g1, g2}, BadNames <- {pipe}, Addresses <- {x1, x2},
             AddressOf <- g1 :> x1 @@ g2 :> x1, Players <- MCPlayers,
             Spaces <- {1, 2}, BadSpaces <- {10}, state <- games, last <- lastMove

PlayerSymmetry == Permutations(MCPlayers)

xoVars == << games, lastMove, by >>
familyVars == << family, vars, xoVars >>

FamiliesInit == family \in {"intkey", "xo"} /\ Init /\ Xo!Init
FamiliesNext ==
  \/ family = "intkey" /\ Next /\ UNCHANGED << family, xoVars >>
  \/ family = "xo" /\ Xo!Next /\ UNCHANGED << family, vars >>
FamiliesSpec == FamiliesInit /\ [][FamiliesNext]_familyVars

(* XoHandler's property, of the transactions of the xo family.              *)
KeepsGames == Xo!KeepsGames
=============================================================================
