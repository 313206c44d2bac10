---------------------------- MODULE MCXoHandler ----------------------------
(* XoHandler with one game that two players play to its end.               *)
EXTENDS XoHandler, TLC

CONSTANTS g1, a1, a2, alice, bob

OneName == {g1}
MCAddresses == {a1, a2}
OneAddress == g1 :> a1
TwoPlayers == {alice, bob}
AllSpaces == 1..9

PlayerSymmetry == Permutations(Players)
=============================================================================
