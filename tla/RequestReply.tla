---------------------------- MODULE RequestReply ----------------------------
(***************************************************************************)
(* What a Stream promises to the code that calls send(): every request has *)
(* one future, the future is answered at most once, and it is given up     *)
(* only after the validator has disconnected at least once.  An answered   *)
(* future stays answered and a lost one is never answered afterwards.      *)
(* (Stream.java send, Future.java getResult / setResult.)                  *)
(***************************************************************************)
EXTENDS Naturals

CONSTANT Ids        \* correlation ids of requests

VARIABLES phase,    \* phase[i]: what has become of request i
          broken    \* a disconnect has happened

vars == << phase, broken >>

Phases == {"unused", "pending", "answered", "lost"}

TypeOK ==
  /\ phase \in [Ids -> Phases]
  /\ broken \in BOOLEAN

Init ==
  /\ phase = [i \in Ids |-> "unused"]
  /\ broken = FALSE

Move(i, from, to) ==
  /\ phase[i] = from
  /\ phase' = [phase EXCEPT ![i] = to]
  /\ UNCHANGED broken

Send(i)   == Move(i, "unused", "pending")
Answer(i) == Move(i, "pending", "answered")
Lose(i)   == broken /\ Move(i, "pending", "lost")
Break     == broken' = TRUE /\ UNCHANGED phase

Next ==
  \/ \E i \in Ids : Send(i) \/ Answer(i) \/ Lose(i)
  \/ Break

Spec == Init /\ [][Next]_vars
=============================================================================
