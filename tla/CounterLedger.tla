---------------------------- MODULE CounterLedger ----------------------------
(***************************************************************************)
(* What the intkey family promises its clients: one bounded counter for    *)
(* each name.  set creates it, inc and dec change it, nothing else does,   *)
(* and a transaction is accepted exactly when it can be carried out.       *)
(***************************************************************************)
EXTENDS Integers

CONSTANTS Names, Max, None

VARIABLES counter,   \* counter[n]: the value of n, or None
          last       \* the last transaction: [name, verb, value, status]

vars == << counter, last >>

Result(n, verb, v) ==
  CASE verb = "set" -> v
    [] verb = "inc" -> counter[n] + v
    [] verb = "dec" -> counter[n] - v

Possible(n, verb, v) ==
  /\ n \in Names /\ v \in 0..Max
  /\ \/ verb = "set" /\ counter[n] = None
     \/ verb \in {"inc", "dec"} /\ counter[n] # None /\ Result(n, verb, v) \in 0..Max

NoneYet == [name |-> None, verb |-> "none", value |-> None, status |-> "none"]

Init ==
  /\ counter = [n \in Names |-> None]
  /\ last = NoneYet

Accept ==
  /\ last'.status = "OK"
  /\ Possible(last'.name, last'.verb, last'.value)
  /\ counter' = [counter EXCEPT ![last'.name] =
                   Result(last'.name, last'.verb, last'.value)]

Refuse ==
  /\ last'.status # "OK"
  /\ last'.status = "INVALID_TRANSACTION"
       => ~Possible(last'.name, last'.verb, last'.value)
  /\ UNCHANGED counter

Next == Accept \/ Refuse
Spec == Init /\ [][Next]_vars
=============================================================================
