----------------------------- MODULE IntegerKey -----------------------------
(***************************************************************************)
(* IntegerKeyHandler.apply(): the intkey family's counters, kept in the    *)
(* entries of the validator's state.  An entry's address is a hash of the  *)
(* name, so that two names can have one address; the entry is a map from   *)
(* names to values.                                                        *)
(***************************************************************************)
EXTENDS Integers

CONSTANTS
  Names,      \* names of 1 to MAX_NAME_LENGTH characters
  BadNames,   \* empty and too long ones
  Addresses,  \* addresses of the intkey namespace
  AddressOf,  \* the address of each name
  Max,        \* MAX_VALUE, 4294967295 in the code
  Values,     \* numbers payloads carry as their value
  Text,       \* a value that is not a number
  None        \* null, a missing field, or no value

ASSUME AddressAssumption == AddressOf \in [Names -> Addresses]
ASSUME ValueAssumption == Max \in Nat /\ Values \subseteq Int
ASSUME NameAssumption == Names \cap BadNames = {}
ASSUME NoneAssumption == None \notin Int /\ Text \notin Int

VARIABLES
  state,      \* state[a]: the map stored at address a
  last        \* the last transaction and the status it got

vars == << state, last >>

Verbs == {"set", "inc", "dec"}

\* What decodePayload() may return: a field may be missing, the verb unknown
\* and the value not a number.
Payloads == [name : Names \cup BadNames \cup {None},
             verb : Verbs \cup {"other", "missing"},
             value : Values \cup {Text, None}]

\* updateMap.get(...).toString() of a missing field.
Throws(p) == \/ p.name = None
             \/ p.name \in Names /\ p.verb = "missing"
             \/ p.name \in Names /\ p.verb \in Verbs /\ p.value = None

\* The checks in front of any state access.
WellFormed(p) == /\ p.name \in Names
                 /\ p.verb \in Verbs
                 /\ p.value \in Values
                 /\ p.value <= Max /\ p.value >= 0

Stored(n) == state[AddressOf[n]][n]

\* Mutant: dec does not look at MIN_VALUE.
DecUnchecked(n, v) == Stored(n) # None

\* Mutant: set replaces the value of a name that is already there.
SetOverwrites(n, v) == v >= 0

CanSet(n, v) == Stored(n) = None
CanInc(n, v) == Stored(n) # None /\ Stored(n) + v <= Max
CanDec(n, v) == Stored(n) # None /\ Stored(n) - v >= 0

\* encodeState(): a map with the one name.
Encode(n, v) == [m \in Names |-> IF m = n THEN v ELSE None]

SetState(n, v) == state' = [state EXCEPT ![AddressOf[n]] = Encode(n, v)]

End(p, status) == last' = [name |-> p.name, verb |-> p.verb, value |-> p.value,
                           status |-> status]

NoneYet == [name |-> None, verb |-> "none", value |-> None, status |-> "none"]

Init ==
  /\ state = [a \in Addresses |-> [n \in Names |-> None]]
  /\ last = NoneYet

ApplySet(p) ==
  /\ WellFormed(p) /\ p.verb = "set" /\ CanSet(p.name, p.value)
  /\ SetState(p.name, p.value)
  /\ End(p, "OK")

ApplyInc(p) ==
  /\ WellFormed(p) /\ p.verb = "inc" /\ CanInc(p.name, p.value)
  /\ SetState(p.name, Stored(p.name) + p.value)
  /\ End(p, "OK")

ApplyDec(p) ==
  /\ WellFormed(p) /\ p.verb = "dec" /\ CanDec(p.name, p.value)
  /\ SetState(p.name, Stored(p.name) - p.value)
  /\ End(p, "OK")

Refuse(p) ==
  /\ ~Throws(p)
  /\ ~ /\ WellFormed(p)
       /\ \/ p.verb = "set" /\ CanSet(p.name, p.value)
          \/ p.verb = "inc" /\ CanInc(p.name, p.value)
          \/ p.verb = "dec" /\ CanDec(p.name, p.value)
  /\ End(p, "INVALID_TRANSACTION")
  /\ UNCHANGED state

\* The context fails: no entry was set ("State error!"), or a call timed out.
\* The validator discards the context of a transaction that ends so.
ContextFails(p) ==
  /\ WellFormed(p)
  /\ End(p, "INTERNAL_ERROR")
  /\ UNCHANGED state

\* A NullPointerException leaves apply().
Crash(p) ==
  /\ Throws(p)
  /\ End(p, "throws")
  /\ UNCHANGED state

Next == \E p \in Payloads :
          \/ ApplySet(p) \/ ApplyInc(p) \/ ApplyDec(p)
          \/ Refuse(p) \/ ContextFails(p) \/ Crash(p)

Spec == Init /\ [][Next]_vars

-----------------------------------------------------------------------------
(* Every stored value lies between MIN_VALUE and MAX_VALUE, and a name is  *)
(* stored at its own address only.                                         *)
StoredValid ==
  /\ state \in [Addresses -> [Names -> 0..Max \cup {None}]]
  /\ \A a \in Addresses, n \in Names : state[a][n] # None => a = AddressOf[n]

(* Names with addresses of their own behave as one counter each: apply()   *)
(* accepts exactly what CounterLedger accepts, and changes what it changes.*)
Ledger == INSTANCE CounterLedger WITH counter <- [n \in Names |-> Stored(n)]
KeepsCounters == Ledger!Spec
=============================================================================
