-------------------------- MODULE IntegerKeyProofs --------------------------
(***************************************************************************)
(* IntegerKey for every set of names, every address function and every     *)
(* MAX_VALUE: the stored values stay valid, and where no two names share   *)
(* an address the handler implements one counter for each name.            *)
(***************************************************************************)
EXTENDS IntegerKey, TLAPS

USE AddressAssumption, NameAssumption, NoneAssumption, ValueAssumption

(* What the checks in front of apply() leave: a good name, a legal value.  *)
LEMMA WellFormedValue ==
  ASSUME NEW p \in Payloads, WellFormed(p)
  PROVE  p.name \in Names /\ p.value \in 0..Max /\ p.value \in Int
<1>1. /\ p.name \in Names /\ p.value \in Values
      /\ p.value >= 0 /\ p.value <= Max
  BY DEF WellFormed
<1>2. Max \in Int /\ Values \subseteq Int
  BY ONLY ValueAssumption
<1>3. p.value \in Int
  BY ONLY <1>1, <1>2
<1>4. QED  BY ONLY <1>1, <1>2, <1>3

(* A name that has a value has a legal one.                                *)
LEMMA StoredValue ==
  ASSUME StoredValid, NEW n \in Names, Stored(n) # None
  PROVE  Stored(n) \in 0..Max
BY DEF StoredValid, Stored

(* Storing a legal value at the address of its name keeps the state valid. *)
LEMMA SetStateValid ==
  ASSUME StoredValid, NEW n \in Names, NEW v \in 0..Max, SetState(n, v)
  PROVE  StoredValid'
BY DEF StoredValid, SetState, Encode

(* Every transaction keeps the stored values legal, each at its address.  *)
LEMMA StepValid == StoredValid /\ [Next]_vars => StoredValid'
<1> SUFFICES ASSUME StoredValid, [Next]_vars PROVE StoredValid'
  OBVIOUS
<1>1. ASSUME NEW p \in Payloads, ApplySet(p) PROVE StoredValid'
  BY <1>1, SetStateValid, WellFormedValue DEF ApplySet
<1>2. ASSUME NEW p \in Payloads, ApplyInc(p) PROVE StoredValid'
  <2>1. p.name \in Names /\ p.value \in 0..Max /\ Stored(p.name) \in 0..Max
    BY <1>2, WellFormedValue, StoredValue DEF ApplyInc, CanInc
  <2>2. Stored(p.name) + p.value \in 0..Max
    BY <1>2, <2>1 DEF ApplyInc, CanInc
  <2>3. QED  BY <1>2, <2>1, <2>2, SetStateValid DEF ApplyInc
<1>3. ASSUME NEW p \in Payloads, ApplyDec(p) PROVE StoredValid'
  <2>1. p.name \in Names /\ p.value \in 0..Max /\ Stored(p.name) \in 0..Max
    BY <1>3, WellFormedValue, StoredValue DEF ApplyDec, CanDec
  <2>2. Stored(p.name) - p.value \in 0..Max
    BY <1>3, <2>1 DEF ApplyDec, CanDec
  <2>3. QED  BY <1>3, <2>1, <2>2, SetStateValid DEF ApplyDec
<1>4. ASSUME NEW p \in Payloads, Refuse(p) \/ ContextFails(p) \/ Crash(p)
      PROVE  StoredValid'
  BY <1>4 DEF Refuse, ContextFails, Crash, StoredValid
<1>5. CASE UNCHANGED vars
  BY <1>5 DEF vars, StoredValid
<1>6. QED  BY <1>1, <1>2, <1>3, <1>4, <1>5 DEF Next

(* Values stay between 0 and MAX_VALUE, whatever the transactions.         *)
THEOREM ValuesValid == Spec => []StoredValid
<1>1. Init => StoredValid
  BY DEF Init, StoredValid
<1>2. QED  BY <1>1, StepValid, PTL DEF Spec

-----------------------------------------------------------------------------
AddressesApart == \A m, n \in Names : AddressOf[m] = AddressOf[n] => m = n

(* What an accepted transaction does to the counters.                      *)
LEMMA SetStateCounter ==
  ASSUME AddressesApart, StoredValid, NEW n \in Names, NEW v \in 0..Max, SetState(n, v)
  PROVE  [m \in Names |-> Stored(m)]'
           = [[m \in Names |-> Stored(m)] EXCEPT ![n] = v]
<1>1. \A m \in Names : Stored(m)' = IF m = n THEN v ELSE Stored(m)
  BY DEF AddressesApart, StoredValid, SetState, Encode, Stored
<1>2. QED  BY <1>1

(* Every transaction is one of the ledger, or changes nothing in it.      *)
LEMMA StepRefines ==
  AddressesApart /\ StoredValid /\ [Next]_vars => [Ledger!Next]_(Ledger!vars)
<1> SUFFICES ASSUME AddressesApart, StoredValid, [Next]_vars
             PROVE  [Ledger!Next]_(Ledger!vars)
  OBVIOUS
<1> DEFINE counters == [n \in Names |-> Stored(n)]
<1>typed. \A n \in Names : Stored(n) # None <=> Stored(n) \in 0..Max
  BY DEF Stored, StoredValid
<1>accept. ASSUME NEW p \in Payloads, WellFormed(p), End(p, "OK"), NEW v \in 0..Max,
                  Ledger!Possible(p.name, p.verb, p.value), SetState(p.name, v),
                  v = Ledger!Result(p.name, p.verb, p.value)
           PROVE  Ledger!Next
  <2>1. /\ last'.name = p.name /\ last'.verb = p.verb
        /\ last'.value = p.value /\ last'.status = "OK"
    BY <1>accept DEF End
  <2>2. counters' = [counters EXCEPT ![p.name] = v]
    BY <1>accept, SetStateCounter DEF WellFormed
  <2>3. Ledger!Accept
    BY <1>accept, <2>1, <2>2 DEF Ledger!Accept
  <2>4. QED  BY <2>3 DEF Ledger!Next
<1>1. ASSUME NEW p \in Payloads, ApplySet(p) PROVE Ledger!Next
  <2>1. p.value \in 0..Max /\ p.name \in Names /\ p.verb = "set"
    BY <1>1, WellFormedValue DEF ApplySet
  <2>2. p.value = Ledger!Result(p.name, p.verb, p.value)
    BY <2>1 DEF Ledger!Result
  <2>3. Ledger!Possible(p.name, p.verb, p.value)
    BY <1>1, <2>1 DEF Ledger!Possible, ApplySet, CanSet
  <2>4. QED  BY <1>1, <2>1, <2>2, <2>3, <1>accept DEF ApplySet
<1>2. ASSUME NEW p \in Payloads, ApplyInc(p) PROVE Ledger!Next
  <2>1. /\ p.value \in 0..Max /\ p.name \in Names /\ p.verb = "inc"
        /\ Stored(p.name) \in 0..Max /\ Stored(p.name) # None
        /\ Stored(p.name) + p.value \in 0..Max
    <3>1. /\ p.value \in 0..Max /\ p.name \in Names
          /\ Stored(p.name) \in 0..Max /\ Stored(p.name) # None
      BY <1>2, WellFormedValue, StoredValue DEF ApplyInc, CanInc
    <3>2. QED  BY <1>2, <3>1 DEF ApplyInc, CanInc
  <2>2. Stored(p.name) + p.value = Ledger!Result(p.name, p.verb, p.value)
    BY <2>1 DEF Ledger!Result
  <2>3. Ledger!Possible(p.name, p.verb, p.value)
    BY <2>1, <2>2 DEF Ledger!Possible
  <2>4. QED  BY <1>2, <2>1, <2>2, <2>3, <1>accept DEF ApplyInc
<1>3. ASSUME NEW p \in Payloads, ApplyDec(p) PROVE Ledger!Next
  <2>1. /\ p.value \in 0..Max /\ p.name \in Names /\ p.verb = "dec"
        /\ Stored(p.name) \in 0..Max /\ Stored(p.name) # None
        /\ Stored(p.name) - p.value \in 0..Max
    <3>1. /\ p.value \in 0..Max /\ p.name \in Names
          /\ Stored(p.name) \in 0..Max /\ Stored(p.name) # None
      BY <1>3, WellFormedValue, StoredValue DEF ApplyDec, CanDec
    <3>2. QED  BY <1>3, <3>1 DEF ApplyDec, CanDec
  <2>2. Stored(p.name) - p.value = Ledger!Result(p.name, p.verb, p.value)
    BY <2>1 DEF Ledger!Result
  <2>3. Ledger!Possible(p.name, p.verb, p.value)
    BY <2>1, <2>2 DEF Ledger!Possible
  <2>4. QED  BY <1>3, <2>1, <2>2, <2>3, <1>accept DEF ApplyDec
<1>4. ASSUME NEW p \in Payloads, Refuse(p) PROVE Ledger!Next
  <2>1. /\ last'.name = p.name /\ last'.verb = p.verb
        /\ last'.value = p.value /\ last'.status = "INVALID_TRANSACTION"
        /\ UNCHANGED counters
    BY <1>4 DEF Refuse, End, Stored
  <2>2. ASSUME Ledger!Possible(p.name, p.verb, p.value) PROVE FALSE
    <3>1. /\ p.name \in Names /\ p.value \in 0..Max
          /\ \/ p.verb = "set" /\ Stored(p.name) = None
             \/ /\ p.verb \in {"inc", "dec"} /\ Stored(p.name) # None
                /\ Ledger!Result(p.name, p.verb, p.value) \in 0..Max
      BY <2>2 DEF Ledger!Possible
    <3>2. WellFormed(p)
      BY <3>1 DEF WellFormed, Verbs, Payloads
    <3>3. CASE p.verb = "set"
      BY <1>4, <3>1, <3>2, <3>3 DEF Refuse, CanSet
    <3>4. CASE p.verb = "inc"
      <4>1. Ledger!Result(p.name, p.verb, p.value) = Stored(p.name) + p.value
        BY <3>1, <3>4 DEF Ledger!Result
      <4>2. CanInc(p.name, p.value)
        BY <3>1, <3>4, <4>1 DEF CanInc
      <4>3. QED  BY <1>4, <3>2, <3>4, <4>2 DEF Refuse
    <3>5. CASE p.verb = "dec"
      <4>1. Ledger!Result(p.name, p.verb, p.value) = Stored(p.name) - p.value
        BY <3>1, <3>5 DEF Ledger!Result
      <4>2. CanDec(p.name, p.value)
        BY <3>1, <3>5, <4>1 DEF CanDec
      <4>3. QED  BY <1>4, <3>2, <3>5, <4>2 DEF Refuse
    <3>6. QED  BY <3>1, <3>3, <3>4, <3>5
  <2>3. Ledger!Refuse
    BY <2>1, <2>2 DEF Ledger!Refuse
  <2>4. QED  BY <2>3 DEF Ledger!Next
<1>5. ASSUME NEW p \in Payloads, ContextFails(p) \/ Crash(p) PROVE Ledger!Next
  <2>1. last'.status \in {"INTERNAL_ERROR", "throws"} /\ UNCHANGED counters
    BY <1>5 DEF ContextFails, Crash, End, Stored
  <2>2. QED  BY <2>1 DEF Ledger!Refuse, Ledger!Next
<1>6. CASE UNCHANGED vars
  BY <1>6 DEF vars, Ledger!vars, Stored
<1>7. QED  BY <1>1, <1>2, <1>3, <1>4, <1>5, <1>6 DEF Next

(* Where no two names share an address, the handler is one bounded counter *)
(* per name that accepts exactly the transactions it can carry out.        *)
THEOREM CountersKept == AddressesApart => (Spec => KeepsCounters)
<1> SUFFICES ASSUME AddressesApart PROVE Spec => KeepsCounters
  OBVIOUS
<1>1. Init => Ledger!Init
  BY DEF Init, Ledger!Init, Stored, NoneYet, Ledger!NoneYet
<1>2. StoredValid /\ [Next]_vars => [Ledger!Next]_(Ledger!vars)
  BY StepRefines
<1>3. QED
  BY <1>1, <1>2, ValuesValid, PTL DEF Spec, KeepsCounters, Ledger!Spec
=============================================================================
