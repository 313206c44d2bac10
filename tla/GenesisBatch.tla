----------------------------- MODULE GenesisBatch -----------------------------
(***************************************************************************)
(* The making of a genesis block: `sawset genesis` (sawset.py) writes a    *)
(* batch with the keys that may vote and the votes that are needed, and    *)
(* `sawadm genesis` (admin_command/genesis.py) joins the batches of its    *)
(* input files, after it has checked their dependencies and settings.      *)
(*                                                                         *)
(* A transaction is its id, the ids it depends on and the setting it       *)
(* proposes ("" for none).  The other input files are `sawset proposal     *)
(* create`'s, which proposes settings, and a client's, whose transactions  *)
(* may depend on any other.                                                *)
(***************************************************************************)
EXTENDS Integers, SequencesExt, FiniteSetsExt

CONSTANTS
  Keys, OwnKey,   \* keys, and the one sawset signs with
  NoThreshold,    \* the threshold was not given
  MaxKeys         \* bound on the keys listed

ASSUME GenesisAssumption == OwnKey \in Keys /\ NoThreshold \notin Int /\ MaxKeys \in Nat

VARIABLES
  listed, threshold,     \* --authorized-key and --approval-threshold
  proposals,             \* the settings the proposal file proposes, in order
  clientDeps,            \* what the client's two transactions depend on
  ignore,                \* --ignore-required-settings
  authorized,            \* the keys sawset writes
  inputs,                \* the files given to sawadm, in order
  making                 \* "config", "combine", "written" or "raised"

genesisVars == << listed, threshold, proposals, clientDeps, ignore, authorized, inputs, making >>

Required == {"name", "version"}   \* REQUIRED_SETTINGS
Txn(id, deps, setting) == [id |-> id, deps |-> deps, setting |-> setting]

GenesisStart(keys, t, settings, deps, skip) ==
  /\ listed = keys /\ threshold = t
  /\ proposals = settings /\ clientDeps = deps /\ ignore = skip
  /\ authorized = << >> /\ inputs = << >> /\ making = "config"

GenesisInit ==
  \E keys \in BoundedSeq(Keys, MaxKeys), t \in {NoThreshold} \cup 0 .. MaxKeys + 1,
     settings \in {<< "name" >>, << "version", "name" >>},
     deps \in [1 .. 2 -> {{}, {"p1"}, {"c1"}, {"keys", "c1"}}], skip \in BOOLEAN :
    GenesisStart(keys, t, settings, deps, skip)

AuthorizedKeys ==
  IF listed = << >> THEN << OwnKey >>
  ELSE IF OwnKey \in ToSet(listed) THEN listed ELSE Append(listed, OwnKey)

\* _do_config_genesis(): a threshold below 1 or above the number of keys raises.
ConfigGenesis ==
  /\ making = "config"
  /\ IF threshold # NoThreshold /\ (threshold < 1 \/ threshold > Len(AuthorizedKeys))
     THEN making' = "raised" /\ UNCHANGED authorized
     ELSE making' = "combine" /\ authorized' = AuthorizedKeys
  /\ UNCHANGED << listed, threshold, proposals, clientDeps, ignore, inputs >>

\* The batch in each file.
Batch(f) ==
  CASE f = "config" ->
         << Txn("keys", {}, "keys") >> \o
         (IF threshold = NoThreshold THEN << >> ELSE << Txn("threshold", {}, "threshold") >>)
    [] f = "proposal" ->
         [k \in DOMAIN proposals |-> Txn(IF k = 1 THEN "p1" ELSE "p2", {}, proposals[k])]
    [] f = "client" ->
         << Txn("c1", clientDeps[1], ""), Txn("c2", clientDeps[2], "") >>

\* Mutant: the ids of a batch count after the whole batch.
BatchAtOnce(batches) ==
  FoldLeft(LAMBDA acc, batch :
             [ids |-> acc.ids \cup {t.id : t \in ToSet(batch)},
              ok |-> acc.ok /\ \A t \in ToSet(batch) : t.deps \subseteq acc.ids],
           [ids |-> {}, ok |-> TRUE], batches).ok

\* _validate_depedencies(): each transaction against the ids before it.
DependenciesValid(batches) ==
  FoldLeft(LAMBDA acc, t : [ids |-> acc.ids \cup {t.id}, ok |-> acc.ok /\ t.deps \subseteq acc.ids],
           [ids |-> {}, ok |-> TRUE], FlattenSeq(batches)).ok

\* _check_required_settings(): every required setting is proposed somewhere.
MissingSettings(batches) ==
  FoldLeft(LAMBDA missing, t : missing \ {t.setting}, Required, FlattenSeq(batches))

\* do_genesis().
Combine(files) ==
  /\ making = "combine"
  /\ inputs' = files
  /\ LET batches == [k \in DOMAIN files |-> Batch(files[k])]
     IN making' = IF DependenciesValid(batches) /\ (ignore \/ MissingSettings(batches) = {})
                  THEN "written" ELSE "raised"
  /\ UNCHANGED << listed, threshold, proposals, clientDeps, ignore, authorized >>

GenesisNext ==
  \/ ConfigGenesis
  \/ \E files \in BoundedSeq({"config", "proposal", "client"}, 3) : Combine(files)

GenesisEnded == making \in {"written", "raised"}

-----------------------------------------------------------------------------
Batches == [k \in DOMAIN inputs |-> Batch(inputs[k])]
Genesis == FlattenSeq(Batches)
TxnIds == {"keys", "threshold", "p1", "p2", "c1", "c2"}

\* The genesis is written exactly when every dependency of every transaction,
\* across batches, stands before it, and no required setting is missing.
Executable ==
  /\ \A k \in DOMAIN Genesis, d \in TxnIds :
       d \in Genesis[k].deps => \E j \in 1 .. k - 1 : Genesis[j].id = d
  /\ ignore \/ \A s \in Required : \E k \in DOMAIN Genesis : Genesis[k].setting = s

\* When no key is listed twice, the keys sawset writes can reach the threshold
\* beside it, and the key that signs the genesis may vote (_do_config_genesis()).
ThresholdReachable ==
  IsInjective(listed) =>
    /\ OwnKey \in ToSet(authorized)
    /\ threshold # NoThreshold => threshold \in 1 .. Cardinality(ToSet(authorized))

\* The two commands make a genesis that can be executed and whose settings can be
\* changed later, and refuse no other.
GenesisSound ==
  /\ inputs # << >> => (making = "written" <=> Executable)
  /\ making \in {"combine", "written"} => ThresholdReachable
-----------------------------------------------------------------------------
\* The inductive invariant: the arguments, and what each command has made of them.
GenesisArguments ==
  /\ listed \in Seq(Keys) /\ threshold \in {NoThreshold} \cup Nat
  /\ proposals \in Seq({"name", "version"}) /\ clientDeps \in [1 .. 2 -> SUBSET TxnIds]
  /\ inputs \in Seq({"config", "proposal", "client"})
GenesisMade ==
  /\ making \in {"config", "combine"} => inputs = << >>
  /\ making \in {"combine", "written"} =>
       /\ authorized = AuthorizedKeys
       /\ threshold # NoThreshold => threshold \in 1 .. Len(authorized)
  /\ inputs # << >> =>
       (making = "written" <=> /\ DependenciesValid(Batches)
                               /\ ignore \/ MissingSettings(Batches) = {})

=============================================================================
