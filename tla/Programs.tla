------------------------------- MODULE Programs -------------------------------
(***************************************************************************)
(* The repository's command line programs that keep state while they run:  *)
(* the commands of the sawtooth CLI (cli.py, sawnet.py, sawset.py,         *)
(* sawadm.py dispatch them) and the election's programs, behind one        *)
(* `command`.  Each is one thread, and its requests are answered.          *)
(***************************************************************************)
EXTENDS CompareChains, BatchSubmit, GenesisBatch, RingElection

VARIABLE command

programVars == << command, compareVars, submitVars, genesisVars, ringVars >>

Compares ==
  command = "compare" /\ CompareNext /\ UNCHANGED << command, submitVars, genesisVars, ringVars >>
Submits ==
  command = "submit" /\ SubmitNext /\ UNCHANGED << command, compareVars, genesisVars, ringVars >>
MakesGenesis ==
  command = "genesis" /\ GenesisNext /\ UNCHANGED << command, compareVars, submitVars, ringVars >>
Elects ==
  command = "election" /\ RingNext /\ UNCHANGED << command, compareVars, submitVars, genesisVars >>

\* The commands that do not run stay at one state each.
CompareIdle == CompareStart("summary", [c \in 0 .. Clients - 1 |-> << >>])
SubmitIdle == SubmitStart(0, 0, 0)
GenesisIdle == GenesisStart(<< >>, NoThreshold, << >>, << {}, {} >>, FALSE)

Init ==
  \/ command = "compare" /\ CompareInit /\ SubmitIdle /\ GenesisIdle /\ RingInit
  \/ command = "submit" /\ SubmitInit /\ CompareIdle /\ GenesisIdle /\ RingInit
  \/ command = "genesis" /\ GenesisInit /\ CompareIdle /\ SubmitIdle /\ RingInit
  \/ command = "election" /\ RingInit /\ CompareIdle /\ SubmitIdle /\ GenesisIdle

\* The command has ended; the election's caller may stop at any time.
Exited ==
  /\ CASE command = "compare" -> phase = "done"
       [] command = "submit" -> SubmitEnded
       [] command = "genesis" -> GenesisEnded
       [] command = "election" -> TRUE
  /\ UNCHANGED programVars

Next == Compares \/ Submits \/ MakesGenesis \/ Elects \/ Exited
Spec == Init /\ [][Next]_programVars
===============================================================================
