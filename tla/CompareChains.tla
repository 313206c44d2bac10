---------------------------- MODULE CompareChains ----------------------------
(***************************************************************************)
(* `sawnet compare-chains` (network_command/compare.py, fork_graph.py):    *)
(* one thread reads the chains of several validators, newest block first,  *)
(* to a common height, walks all of them back to a block they share, and   *)
(* prints what each node has above it.                                     *)
(*                                                                         *)
(* Client c is the c-th url; chain i is the i-th client that answered (the *)
(* code's dictionaries are keyed by chain, its list `broken` by both).     *)
(* The blocks are a small forest: Parent[b] = 0 is a first block.  The     *)
(* validators are external: what each lists is chosen once, and a list may *)
(* stop above the first block.                                             *)
(***************************************************************************)
EXTENDS Integers, SequencesExt, FiniteSetsExt

CONSTANTS
  Clients,   \* number of urls
  Parent     \* the blocks: a sequence of the blocks' parents

ASSUME CompareAssumption ==
  /\ Clients \in Nat /\ Parent \in Seq(Nat)
  /\ \A b \in DOMAIN Parent : Parent[b] \in 0 .. b - 1

VARIABLES
  format,    \* how the result is printed
  listing,   \* per client, the blocks it lists; << >> when it refuses
  phase,     \* where do_compare_chains() is
  chains,    \* the generators still in the dictionary: per chain, its blocks
  tails,     \* per chain, its blocks from the common height up
  pos,       \* per chain, how many blocks were read
  head,      \* build_fork_graph()'s loop variable; 0 before its first value
  bad,       \* bad_chains of the function that runs
  broken,    \* clients and chains left out
  graph,     \* the ForkGraph: its blocks, the peers of each, and its root
  outcome, shown   \* how the command ended; the (node, block) pairs it printed

compareVars == << format, listing, phase, chains, tails, pos, head, bad, broken, graph,
                  outcome, shown >>

Blocks == DOMAIN Parent
Chain[b \in Blocks] == << b >> \o IF Parent[b] = 0 THEN << >> ELSE Chain[Parent[b]]
Num(b) == Len(Chain[b]) - 1

Answering == {c \in 0 .. Clients - 1 : listing[c] # << >>}
Read == DOMAIN chains

\* The element of S with k smaller ones: lists here are in ascending order.
Nth(S, k) == CHOOSE c \in S : Cardinality({d \in S : d < c}) = k

\* Mutant: the second is compared and the others are not.
FirstTwoEqual(heads) ==
  \A i, j \in DOMAIN heads :
    Cardinality({k \in DOMAIN heads : k < j}) < 2 /\ i < j => heads[i] = heads[j]

\* _compare_across().
AllEqual(heads) == \A i, j \in DOMAIN heads : heads[i] = heads[j]

CompareStart(f, l) ==
  /\ format = f /\ listing = l
  /\ phase = "connect" /\ outcome = "" /\ shown = {}
  /\ chains = << >> /\ tails = << >> /\ pos = << >> /\ head = 0
  /\ bad = {} /\ broken = {}
  /\ graph = [blocks |-> {}, peers |-> [b \in Blocks |-> EmptyBag], root |-> 0]

Listings == {<< >>} \cup UNION {{SubSeq(Chain[b], 1, k) : k \in 1 .. Len(Chain[b])} : b \in Blocks}
Formats == {"summary", "table", "tree"}

CompareInit == \E f \in Formats, l \in [0 .. Clients - 1 -> Listings] : CompareStart(f, l)

Ends(o) == phase' = "done" /\ outcome' = o

-----------------------------------------------------------------------------
(* get_chain_generators() and get_tails().                                 *)

Connect ==
  /\ phase = "connect"
  /\ chains' = [i \in 0 .. Cardinality(Answering) - 1 |-> listing[Nth(Answering, i)]]
  /\ broken' = (0 .. Clients - 1) \ Answering
  /\ IF Answering = {} THEN Ends("no nodes") ELSE phase' = "tails" /\ UNCHANGED outcome
  /\ UNCHANGED << format, listing, tails, pos, head, bad, graph, shown >>

\* Every chain is read down to the lowest of the newest blocks; one that ends
\* before stays in the dictionary of tails.
MinNum == Min({Num(chains[i][1]) : i \in Read})
Wanted(i, min) == Num(chains[i][1]) - min + 1

TailOf(i, n) == Reverse(SubSeq(chains[i], 1, n))

GetTails ==
  /\ phase = "tails" /\ phase' = "graph"
  /\ LET min == MinNum
         count == [i \in Read |-> Min({Wanted(i, min), Len(chains[i])})]
         short == {i \in Read : Len(chains[i]) < Wanted(i, min)}
     IN /\ pos' = count
        /\ tails' = [i \in Read |-> TailOf(i, count[i])]
        /\ broken' = broken \cup short
        /\ chains' = Restrict(chains, Read \ short)
  /\ UNCHANGED << format, listing, head, bad, graph, outcome, shown >>

\* A request that fails in the middle of a list raises out of the command.
RequestRaises ==
  /\ phase \in {"tails", "round"}
  /\ Ends("raised")
  /\ UNCHANGED << format, listing, chains, tails, pos, head, bad, broken, graph, shown >>

-----------------------------------------------------------------------------
(* build_fork_graph().                                                     *)

\* ForkGraph.add_block() of the blocks that each chain adds, in their order.  A
\* list of peers is a bag, for no format tells its order; the root is the first
\* block of the lowest number.
AddBlocks(g, adds) ==
  LET new == UNION {adds[i] : i \in DOMAIN adds}
      lowest == {b \in new : \A c \in new : Num(b) <= Num(c)}
      first == Min({i \in DOMAIN adds : adds[i] \cap lowest # {}})
  IN [blocks |-> g.blocks \cup new,
      peers |-> [b \in Blocks |-> g.peers[b] (+) SetToBag({i \in DOMAIN adds : b \in adds[i]})],
      root |-> IF g.root # 0 /\ \A b \in new : Num(g.root) <= Num(b) THEN g.root
               ELSE CHOOSE b \in lowest : b \in adds[first]]

AddTails ==
  /\ phase = "graph"
  /\ graph' = AddBlocks(graph, [i \in DOMAIN tails |-> ToSet(tails[i])])
  /\ phase' = IF AllEqual([i \in DOMAIN tails |-> tails[i][1]]) THEN "report" ELSE "round"
  /\ UNCHANGED << format, listing, chains, tails, pos, head, bad, broken, outcome, shown >>

\* One round: next() of every chain still read.  A chain that ends is noted,
\* and yet takes part in the round with the value `head` has, the block of the
\* chain before it; the first one of the first round has none, and raises.
Remaining == Read \ bad
Going == {i \in Remaining : pos[i] < Len(chains[i])}
HeadAfter(i) ==
  LET asked == {j \in Going : j <= i}
  IN IF asked = {} THEN head ELSE chains[Max(asked)][pos[Max(asked)] + 1]

\* graph.walk(): from the root's node to its descendants in the graph.
Reached(g) ==
  {b \in Blocks : \E k \in DOMAIN Chain[b] :
     /\ Parent[Chain[b][k]] = Parent[g.root]
     /\ \A j \in 1 .. k : Chain[b][j] \in g.blocks}

\* prune_unreporting_peers(): one entry of each peer, in the blocks reached.
Prune(g, peers) ==
  [g EXCEPT !.peers = [b \in Blocks |->
     IF b \in Reached(g) THEN @[b] (-) SetToBag(peers) ELSE @[b]]]

Round ==
  /\ phase = "round"
  /\ LET heads == [i \in Remaining |-> HeadAfter(i)]
         ended == bad \cup (Remaining \ Going)
         added == AddBlocks(graph, [i \in Remaining |-> {heads[i]}])
     IN IF \E i \in Remaining : heads[i] = 0
        THEN Ends("raised") /\ UNCHANGED << pos, head, bad, broken, graph >>
        ELSE /\ pos' = [i \in DOMAIN pos |-> IF i \in Going THEN pos[i] + 1 ELSE pos[i]]
             /\ head' = IF Remaining = {} THEN head ELSE heads[Max(Remaining)]
             /\ bad' = ended
             /\ IF AllEqual(heads)
                THEN /\ graph' = Prune(added, ended) /\ broken' = broken \cup ended
                     /\ phase' = "report"
                ELSE graph' = added /\ UNCHANGED << phase, broken >>
             /\ UNCHANGED outcome
  /\ UNCHANGED << format, listing, chains, tails, shown >>

-----------------------------------------------------------------------------
(* The end of do_compare_chains() and the three ways to print.             *)

\* get_node_id_map(): the clients not in broken, and the tails that are left.
Nodes == (0 .. Clients - 1) \ broken
NodeId(k) == Nth(Nodes, k)
Kept == DOMAIN tails \ broken

\* Mutant: sorted the other way.
KeptTailDown(k) == CHOOSE i \in Kept : Cardinality({j \in Kept : j > i}) = k

KeptTail(k) == Nth(Kept, k)
Newest(i) == tails[i][Len(tails[i])]

Summary == {<< NodeId(k), Newest(KeptTail(k)) >> : k \in 0 .. Cardinality(Kept) - 1}

\* The table and the tree use the peers of the graph as positions.
InGraph ==
  UNION {{<< NodeId(p), b >> : p \in BagToSet(graph.peers[b])} : b \in Reached(graph)}
Peers == UNION {BagToSet(graph.peers[b]) : b \in Reached(graph)}

\* max() of no rows; log() of a highest block of number 0; a position past the
\* columns, or past the nodes.
Raises ==
  CASE format = "summary" -> Kept = {}
    [] format = "table" ->
         \/ \A i \in Kept : Num(Newest(i)) = 0
         \/ \E p \in Peers : p >= Cardinality(Kept)
    [] format = "tree" -> \E p \in Peers : p >= Cardinality(Nodes)

Report ==
  /\ phase = "report"
  /\ IF Raises
     THEN Ends("raised") /\ UNCHANGED shown
     ELSE Ends("printed") /\ shown' = IF format = "summary" THEN Summary ELSE InGraph
  /\ UNCHANGED << format, listing, chains, tails, pos, head, bad, broken, graph >>

CompareNext ==
  \/ Connect \/ GetTails \/ RequestRaises \/ AddTails \/ Round \/ Report

-----------------------------------------------------------------------------
Built == phase = "report" \/ outcome = "printed"
Copies(i, peers) == IF BagIn(i, peers) THEN peers[i] ELSE 0
NoneEnded == Read = DOMAIN tails /\ bad = {}

\* The root is a block of every chain that is left, and when no chain ended it is
\* the most recent block they all have (the header's COMMON ANCESTOR).  A chain
\* that is left is in the graph with each of its blocks from the root up, once, and
\* with no other (build_fork_graph()).
GraphHoldsChains ==
  Built =>
    /\ \A i \in Remaining :
         /\ graph.root \in ToSet(chains[i])
         /\ \A b \in Blocks :
              Copies(i, graph.peers[b]) =
                IF b \in ToSet(chains[i]) /\ Num(b) >= Num(graph.root) THEN 1 ELSE 0
    /\ NoneEnded => \A b \in Blocks :
         (\A i \in Read : b \in ToSet(chains[i])) => Num(b) <= Num(graph.root)

\* When every client answers and no list ends, each node is printed with its own
\* blocks, from the common ancestor to its newest one (do_compare_chains()).
ShownTruly ==
  outcome = "printed" /\ Answering = 0 .. Clients - 1 /\ NoneEnded =>
    shown = IF format = "summary" THEN {<< c, listing[c][1] >> : c \in Answering}
            ELSE {s \in Answering \X Blocks :
                    s[2] \in ToSet(listing[s[1]]) /\ Num(s[2]) >= Num(graph.root)}

\* What is printed for a node is a block of that node.
NodesShowTheirBlocks == \A s \in shown : s[2] \in ToSet(listing[s[1]])
-----------------------------------------------------------------------------
\* The inductive invariant: each list is a piece of a chain; the tails end at the
\* newest blocks; and in every round the chains that are left are all at one
\* level, which no block of the graph is below.
IsList(s) == s \in Seq(Blocks) \ {<< >>} /\ \A k \in 1 .. Len(s) - 1 : s[k + 1] = Parent[s[k]]
Working == phase \in {"tails", "graph", "round", "report"}

ChainsListed ==
  /\ DOMAIN listing = 0 .. Clients - 1
  /\ \A c \in DOMAIN listing : listing[c] = << >> \/ IsList(listing[c])
  /\ phase # "done" => outcome = ""
  /\ phase = "connect" => broken = {}
  /\ phase \in {"connect", "tails"} =>
       /\ tails = << >> /\ head = 0 /\ bad = {}
       /\ graph = [blocks |-> {}, peers |-> [b \in Blocks |-> EmptyBag], root |-> 0]
  /\ phase = "tails" => Read = 0 .. Cardinality(Answering) - 1
  /\ Working =>
       /\ Read # {} /\ Read \subseteq 0 .. Clients - 1 /\ bad \subseteq Read
       /\ \A i \in Read : IsList(chains[i])
       /\ Answering = 0 .. Clients - 1 => \A i \in Read : chains[i] = listing[i]
       /\ broken \subseteq ((0 .. Clients - 1) \ Answering) \cup (DOMAIN tails \ Read) \cup bad

TailsTaken ==
  phase \in {"graph", "round", "report"} =>
    /\ Read \subseteq DOMAIN tails /\ DOMAIN tails = 0 .. Cardinality(Answering) - 1
    /\ DOMAIN pos = DOMAIN tails /\ \A i \in Read : pos[i] \in 1 .. Len(chains[i])
    /\ \A i \in DOMAIN tails : tails[i] \in Seq(Blocks) \ {<< >>}
    /\ \A i \in Read : Newest(i) = chains[i][1]

Start(m) ==
  /\ head = 0 /\ bad = {}
  /\ graph = [blocks |-> {}, peers |-> [b \in Blocks |-> EmptyBag], root |-> 0]
  /\ \A i \in Read : Num(chains[i][pos[i]]) = m /\ tails[i] = TailOf(i, pos[i])
  /\ \E i \in Read : pos[i] = 1
  /\ \A i \in DOMAIN tails : IsList(Reverse(tails[i])) /\ Num(tails[i][1]) >= m

ReadFrom(i) == ToSet(SubSeq(chains[i], 1, pos[i]))
Shared == {b \in Blocks : \A i \in Read : b \in ToSet(chains[i])}
Level(m) ==
  /\ \A i \in Remaining :
       /\ Num(chains[i][pos[i]]) = m /\ ReadFrom(i) \subseteq graph.blocks
       /\ \A b \in Blocks : Copies(i, graph.peers[b]) = IF b \in ReadFrom(i) THEN 1 ELSE 0
  /\ graph.root \in graph.blocks /\ graph.blocks \subseteq Blocks
  /\ \A b \in graph.blocks : Num(b) >= m
  /\ \A b \in Blocks : IsABag(graph.peers[b]) /\ BagToSet(graph.peers[b]) \subseteq DOMAIN tails
  /\ phase = "round" =>
       /\ head # 0 => head \in Blocks /\ Num(head) = m
       /\ NoneEnded => \A b \in Shared : Num(b) < m
  /\ phase = "report" =>
       /\ \A i \in Remaining : chains[i][pos[i]] = graph.root
       /\ NoneEnded => \A b \in Shared : Num(b) <= m

AtOneLevel ==
  /\ phase = "graph" => \E m \in Nat : Start(m)
  /\ phase \in {"round", "report"} => \E m \in Nat : Level(m)
=============================================================================
