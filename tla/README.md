# A verification development of BlockchainEvoting

The repository is a fork of the Hyperledger Sawtooth SDKs for Java and Python,
with the Sawtooth CLI, two example transaction families (`intkey`, `xo`) and an
election example built on them (Paillier tallies and ring signatures). A
*transaction processor* connects to a validator over ZeroMQ, registers the
families it handles, receives transactions, reads and writes the validator's
state through *context* calls, and reports a status. The modules here model
that path in both languages (the messaging layers, the processors' loops, two
handlers), the SDK with which a consensus engine talks to the validator, and the
command line programs that keep state while they run: the comparison of chains,
batch submission, the making of a genesis block, and the election.

Paths below are relative to `src/sawtooth-sdk-java`.

## Inventory

| component | state | operations | what is hard | what makes it correct |
|---|---|---|---|---|
| Java messaging: `ZmqStream`, `SendReceiveThread`, `FutureByteString`, `FutureError` | `futureHashMap`, `receiveQueue`, the socket field, each future's result | `send`, `sendBack`, `getResult` with and without a timeout, `receive`; the ZLoop handler; the `DisconnectThread` | four kinds of thread on one map and one queue; a late answer; a disconnect at any moment; start-up | every reply meets its future; nothing but a disconnect loses one; calls return |
| Java processor: `TransactionProcessor`, its `Shutdown` hook, `StreamContext` | `handlers`, `registered`, `currentMessage` | `addHandler`, `run`, `findHandler`, `process`, context calls, shutdown | the hook runs beside the loop without a lock; registration after a disconnect; lost context calls | one response for each request; OK only after good context calls; a handler for every request; registered again after a disconnect |
| `intkey` (Java): `IntegerKeyHandler` | CBOR maps at hashed addresses | `set`, `inc`, `dec` | bounds; two names with one address; exceptions that leave `apply` | one bounded counter for each name |
| `xo` (Python): `handler.py`, `xo_state.py`, `xo_payload.py` | games, several to an entry | `create`, `take`, `delete` | whose turn it is follows from earlier moves; entries that games share; the last free space | one fair game for each name |
| Election family (Java): `BasicElectionHandler`, `ElectionImp`, `ElectionClientSender`, `BlockchainEncoder`; the copies in `examples/xo_java` | name, cipher array and key as CSV at hashed addresses | `create`, `vote` | ballots that do not serialise; missing entries; client and handler compute different addresses | a vote is added once to the election it names |
| Paillier and ring signatures | keys, static fields of the ring | vote conversion and addition, encryption, homomorphic addition, `sign`, `verify` | carries, index arithmetic, shared statics | tallies equal the votes; a signature of a member verifies |
| Python messaging: `stream.py`, `future.py` | futures, send and receive queues, ready event | `send`, `receive`, `result`; asyncio coroutines | a send beside the disconnect sweep; a single notify | as for Java |
| Python processor: `core.py`, `context.py` | handlers, the stream | `start`, register, process, context calls | exceptions mapped to statuses; reconnection | as for Java |
| Consensus SDK: `zmq_driver.py`, `zmq_service.py` | updates queue, exit flag, the stream | start, stop, register, wait until active, deliver | acknowledgement before delivery, stop during delivery | updates delivered in order, none after stop |
| CLI: `compare`, `fork_graph` | a graph of forks | add blocks, prune, walk | peers that do not answer, uneven chains | each peer's head is at its fork |
| CLI: genesis, settings, identity, batches, REST client | files and requests | propose, vote, validate, submit, wait, page | partial submission, waiting | dependencies precede; batches are all sent |
| CLI listings, `xo` client, signing, mock validator, generated protobufs, Docker, docs | none of their own | | | |

Interactions: `main` of an example builds a `TransactionProcessor`, which owns
a `ZmqStream`; `send` returns a future that the ZLoop thread resolves, `receive`
blocks on the queue it fills. `process` gives a handler's `apply` a
`StreamContext`, whose calls are `send` and `getResult(2)` on the same stream,
made by the thread that runs `apply`. A disconnect reaches the futures and the
queue on a thread of its own, and the processor as a null message. Handlers
share nothing but the validator's state. In Python the stream's thread runs an
asyncio loop whose coroutines do what the ZLoop and the `DisconnectThread` do,
and one main thread does the rest; the consensus driver uses the same stream
from two threads, with an updates queue between the driver and the engine. The
command line programs are single threads that wait for the REST API.

## Modules

**`RequestReply`** is what a stream promises its callers: each request is
pending, then answered or lost, once, and lost only after a disconnect.

**`JavaStream`** is the messaging layer, at the grain of one access to a shared object
for each step. A message is its correlation id. `futures` is `futureHashMap`, with
"bytes" for a `FutureByteString` and "error" for a `FutureError`; `resolved` holds the
ids whose `FutureByteString` has a result, which the caller reads from the object it
holds and not from the map. `PutFuture`, `CheckSocket` and `Transmit` are `send` and
`sendMessage`; `GetResult` and `Timeout` are the two ends of `getResult`; `RecvMsg` to
`QueuePut` are `Receiver.handle`; `DiscEvent` to `DiscMark` are the `DisconnectThread`,
whose iteration over `keySet()` is weakly consistent, so that it must visit the keys
that stay and may visit the others. The socket is created, connected and signalled in
three steps; the assignment of its field is not synchronised with the senders' test, so
a sender may still read null until the signal. `lost` and `told` are history variables:
the ids a disconnect took, and whether the consumer has taken a marker since the last
one. The validator is external: it answers each request at most once, in any order,
sends messages of its own, and at a disconnect may forget any requests it has not
answered. Left out: `close`, which nothing calls; parse errors; spurious wake-ups, which
the JVM's lock implementation does not produce; `sendBack`, which uses `sendMessage` and
changes nothing here.

**`TransactionProcessor`** is the processor over that promise (it instantiates
`RequestReply` for its futures), with the stream's queue, sweep, clear and mark
as steps of their own. `main` adds every handler on its own thread before it
starts the loop, so both are the thread "run"; "hook" is the shutdown hook.
`currentMessage` is one variable both threads read. A disconnect may come while the
`DisconnectThread` handles another (`events`). `HookLook` and `HookLog` are the hook's two
reads of the field; if the loop clears it between them, the exception ends the hook.
`RunReceive` and `RunDispatch` are two steps because `receive` takes a message from the queue
before `currentMessage` is assigned. `process` is `ContextCall` (one of the
five `StreamContext` calls), `ContextReturn`, `ContextTimeout`, `ApplyReturns`,
`ApplyThrows` and `Respond`. When the hook ends the JVM halts.

**`IntegerKey`** is `IntegerKeyHandler.apply` over the validator's state, one
transaction a step, since the validator runs each in a context of its own.
Payloads range over names, verbs and values that are present, missing or bad; a
missing field is the NullPointerException the code throws. `encodeState` writes
a map with one name. An unset address is taken to come back as an empty entry.
CBOR that is not a map is left out. **`CounterLedger`** is its promise.

**`XoHandler`** is the Python xo family. An entry is a function from names to
games, which is what the CSV text holds: names contain neither comma nor bar, so
writing and reading it is a round trip. `XoState`'s cache lives for one
transaction, within which it always equals what was read or written. `Fail` is
whatever ends a transaction without a verdict, among it the InternalError for two
winners. `by` is a history variable: who marked which space.
**`XoGames`** is its promise: sets of spaces and two seats, the turn derived. Whether
the player of one seat may take the other as well it leaves open, because the tests
say no and the handler says yes (`xo_turns`).

**`PythonStream`** is `Stream`, its futures and the event loop's thread. Each
coroutine is one step up to its next `await`; only the disconnect sweep is cut
finer, because the caller's thread may run between any two of its bytecodes: it
iterates a live view of the dictionary, and an entry put meanwhile raises, which
ends the coroutine that would have restarted the loop (`loop = "orphan"`). The
caller's steps (ready test, put, second test, schedule) have no program counter
of their own. `stray` is a history variable: futures put after a sweep began.

**`PythonProcessor`** extends it with the main thread: `start()` with its
registrations, the loop, `_process` and its mapping of exceptions to statuses,
pings, the registration after a reconnect event, and the `except` clause for a
`KeyboardInterrupt` or a `ValidatorVersionError`, which unregisters and then
drains the last future. `ConnectionError` says who catches a lost connection:
`_process` does, nothing else. An interrupt may come at any step. `redone` is a
history variable: the request in hand at the interrupt.

**`ConsensusDriver`** is `ZmqDriver` and `ZmqService`: the main thread, which registers,
waits for the activation, runs the engine and makes its calls, and the driver thread,
which takes a notification, asks for the next, acknowledges and delivers. `SendBack` and
`Acknowledge` (`Waited` and `AckActivation` on the main thread) are the two tests of the
stream that an acknowledgement passes: `send_back()` raises, and `put_message()` drops
it without a word. `stop()` may be called by either. `Waited` is what the wait for an
answer may give, `Told` what the service makes of the status. The seven kinds of update
are parsed and put alike and are one kind; the stream is in outline only (a queue, one
future, the ready event), since `PythonStream` has its detail. The engine is external:
`engine.py` is abstract.

**`CompareChains`** is `compare-chains`. A client is its place in the list of
urls and a chain its place among the clients that answered, kept apart as the
code does (or fails to). Blocks are a forest given by `Parent`. `Connect`,
`GetTails`, `AddTails`, `Round` and `Report` are the stages of
`do_compare_chains` and `build_fork_graph`, and `RequestRaises` a failed request
in any of them; layout is left out, but `Raises` says when the three formats fail.
The graph is its blocks, the peers of each and its root; a block's peers are a bag,
since the code keeps a list in which one peer may stand twice and no format tells
its order. What the loop variable holds after a partial round, and what the
successive `add_block` calls leave, are written in closed form (`HeadAfter`,
`AddBlocks`).

**`BatchSubmit`** is `batch submit`: the lists of at most `batch_size_limit`, each
taken, refused or lost, then the waiting, with time counted in the loop's pauses. `Poll`
is the moment the statuses of an answer are of, `ReadAnswer` the moment the command
reads it; the validator goes on between the two. `together` is a history variable: was
there a moment at which all batches were committed?
The commands of `identity.py` and `sawset.py` that send one batch of their own are
the same with one batch. **`GenesisBatch`** is `sawset genesis` and `sawadm
genesis`, a transaction being its id, dependencies and proposed setting.
**`RingElection`** is `PaillierRing`, `Election` and the Paillier classes over
small primes, with every static field one variable; a hash is its argument. Each ring has
a size of its own, and the calls come in any order, so that a voter signs with the keys of
another's ring, or cannot, and adds the vote of another. `sign()` is given any number.
`own`, `signer` and `replaced` are history variables.
**`Programs`** composes the four behind one `command`, as one run.

`MCJavaStream`, `MCTransactionProcessor`, `MCXoHandler`, `MCPythonProcessor`,
`MCConsensusDriver` and `MCPrograms` give the constants their values for TLC, and
`MCFamilies` puts the two handlers, whose entries lie apart, on one validator.
`JavaStreamProofs`, `TransactionProcessorProofs`, `PythonProcessorProofs`,
`ConsensusDriverProofs`, `IntegerKeyProofs`, `XoHandlerProofs` and `ProgramsProofs` hold
the proofs, and `QueueFacts` the lemmas they share: what appending to, taking from and
dropping part of a queue does to its elements, places and counts, and that sets of
numbers have least and greatest elements.

The model of the consensus driver follows the code of `sawtooth_sdk`, which uses
messages (the notification that the engine is activated) that the generated files
under `cli/sawtooth_cli/protobuf` have and the older ones under
`sawtooth_sdk/protobuf` lack.

## Runs

| run | what it checks | instance |
|---|---|---|
| `java_stream` | `ReplyNeverQueued`, `WaiterAccounted`, `MapHoldsUnanswered` and the inductive `IInv`; implements `RequestReply` (`KeepsContract`); `CallsReturn`: timed calls return, untimed ones do while connected; `DisconnectReported`: the consumer takes a marker after each disconnect | two callers (one with a timeout), two requests, a push, a disconnect |
| `java_stream_hang` | finding: an untimed `getResult` outlives its FutureError | as above |
| `processor_loop` | the inductive `IInv`, `OkMeansContextAnswered`, `HandlerForEveryRequest`, `RequestAnswered` (both of two requests, in any order with pings) | two families, two requests, two disconnects, one context call |
| `processor_stop` | with the shutdown hook: `OneResponse`, except for the message loop and hook both hold; `RegistersAgain` | two families, one request, one disconnect, one context call |
| `families` | `intkey`: values stay in bounds, implements `CounterLedger` (`KeepsCounters`); `xo`: implements `XoGames` (`KeepsGames`) | two names apart, MAX_VALUE 3, values -1 to 4, every malformed payload; two names at one address, three signers, spaces 1 and 2 |
| `xo_game` | board, state, seats and marks agree; two winners are impossible | one name, two signers, all nine spaces |
| `xo_turns` | finding: player 1 moves on P2-NEXT, while seat 2 is free | as `xo_game` |
| `python_processor` | the inductive `IInv`, which has in it `WaiterAccounted` (an awaited result will come, unless a send spans the disconnect), `OneResponse` and `OkMeansContextAnswered`; `RegistersAgain`, `RequestAnswered`, `InterruptEnds` | two families, a message (request or ping), a context call, a disconnect, refusals, an interrupt |
| `python_recovery` | finding: after a send that spans a disconnect the event loop is never restarted | one disconnect, no message |
| `consensus` | the inductive `IInv`, `DeliversInOrder`, `AckMeansDelivery`, `EngineKnowsCandidate`, `StartReturns`, `UpdateDelivered` | two notifications, two of three calls, a NOT_READY, a disconnect, `stop()` from either thread |
| `programs` | `GraphHoldsChains`, `ShownTruly`, `SubmittedOnce`, `CommittedTogether`, `GenesisSound`, `TallyIsSum`, `CiphersOpen`, `LastVoteRecorded` | below |
| `compare_nodes` | finding: a node is printed with another's blocks | as `programs` |

Why the bounds are enough. In the Java stream, requests meet only through the map, the
handler (one at a time) and the sweep (any set of keys): two requests give every pair of
positions, and the theorems cover further disconnects. Signers are only compared, so
permuting them is a symmetry of the xo runs and of `families`. In the processors two
families tell a right handler from a wrong one, and two messages a current from a later
one; a second disconnect may come while the Java loop registers again. The Python main
thread is one, so at most one future of `apply` or one registration sequence is open
when a disconnect comes; seven sends allow both registrations, a context call, both
registrations again and the unregistration. In the consensus driver two notifications
are the one in hand and the one already asked for, which is as far as the driver thread
reads ahead, and two calls are enough to begin a block and finish or cancel it. For
`intkey` MAX_VALUE 3 has values at, inside and outside both bounds. A whole `xo` game is
checked, all nine spaces; sharing needs only two names and few spaces. In `programs`,
three clients list chains of eight blocks in two networks, with a fork above the first
block, so that chains differ in length, branch and root, and one may not answer; files
of one and three batches meet limits that divide them, do not, and are zero; waits are
none and two pauses; genesis files are every sequence of up to three of the three kinds;
two voters, one with a ring of two keys and one of three, sign 8 and 20, whose sums pass
the smaller modulus, under three key pairs, one with an unfit g, until a list holds four
keys. The theorems have none of these bounds.

The expected violations are disagreements between code and text, listed under
`findings` in `PROJECT.json`, each with the line it contradicts.

Deadlock is not checked where threads may rightly wait for ever once ids and
messages are used up: the streams, the processors and the consensus driver. The
handlers never stop, and `Programs` says in `Exited` which ends are proper.

Fairness is weak throughout. `JavaStream`, `TransactionProcessor`: each started
thread goes on when it can, timed waits end, the consumer calls `receive` again,
and a connected validator answers. `PythonProcessor`: the main thread, and the
three things the event loop does (send, receive, recover) go on, and a connected
validator answers each request; nothing is assumed of exceptions of a handler, of
timeouts of calls, interrupts, pushes and disconnects. `ConsensusDriver`: both
threads and the stream's receiving and recovery go on; a call ends, at the latest by
its timeout; an engine that has been told to stop returns, as `engine.py` asks of
it, and nothing else is assumed of it.
`Programs` has no liveness property.
`CallsReturn`, `RequestAnswered`, `RegistersAgain`, `InterruptEnds` and
`UpdateDelivered` carry the hypothesis of no (or no further) disconnect, or of no
send that spans one, because the code gives no guarantee otherwise, as
`java_stream_hang` and `python_recovery` show.

## Proofs

All theorems are for any values of the constants that satisfy the named
assumptions of each module. Every `IInv` contains the module's `TypeOK`.

*Java stream.* `ReplyNeverQueued` and `WaiterAccounted` are not inductive. `IInv` adds
that callers hold different ids; that a marker the consumer has not taken is in the
queue or still to be put (`MarkerIsKept`); that a request's id is in at most one of: not
yet sent, with the validator, in the inbox, in the handler's hands; that a request
underway has an entry in the map and is unresolved (`MappedWhileUnderway`: the reason
`send` puts before it sends, and the handler removes only after it resolves); and that
FutureErrors exist only after a disconnect. `JavaStreamProofs` proves one lemma per
action, then `IInvAlways`, each invariant, and `Refinement`: under the mapping
`PhaseOf`, each step is a step of `RequestReply` or a stutter. The handler's `set`
position with the old future in hand is mapped to "pending", since that caller will
still be answered.

*Java processor.* `HandlerForEveryRequest` needs that a family is *covered* as soon
as its handler is kept or about to be (`FamiliesCovered`): the registrations with
the validator, the requests on the wire, those in the queue and the one in hand
are all of covered families, and `handlers` only grows. `OkMeansContextAnswered`
needs that a failed context call leaves `apply` (`FailureKept`). `OneResponse` is
`OncePerRequest`: a request not shared by loop and hook is in one place only, on
the wire, in the queue, in a thread's hands or answered, and each action moves it.

*Python processor.* `WaiterAccounted` rests on the futures (`FuturesKept`: an open
future is in the dictionary, and once a sweep has begun it is still to be swept or
was put beside it) and on the requests (`OnceUnderway`: each in one place on its way
out, with its future; `Served`: while the loop serves, what the main thread awaits is
underway or stray). `OkMeansContextAnswered` needs `OwnCall` (the future `apply`
waits for is that of its own call, which the first answer to a registration cannot
resolve) and `FailureKept` (a failed call leaves `apply` for a verdict other than
OK). `OneResponse` follows from a count: the copies of a request in the queue, in
hand, on their way back and answered are one at most, or two when an interrupt found
it in hand, for the request is then processed again (`CopiesBounded`). The proof
needs that the id of a request is neither a reply's nor the reconnect event's
(`PushesAssumption`): the model's stream tells messages apart by it.

*Consensus driver.* `AckMeansDelivery` needs `OnlySent` (the stream, the future and the
driver thread hold only what was sent, and what is put was acknowledged, or the stream
is closed or has broken: a disconnect between the two tests loses the acknowledgement)
and `MarkerMeansBroken` (a reconnect marker or a cancelled future in a notification's
place means a disconnect or a closed stream). `EngineKnowsCandidate` needs `AnswerTells`:
while a call is open and none was lost, what the service will say when it has the answer
is what the validator has.

`DeliversInOrder` says that updates are put for the engine in the validator's order
and that none is skipped. `IInv` keeps the two halves of the reason: what the driver
thread has taken is a run of the notifications, with a reconnect marker at its end at
most, and the future it has asked for and the queue go on where that run ends
(`TakenRun`, `RestFollows`).

*intkey.* `StoredValid` is inductive. `CountersKept` proves that names with
addresses of their own are independent counters; the hypothesis is needed, since
`encodeState` writes a map with one name.

*xo.* The inductive invariant says of each stored game that its marks alternate,
its state follows from its board, a seat is taken exactly when its mark is on
the board, and each mark is its player's. The lemma that one move cannot create
a second winner needs that a game going on has no line. Counting marks uses the
library's facts about `Cardinality`. `GamesKept` holds for any assignment of
addresses to names.

*Programs.* A step of `Programs` is a step of the command that runs, or changes
nothing of the other three (`OneCommand`), so each has an invariant of its own.
- *Batch submission.* `ReceivedLists` says that the validator has the batches of the
  first lists sent, in the file's order; that the last list ends the file is
  arithmetic on a rounded quotient (`ListCount`, `FullBefore`). `CommittedTogether`
  needs `AnswersHeld`: an answer that says that all are committed is of one moment, and
  that moment is remembered, whatever a fork undoes before the command reads it.
- *Genesis.* The command's folds over its input are recursive functions, about which
  the provers cannot argue by induction. They can be met halfway: a fold over a
  sequence has a closed form over the positions read so far, and if the two differed
  there would be a least length at which they do (`LeastIn`), one step before which
  they agree (`FoldsAgree`, `DependenciesChecked`, `SettingsChecked`,
  `BatchesJoined`). With the closed forms, `GenesisSound` is a fact about sets;
  that a threshold can be reached counts the different keys among those listed.
- *Ring signatures.* `StaticsAreLast` says that the static vote is the last signer's and
  verifies until another ring is made, whatever the sizes of the rings: the list it was
  signed with only grows, and `SubSeq` of its first keys stays (`RingLists` has the types).
  So a refusal means that a ring was made since, and what is appended is the last vote
  signed, by whomever (`LastVoteCounts`).
- *The tally.* `TallyIsRight` and `CiphersAreOpened` are the correctness of Paillier's
  scheme as this code computes it, for key pairs of any size and files of any length; the
  first says nothing of how the votes came about, so it holds of files whose votes were
  never encrypted, like those of `createVotes`. The invariant (`VotesAreNumbers`,
  `TotalIsProduct`) is that the file holds numbers and an answer is their product under the
  present key. The rest is arithmetic: modulo the square of n, powers distribute over
  products and exponents may be swapped (`PowProduct`, `PowSwap`), `(1 + n h)` to the power
  e is `1 + n h e` (`PowOnePlus`), and a power that is 1 modulo n is `1 + n L`
  (`PowOfOrder`), so that lambda-th powers of units are `1 + n L`, whose products add
  (`OnePlusProduct`); in a ciphertext the random factor goes away, g leaves `1 + n h m`,
  and the helper has an inverse when it has no factor of n (`DenominatorExists`, Bezout's
  argument with a least combination). Induction is over sets of numbers (`FromZero`, from
  `LeastIn`), and the recursive functions of `Pow` and of the folds are shown to exist step
  by step (`PowExists`, `FoldExists`). Assumed of the keys: what `generateKeyPair` tests
  (`KeysAssumption`), and Carmichael's theorem for g, the votes and the random numbers
  (`UnitsAssumption`), which holds when p and q are different primes; the code draws them
  as probable primes and does not compare them.
- *compare-chains.* Each list is a piece of a chain, so a block's place in it follows
  from its number (`ListLevels`) and two lists that share a block go on alike
  (`ListsAgree`). The invariant is that after each round all chains that are left are
  at one level, that no block of the graph is below that level, that each chain is in
  the graph with exactly the blocks read from it, once (`Level`), and, as long as no
  chain has ended, that every block they all have is below it. When the heads agree,
  that level is the common ancestor's (`ForkGraphIsRight`). For what is printed,
  clients and chains have the same numbers when all answer, and `graph.walk()` reaches
  every block from the root up (`ReachedFromRoot`, `NodesAreShown`).

*Only model-checked.* Liveness and the fairness it needs (`ENABLED` is out of the
provers' reach). Every safety property and action property of the passing runs is
stated by a theorem. Carmichael's theorem is assumed, not proved: TLC evaluates it for
the key pairs of the run.

## Deviations read from the code

What a model shows and no run states as a finding, because no text promises
otherwise or because the models have both outcomes and go on:

- the hook's `findHandler` reads the field `currentMessage`, which the run loop
  may change meanwhile (`TransactionProcessor.java:188`); when the loop holds no
  message that field is null, and the request the hook took from the queue is lost with
  the exception (`:74`); it also reads it twice to log it, and ends if it is cleared in
  between (`:58`);
- a registration after a disconnect does not set `max_occupancy`
  (`TransactionProcessor.java:237`);
- two names of `intkey` with one address overwrite each other
  (`IntegerKeyHandler.java:127`);
- a disconnect between the two tests of the stream loses an acknowledgement while the
  update is delivered (`stream.py:314`, `stream.py:160`);
- the registration of a consensus engine is repeated on NOT_READY without pause or
  bound (`zmq_driver.py:126`);
- `compare-chains`: a chain that ends in a round still takes part in it with an
  old block (`compare.py:618`) and prune removes it from a block once; a generator
  that ends in the first round leaves the loop variable unset; the table and the
  tree use a chain's number as a column, so that `IndexError` or `KeyError` may
  follow, and a table of first blocks only takes the logarithm of 0; networks with
  different first blocks may end in `max()` of nothing;
- `sawset genesis` counts a key that is listed twice as two towards the threshold;
- `batch submit` prints one status only when its wait ends, and a batch that is
  INVALID is waited for until then;
- a page the REST API refuses after the first makes `_get` use the error's text as
  a dictionary (`rest_client.py:111`);
- an `r` that shares a factor with `n` gives a ciphertext that does not decrypt, and so
  does every `r` when `g` shares one, which `generateKeyPair` may draw: it tests the
  helper only (`KeyPairBuilder.java:116`; p = 3, q = 5, g = 6 passes). `CiphersOpen` has
  both hypotheses;
- when rings of two voters interleave, the vote recorded is the last signed, not the
  caller's (`LastVoteRecorded`); with rings of different sizes `sign()` may also use fewer
  keys than the static list has, or raise, and every `sign()` with one ring lengthens the
  list;
- `createVotes` never encrypts, and what it and `generatingPubKey` sign does not depend on
  the vote: `toOneDimensionalArray` writes at `i + j + k` (`Election.java:115`), so that
  each candidate's bytes overwrite those before it, and with one race of 20 candidates and
  7 bytes the mark of every hexadecimal digit is overwritten. No file of the repository
  holds encrypted votes, and `tallyVotes` multiplies what is there.

## Not modelled

- *Election family.* `create` serialises an array of `PaillierCipherText`, which is
  not `Serializable` (`BasicElectionHandler.java:281`): no `create` succeeds, every
  `vote` ends at the missing entry, and the code behind it is unreachable as it
  stands. What it would do with ballots is `RingElection`'s.
- *Vote arrays.* `convertVoteToByteArray`, `toOneDimensionalArray` and `addVoteArray` of
  `Election` are loops over bytes without state, with an index that can leave the array
  (`Election.java:141`) and one that overwrites (above); what comes out of them is a number
  that `sign()` takes, and the model lets it be any. The ring's own exponentiations are not
  modelled.
- *close and shutdown.* Nothing calls `ZmqStream.close`; the Python stream's is the
  flag `closed` of the consensus driver.
- *A vote on a settings proposal, the `xo` client, paging beyond what compare uses.*
  One request from its arguments, or one poll of a status.
- *Listing commands, signing libraries, the mock validator, Docker, documents.*
  Input and output without state of their own.
- *Generated code.* The 54 `*_pb2.py` files are some 21000 of the repository's
  34500 lines of Python: message formats without control, so that most lines of the
  repository belong to no definition.

What is left of the plan: the vote on a settings proposal against the proposals it
has read; and the election family once its ballots can be stored.
