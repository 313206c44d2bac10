----------------------------- MODULE JavaStream -----------------------------
(***************************************************************************)
(* The Java SDK's messaging layer: ZmqStream, SendReceiveThread (its ZLoop *)
(* thread with the Receiver callback, and its DisconnectThread) and        *)
(* FutureByteString / FutureError.                                         *)
(*                                                                         *)
(* Four kinds of thread share futureHashMap and receiveQueue: callers of   *)
(* send() and getResult(), the ZLoop thread, the DisconnectThread, and the *)
(* consumer that calls receive().  Each access to a shared object is one   *)
(* step, so that every interleaving of the accesses is a behaviour.  A     *)
(* message is represented by its correlation id.  The validator (external) *)
(* answers requests, pushes messages of its own and may disconnect.        *)
(***************************************************************************)
EXTENDS Integers, Sequences, Functions

CONSTANTS
  Callers,         \* threads that call send() and then getResult()
  Timed,           \* those of them that call getResult(timeout)
  Ids,             \* UUIDs generateId() may draw; bounds the requests
  Pushes,          \* correlation ids the validator draws; bounds its messages
  MaxDisconnects,  \* bound on the times the validator disconnects
  NoId,            \* "no message"
  Disconnected     \* MessageWrapper(null): the marker the consumer is given

ASSUME CallerAssumption == Timed \subseteq Callers
ASSUME IdAssumption ==
  /\ Ids \cap Pushes = {}
  /\ NoId \notin Ids \cup Pushes
  /\ Disconnected \notin Ids \cup Pushes
ASSUME BoundAssumption == MaxDisconnects \in Nat

VARIABLES
  socket,       \* how far SendReceiveThread.run() has come with the socket
  at, cur,      \* each caller: where it is in send()/getResult(), and its id
  used,         \* ids drawn so far
  futures,      \* futureHashMap: "absent", a FutureByteString, a FutureError
  resolved,     \* ids whose FutureByteString holds a result
  atValidator,  \* requests on their way to or being answered by the validator
  lost,         \* history: requests the validator forgot by disconnecting
  pushed,       \* messages of its own the validator has sent
  inbox,        \* messages the ZMQ socket holds for the ZLoop thread
  rAt, rMsg, rFut,   \* Receiver.handle: position, message, future got
  events,       \* EVENT_DISCONNECTED events the monitor holds
  disconnects,  \* how often the validator has disconnected
  dAt, todo, seen,   \* DisconnectThread: position, keys to visit, visited
  receiveQueue, \* messages for the consumer
  told          \* history: it has taken a marker since the last disconnect

callerVars == << at, cur, used >>
valVars    == << atValidator, lost, pushed, inbox, events, disconnects >>
recvVars   == << rAt, rMsg, rFut >>
discVars   == << dAt, todo, seen >>
queueVars  == << receiveQueue, told >>
vars == << socket, callerVars, futures, resolved, valVars, recvVars, discVars,
           queueVars >>

CorrelationIds == Ids \cup Pushes
Keys == {k \in CorrelationIds : futures[k] # "absent"}   \* futures.keySet()

-----------------------------------------------------------------------------
Init ==
  /\ socket = "null"
  /\ at = [c \in Callers |-> "idle"]
  /\ cur = [c \in Callers |-> NoId]
  /\ used = {}
  /\ futures = [k \in CorrelationIds |-> "absent"]
  /\ resolved = {}
  /\ atValidator = {} /\ lost = {} /\ pushed = {}
  /\ inbox = << >>
  /\ rAt = "poll" /\ rMsg = NoId /\ rFut = "absent"
  /\ events = 0 /\ disconnects = 0
  /\ dAt = "recv" /\ todo = {} /\ seen = {}
  /\ receiveQueue = << >> /\ told = TRUE

-----------------------------------------------------------------------------
(* SendReceiveThread.run(): the socket field is assigned (without the      *)
(* lock), connected, and only then are the waiting senders signalled.      *)

CreateSocket ==
  /\ socket = "null"
  /\ socket' = "created"
  /\ UNCHANGED << callerVars, futures, resolved, valVars, recvVars, discVars,
                  queueVars >>

ConnectSocket ==
  /\ socket = "created"
  /\ socket' = "connected"
  /\ UNCHANGED << callerVars, futures, resolved, valVars, recvVars, discVars,
                  queueVars >>

\* Mutant: run() starts its event loop without signalling the condition.
SignalNobody ==
  /\ socket = "connected"
  /\ socket' = "signalled"
  /\ UNCHANGED << callerVars, futures, resolved, valVars, recvVars, discVars,
                  queueVars >>

SignalSenders ==
  /\ socket = "connected"
  /\ socket' = "signalled"
  /\ at' = [c \in Callers |-> IF at[c] = "await" THEN "transmit" ELSE at[c]]
  /\ UNCHANGED << cur, used, futures, resolved, valVars, recvVars, discVars,
                  queueVars >>

-----------------------------------------------------------------------------
(* ZmqStream.send(): a fresh id, the future put in the map, and only then  *)
(* sendMessage().                                                          *)

PutFuture(c, i) ==
  /\ at[c] = "idle"
  /\ i \notin used
  /\ used' = used \cup {i}
  /\ cur' = [cur EXCEPT ![c] = i]
  /\ at' = [at EXCEPT ![c] = "send"]
  /\ futures' = [futures EXCEPT ![i] = "bytes"]
  /\ UNCHANGED << socket, resolved, valVars, recvVars, discVars, queueVars >>

\* sendMessage() takes the lock and waits once if it reads a null socket.
\* The assignment in run() is unsynchronised: until the signal, which takes
\* the same lock, a sender may still read null.
CheckSocket(c) ==
  /\ at[c] = "send"
  /\ \/ /\ socket # "signalled"
        /\ at' = [at EXCEPT ![c] = "await"]
     \/ /\ socket # "null"
        /\ at' = [at EXCEPT ![c] = "transmit"]
  /\ UNCHANGED << socket, cur, used, futures, resolved, valVars, recvVars,
                  discVars, queueVars >>

\* msg.send(socket); a DEALER that is not connected yet blocks the sender.
Transmit(c) ==
  /\ at[c] = "transmit"
  /\ socket \in {"connected", "signalled"}
  /\ atValidator' = atValidator \cup {cur[c]}
  /\ at' = [at EXCEPT ![c] = "wait"]
  /\ UNCHANGED << socket, cur, used, futures, resolved, lost, pushed, inbox,
                  events, disconnects, recvVars, discVars, queueVars >>

Leave(c) ==
  /\ at' = [at EXCEPT ![c] = "idle"]
  /\ cur' = [cur EXCEPT ![c] = NoId]
  /\ UNCHANGED << socket, used, resolved, valVars, recvVars, discVars,
                  queueVars >>

\* getResult(): the caller holds the FutureByteString itself, and the lock
\* makes the test of result and the wait one step.
GetResult(c) ==
  /\ at[c] = "wait"
  /\ cur[c] \in resolved
  /\ Leave(c)
  /\ UNCHANGED futures

\* Mutant: a caller that gives up takes its future out of the map.
TimeoutForgets(c) ==
  /\ c \in Timed /\ at[c] = "wait" /\ cur[c] \notin resolved
  /\ Leave(c)
  /\ futures' = [futures EXCEPT ![cur[c]] = "absent"]

\* getResult(timeout): still null when the wait ends, TimeoutException.
Timeout(c) ==
  /\ c \in Timed
  /\ at[c] = "wait"
  /\ cur[c] \notin resolved
  /\ Leave(c)
  /\ UNCHANGED futures

-----------------------------------------------------------------------------
(* Receiver.handle() on the ZLoop thread.                                  *)

RecvMsg ==
  /\ rAt = "poll"
  /\ inbox # << >>
  /\ rMsg' = Head(inbox)
  /\ inbox' = Tail(inbox)
  /\ rAt' = "check"
  /\ UNCHANGED << socket, callerVars, futures, resolved, atValidator, lost,
                  pushed, events, disconnects, rFut, discVars, queueVars >>

ContainsKey ==
  /\ rAt = "check"
  /\ rAt' = IF rMsg \in Keys THEN "get" ELSE "put"
  /\ UNCHANGED << socket, callerVars, futures, resolved, valVars, rMsg, rFut,
                  discVars, queueVars >>

GetFuture ==
  /\ rAt = "get"
  /\ rFut' = futures[rMsg]
  /\ rAt' = "set"
  /\ UNCHANGED << socket, callerVars, futures, resolved, valVars, rMsg,
                  discVars, queueVars >>

HandleDone ==
  /\ rAt' = "poll"
  /\ rMsg' = NoId
  /\ rFut' = "absent"

\* Mutant: FutureError.setResult stores the result like a FutureByteString.
SetEither ==
  /\ rAt = "set"
  /\ resolved' = resolved \cup {rMsg}
  /\ rAt' = "remove"
  /\ UNCHANGED << rMsg, rFut >>
  /\ UNCHANGED << socket, callerVars, futures, valVars, discVars, queueVars >>

\* FutureError.setResult throws ValidatorConnectionError, which handle()
\* prints: the reply is dropped and the entry stays.
SetResult ==
  /\ rAt = "set"
  /\ IF rFut = "bytes"
     THEN /\ resolved' = resolved \cup {rMsg}
          /\ rAt' = "remove"
          /\ UNCHANGED << rMsg, rFut >>
     ELSE HandleDone /\ UNCHANGED resolved
  /\ UNCHANGED << socket, callerVars, futures, valVars, discVars, queueVars >>

\* Mutant: handle() leaves the resolved future in the map.
RemoveNothing ==
  /\ rAt = "remove"
  /\ HandleDone
  /\ UNCHANGED << socket, callerVars, futures, resolved, valVars, discVars,
                  queueVars >>

\* remove(key, future) leaves a FutureError that has taken the place.
RemoveFuture ==
  /\ rAt = "remove"
  /\ futures' = IF futures[rMsg] = rFut
                THEN [futures EXCEPT ![rMsg] = "absent"] ELSE futures
  /\ HandleDone
  /\ UNCHANGED << socket, callerVars, resolved, valVars, discVars,
                  queueVars >>

QueuePut ==
  /\ rAt = "put"
  /\ receiveQueue' = Append(receiveQueue, rMsg)
  /\ HandleDone
  /\ UNCHANGED << socket, callerVars, futures, resolved, valVars, discVars, told >>

-----------------------------------------------------------------------------
(* DisconnectThread.run().  The iterator over keySet() is weakly           *)
(* consistent: it visits every key that stays in the map, and may or may   *)
(* not visit one that is put or removed meanwhile; put() re-creates an     *)
(* entry that is removed between the visit and the put.                    *)

DiscEvent ==
  /\ dAt = "recv"
  /\ events > 0
  /\ events' = events - 1
  /\ todo' = Keys
  /\ seen' = {}
  /\ dAt' = "sweep"
  /\ UNCHANGED << socket, callerVars, futures, resolved, atValidator, lost,
                  pushed, inbox, disconnects, recvVars, queueVars >>

\* Mutant: the sweep drops the pending futures instead of replacing them.
SweepDrops(k) ==
  /\ dAt = "sweep"
  /\ k \in (todo \cup Keys) \ seen
  /\ futures' = [futures EXCEPT ![k] = "absent"]
  /\ seen' = seen \cup {k}
  /\ UNCHANGED << socket, callerVars, resolved, valVars, recvVars, dAt, todo,
                  queueVars >>

DiscSweep(k) ==
  /\ dAt = "sweep"
  /\ k \in (todo \cup Keys) \ seen
  /\ futures' = [futures EXCEPT ![k] = "error"]
  /\ seen' = seen \cup {k}
  /\ UNCHANGED << socket, callerVars, resolved, valVars, recvVars, dAt, todo,
                  queueVars >>

\* Mutant: the marker is put before the queue is cleared.
MarkBeforeClear(position) ==
  CASE position = "sweep" -> "mark" [] position = "mark" -> "clear" [] OTHER -> "recv"

\* The order of run(): what follows each position.
After(position) ==
  CASE position = "sweep" -> "clear" [] position = "clear" -> "mark" [] OTHER -> "recv"

DiscSweepEnd ==
  /\ dAt = "sweep"
  /\ todo \cap Keys \subseteq seen
  /\ dAt' = After(dAt)
  /\ todo' = {} /\ seen' = {}
  /\ UNCHANGED << socket, callerVars, futures, resolved, valVars, recvVars,
                  queueVars >>

DiscClear ==
  /\ dAt = "clear"
  /\ receiveQueue' = << >>
  /\ dAt' = After(dAt)
  /\ UNCHANGED << socket, callerVars, futures, resolved, valVars, recvVars,
                  todo, seen, told >>

DiscMark ==
  /\ dAt = "mark"
  /\ receiveQueue' = Append(receiveQueue, Disconnected)
  /\ dAt' = After(dAt)
  /\ UNCHANGED << socket, callerVars, futures, resolved, valVars, recvVars,
                  todo, seen, told >>

-----------------------------------------------------------------------------
(* ZmqStream.receive(): the consumer takes the head of the queue.          *)

Receive ==
  /\ receiveQueue # << >>
  /\ receiveQueue' = Tail(receiveQueue)
  /\ told' = (told \/ Head(receiveQueue) = Disconnected)
  /\ UNCHANGED << socket, callerVars, futures, resolved, valVars, recvVars,
                  discVars >>

-----------------------------------------------------------------------------
(* The validator, at the other end of the connection (external).           *)

Reply(i) ==
  /\ i \in atValidator
  /\ atValidator' = atValidator \ {i}
  /\ inbox' = Append(inbox, i)
  /\ UNCHANGED << socket, callerVars, futures, resolved, lost, pushed, events,
                  disconnects, recvVars, discVars, queueVars >>

Push(p) ==
  /\ socket \in {"connected", "signalled"}
  /\ p \notin pushed
  /\ pushed' = pushed \cup {p}
  /\ inbox' = Append(inbox, p)
  /\ UNCHANGED << socket, callerVars, futures, resolved, atValidator, lost,
                  events, disconnects, recvVars, discVars, queueVars >>

\* Requests not yet answered may be forgotten; what the socket has already
\* received stays readable.
Disconnect ==
  /\ socket \in {"connected", "signalled"}
  /\ disconnects < MaxDisconnects
  /\ disconnects' = disconnects + 1
  /\ events' = events + 1
  /\ told' = FALSE
  /\ \E forgotten \in SUBSET atValidator :
       /\ atValidator' = atValidator \ forgotten
       /\ lost' = lost \cup forgotten
  /\ UNCHANGED << socket, callerVars, futures, resolved, pushed, inbox,
                  recvVars, discVars, receiveQueue >>

-----------------------------------------------------------------------------
SocketThread == CreateSocket \/ ConnectSocket \/ SignalSenders
Handle == RecvMsg \/ ContainsKey \/ GetFuture \/ SetResult \/ RemoveFuture
          \/ QueuePut
Sweep == DiscEvent \/ (\E k \in CorrelationIds : DiscSweep(k)) \/ DiscSweepEnd
         \/ DiscClear \/ DiscMark
SendStep(c) == CheckSocket(c) \/ Transmit(c)
Caller(c) == (\E i \in Ids : PutFuture(c, i)) \/ SendStep(c) \/ GetResult(c)
             \/ Timeout(c)
Validator == (\E i \in Ids : Reply(i)) \/ (\E p \in Pushes : Push(p))
             \/ Disconnect

Next == SocketThread \/ Handle \/ Sweep \/ Receive \/ Validator
        \/ \E c \in Callers : Caller(c)

Spec == Init /\ [][Next]_vars

(* The JVM runs every started thread, timed waits end, the consumer loops  *)
(* on receive(), and a validator that stays up answers.                    *)
Fairness ==
  /\ WF_vars(SocketThread) /\ WF_vars(Handle) /\ WF_vars(Sweep)
  /\ WF_vars(Receive)
  /\ \A i \in Ids : WF_vars(Reply(i))
  /\ \A c \in Callers : WF_vars(SendStep(c)) /\ WF_vars(GetResult(c))
                        /\ WF_vars(Timeout(c))

FairSpec == Spec /\ Fairness

-----------------------------------------------------------------------------
(* Every variable has its type, and a caller holds a correlation id        *)
(* exactly between send() and the end of getResult().                      *)
TypeOK ==
  /\ socket \in {"null", "created", "connected", "signalled"}
  /\ at \in [Callers -> {"idle", "send", "await", "transmit", "wait"}]
  /\ cur \in [Callers -> Ids \cup {NoId}]
  /\ \A c \in Callers : at[c] = "idle" <=> cur[c] = NoId
  /\ used \subseteq Ids
  /\ futures \in [CorrelationIds -> {"absent", "bytes", "error"}]
  /\ resolved \subseteq Ids
  /\ atValidator \subseteq Ids /\ lost \subseteq Ids /\ pushed \subseteq Pushes
  /\ inbox \in Seq(CorrelationIds)
  /\ rAt \in {"poll", "check", "get", "set", "remove", "put"}
  /\ rMsg \in CorrelationIds \cup {NoId}
  /\ rAt = "poll" <=> rMsg = NoId
  /\ rFut \in {"absent", "bytes", "error"}
  /\ events \in Nat /\ disconnects \in Nat
  /\ dAt \in {"recv", "sweep", "clear", "mark"}
  /\ todo \subseteq CorrelationIds /\ seen \subseteq CorrelationIds
  /\ receiveQueue \in Seq(CorrelationIds \cup {Disconnected}) /\ told \in BOOLEAN

(* A reply to a request is never handed to the consumer of receive(): it   *)
(* always finds an entry under its id, even when the caller has timed out  *)
(* or the DisconnectThread is sweeping (ZmqStream.send puts the future     *)
(* before it sends; Receiver.handle queues what has no entry).             *)
ReplyNeverQueued ==
  /\ Range(receiveQueue) \subseteq Pushes \cup {Disconnected}
  /\ rAt = "put" => rMsg \notin Ids

InFlight(i) == \/ i \in atValidator
               \/ i \in Range(inbox)
               \/ rAt \in {"check", "get"} /\ rMsg = i
               \/ rAt = "set" /\ rMsg = i /\ rFut = "bytes"

(* A caller that waits in getResult() has its answer, or its answer is     *)
(* still on its way, or a disconnect has taken it: the request was lost    *)
(* with the connection or the map holds a FutureError for it.  Nothing     *)
(* else ever separates a waiter from its reply.                            *)
WaiterAccounted ==
  \A c \in Callers : at[c] = "wait" =>
    \/ cur[c] \in resolved
    \/ InFlight(cur[c])
    \/ cur[c] \in lost
    \/ futures[cur[c]] = "error"

(* As long as the validator has never disconnected, the map holds exactly  *)
(* the requests without an answer (and the one handle() is removing), so   *)
(* it cannot grow with the number of requests that were answered.          *)
MapHoldsUnanswered ==
  disconnects = 0 =>
    Keys = (used \ resolved) \cup (IF rAt = "remove" THEN {rMsg} ELSE {})

(* The stream keeps the abstract promise: a future is answered at most     *)
(* once, never after a disconnect has put a FutureError in its place, and  *)
(* never given up while the validator stays connected.                     *)
PhaseOf(i) ==
  CASE i \in resolved -> "answered"
    [] i \notin used -> "unused"
    [] i \in used \ resolved /\ futures[i] = "error"
       /\ ~(rAt = "set" /\ rMsg = i /\ rFut = "bytes") -> "lost"
    [] OTHER -> "pending"

Contract == INSTANCE RequestReply
              WITH phase <- [i \in Ids |-> PhaseOf(i)],
                   broken <- disconnects > 0
KeepsContract == Contract!Spec

(* A call that ends in getResult(timeout) returns, whether or not the      *)
(* validator answers, and from whichever moment of the start-up of the     *)
(* SendReceiveThread it was made; one that ends in getResult() does while  *)
(* the validator stays connected and answers.                              *)
CallReturns(c) == at[c] # "idle" ~> at[c] = "idle"
CallsReturn ==
  /\ \A c \in Timed : CallReturns(c)
  /\ [](disconnects = 0) => \A c \in Callers : CallReturns(c)

(* Every disconnect reaches the consumer: after each it takes a marker,     *)
(* which tells it to register again.  A marker that is put is not enough:  *)
(* the DisconnectThread also clears the queue (SendReceiveThread.java:264).*)
DisconnectReported == ~told ~> told

(* Future.getResult "throws ValidatorConnectionError: The validator        *)
(* disconnected": a caller whose future the DisconnectThread has replaced  *)
(* by a FutureError leaves getResult().                                    *)
WaiterToldOfDisconnect ==
  \A c \in Callers :
    (at[c] = "wait" /\ futures[cur[c]] = "error") ~> at[c] = "idle"
-----------------------------------------------------------------------------
(* The inductive strengthening of the invariants above: a request is in at *)
(* most one place between the caller and handle(), has an entry in the map *)
(* wherever it is, and is unresolved until handle() resolves it.           *)

Underway == atValidator \cup Range(inbox)
            \cup (IF rAt \in {"check", "get", "set"} THEN {rMsg} ELSE {})

CallersApart ==
  /\ \A c, d \in Callers : cur[c] = cur[d] /\ cur[c] # NoId => c = d
  /\ \A c \in Callers : cur[c] # NoId => cur[c] \in used
  /\ \A c \in Callers : at[c] \in {"send", "await", "transmit"} =>
       /\ cur[c] \notin Underway \cup resolved \cup lost
       /\ rMsg # cur[c]
       /\ futures[cur[c]] # "absent"

OncePerMessage ==
  /\ IsInjective(inbox)
  /\ Range(inbox) \cap atValidator = {}
  /\ rMsg \notin Range(inbox) \cup atValidator
  /\ Range(inbox) \cup {rMsg} \subseteq used \cup pushed \cup {NoId}
  /\ atValidator \cup lost \cup resolved \subseteq used

MappedWhileUnderway ==
  /\ \A i \in Underway \cap Ids : futures[i] # "absent" /\ i \notin resolved
  /\ Keys \subseteq used /\ todo \subseteq used
  /\ rAt \in {"get", "set", "remove"} => rMsg \in Ids
  /\ rAt = "set" => rFut # "absent"
  /\ rAt = "set" /\ rFut = "error" => futures[rMsg] = "error"
  /\ rAt = "remove" => rFut = "bytes" /\ rMsg \in resolved

ErrorsAfterDisconnect ==
  (events > 0 \/ dAt # "recv" \/ \E k \in CorrelationIds : futures[k] = "error")
    => disconnects > 0

(* As long as the consumer has taken no marker since the last disconnect,  *)
(* one is in the queue or has yet to be put there.                         *)
MarkerToCome ==
  told \/ events > 0 \/ dAt # "recv" \/ Disconnected \in Range(receiveQueue)

(* The conjunction that one step preserves.                                *)
IInv ==
  /\ TypeOK /\ CallersApart /\ OncePerMessage /\ MappedWhileUnderway
  /\ ErrorsAfterDisconnect /\ MarkerToCome
  /\ ReplyNeverQueued /\ WaiterAccounted /\ MapHoldsUnanswered

=============================================================================
