---------------------------- MODULE PythonStream ----------------------------
(***************************************************************************)
(* The Python SDK's messaging layer: Stream, its Futures, and the thread   *)
(* (_SendReceiveThread) that runs an asyncio event loop.  The steps of the *)
(* caller's thread are operators without a program counter; the module     *)
(* that owns the thread (PythonProcessor) puts them in order.  The loop's  *)
(* coroutines run one at a time, and each is a step up to its next await;  *)
(* only the disconnect sweep is cut finer, because the caller's thread may *)
(* run between any two of its bytecodes.                                   *)
(*                                                                         *)
(* A message of the caller is << "send", id, what >> or a response         *)
(* << "back", id, status >>.  The validator is external: it answers each   *)
(* request at most once, in any order, and forgets any of them at a        *)
(* disconnect.                                                             *)
(***************************************************************************)
EXTENDS Integers, Sequences, FiniteSets

CONSTANTS
  MaxSends,        \* bound on requests, and so on correlation ids
  MaxDisconnects   \* bound on disconnects

ASSUME PyBoundAssumption == MaxSends \in Nat \ {0} /\ MaxDisconnects \in Nat

Ids == 1..MaxSends
Reconnect == [id |-> "reconnect", kind |-> "reconnect"]   \* RECONNECT_EVENT

VARIABLES
  event,       \* the ready event is set
  loop,        \* where the loop's thread is: "serve", "cleared", "sweep",
               \* "stopped", or "serve" for ever without a monitor: "orphan"
  futures,     \* ids in the FutureCollection
  unswept,     \* ids the sweep's iterator has not reached
  size,        \* the size the dict had when the iteration began
  result,      \* each Future's _result: "none", "lost" (FutureError) or a reply
  sending,     \* messages scheduled with put_message or in _send_queue
  recvQueue,   \* _recv_queue
  getter,      \* the last receive(): "none", "waiting", "doomed", "cancelled", "done"
  got,         \* and its message when done
  used,        \* correlation ids used so far
  atValidator, \* requests the validator has and has not answered
  disconnects,
  stray        \* history: ids put after a sweep had begun, in the same disconnect

loopVars == << event, loop, unswept, size, recvQueue, disconnects >>
callVars == << futures, result, used, stray >>
getVars == << getter, got >>
outVars == << sending, atValidator >>
streamVars == << loopVars, callVars, getVars, outVars >>

StreamInit ==
  /\ event = TRUE /\ loop = "serve" /\ disconnects = 0
  /\ futures = {} /\ unswept = {} /\ size = 0 /\ used = 0
  /\ result = [i \in Ids |-> "none"]
  /\ sending = << >> /\ recvQueue = << >>
  /\ getter = "none" /\ got = Reconnect
  /\ atValidator = {} /\ stray = {}

Min(S) == CHOOSE i \in S : \A j \in S : i <= j
NoQueues == loop = "stopped"     \* _send_queue and _recv_queue are None
Turns == loop \in {"serve", "orphan"}     \* the event loop runs other coroutines

-----------------------------------------------------------------------------
(* The caller's thread.                                                    *)

\* send(): a new Future under a new id, put in the collection.
PutFuture ==
  /\ used < MaxSends
  /\ used' = used + 1
  /\ futures' = futures \cup {used'}
  /\ stray' = IF loop \in {"sweep", "stopped", "orphan"} THEN stray \cup {used'} ELSE stray
  /\ UNCHANGED << loopVars, result, getVars, outVars >>

\* put_message() once its two tests are passed: _put_message is scheduled.
Schedule(m) ==
  /\ ~NoQueues
  /\ sending' = Append(sending, m)
  /\ UNCHANGED << loopVars, callVars, getVars, atValidator >>

\* receive(): _get_message is scheduled.
ScheduleGet ==
  /\ getter' = "waiting"
  /\ UNCHANGED << got, loopVars, callVars, outVars >>

-----------------------------------------------------------------------------
(* The event loop: _send_message, _receive_message and _get_message.       *)

\* The socket of a loop without a monitor has no connection.
Transmit ==
  /\ loop = "serve"
  /\ sending # << >>
  /\ sending' = Tail(sending)
  /\ atValidator' = IF Head(sending)[1] = "send"
                    THEN atValidator \cup {Head(sending)} ELSE atValidator
  /\ UNCHANGED << loopVars, callVars, getVars >>

\* A reply: set_result and remove, both in one turn of the loop.  A reply that
\* finds no future would be taken for a message of the validator's own.
ReceiveReply(m, reply) ==
  /\ loop = "serve" /\ m \in atValidator
  /\ atValidator' = atValidator \ {m}
  /\ IF m[2] \in futures
     THEN /\ result' = [result EXCEPT ![m[2]] = reply]
          /\ futures' = futures \ {m[2]}
          /\ UNCHANGED recvQueue
     ELSE /\ recvQueue' = Append(recvQueue, [id |-> "reply", kind |-> "other"])
          /\ UNCHANGED << result, futures >>
  /\ UNCHANGED << event, loop, unswept, size, disconnects, getVars, sending, used,
                  stray >>

\* A message without a future is the validator's own.
ReceiveInitial(m) ==
  /\ loop = "serve"
  /\ recvQueue' = Append(recvQueue, m)
  /\ UNCHANGED << event, loop, unswept, size, disconnects, callVars, getVars, outVars >>

GetMessage ==
  /\ Turns
  /\ getter = "waiting" /\ recvQueue # << >>
  /\ getter' = "done" /\ got' = Head(recvQueue)
  /\ recvQueue' = Tail(recvQueue)
  /\ UNCHANGED << event, loop, unswept, size, disconnects, callVars, outVars >>

-----------------------------------------------------------------------------
(* _monitor_disconnects, and run() connecting again.                       *)

\* The socket is disconnected and the event cleared.
Disconnect ==
  /\ loop = "serve" /\ disconnects < MaxDisconnects
  /\ disconnects' = disconnects + 1
  /\ loop' = "cleared" /\ event' = FALSE
  /\ \E forgotten \in SUBSET atValidator : atValidator' = atValidator \ forgotten
  /\ UNCHANGED << unswept, size, recvQueue, callVars, getVars, sending >>

\* Mutant: only requests the validator has are swept.
SweepDelivered ==
  /\ loop = "cleared"
  /\ loop' = "sweep" /\ unswept' = {m[2] : m \in atValidator}
  /\ size' = Cardinality(futures)
  /\ UNCHANGED << event, recvQueue, disconnects, callVars, getVars, outVars >>

SweepBegins ==
  /\ loop = "cleared"
  /\ loop' = "sweep" /\ unswept' = futures /\ size' = Cardinality(futures)
  /\ UNCHANGED << event, recvQueue, disconnects, callVars, getVars, outVars >>

\* future_values() is a view of the dict: putting an entry while it is
\* iterated raises RuntimeError at the next item, and ends the coroutine.
Resized == Cardinality(futures) # size

SweepNext ==
  /\ loop = "sweep" /\ ~Resized /\ unswept # {}
  /\ LET i == Min(unswept)                      \* dicts keep insertion order
     IN  /\ result' = [result EXCEPT ![i] = "lost"]
         /\ unswept' = unswept \ {i}
  /\ UNCHANGED << event, loop, size, recvQueue, disconnects, futures, used, stray,
                  getVars, outVars >>

SweepFails ==
  /\ loop = "sweep" /\ Resized
  /\ loop' = "orphan"
  /\ UNCHANGED << event, unswept, size, recvQueue, disconnects, callVars, getVars,
                  outVars >>

\* All tasks are cancelled, the loop is stopped and the queues dropped.  What
\* is scheduled but not yet a task survives: the last messages, perhaps the
\* get.
StopLoop ==
  /\ loop = "sweep" /\ ~Resized /\ unswept = {}
  /\ loop' = "stopped"
  /\ recvQueue' = << >> /\ size' = 0
  /\ \E n \in 0..Len(sending) : sending' = SubSeq(sending, n + 1, Len(sending))
  /\ getter' \in IF getter = "waiting" THEN {"waiting", "doomed"} ELSE {getter}
  /\ UNCHANGED << event, unswept, disconnects, callVars, got, atValidator >>

\* Mutant: the marker is left out.
RestartUnmarked ==
  /\ loop = "stopped"
  /\ loop' = "serve" /\ event' = TRUE
  /\ recvQueue' = << >>
  /\ getter' = IF getter = "doomed" THEN "cancelled" ELSE getter
  /\ UNCHANGED << unswept, size, disconnects, callVars, got, outVars >>

\* New queues, the marker, notify_all, the ready event; a cancelled get gets
\* its CancelledError once the loop runs again.
Restart ==
  /\ loop = "stopped"
  /\ loop' = "serve" /\ event' = TRUE
  /\ recvQueue' = << Reconnect >>
  /\ getter' = IF getter = "doomed" THEN "cancelled" ELSE getter
  /\ UNCHANGED << unswept, size, disconnects, callVars, got, outVars >>

Recovery == SweepBegins \/ SweepNext \/ SweepFails \/ StopLoop \/ Restart

-----------------------------------------------------------------------------
Results == {"none", "lost", "ok", "error", "version", "unauthorized"}
StreamTypeOK ==
  /\ event \in BOOLEAN
  /\ loop \in {"serve", "cleared", "sweep", "stopped", "orphan"}
  /\ used \in 0..MaxSends /\ disconnects \in 0..MaxDisconnects
  /\ futures \subseteq 1..used /\ unswept \subseteq 1..used /\ stray \subseteq 1..used
  /\ size \in Nat /\ result \in [Ids -> Results]
  /\ getter \in {"none", "waiting", "doomed", "cancelled", "done"}

-----------------------------------------------------------------------------
(* Parts of the inductive invariant.                                       *)

\* The future of a request that was put with id i will get a result.
Open(i) == i \in 1..used /\ result[i] = "none"

\* A future without a result is kept; once a sweep is over, only one that was
\* put after it had begun has none; and nothing else disturbs the iteration.
FuturesKept ==
  /\ event <=> loop = "serve"
  /\ \A i \in Ids : i > used => result[i] = "none"
  /\ \A i \in Ids : Open(i) => i \in futures
  /\ loop \in {"sweep", "orphan"} => \A i \in Ids : Open(i) => i \in unswept \cup stray
  /\ loop = "stopped" => \A i \in Ids : Open(i) => i \in stray
  /\ loop = "sweep" => size = Cardinality(futures) \/ stray # {}
  /\ loop = "orphan" => stray # {}

\* A request is in one place on its way out, and has a future until its reply.
IsSend(n) == sending[n][1] = "send"
OnceUnderway ==
  /\ \A n \in DOMAIN sending : IsSend(n) => sending[n][2] \in futures
  /\ \A m \in atValidator : m[1] = "send" /\ m[2] \in futures
  /\ \A k, n \in DOMAIN sending :
       IsSend(k) /\ IsSend(n) /\ sending[k][2] = sending[n][2] => k = n
  /\ \A m \in atValidator, n \in DOMAIN sending : IsSend(n) => m[2] # sending[n][2]
  /\ \A m, o \in atValidator : m[2] = o[2] => m = o
=============================================================================
