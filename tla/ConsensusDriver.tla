--------------------------- MODULE ConsensusDriver ---------------------------
(***************************************************************************)
(* The Python consensus SDK: ZmqDriver.start() registers an engine, waits  *)
(* until it is activated and runs it on the main thread, while the driver  *)
(* thread takes the validator's notifications from the stream,             *)
(* acknowledges them and puts them in the engine's updates queue.          *)
(* ZmqService is the calls the engine makes, each a request and an answer. *)
(*                                                                         *)
(* The engine (abstract in engine.py) and the validator are external.  The *)
(* stream is used in outline: PythonStream models it.  Notification n is   *)
(* the n-th the validator sends, and notes[n] its kind; "update" stands    *)
(* for the seven kinds that are parsed and handed on unchanged.  To the    *)
(* driver thread "activated" is a type like any it does not know.          *)
(***************************************************************************)
EXTENDS Integers, Sequences, Functions

CONSTANTS
  Calls,         \* the calls the engine makes
  MaxNotes,      \* bound on notifications
  MaxCalls,      \* bound on the engine's calls
  MaxNotReady,   \* bound on NOT_READY answers
  Breaks         \* whether the validator may disconnect

ASSUME ConsensusBoundAssumption ==
  MaxNotes \in Nat /\ MaxCalls \in Nat /\ MaxNotReady \in Nat /\ Breaks \in BOOLEAN

Kinds == {"update", "activated", "deactivated", "ping"}
Reconnect == 0       \* RECONNECT_EVENT, in place of a notification

VARIABLES
  main, driver,   \* where the two threads are
  exit,           \* _exit
  updates,        \* _updates: ids
  future,         \* of the last receive(): -2 cancelled, -1 not done, or an id
  message,        \* the driver thread's message
  call, answer,   \* the engine's call, and the status its future holds
  calls, notReady,
  ready, closed, broken,   \* the stream: ready event, closed, has disconnected
  recvQueue,      \* notifications the stream has queued
  notes,          \* kinds of the notifications sent
  candidate,      \* validator: a candidate block is being built
  building,       \* history: the engine has been told that it is
  unsure,         \* history: a call was lost or timed out
  told,           \* history: the engine's stop() has been called
  acked,          \* history: ids acknowledged on the open stream
  handled,        \* history: ids the driver thread has taken, in order
  delivered       \* history: ids put in updates, in order

streamVars == << future, ready, closed, broken, recvQueue, notes >>
callVars == << call, answer, calls, candidate, building, unsure >>
driverVars == << message, updates, acked, handled, delivered >>
stopVars == << exit, told >>
vars == << main, driver, notReady, streamVars, callVars, driverVars, stopVars >>

Init ==
  /\ main = "register" /\ driver = "off"
  /\ exit = FALSE /\ told = FALSE /\ notReady = 0
  /\ updates = << >> /\ message = Reconnect
  /\ future = -2 /\ ready = TRUE /\ closed = FALSE /\ broken = FALSE
  /\ recvQueue = << >> /\ notes = << >>
  /\ call = "" /\ answer = "none" /\ calls = 0
  /\ candidate = FALSE /\ building = FALSE /\ unsure = FALSE
  /\ acked = {} /\ handled = << >> /\ delivered = << >>

Kind(n) == IF n = Reconnect THEN "reconnect" ELSE notes[n]
Goto(from, to) == main = from /\ main' = to
DriverGoto(from, to) == driver = from /\ driver' = to

-----------------------------------------------------------------------------
(* start() on the main thread: _register() and _wait_until_active().       *)

\* The validator's answer to a registration: NOT_READY is asked again at once,
\* OK may carry the startup state, anything else raises, and so does an answer
\* lost to a disconnect or late.
RegisterNotReady ==
  /\ main = "register" /\ ready /\ notReady < MaxNotReady
  /\ notReady' = notReady + 1
  /\ UNCHANGED << main, driver, streamVars, callVars, driverVars, stopVars >>

Registered ==
  /\ main = "register" /\ ready
  /\ main' \in {"create", "wait", "raised"}
  /\ UNCHANGED << driver, notReady, streamVars, callVars, driverVars, stopVars >>

ReceiveActivation ==
  /\ Goto("wait", "waiting")
  /\ future' = -1
  /\ UNCHANGED << driver, notReady, ready, closed, broken, recvQueue, notes, callVars,
                  driverVars, stopVars >>

\* Another message is logged and dropped without an acknowledgement; a future
\* cancelled by a disconnect, the marker after it, and send_back() while the
\* stream is not ready raise.
Waited ==
  /\ main = "waiting" /\ future # -1
  /\ main' = CASE future \in {-2, Reconnect} -> "raised"
               [] future > 0 /\ Kind(future) = "activated"
                  -> IF ready THEN "activated" ELSE "raised"
               [] OTHER -> "wait"
  /\ UNCHANGED << driver, notReady, streamVars, callVars, driverVars, stopVars >>

\* put_message() tests the event again, and then drops the acknowledgement.
AckActivation ==
  /\ Goto("activated", "create")
  /\ acked' = IF ready THEN acked \cup {future} ELSE acked
  /\ UNCHANGED << driver, notReady, streamVars, callVars, message, updates, handled,
                  delivered, stopVars >>

StartDriver ==
  /\ Goto("create", "engine") /\ driver' = "receive"
  /\ UNCHANGED << notReady, streamVars, callVars, driverVars, stopVars >>

-----------------------------------------------------------------------------
(* The engine, on the main thread, and its ZmqService.                     *)

EngineUpdate ==
  /\ main = "engine" /\ updates # << >>
  /\ updates' = Tail(updates)
  /\ UNCHANGED << main, driver, notReady, streamVars, callVars, message, acked, handled,
                  delivered, stopVars >>

\* _send(): without the ready event it raises at once.
EngineCalls(c) ==
  /\ calls < MaxCalls /\ calls' = calls + 1
  /\ main = "engine" /\ main' = IF ready THEN "call" ELSE "engine"
  /\ call' = IF ready THEN c ELSE ""
  /\ UNCHANGED << answer, driver, notReady, streamVars, candidate, building, unsure, driverVars,
                  stopVars >>

\* What each call makes of a status: the exceptions it names, ReceiveError for
\* any other, and OK for OK.
Raised(c, status) ==
  CASE status = "OK" -> "OK"
    [] status = "INVALID_STATE" /\ c \in {"initialize_block", "summarize_block",
                                          "finalize_block", "cancel_block"}
       -> "InvalidState"
    [] status = "UNKNOWN_BLOCK" /\ c \in {"initialize_block", "check_blocks",
                                          "commit_block", "ignore_block", "fail_block",
                                          "get_blocks", "get_settings", "get_state"}
       -> "UnknownBlock"
    [] status = "BLOCK_NOT_READY" /\ c \in {"summarize_block", "finalize_block"}
       -> "BlockNotReady"
    [] status = "NO_CHAIN_HEAD" /\ c = "get_chain_head" -> "NoChainHead"
    [] OTHER -> "ReceiveError"

\* Mutant: a block that is not ready is taken for one that is.
NotReadyIsOK(c, status) ==
  IF status \in {"OK", "BLOCK_NOT_READY"} THEN "OK" ELSE Raised(c, status)

\* What the call tells the engine.
Outcome(c, status) == Raised(c, status)

\* Whether it then takes a candidate block to be under way.
Told(c, status, before) ==
  CASE c = "initialize_block" /\ Outcome(c, status) = "OK" -> TRUE
    [] c \in {"finalize_block", "cancel_block"} /\ Outcome(c, status) = "OK" -> FALSE
    [] OTHER -> before

CallReturns ==
  /\ answer \notin {"none", "lost"}
  /\ Goto("call", "engine")
  /\ building' = Told(call, answer, building)
  /\ call' = "" /\ answer' = "none"
  /\ UNCHANGED << driver, notReady, streamVars, calls, candidate, unsure, driverVars,
                  stopVars >>

\* The FutureError of a disconnect, or the timeout.
CallFails ==
  /\ answer \in {"none", "lost"}
  /\ Goto("call", "engine")
  /\ unsure' = TRUE
  /\ call' = "" /\ answer' = "none"
  /\ UNCHANGED << driver, notReady, streamVars, calls, candidate, building, driverVars,
                  stopVars >>

\* The engine returns when told to stop, or of its own accord, or by an
\* exception; all end in stop().
EngineReturns ==
  /\ Goto("engine", "exit")
  /\ UNCHANGED << driver, notReady, streamVars, callVars, driverVars, stopVars >>
EngineObeys == told /\ EngineReturns

-----------------------------------------------------------------------------
(* stop(), which either thread may run, and the end of start().            *)

SetExit ==
  /\ \/ Goto("exit", "tell") /\ UNCHANGED driver
     \/ DriverGoto("exit", "tell") /\ UNCHANGED main
  /\ exit' = TRUE
  /\ UNCHANGED << notReady, streamVars, callVars, driverVars, told >>

TellEngine ==
  /\ \/ Goto("tell", "close") /\ UNCHANGED driver
     \/ DriverGoto("tell", "close") /\ UNCHANGED main
  /\ told' = TRUE
  /\ UNCHANGED << notReady, streamVars, callVars, driverVars, exit >>

\* The loop cancels the pending get and stops, perhaps before the future of
\* receive() hears of it.
CloseStream ==
  /\ \/ Goto("close", "join") /\ UNCHANGED driver
     \/ DriverGoto("close", "ack") /\ UNCHANGED main
  /\ closed' = TRUE
  /\ future' \in IF future = -1 THEN {-1, -2} ELSE {future}
  /\ UNCHANGED << notReady, ready, broken, recvQueue, notes, callVars,
                  driverVars, stopVars >>

Join ==
  /\ driver = "ended"
  /\ Goto("join", "ended")
  /\ UNCHANGED << driver, notReady, streamVars, callVars, driverVars, stopVars >>

-----------------------------------------------------------------------------
(* _driver_loop() and _process() on the driver thread.                     *)

DriverReceives ==
  /\ DriverGoto("receive", "check")
  /\ future' = -1
  /\ UNCHANGED << main, notReady, ready, closed, broken, recvQueue, notes, callVars,
                  driverVars, stopVars >>

DriverChecks ==
  /\ DriverGoto("check", IF exit THEN "ended" ELSE "result")
  /\ told' = (told \/ exit)
  /\ UNCHANGED << main, notReady, streamVars, callVars, driverVars, exit >>

ResultWaits == FALSE      \* Mutant: result() without a timeout.

\* A second without a message.
ResultTimesOut ==
  /\ future = -1
  /\ DriverGoto("result", "check")
  /\ UNCHANGED << main, notReady, streamVars, callVars, driverVars, stopVars >>

\* CancelledError is not one of the exceptions the loop goes on after.
ResultCancelled ==
  /\ future = -2
  /\ DriverGoto("result", "ended")
  /\ UNCHANGED << main, notReady, streamVars, callVars, driverVars, stopVars >>

\* The next receive() comes before the message is processed.
Result ==
  /\ future >= 0
  /\ DriverGoto("result", "process")
  /\ message' = future /\ future' = -1
  /\ handled' = Append(handled, future)
  /\ UNCHANGED << main, notReady, ready, closed, broken, recvQueue, notes, callVars,
                  updates, acked, delivered, stopVars >>

\* Mutants: a message of another type ends the loop, or is followed by a
\* receive() of its own.
UnknownEnds ==
  /\ driver = "process"
  /\ driver' = CASE Kind(message) \in {"reconnect", "activated"} -> "ended"
                 [] Kind(message) = "deactivated" -> "exit"
                 [] OTHER -> "ack"
  /\ UNCHANGED << main, notReady, streamVars, callVars, driverVars, stopVars >>
SkipAfterUnknown ==
  /\ driver = "process"
  /\ driver' = CASE Kind(message) = "reconnect" -> "ended"
                 [] Kind(message) = "activated" -> "receive"
                 [] Kind(message) = "deactivated" -> "exit"
                 [] OTHER -> "ack"
  /\ UNCHANGED << main, notReady, streamVars, callVars, driverVars, stopVars >>

\* A ReceiveError for any other type is logged; the marker has no type.
Process ==
  /\ driver = "process"
  /\ driver' = CASE Kind(message) = "reconnect" -> "ended"
                 [] Kind(message) = "activated" -> "check"
                 [] Kind(message) = "deactivated" -> "exit"
                 [] OTHER -> "ack"
  /\ UNCHANGED << main, notReady, streamVars, callVars, driverVars, stopVars >>

\* send_back() raises while the stream is not ready.
SendBack ==
  /\ DriverGoto("ack", IF ready THEN "send" ELSE "ended")
  /\ UNCHANGED << main, notReady, streamVars, callVars, driverVars, stopVars >>

\* Mutant: nothing is put once _exit is set.
AckUnlessExit ==
  /\ DriverGoto("send", IF Kind(message) = "ping" \/ exit THEN "check" ELSE "put")
  /\ acked' = IF ready /\ ~closed THEN acked \cup {message} ELSE acked
  /\ UNCHANGED << main, notReady, streamVars, callVars, message, updates, handled,
                  delivered, stopVars >>

\* put_message(): the acknowledgement is dropped without a word when the stream
\* has ceased to be ready, and goes nowhere on a closed one.
Acknowledge ==
  /\ DriverGoto("send", IF Kind(message) = "ping" THEN "check" ELSE "put")
  /\ acked' = IF ready /\ ~closed THEN acked \cup {message} ELSE acked
  /\ UNCHANGED << main, notReady, streamVars, callVars, message, updates, handled,
                  delivered, stopVars >>

PutUpdate ==
  /\ DriverGoto("put", "check")
  /\ updates' = Append(updates, message)
  /\ delivered' = Append(delivered, message)
  /\ UNCHANGED << main, notReady, streamVars, callVars, message, acked, handled,
                  stopVars >>

-----------------------------------------------------------------------------
(* The stream in outline, and the validator.                               *)

StreamGets ==
  /\ ~closed /\ ready
  /\ future = -1 /\ recvQueue # << >>
  /\ future' = Head(recvQueue) /\ recvQueue' = Tail(recvQueue)
  /\ UNCHANGED << main, driver, notReady, ready, closed, broken, notes, callVars,
                  driverVars, stopVars >>

\* A disconnect drops the queue, loses the call and cancels the get, unless
\* that is not yet a task of the loop.
StreamBreaks ==
  /\ Breaks /\ ~broken /\ ~closed /\ main # "raised"
  /\ broken' = TRUE /\ ready' = FALSE
  /\ recvQueue' = << >>
  /\ future' \in IF future = -1 THEN {-1, -2} ELSE {future}
  /\ answer' = IF main = "call" /\ answer = "none" THEN "lost" ELSE answer
  /\ UNCHANGED << main, driver, notReady, closed, notes, call, calls, candidate,
                  building, unsure, driverVars, stopVars >>

StreamRecovers ==
  /\ ~ready /\ ready' = TRUE
  /\ recvQueue' = << Reconnect >>
  /\ UNCHANGED << main, driver, notReady, future, closed, broken, notes, callVars,
                  driverVars, stopVars >>

\* Notifications follow the registration, and stop with the connection.
ValidatorNotifies(k) ==
  /\ main \notin {"register", "raised"} /\ ready /\ ~closed /\ ~broken
  /\ Len(notes) < MaxNotes
  /\ notes' = Append(notes, k)
  /\ recvQueue' = Append(recvQueue, Len(notes'))
  /\ UNCHANGED << main, driver, notReady, future, ready, closed, broken, callVars,
                  driverVars, stopVars >>

Statuses(c) ==
  {"OK", "SERVICE_ERROR"}
    \cup IF c = "finalize_block" THEN {"BLOCK_NOT_READY"} ELSE {}

\* A candidate block is begun by initialize and ended by finalize and cancel.
ValidatorAnswers ==
  /\ main = "call" /\ answer = "none" /\ ~closed /\ ready
  /\ LET legal == CASE call = "initialize_block" -> ~candidate
                    [] call \in {"summarize_block", "finalize_block", "cancel_block"}
                       -> candidate
                    [] OTHER -> TRUE
     IN  answer' \in IF legal THEN Statuses(call) ELSE {"INVALID_STATE"}
  /\ candidate' = IF answer' # "OK" THEN candidate
                  ELSE CASE call = "initialize_block" -> TRUE
                         [] call \in {"finalize_block", "cancel_block"} -> FALSE
                         [] OTHER -> candidate
  /\ UNCHANGED << main, driver, notReady, streamVars, call, calls, building, unsure,
                  driverVars, stopVars >>

-----------------------------------------------------------------------------
Start == \/ RegisterNotReady \/ Registered \/ ReceiveActivation \/ Waited
         \/ AckActivation \/ StartDriver
Stop == SetExit \/ TellEngine \/ CloseStream \/ Join
DriverLoop == \/ DriverReceives \/ DriverChecks \/ ResultTimesOut \/ ResultCancelled
              \/ Result \/ Process \/ SendBack \/ Acknowledge \/ PutUpdate
Call == CallReturns \/ CallFails
Environment == \/ EngineUpdate \/ (\E c \in Calls : EngineCalls(c)) \/ EngineReturns
               \/ StreamBreaks \/ \E k \in Kinds : ValidatorNotifies(k)

Next == \/ Start \/ Stop \/ DriverLoop \/ Call \/ Environment
        \/ EngineObeys \/ StreamGets \/ StreamRecovers \/ ValidatorAnswers

Spec == Init /\ [][Next]_vars

(* Both threads and the stream's go on when they can; an engine that is    *)
(* told to stop returns, and its calls end, at the latest by their         *)
(* timeout.                                                                *)
MainStep == Start \/ Call \/ EngineObeys \/ (Stop /\ main' # main)
DriverStep == DriverLoop \/ (Stop /\ driver' # driver)
Fairness ==
  /\ WF_vars(MainStep) /\ WF_vars(DriverStep)
  /\ WF_vars(StreamGets) /\ WF_vars(StreamRecovers)

FairSpec == Spec /\ Fairness

-----------------------------------------------------------------------------
(* Every variable has its type, and the driver thread ends only after      *)
(* stop() or a disconnect.                                                 *)
TypeOK ==
  /\ main \in {"register", "wait", "waiting", "activated", "create", "engine",
               "call", "exit", "tell", "close", "join", "ended", "raised"}
  /\ driver \in {"off", "receive", "check", "result", "process", "exit", "tell",
                 "close", "ack", "send", "put", "ended"}
  /\ future \in -2..MaxNotes /\ message \in 0..MaxNotes
  /\ exit \in BOOLEAN /\ told \in BOOLEAN /\ notReady \in 0..MaxNotReady
  /\ updates \in Seq(1..MaxNotes) /\ recvQueue \in Seq(0..MaxNotes)
  /\ notes \in Seq(Kinds) /\ Len(notes) <= MaxNotes
  /\ answer \in {"none", "lost", "OK", "SERVICE_ERROR", "INVALID_STATE",
                 "BLOCK_NOT_READY"}
  /\ candidate \in BOOLEAN /\ building \in BOOLEAN
  /\ driver = "ended" => exit \/ broken

(* The engine is given every notification that is an update, once and in   *)
(* the validator's order, although the loop asks for the next message      *)
(* before it processes one and goes on after a message it refuses: from    *)
(* the first it takes, no notification is skipped while connected, and     *)
(* what it has put is exactly the updates it has taken, the one in hand,   *)
(* or lost to a send_back() that raised, left out.                         *)
IsUpdate(n) == n # Reconnect /\ notes[n] \in {"update", "deactivated"}
InHand(n) == n = message /\ driver \notin {"receive", "check", "result"}
Taken == {n \in Range(handled) : IsUpdate(n)}
Increasing(s) == \A j, k \in DOMAIN s : j < k => s[j] < s[k]

TakenInOrder ==
  \A j, k \in DOMAIN handled :
    j < k => handled[j] < handled[k] \/ (handled[k] = Reconnect /\ k = Len(handled))
NoneSkipped ==
  ~broken /\ handled # << >> =>
    \A n \in handled[1]..Len(notes) :
      n = future \/ n \in Range(handled) \/ n \in Range(recvQueue)
PutIsTaken ==
  /\ Increasing(delivered)
  /\ \/ Range(delivered) = {n \in Taken : ~InHand(n)}
     \/ driver = "ended" /\ Range(delivered) = Taken

DeliversInOrder == TakenInOrder /\ NoneSkipped /\ PutIsTaken

(* The validator is told that a notification has arrived only if the       *)
(* engine gets it: whatever is acknowledged, pings and the activation      *)
(* apart, is put in updates, or is about to be.  The converse holds only   *)
(* while the stream is up: what is put was acknowledged, unless the stream *)
(* was closed before, as it is for DEACTIVATED, or a disconnect came       *)
(* between send_back()'s test of the stream and put_message()'s.           *)
AckMeansDelivery ==
  LET put == Range(delivered)
  IN  /\ \A n \in acked : \/ n \in put \/ Kind(n) \in {"ping", "activated"}
                          \/ driver = "put" /\ n = message
      /\ \A n \in put : n \in acked \/ closed \/ broken

(* As long as no call was lost or timed out, what the engine was told of   *)
(* its candidate block is what the validator has: no status is mistaken.   *)
EngineKnowsCandidate ==
  ~unsure /\ main # "call" => building = candidate

-----------------------------------------------------------------------------
(* The inductive invariant: which notifications the stream, the future and *)
(* the driver thread can hold, what a marker in their place means, and     *)
(* what a call will have told the engine when it returns.                  *)
OnlySent ==
  LET sent == 1..Len(notes)
  IN  /\ future <= Len(notes) /\ message <= Len(notes)
      /\ \A n \in Range(recvQueue) : n <= Len(notes)
      /\ acked \subseteq sent /\ delivered \in Seq(sent)
      /\ driver \in {"exit", "tell", "close", "ack", "send", "put"} => message \in sent
      /\ driver = "put" => message \in acked \/ closed \/ broken

MarkerMeansBroken ==
  /\ ~ready => broken
  /\ Reconnect \in Range(recvQueue) => broken
  /\ future = Reconnect => broken
  /\ driver = "process" /\ message = Reconnect => broken
  /\ driver \notin {"off", "receive"} /\ future = -2 => broken \/ closed
  /\ closed \/ main \in {"tell", "close"} \/ driver \in {"tell", "close"} => exit

OneThreadAtFirst ==
  /\ main \in {"register", "wait", "waiting", "activated", "create", "raised"}
       => driver = "off"
  /\ main = "activated" => future \in 1..Len(notes) /\ Kind(future) = "activated"

AnswerTells ==
  /\ main # "call" => answer = "none"
  /\ main = "call" /\ ~unsure =>
       /\ answer = "none" => building = candidate
       /\ answer \notin {"none", "lost"} => Told(call, answer, building) = candidate

\* What the driver thread has taken is a run of the validator's notifications,
\* perhaps with a marker at its end, and the message is the last of it.
TakenRun ==
  /\ handled \in Seq(0..Len(notes))
  /\ handled # << >> => driver \notin {"off", "receive"} /\ message = handled[Len(handled)]
  /\ handled = << >> => driver \in {"off", "receive", "check", "result", "ended"}
  /\ handled # << >> /\ message = Reconnect => broken /\ driver \in {"process", "ended"}
  /\ \A k \in DOMAIN handled :
       \/ handled[k] # Reconnect /\ handled[k] = handled[1] + k - 1
       \/ handled[k] = Reconnect /\ k = Len(handled)

\* The future and the queue go on where it ends, up to the last that was sent.
RestFollows ==
  LET first == Len(notes) - Len(recvQueue) + 1      \* expected in the queue
  IN  /\ handled # << >> /\ future > 0 => message # Reconnect /\ future = message + 1
      /\ ~broken /\ future > 0 => future = first - 1
      /\ ~broken /\ handled # << >> /\ future <= 0 => message = first - 1
      /\ \A k \in DOMAIN recvQueue :
           recvQueue[k] = IF broken THEN Reconnect ELSE first + k - 1

\* What the driver thread is about to stop for or to put is an update.
PutsUpdates ==
  /\ driver \in {"exit", "tell", "close", "put"} => IsUpdate(message)
  /\ driver \in {"ack", "send"} => Kind(message) # "activated"

IInv ==
  /\ TypeOK /\ OnlySent /\ MarkerMeansBroken /\ OneThreadAtFirst /\ AnswerTells
  /\ AckMeansDelivery /\ EngineKnowsCandidate
  /\ TakenRun /\ RestFollows /\ PutsUpdates /\ DeliversInOrder

(* Whoever calls stop(), start() returns, with the driver thread ended.    *)
StartReturns == exit ~> main = "ended" /\ driver = "ended"

(* An update sent to an active engine is delivered unless the engine stops *)
(* or the validator disconnects.                                           *)
UpdateDelivered ==
  \A n \in 1..MaxNotes :
    (n <= Len(notes) /\ notes[n] = "update" /\ main = "engine"
       /\ \E k \in DOMAIN recvQueue : recvQueue[k] = n)
      ~> (\E k \in DOMAIN delivered : delivered[k] = n) \/ exit \/ broken
=============================================================================
