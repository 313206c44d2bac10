--------------------------- MODULE PythonProcessor ---------------------------
(***************************************************************************)
(* The Python SDK's TransactionProcessor on its Stream: start() registers  *)
(* the handlers, receives, processes and answers messages, registers again *)
(* on RECONNECT_EVENT, and unregisters and drains its last future after a  *)
(* KeyboardInterrupt or a ValidatorVersionError.  All of it, and the       *)
(* Context calls of apply(), run on the main thread; its program counter   *)
(* is here, and the steps of the stream it makes are PythonStream's.       *)
(*                                                                         *)
(* The validator (external) answers, pushes requests for the families it   *)
(* has registered, pings, and disconnects.                                 *)
(***************************************************************************)
EXTENDS PythonStream, Functions

CONSTANTS
  Handlers,     \* the families (name and version) of the handlers, in order
  Pushes,       \* ids of the messages the validator may push
  PushKinds,    \* and what they may be: a family, "ping" or "other"
  MaxCalls,     \* bound on the context calls of one apply()
  Refusals,     \* whether the validator may refuse a registration
  Interrupts    \* whether a KeyboardInterrupt may come

Families == Range(Handlers)

ASSUME HandlersAssumption == Handlers \in Seq(Families) \ {<< >>} /\ MaxCalls \in Nat
ASSUME PushesAssumption == \A p \in Pushes : p # "reply" /\ p # "reconnect"
ASSUME SwitchAssumption == Refusals \in BOOLEAN /\ Interrupts \in BOOLEAN

VARIABLES
  pc, task,     \* where the main thread is, and what for
  regs,         \* registrations sent in this _register()
  call,         \* the id of the future it has just put
  waits,        \* ids of the futures it will ask for their result
  calls,        \* context calls of this apply()
  verdict,      \* the status it will send back
  failed,       \* history: a context call of this apply() got no good answer
  stopping,     \* start() is in its except clause
  ended,        \* how start() ended: "", "done", "stopped" or "crashed"
  registered,   \* families the validator has registered
  pushed,       \* messages pushed: [id, kind]
  responses,    \* history: << "back", id, status, failed >> the validator got
  redone        \* history: the request held in fut when start() was interrupted

mainVars == << pc, task, regs, call, waits, calls, verdict, failed, stopping, ended >>
sideVars == << registered, pushed, responses, redone >>
vars == << streamVars, mainVars, sideVars >>

Init ==
  /\ StreamInit
  /\ pc = "ready" /\ task = "register" /\ regs = 0 /\ call = 0 /\ waits = << >>
  /\ calls = 0 /\ verdict = "OK" /\ failed = FALSE /\ stopping = FALSE /\ ended = ""
  /\ registered = {} /\ pushed = {} /\ responses = << >> /\ redone = {}

Goto(from, to) == pc = from /\ pc' = to
End(how) == pc' = "ended" /\ ended' = how

\* What a ValidatorConnectionError does: _process() catches it, nothing else.
ConnectionError ==
  IF task = "apply" THEN pc' = "receive" /\ UNCHANGED ended ELSE End("crashed")

-----------------------------------------------------------------------------
(* Stream.send() for _register(), _unregister() and the Context calls.     *)

What == IF task = "register" THEN Handlers[regs + 1] ELSE task

\* wait_for_ready().
WaitForReady ==
  /\ Goto("ready", "check")
  /\ event
  /\ UNCHANGED << streamVars, task, regs, call, waits, calls, verdict, failed,
                  stopping, ended, sideVars >>

SendCheck ==
  /\ pc = "check"
  /\ IF event THEN pc' = "put" /\ UNCHANGED ended ELSE ConnectionError
  /\ failed' = (failed \/ ~event)
  /\ UNCHANGED << streamVars, task, regs, call, waits, calls, verdict, stopping,
                  sideVars >>

SendPut ==
  /\ Goto("put", "test")
  /\ PutFuture
  /\ call' = used'
  /\ UNCHANGED << task, regs, waits, calls, verdict, failed, stopping, ended, sideVars >>

\* send() has returned its future.
Sent ==
  /\ waits' = Append(waits, call)
  /\ regs' = IF task = "register" THEN regs + 1 ELSE regs
  /\ pc' = IF task = "register" /\ regs' < Len(Handlers) THEN "ready" ELSE "result"
  /\ UNCHANGED << task, call, calls, verdict, failed, stopping, ended, sideVars >>

\* put_message(): without the ready event it returns and says nothing.
SendTest ==
  /\ pc = "test"
  /\ UNCHANGED streamVars
  /\ IF event
     THEN /\ pc' = "schedule"
          /\ UNCHANGED << task, regs, call, waits, calls, verdict, failed, stopping,
                          ended, sideVars >>
     ELSE Sent

SendSchedule ==
  /\ pc = "schedule"
  /\ Schedule(<< "send", call, What >>)
  /\ Sent

-----------------------------------------------------------------------------
(* Future.result().                                                        *)

Answer == result[Head(waits)]
Answered(t) == pc = "result" /\ task = t /\ Answer # "none"

\* _unregister() after the interrupt or the ValidatorVersionError.
Unregister ==
  /\ stopping' = TRUE
  /\ task' = "unregister" /\ pc' = "ready" /\ waits' = << >>
  /\ UNCHANGED << regs, call, calls, verdict, failed, ended >>

\* A lost registration is logged; an ERROR is a RuntimeError, after which
\* start() closes the stream.
RegisterResult ==
  /\ Answered("register")
  /\ UNCHANGED << streamVars, sideVars >>
  /\ \/ Answer = "version" /\ Unregister
     \/ /\ Answer = "error" /\ End("stopped")
        /\ UNCHANGED << task, regs, call, waits, calls, verdict, failed, stopping >>
     \/ /\ Answer \notin {"version", "error"}
        /\ waits' = Tail(waits)
        /\ pc' = IF waits' = << >> THEN "receive" ELSE "result"
        /\ UNCHANGED << task, regs, call, calls, verdict, failed, stopping, ended >>

\* Mutant: a call that is lost with the connection ends apply() as any other.
CallLostIgnored ==
  /\ Answered("apply")
  /\ waits' = << >>
  /\ failed' = (failed \/ Answer # "ok")
  /\ pc' = IF Answer \in {"ok", "lost"} THEN "apply" ELSE "respond"
  /\ verdict' = CASE Answer = "unauthorized" -> "INVALID"
                  [] Answer = "error" -> "INTERNAL"
                  [] OTHER -> verdict
  /\ UNCHANGED << streamVars, task, regs, call, calls, stopping, ended, sideVars >>

\* AuthorizationException is an invalid transaction, InternalError (receipts
\* and events) an internal error, a FutureError a ValidatorConnectionError.
CallResult ==
  /\ Answered("apply")
  /\ waits' = << >>
  /\ failed' = (failed \/ Answer # "ok")
  /\ pc' = CASE Answer = "ok" -> "apply"
             [] Answer = "lost" -> "receive"
             [] OTHER -> "respond"
  /\ verdict' = CASE Answer = "unauthorized" -> "INVALID"
                  [] Answer = "error" -> "INTERNAL"
                  [] OTHER -> verdict
  /\ UNCHANGED << streamVars, task, regs, call, calls, stopping, ended, sideVars >>

\* Nothing in start() catches a FutureTimeoutError before the except clause.
CallTimesOut ==
  /\ pc = "result" /\ task = "apply" /\ Answer = "none"
  /\ End(IF stopping THEN "done" ELSE "crashed")
  /\ UNCHANGED << streamVars, task, regs, call, waits, calls, verdict, failed, stopping,
                  sideVars >>

\* Whatever the answer, the last future is processed next; without one the
\* loop spins.
UnregisterResult ==
  /\ Answered("unregister")
  /\ pc' = IF getter = "none" THEN "spin" ELSE "await"
  /\ task' = "drain" /\ waits' = << >>
  /\ UNCHANGED << streamVars, regs, call, calls, verdict, failed, stopping, ended,
                  sideVars >>

UnregisterTimesOut ==
  /\ pc = "result" /\ task = "unregister" /\ Answer = "none"
  /\ End("done")
  /\ UNCHANGED << streamVars, task, regs, call, waits, calls, verdict, failed, stopping,
                  sideVars >>

-----------------------------------------------------------------------------
(* The loop of start(), _process_future() and _process().                  *)

Receive ==
  /\ Goto("receive", "await")
  /\ ScheduleGet
  /\ UNCHANGED << task, regs, call, waits, calls, verdict, failed, stopping, ended,
                  sideVars >>

Cancelled ==
  /\ getter = "cancelled"
  /\ Goto("await", "receive")
  /\ UNCHANGED << streamVars, task, regs, call, waits, calls, verdict, failed,
                  stopping, ended, sideVars >>

\* Mutant: the timeout is left out.
AwaitForEver == FALSE

\* While stopping, a second without a message is the end.
AwaitTimesOut ==
  /\ stopping
  /\ getter \in {"waiting", "doomed"}
  /\ pc = "await" /\ End("done")
  /\ UNCHANGED << streamVars, task, regs, call, waits, calls, verdict, failed, stopping,
                  sideVars >>

RegisterAgain ==
  /\ getter = "done" /\ got.kind = "reconnect"
  /\ pc = "await" /\ pc' = IF stopping THEN "receive" ELSE "ready"
  /\ task' = IF stopping THEN task ELSE "register"
  /\ regs' = 0 /\ waits' = << >>
  /\ UNCHANGED << streamVars, call, calls, verdict, failed, stopping, ended, sideVars >>

Ping ==
  /\ getter = "done" /\ got.kind = "ping"
  /\ Goto("await", "respond")
  /\ task' = "ping" /\ verdict' = "PONG" /\ failed' = FALSE
  /\ UNCHANGED << streamVars, regs, call, waits, calls, stopping, ended, sideVars >>

\* Any other type is logged and dropped, and so is a request while the stream
\* is not ready or without a handler.
FirstHandler == got.kind = Head(Handlers)      \* Mutant: only the first is asked.
HasHandler == got.kind \in Range(Handlers)

Drop ==
  /\ getter = "done" /\ got.kind \notin {"reconnect", "ping"}
  /\ ~event \/ ~HasHandler
  /\ Goto("await", "receive")
  /\ UNCHANGED << streamVars, task, regs, call, waits, calls, verdict, failed,
                  stopping, ended, sideVars >>

Process ==
  /\ getter = "done" /\ got.kind \notin {"reconnect", "ping"}
  /\ event /\ HasHandler
  /\ Goto("await", "apply")
  /\ task' = "apply" /\ calls' = 0 /\ failed' = FALSE /\ waits' = << >>
  /\ UNCHANGED << streamVars, regs, call, verdict, stopping, ended, sideVars >>

\* One of the five Context calls.
ContextCall ==
  /\ Goto("apply", "check")
  /\ calls < MaxCalls /\ calls' = calls + 1
  /\ UNCHANGED << streamVars, task, regs, call, waits, verdict, failed, stopping, ended,
                  sideVars >>

ApplyReturns ==
  /\ Goto("apply", "respond")
  /\ verdict' \in {"OK", "INVALID", "INTERNAL"}
  /\ UNCHANGED << streamVars, task, regs, call, waits, calls, failed, stopping, ended,
                  sideVars >>

\* Any other exception leaves start().
ApplyThrows ==
  /\ pc = "apply" /\ End("crashed")
  /\ UNCHANGED << streamVars, task, regs, call, waits, calls, verdict, failed, stopping,
                  sideVars >>

\* send_back() of a response or a PingResponse.
Respond ==
  /\ pc = "respond"
  /\ IF event THEN pc' = "back" /\ UNCHANGED ended ELSE ConnectionError
  /\ UNCHANGED << streamVars, task, regs, call, waits, calls, verdict, failed, stopping,
                  sideVars >>

BackTest ==
  /\ Goto("back", IF event THEN "backschedule" ELSE "receive")
  /\ UNCHANGED << streamVars, task, regs, call, waits, calls, verdict, failed,
                  stopping, ended, sideVars >>

\* Mutant: a response is not the end of the request.
BackAndRetry ==
  /\ Goto("backschedule", "await")
  /\ Schedule(<< "back", got.id, verdict, failed >>)
  /\ UNCHANGED << task, regs, call, waits, calls, verdict, failed, stopping, ended,
                  sideVars >>

BackSchedule ==
  /\ Goto("backschedule", "receive")
  /\ Schedule(<< "back", got.id, verdict, failed >>)
  /\ UNCHANGED << task, regs, call, waits, calls, verdict, failed, stopping, ended,
                  sideVars >>

\* KeyboardInterrupt, at any bytecode of the main thread.
Interrupt ==
  /\ Interrupts /\ ~stopping /\ pc # "ended"
  /\ Unregister
  /\ redone' = IF getter = "done" THEN {got.id} ELSE {}
  /\ UNCHANGED << streamVars, registered, pushed, responses >>

-----------------------------------------------------------------------------
(* The loop's thread and the validator, with what the validator records.   *)

LoopSends ==
  /\ Transmit
  /\ responses' = IF Head(sending)[1] = "back" THEN Append(responses, Head(sending))
                  ELSE responses
  /\ UNCHANGED << mainVars, registered, pushed, redone >>

LoopGets == GetMessage /\ UNCHANGED << mainVars, sideVars >>
LoopRecovers == Recovery /\ UNCHANGED << mainVars, sideVars >>

Replies(what) == IF what = "unregister" THEN {"ok"}
                 ELSE IF what = "apply" THEN {"ok", "unauthorized", "error"}
                 ELSE {"ok"} \cup IF Refusals THEN {"error", "version"} ELSE {}

ValidatorReplies(i) ==
  \E m \in atValidator :
    /\ m[2] = i
    /\ \E reply \in Replies(m[3]) :
         /\ ReceiveReply(m, reply)
         /\ registered' = IF m[3] = "unregister" THEN {}
                          ELSE IF m[3] \in Families /\ reply # "error"
                               THEN registered \cup {m[3]} ELSE registered
    /\ UNCHANGED << mainVars, pushed, responses, redone >>

ValidatorPushes(p) ==
  /\ \A m \in pushed : m.id # p
  /\ \E k \in PushKinds \cap (registered \cup {"ping", "other"}) :
       LET m == [id |-> p, kind |-> k]
       IN  pushed' = pushed \cup {m} /\ ReceiveInitial(m)
  /\ UNCHANGED << mainVars, registered, responses, redone >>

ValidatorDisconnects ==
  /\ Disconnect
  /\ registered' = {}
  /\ UNCHANGED << mainVars, pushed, responses, redone >>

-----------------------------------------------------------------------------
Send == WaitForReady \/ SendCheck \/ SendPut \/ SendTest \/ SendSchedule
Main == \/ Send \/ RegisterResult \/ CallResult \/ UnregisterResult
        \/ UnregisterTimesOut \/ Receive \/ Cancelled \/ AwaitTimesOut
        \/ RegisterAgain \/ Ping \/ Drop \/ Process \/ ContextCall \/ ApplyReturns
        \/ Respond \/ BackTest \/ BackSchedule
Loop == LoopSends \/ LoopGets \/ LoopRecovers
Environment == \/ ApplyThrows \/ CallTimesOut \/ Interrupt \/ ValidatorDisconnects
               \/ \E p \in Pushes : ValidatorPushes(p)

Next == Main \/ Loop \/ Environment \/ \E i \in Ids : ValidatorReplies(i)

Spec == Init /\ [][Next]_vars

(* Both threads go on when they can, and a connected validator answers.    *)
Fairness ==
  /\ WF_vars(Main) /\ WF_vars(LoopSends) /\ WF_vars(LoopGets) /\ WF_vars(LoopRecovers)
  /\ \A i \in Ids : WF_vars(ValidatorReplies(i))

FairSpec == Spec /\ Fairness

-----------------------------------------------------------------------------
(* Every variable has its type; so no reply is ever taken for a message of *)
(* the validator's own.                                                    *)
Incoming == {Reconnect} \cup [id : Pushes, kind : Families \cup {"ping", "other"}]
Asked == Families \cup {"apply", "unregister"}
Verdicts == {"OK", "INVALID", "INTERNAL", "PONG"}
Requests == {"send"} \X Ids \X Asked
Responses == {"back"} \X (Pushes \cup {"reconnect"}) \X Verdicts \X BOOLEAN
MessagesOK ==
  /\ sending \in Seq(Requests \cup Responses) /\ atValidator \subseteq Requests
  /\ recvQueue \in Seq(Incoming) /\ got \in Incoming
  /\ registered \subseteq Families
  /\ pushed \subseteq Incoming \ {Reconnect}
  /\ responses \in Seq(Responses)
MainTypeOK ==
  /\ pc \in {"ready", "check", "put", "test", "schedule", "result", "receive",
             "await", "apply", "respond", "back", "backschedule", "spin", "ended"}
  /\ task \in {"register", "apply", "unregister", "drain", "ping"}
  /\ ended \in {"", "done", "stopped", "crashed"}
  /\ regs \in 0..Len(Handlers) /\ calls \in 0..MaxCalls /\ call \in 0..used
  /\ waits \in Seq(1..used) /\ verdict \in Verdicts
  /\ failed \in BOOLEAN /\ stopping \in BOOLEAN
  /\ redone \subseteq Pushes \cup {"reconnect"}
TypeOK == StreamTypeOK /\ MessagesOK /\ MainTypeOK

(* The main thread waits for a result that will come: the request is on    *)
(* its way or with the validator, or the disconnect sweep has its future   *)
(* still before it.  Only a send() that passed its ready test before a     *)
(* disconnect and put its future after the sweep began is left out, and    *)
(* only such a send() can leave the loop without its monitor.              *)
Underway(i) == \/ \E n \in DOMAIN sending : sending[n][1] = "send" /\ sending[n][2] = i
               \/ \E m \in atValidator : m[2] = i
WaiterAccounted ==
  /\ \A n \in DOMAIN waits :
       LET i == waits[n]
       IN  \/ result[i] # "none" \/ i \in stray \/ Underway(i)
           \/ i \in futures /\ loop = "cleared"
           \/ i \in unswept /\ loop \in {"sweep", "orphan"}
  /\ loop = "orphan" => stray # {}

(* A request gets one response, whatever disconnects, except that the one  *)
(* start() was at when it was interrupted is processed once more, and may  *)
(* get two.                                                                *)
ResponsesTo(p) == {n \in DOMAIN responses : responses[n][2] = p}
OneResponse ==
  \A p \in Pushes :
    Cardinality(ResponsesTo(p)) <= IF p \in redone THEN 2 ELSE 1

(* A transaction is reported OK only if every Context call of its apply()  *)
(* got a good answer: one that is lost, refused or late never ends in OK.  *)
OkMeansContextAnswered ==
  \A n \in DOMAIN responses : responses[n][3] = "OK" => ~responses[n][4]

-----------------------------------------------------------------------------
(* The inductive invariant: what the main thread has in hand at each of    *)
(* its places.                                                             *)

Sending == pc \in {"ready", "check", "put", "test", "schedule"}
Calling == pc \in {"test", "schedule"}
Unsent(i) ==
  /\ \A n \in DOMAIN sending : IsSend(n) => sending[n][2] # i
  /\ \A m \in atValidator : m[2] # i
InHand ==
  /\ Sending \/ pc = "result" => task \in {"register", "apply", "unregister"}
  /\ Sending /\ task = "register" => regs < Len(Handlers)
  /\ Sending /\ task # "register" => waits = << >>
  /\ pc = "result" => waits # << >>
  /\ pc = "apply" => task = "apply" /\ waits = << >> /\ getter = "done"
  /\ task = "apply" /\ (Sending \/ pc = "result") => getter = "done"
  /\ pc \in {"respond", "back", "backschedule"} =>
       task \in {"apply", "ping"} /\ getter = "done"
  /\ Calling => call \in futures /\ Unsent(call) /\ result[call] \in {"none", "lost"}
  /\ ~stopping => redone = {}

\* While the loop serves, an awaited future is resolved, underway or astray.
Served ==
  loop = "serve" => \A n \in DOMAIN waits :
    Open(waits[n]) => waits[n] \in stray \/ Underway(waits[n])

\* The call apply() waits for is its own, and is answered as one.
OwnCall ==
  task = "apply" /\ pc = "result" =>
    /\ Len(waits) = 1 /\ Answer # "version"
    /\ \A n \in DOMAIN sending :
         IsSend(n) /\ sending[n][2] = Head(waits) => sending[n][3] = "apply"
    /\ \A m \in atValidator : m[2] = Head(waits) => m[3] = "apply"

\* A failed call ends apply(), and with no OK.
FailureKept ==
  /\ pc = "apply" \/ (task = "apply" /\ (Sending \/ pc = "result")) => ~failed
  /\ pc \in {"respond", "back", "backschedule"} /\ failed => verdict # "OK"
  /\ \A n \in DOMAIN sending : ~IsSend(n) /\ sending[n][3] = "OK" => ~sending[n][4]

\* The copies of a request: in the queue, in hand, on the way back, answered.
BackTo(s, p) == {n \in DOMAIN s : s[n][1] = "back" /\ s[n][2] = p}
Queued(p) == {n \in DOMAIN recvQueue : recvQueue[n].id = p}
Held(p) == getter = "done" /\ got.id = p /\ pc \notin {"receive", "ended"}
HeldCopy(p) == IF Held(p) THEN 1 ELSE 0
Copies(p) ==
  Cardinality(BackTo(responses, p)) + Cardinality(BackTo(sending, p))
  + Cardinality(Queued(p)) + HeldCopy(p)

CopiesBounded ==
  \A p \in Pushes :
    /\ Copies(p) <= IF p \in redone THEN 2 ELSE 1
    /\ (\A m \in pushed : m.id # p) => Copies(p) = 0 /\ got.id # p

IInv ==
  /\ TypeOK /\ FuturesKept /\ OnceUnderway
  /\ InHand /\ Served /\ OwnCall /\ FailureKept /\ CopiesBounded
  /\ WaiterAccounted /\ OneResponse /\ OkMeansContextAnswered

-----------------------------------------------------------------------------
(* The loop recovers from the last disconnect, however many futures are    *)
(* open, and every handler is registered again, unless start() ends or is  *)
(* interrupted first, or a send() spans the disconnect.                    *)
LastDisconnect == loop = "cleared" /\ disconnects = MaxDisconnects
RegistersAgain ==
  LastDisconnect ~> registered = Families \/ stray # {} \/ stopping \/ pc = "ended"

(* Without disconnect, interrupt or exception every request is answered.   *)
RequestAnswered ==
  \A p \in Pushes :
    (\E m \in pushed : m.id = p /\ m.kind # "other")
      ~> ResponsesTo(p) # {} \/ disconnects > 0 \/ stopping \/ pc = "ended"

(* An interrupted start() ends, unless it has never received (it then      *)
(* spins) or a send() spans a disconnect.                                  *)
InterruptEnds == stopping ~> pc = "ended" \/ getter = "none" \/ stray # {}

(* stream.py, wait_for_ready: "Blocks until the background thread has      *)
(* recovered from a disconnect with the validator."                        *)
ThreadRecovers == pc = "ready" /\ loop # "serve" ~> event
=============================================================================
