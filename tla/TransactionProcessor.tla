------------------------ MODULE TransactionProcessor ------------------------
(***************************************************************************)
(* The Java SDK's TransactionProcessor: main() adds handlers, the run()    *)
(* loop receives, dispatches and answers messages and registers again      *)
(* after a disconnect, and the Shutdown hook runs beside it when the JVM   *)
(* is told to stop.  StreamContext is the calls apply() makes meanwhile.   *)
(*                                                                         *)
(* The stream is used through its promise, RequestReply, which JavaStream  *)
(* implements; its receive queue, and the DisconnectThread's sweep, clear  *)
(* and mark, are steps here too.  The validator (external) registers       *)
(* families, sends requests for the registered ones and may disconnect.    *)
(***************************************************************************)
EXTENDS Integers, Sequences, FiniteSets, Functions

CONSTANTS
  Families,        \* transaction families (name and version)
  Program,         \* the families whose handlers main() adds, in order
  Ids,             \* correlation ids of the requests the processor sends
  Requests,        \* correlation ids of the messages the validator sends
  MaxDisconnects,  \* bound on disconnects
  MaxCalls,        \* bound on the context calls of one apply()
  Stops,           \* whether the JVM may be told to shut down
  None             \* null

ASSUME ProgramAssumption == Program \in Seq(Families) /\ Program # << >>
ASSUME TPBoundAssumption == MaxDisconnects \in Nat /\ MaxCalls \in Nat
ASSUME StopsAssumption == Stops \in BOOLEAN
ASSUME NoneAssumption == None \notin Families \cup Requests

Threads == {"run", "hook"}
Kinds == {"process", "ping", "other", "disconnect"}
Statuses == {"OK", "INVALID_TRANSACTION", "INTERNAL_ERROR"}
NoMessage == [id |-> None, kind |-> "disconnect", family |-> None]

\* A registration with its max_occupancy (0 when it is not set).
Register(f, n) == [what |-> "register", family |-> f, occupancy |-> n]
Ask(what) == [what |-> what, family |-> None, occupancy |-> 0]

VARIABLES
  handlers, registered, currentMessage,
  pc,         \* where each thread is
  msg,        \* its local variable message
  handler,    \* its local variable handler: a family or None
  call,       \* the id of the request whose future it waits for
  calls,      \* context calls its apply() has made
  failed,     \* history: a context call of this apply() got no good answer
  status,     \* the status process() will send
  index,      \* run(): the handler to register again
  queue,      \* the stream's receiveQueue
  phase, broken,        \* the futures: RequestReply
  asks,       \* what each request asks of the validator
  atValidator,          \* requests the validator has not answered
  registrations,        \* what the validator holds: [family, occupancy]
  wire,       \* messages of the validator the stream has not queued yet
  events,     \* disconnect events the DisconnectThread has not taken
  disc, doomed,         \* DisconnectThread: position, futures it must replace
  disconnects,
  sent,       \* requests the validator has sent
  responses,  \* history: [id, family, status, handler, by, failed] sent back
  shared      \* history: messages the hook took while the run loop had them

threadVars == << pc, msg, handler, call, calls, failed, status, index >>
tpVars == << handlers, registered, currentMessage >>
streamVars == << queue, phase, broken, wire, events, disc, doomed >>
valVars == << asks, atValidator, registrations, disconnects, sent >>
vars == << threadVars, tpVars, streamVars, valVars, responses, shared >>

Stream == INSTANCE RequestReply

Init ==
  /\ handlers = << >> /\ registered = FALSE /\ currentMessage = NoMessage
  /\ pc = [t \in Threads |-> IF t = "run" THEN "add" ELSE "off"]
  /\ msg = [t \in Threads |-> NoMessage]
  /\ handler = [t \in Threads |-> None]
  /\ call = [t \in Threads |-> None]
  /\ calls = [t \in Threads |-> 0]
  /\ failed = [t \in Threads |-> FALSE]
  /\ status = [t \in Threads |-> "OK"]
  /\ index = 0
  /\ queue = << >> /\ wire = << >> /\ events = 0 /\ disc = "idle" /\ doomed = {}
  /\ Stream!Init
  /\ asks = [i \in Ids |-> Ask("nothing")]
  /\ atValidator = {} /\ registrations = {} /\ disconnects = 0 /\ sent = {}
  /\ responses = << >> /\ shared = {}

-----------------------------------------------------------------------------
(* Steps every thread shares.                                              *)

\* The JVM halts when the Shutdown hook has ended.
Running(t) == pc["hook"] # "halted" /\ pc[t] # "dead"

Go(t, from, to) ==
  /\ Running(t)
  /\ pc[t] = from
  /\ pc' = [pc EXCEPT ![t] = to]

\* stream.send(): a fresh future.
SendRequest(t, what) ==
  \E i \in Ids :
    /\ \A j \in Ids : phase[j] = "unused" => i <= j    \* ids are interchangeable
    /\ Stream!Send(i)
    /\ asks' = [asks EXCEPT ![i] = what]
    /\ atValidator' = atValidator \cup {i}
    /\ call' = [call EXCEPT ![t] = i]
    /\ UNCHANGED << queue, wire, events, disc, doomed, registrations, disconnects, sent >>

Answered(t) == phase[call[t]] = "answered"

-----------------------------------------------------------------------------
(* main(): addHandler() for each handler, then run() on its own thread.    *)

AddHandler ==
  /\ Len(handlers) < Len(Program)
  /\ Go("run", "add", "added")
  /\ SendRequest("run", Register(Program[Len(handlers) + 1], 1))
  /\ UNCHANGED << msg, handler, calls, failed, status, index, tpVars, responses,
                  shared >>

\* Mutant: addHandler() registers the handler and does not keep it.
ForgetHandler ==
  /\ Go("run", "added", "add")
  /\ Answered("run")
  /\ registered' = TRUE
  /\ handlers' = handlers
  /\ UNCHANGED << msg, handler, call, calls, failed, status, index,
                  currentMessage, streamVars, valVars, responses, shared >>

HandlerAdded ==
  /\ Go("run", "added", "add")
  /\ Answered("run")
  /\ registered' = TRUE
  /\ handlers' = Append(handlers, Program[Len(handlers) + 1])
  /\ UNCHANGED << msg, handler, call, calls, failed, status, index,
                  currentMessage, streamVars, valVars, responses, shared >>

StartRun ==
  /\ Len(handlers) = Len(Program)
  /\ Go("run", "add", "receive")
  /\ UNCHANGED << msg, handler, call, calls, failed, status, index, tpVars,
                  streamVars, valVars, responses, shared >>

-----------------------------------------------------------------------------
(* run()                                                                   *)

\* Mutant: receive() leaves the message in the queue.
RunPeek ==
  /\ queue # << >>
  /\ Go("run", "receive", "assign")
  /\ msg' = [msg EXCEPT !["run"] = Head(queue)]
  /\ UNCHANGED << handler, call, calls, failed, status, index, tpVars, streamVars,
                  valVars, responses, shared >>

\* stream.receive() has taken the message; it is not assigned yet.
RunReceive ==
  /\ queue # << >>
  /\ Go("run", "receive", "assign")
  /\ msg' = [msg EXCEPT !["run"] = Head(queue)]
  /\ queue' = Tail(queue)
  /\ UNCHANGED << handler, call, calls, failed, status, index, tpVars, phase,
                  broken, wire, events, disc, doomed, valVars, responses, shared >>

\* Mutant: a TP_PROCESS_REQUEST falls through to "Unknown Message Type".
DispatchFallsThrough ==
  LET m == msg["run"] IN
  /\ Go("run", "assign",
        CASE m.kind = "disconnect" -> "register"
          [] m.kind = "ping" -> "ping"
          [] OTHER -> "clear")
  /\ currentMessage' = m
  /\ IF m.kind = "disconnect"
     THEN registered' = FALSE /\ index' = 1
     ELSE UNCHANGED << registered, index >>
  /\ UNCHANGED << msg, handler, call, calls, failed, status, handlers,
                  streamVars, valVars, responses, shared >>

RunDispatch ==
  LET m == msg["run"] IN
  /\ Go("run", "assign",
        CASE m.kind = "disconnect" -> "register"
          [] m.kind = "ping" -> "ping"
          [] m.kind = "process" -> "find"
          [] OTHER -> "clear")
  /\ currentMessage' = m
  /\ IF m.kind = "disconnect"
     THEN registered' = FALSE /\ index' = 1
     ELSE UNCHANGED << registered, index >>
  /\ UNCHANGED << msg, handler, call, calls, failed, status, handlers,
                  streamVars, valVars, responses, shared >>

\* PING_RESPONSE, which is not recorded among the responses.
RunPing ==
  /\ Go("run", "ping", "clear")
  /\ UNCHANGED << msg, handler, call, calls, failed, status, index, tpVars,
                  streamVars, valVars, responses, shared >>

RunClear ==
  /\ Go("run", "clear", "receive")
  /\ currentMessage' = NoMessage
  /\ UNCHANGED << msg, handler, call, calls, failed, status, index, handlers,
                  registered, streamVars, valVars, responses, shared >>

\* Registration after a disconnect does not set max_occupancy.
RunRegister ==
  /\ index <= Len(handlers)
  /\ Go("run", "register", "registering")
  /\ SendRequest("run", Register(handlers[index], 0))
  /\ UNCHANGED << msg, handler, calls, failed, status, index, tpVars, responses,
                  shared >>

\* Mutant: only the first handler is registered again.
RunRegisterFirst ==
  /\ Go("run", "registering", "receive")
  /\ Answered("run")
  /\ registered' = TRUE
  /\ index' = Len(handlers) + 1
  /\ UNCHANGED << msg, handler, call, calls, failed, status, handlers,
                  currentMessage, streamVars, valVars, responses, shared >>

RunRegistered ==
  /\ Go("run", "registering", "register")
  /\ Answered("run")
  /\ registered' = TRUE
  /\ index' = index + 1
  /\ UNCHANGED << msg, handler, call, calls, failed, status, handlers,
                  currentMessage, streamVars, valVars, responses, shared >>

RunAllRegistered ==
  /\ index > Len(handlers)
  /\ Go("run", "register", "receive")
  /\ UNCHANGED << msg, handler, call, calls, failed, status, index, tpVars,
                  streamVars, valVars, responses, shared >>

-----------------------------------------------------------------------------
(* findHandler() looks at the header of this.currentMessage, whichever     *)
(* message it is asked about.                                              *)

Found == IF currentMessage.family \in Range(handlers)
         THEN currentMessage.family ELSE None

StartApply(t) ==
  /\ handler' = [handler EXCEPT ![t] = Found]
  /\ calls' = [calls EXCEPT ![t] = 0]
  /\ failed' = [failed EXCEPT ![t] = FALSE]
  /\ status' = [status EXCEPT ![t] = "OK"]
  /\ UNCHANGED << msg, call, index, tpVars, streamVars, valVars, responses, shared >>

\* No handler: break, and the thread ends without an answer.
RunFind ==
  /\ Go("run", "find", IF Found = None THEN "dead" ELSE "apply")
  /\ StartApply("run")

\* In the hook a null currentMessage, or no handler, is a
\* NullPointerException: the hook dies and the JVM halts.
HookFind ==
  /\ Go("hook", "find", IF Found = None THEN "halted" ELSE "apply")
  /\ StartApply("hook")

-----------------------------------------------------------------------------
(* process() and the StreamContext calls of apply().                       *)

ContextCall(t) ==
  /\ calls[t] < MaxCalls
  /\ Go(t, "apply", "context")
  /\ SendRequest(t, Ask("context"))
  /\ calls' = [calls EXCEPT ![t] = @ + 1]
  /\ UNCHANGED << msg, handler, failed, status, index, tpVars, responses, shared >>

Fail(t, s) ==
  /\ status' = [status EXCEPT ![t] = s]
  /\ failed' = [failed EXCEPT ![t] = TRUE]

\* The response is good; or its status is AUTHORIZATION_ERROR (state), or
\* ERROR (receipt data and events).
ContextReturn(t) ==
  /\ \/ /\ Go(t, "context", "apply")
        /\ UNCHANGED << status, failed >>
     \/ /\ Go(t, "context", "respond")
        /\ \E s \in {"INVALID_TRANSACTION", "INTERNAL_ERROR"} : Fail(t, s)
  /\ Answered(t)
  /\ UNCHANGED << msg, handler, call, calls, index, tpVars, streamVars, valVars,
                  responses, shared >>

\* Mutant: a call that times out goes on with a null response.
ContextIgnores(t) ==
  /\ Go(t, "context", "apply")
  /\ ~Answered(t)
  /\ failed' = [failed EXCEPT ![t] = TRUE]
  /\ UNCHANGED << msg, handler, call, calls, status, index, tpVars, streamVars,
                  valVars, responses, shared >>

\* getResult(TIME_OUT) throws, whatever the reason, and so InternalError.
ContextTimeout(t) ==
  /\ Go(t, "context", "respond")
  /\ ~Answered(t)
  /\ Fail(t, "INTERNAL_ERROR")
  /\ UNCHANGED << msg, handler, call, calls, index, tpVars, streamVars, valVars,
                  responses, shared >>

\* The handler's own verdict.
ApplyReturns(t) ==
  /\ Go(t, "apply", "respond")
  /\ \E s \in Statuses :
       status' = [status EXCEPT ![t] = s]
  /\ UNCHANGED << msg, handler, call, calls, failed, index, tpVars, streamVars,
                  valVars, responses, shared >>

\* Any other exception leaves process() and ends the thread.
ApplyThrows(t) ==
  /\ Go(t, "apply", IF t = "run" THEN "dead" ELSE "halted")
  /\ UNCHANGED << msg, handler, call, calls, failed, status, index, tpVars,
                  streamVars, valVars, responses, shared >>

Response(t) == [id |-> msg[t].id, family |-> msg[t].family, by |-> t,
                handler |-> handler[t], status |-> status[t], failed |-> failed[t]]

Respond(t) ==
  /\ Go(t, "respond", IF t = "run" THEN "clear" ELSE "take")
  /\ responses' = Append(responses, Response(t))
  /\ UNCHANGED << msg, handler, call, calls, failed, status, index, tpVars,
                  streamVars, valVars, shared >>

-----------------------------------------------------------------------------
(* Shutdown.run(), the JVM's shutdown hook.                                *)

HookStart ==
  /\ Stops
  /\ Go("hook", "off", IF registered THEN "look" ELSE "halted")
  /\ UNCHANGED << msg, handler, call, calls, failed, status, index, tpVars,
                  streamVars, valVars, responses, shared >>

\* currentMessage is logged, but read again for that: if the run loop has
\* cleared it meanwhile, a NullPointerException ends the hook.
HookLook ==
  /\ Go("hook", "look", IF currentMessage = NoMessage THEN "unregister" ELSE "log")
  /\ UNCHANGED << msg, handler, call, calls, failed, status, index, tpVars,
                  streamVars, valVars, responses, shared >>
HookLog ==
  /\ Go("hook", "log", IF currentMessage = NoMessage THEN "halted" ELSE "unregister")
  /\ UNCHANGED << msg, handler, call, calls, failed, status, index, tpVars,
                  streamVars, valVars, responses, shared >>

HookUnregister ==
  /\ Go("hook", "unregister", "unregistering")
  /\ SendRequest("hook", Ask("unregister"))
  /\ UNCHANGED << msg, handler, calls, failed, status, index, tpVars, responses,
                  shared >>

\* getResult(1): the answer, or TimeoutException and the hook ends.
HookUnregistered ==
  /\ Go("hook", "unregistering", IF Answered("hook") THEN "load" ELSE "halted")
  /\ UNCHANGED << msg, handler, call, calls, failed, status, index, tpVars,
                  streamVars, valVars, responses, shared >>

TakeOver(m) == msg' = [msg EXCEPT !["hook"] = m]

\* The message the run loop holds is taken over too.
HookLoad ==
  /\ IF currentMessage = NoMessage
     THEN /\ Go("hook", "load", "take")
          /\ UNCHANGED << msg, shared >>
     ELSE /\ Go("hook", "load", "find")
          /\ TakeOver(currentMessage)
          /\ shared' = shared \cup {currentMessage.id}
  /\ UNCHANGED << handler, call, calls, failed, status, index, tpVars,
                  streamVars, valVars, responses >>

\* Mutant: receive(1) looks at the head of the queue and leaves it there.
HookPeek ==
  /\ queue # << >>
  /\ Go("hook", "take", IF Head(queue).kind = "disconnect" THEN "halted" ELSE "find")
  /\ TakeOver(Head(queue))
  /\ UNCHANGED << handler, call, calls, failed, status, index, tpVars, phase,
                  broken, queue, wire, events, disc, doomed, valVars, responses, shared >>

\* receive(1): a message; the disconnect marker, which is null, ends the hook.
HookTake ==
  /\ queue # << >>
  /\ Go("hook", "take", IF Head(queue).kind = "disconnect" THEN "halted" ELSE "find")
  /\ TakeOver(Head(queue))
  /\ queue' = Tail(queue)
  /\ UNCHANGED << handler, call, calls, failed, status, index, tpVars, phase,
                  broken, wire, events, disc, doomed, valVars, responses, shared >>

HookTimeout ==
  /\ queue = << >>
  /\ Go("hook", "take", "halted")
  /\ UNCHANGED << msg, handler, call, calls, failed, status, index, tpVars,
                  streamVars, valVars, responses, shared >>

-----------------------------------------------------------------------------
(* The stream's own threads: JavaStream in outline.                        *)

StreamReceive ==
  /\ wire # << >>
  /\ queue' = Append(queue, Head(wire))
  /\ wire' = Tail(wire)
  /\ UNCHANGED << threadVars, tpVars, phase, broken, events, disc, doomed, valVars,
                  responses, shared >>

StreamSweep ==
  /\ disc = "idle" /\ events > 0
  /\ events' = events - 1
  /\ disc' = "sweep" /\ doomed' = {i \in Ids : phase[i] = "pending"}
  /\ UNCHANGED << threadVars, tpVars, queue, phase, broken, wire, valVars, responses,
                  shared >>

StreamLose(i) ==
  /\ disc = "sweep"
  /\ Stream!Lose(i)
  /\ UNCHANGED << threadVars, tpVars, queue, wire, events, disc, doomed, valVars,
                  responses, shared >>

StreamClear ==
  /\ disc = "sweep"
  /\ \A i \in doomed : phase[i] # "pending"
  /\ queue' = << >>
  /\ disc' = "mark" /\ doomed' = {}
  /\ UNCHANGED << threadVars, tpVars, phase, broken, wire, events, valVars, responses,
                  shared >>

StreamMark ==
  /\ disc = "mark"
  /\ queue' = Append(queue, NoMessage)
  /\ disc' = "idle"
  /\ UNCHANGED << threadVars, tpVars, phase, broken, wire, events, doomed, valVars,
                  responses, shared >>

-----------------------------------------------------------------------------
(* The validator (external).                                               *)

\* A reply whose future is already lost has no effect on this side.
ValidatorAnswers(i) ==
  /\ i \in atValidator
  /\ atValidator' = atValidator \ {i}
  /\ IF phase[i] = "pending" THEN Stream!Answer(i) ELSE UNCHANGED << phase, broken >>
  /\ registrations' = CASE asks[i].what = "unregister" -> {}
                        [] asks[i].what = "context" -> registrations
                        [] OTHER -> registrations \cup {asks[i]}
  /\ UNCHANGED << threadVars, tpVars, queue, wire, events, disc, doomed, asks,
                  disconnects, sent, responses, shared >>

\* The next message id, as with Ids.
Post(m) ==
  /\ wire' = Append(wire, m)
  /\ sent' = sent \cup {m.id}
  /\ UNCHANGED << threadVars, tpVars, queue, phase, broken, events, disc, doomed, asks,
                  atValidator, registrations, disconnects, responses, shared >>

ValidatorSends(r) ==
  /\ r \notin sent
  /\ \/ \E f \in {g.family : g \in registrations} :
          Post([id |-> r, kind |-> "process", family |-> f])
     \/ \E k \in {"ping", "other"} : Post([id |-> r, kind |-> k, family |-> None])

\* The connection's registrations go with it, and any request not yet
\* answered may be forgotten; the DisconnectThread has an event to take.
ValidatorDisconnects ==
  /\ disconnects < MaxDisconnects
  /\ disconnects' = disconnects + 1
  /\ Stream!Break
  /\ events' = events + 1
  /\ \E forgotten \in SUBSET atValidator : atValidator' = atValidator \ forgotten
  /\ registrations' = {}
  /\ UNCHANGED << threadVars, tpVars, queue, wire, disc, doomed, asks, sent, responses,
                  shared >>

-----------------------------------------------------------------------------
Run == \/ AddHandler \/ HandlerAdded \/ StartRun
       \/ RunReceive \/ RunDispatch \/ RunPing \/ RunClear
       \/ RunRegister \/ RunRegistered \/ RunAllRegistered \/ RunFind
Process(t) == ContextCall(t) \/ ContextReturn(t) \/ ContextTimeout(t)
              \/ ApplyReturns(t) \/ Respond(t)
Hook == \/ HookLook \/ HookLog \/ HookUnregister \/ HookUnregistered \/ HookLoad \/ HookTake
        \/ HookTimeout \/ HookFind
StreamStep == StreamReceive \/ StreamSweep \/ StreamClear \/ StreamMark
              \/ \E i \in Ids : StreamLose(i)
Environment == \/ HookStart \/ ValidatorDisconnects
               \/ \E r \in Requests : ValidatorSends(r)
               \/ \E t \in Threads : ApplyThrows(t)

Next == Run \/ Hook \/ StreamStep \/ Environment
        \/ (\E t \in Threads : Process(t))
        \/ \E i \in Ids : ValidatorAnswers(i)

Spec == Init /\ [][Next]_vars

(* Threads that can run do, and a validator that is up answers.            *)
Fairness ==
  /\ WF_vars(Run \/ Process("run")) /\ WF_vars(Hook \/ Process("hook"))
  /\ WF_vars(StreamStep)
  /\ \A i \in Ids : WF_vars(ValidatorAnswers(i))

FairSpec == Spec /\ Fairness

-----------------------------------------------------------------------------
Messages == [id : Requests \cup {None}, kind : Kinds, family : Families \cup {None}]
Asks == [what : {"nothing", "register", "unregister", "context"},
         family : Families \cup {None}, occupancy : {0, 1}]
Reports == [id : Requests \cup {None}, family : Families \cup {None}, by : Threads,
            handler : Families \cup {None}, status : Statuses, failed : BOOLEAN]
Applying == {"find", "apply", "context", "respond"}
RunPlaces == {"add", "added", "receive", "assign", "register", "registering", "ping",
              "clear", "dead"} \cup Applying
HookPlaces == {"off", "look", "log", "unregister", "unregistering", "load", "take", "halted"}
              \cup Applying

(* Every variable has its type.                                            *)
TypeOK ==
  /\ handlers \in Seq(Families) /\ registered \in BOOLEAN
  /\ currentMessage \in Messages /\ msg \in [Threads -> Messages]
  /\ pc \in [Threads -> RunPlaces \cup HookPlaces]
  /\ pc["run"] \in RunPlaces /\ pc["hook"] \in HookPlaces
  /\ handler \in [Threads -> Families \cup {None}]
  /\ call \in [Threads -> Ids \cup {None}]
  /\ calls \in [Threads -> Nat] /\ failed \in [Threads -> BOOLEAN] /\ index \in Nat
  /\ status \in [Threads -> Statuses]
  /\ queue \in Seq(Messages) /\ wire \in Seq(Messages)
  /\ Stream!TypeOK
  /\ asks \in [Ids -> Asks] /\ registrations \subseteq Asks
  /\ atValidator \subseteq Ids /\ doomed \subseteq Ids /\ sent \subseteq Requests
  /\ events \in Nat /\ disc \in {"idle", "sweep", "mark"}
  /\ responses \in Seq(Reports)
  /\ shared \subseteq Requests \cup {None}

(* A transaction is reported OK only if every StreamContext call of its    *)
(* apply() was answered: a get or set lost with the connection, timed out  *)
(* or refused never ends in OK.                                            *)
OkMeansContextAnswered ==
  \A n \in DOMAIN responses : responses[n].status = "OK" => ~responses[n].failed

ResponsesTo(r) == {n \in DOMAIN responses : responses[n].id = r}

(* A request gets at most one TP_PROCESS_RESPONSE, across disconnects and  *)
(* new registrations, and whether the run loop or the Shutdown hook takes  *)
(* it from the queue.  Only the one the run loop holds when the hook looks *)
(* at currentMessage may be processed, and answered, by both.              *)
OneResponse ==
  \A r \in Requests : r \notin shared => Cardinality(ResponsesTo(r)) <= 1

(* run() leaves its loop only when a handler throws: a request for which   *)
(* findHandler() finds nothing cannot come from the validator, because     *)
(* every family it holds, also after a disconnect, has a handler.          *)
HandlerForEveryRequest ==
  /\ pc["run"] = "find" => Found # None
  /\ \A g \in registrations : pc["run"] # "added" => g.family \in Range(handlers)

-----------------------------------------------------------------------------
(* The inductive invariant.  A family is covered once its handler is kept  *)
(* or about to be: whatever the validator may know of, and so any request  *)
(* it sends, is covered.                                                   *)
Covered(f) ==
  f \in Range(handlers) \/ (pc["run"] = "added" /\ f = Program[Len(handlers) + 1])

FamiliesCovered ==
  /\ Len(handlers) <= Len(Program) /\ (pc["run"] = "added" => Len(handlers) < Len(Program))
  /\ pc["run"] \in {"register", "registering"} => index > 0
  /\ \A i \in atValidator : asks[i].what # "nothing"
  /\ \A i \in Ids : asks[i].what = "register" => Covered(asks[i].family)
  /\ \A g \in registrations : Covered(g.family)
  /\ \A m \in Range(wire) \cup Range(queue) \cup {msg["run"]} :
       m.kind = "process" => Covered(m.family)
  /\ pc["run"] = "find" => currentMessage = msg["run"] /\ msg["run"].kind = "process"

(* While apply() goes on no context call has failed, and after a failed    *)
(* one the verdict is not OK.                                              *)
FailureKept ==
  \A t \in Threads : /\ pc[t] \in {"apply", "context"} => ~failed[t]
                     /\ pc[t] = "respond" /\ failed[t] => status[t] # "OK"

(* A request that is not shared is in one place at most: on the wire, in   *)
(* the queue, in the hands of a thread, or answered.                       *)
Once(s, r) == \A m, n \in DOMAIN s : s[m].id = r /\ s[n].id = r => m = n
Has(s, r) == \E n \in DOMAIN s : s[n].id = r
Holds(t, r) == pc[t] \in {"assign"} \cup Applying /\ msg[t].id = r

InOnePlace(r) ==
  /\ Once(wire, r) /\ Once(queue, r) /\ Once(responses, r)
  /\ Has(wire, r) => ~Has(queue, r) /\ ~Has(responses, r)
  /\ Has(queue, r) => ~Has(responses, r)
  /\ \A t \in Threads : Holds(t, r) => ~Has(wire, r) /\ ~Has(queue, r) /\ ~Has(responses, r)
  /\ ~(Holds("run", r) /\ Holds("hook", r))
  /\ Has(wire, r) \/ Has(queue, r) \/ Has(responses, r) \/ Holds("run", r) \/ Holds("hook", r)
       => r \in sent
OncePerRequest == \A r \in Requests \ shared : InOnePlace(r)

IInv ==
  /\ TypeOK
  /\ FamiliesCovered
  /\ FailureKept /\ OkMeansContextAnswered
  /\ OncePerRequest

(* While there is no disconnect and no shutdown, and no handler throws,    *)
(* every process request is answered.                                      *)
Calm == disconnects = 0 /\ pc["hook"] = "off" /\ pc["run"] # "dead"
Pending(r) == \E n \in DOMAIN wire : wire[n].id = r /\ wire[n].kind = "process"
RequestAnswered ==
  []Calm => \A r \in Requests : Pending(r) ~> ResponsesTo(r) # {}

(* After a disconnect that finds the run loop started (and not main()'s    *)
(* registrations under way), and if there is no further one, the validator *)
(* holds a registration for every handler again.                           *)
Settled == disconnects <= 1 /\ pc["hook"] = "off" /\ pc["run"] # "dead"
RegistersAgain ==
  []Settled =>
    (disconnects = 1 /\ events = 1 /\ pc["run"] \notin {"add", "added"}
       ~> Range(handlers) = {g.family : g \in registrations})

=============================================================================
