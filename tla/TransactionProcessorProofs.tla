--------------------- MODULE TransactionProcessorProofs ---------------------
(***************************************************************************)
(* Proofs about TransactionProcessor for any families, program, requests   *)
(* and numbers of disconnects and calls, with and without the Shutdown     *)
(* hook.  The inductive invariant is proved part by part: its types, the   *)
(* families the validator may know of, failed context calls, and the one   *)
(* place a request is in.                                                  *)
(***************************************************************************)
EXTENDS TransactionProcessor, QueueFacts, FiniteSetTheorems, TLAPS

-----------------------------------------------------------------------------
(* Queues of messages with an id.                                          *)

(* An appended message is in the queue, and once if it was not before.     *)
LEMMA AppendHas ==
  ASSUME NEW S, NEW s \in Seq(S), NEW e \in S, NEW r
  PROVE  /\ Has(Append(s, e), r) <=> Has(s, r) \/ e.id = r
         /\ Once(s, r) /\ (e.id = r => ~Has(s, r)) => Once(Append(s, e), r)
<1>1. /\ DOMAIN s = 1..Len(s) /\ Len(s) \in Nat
      /\ DOMAIN Append(s, e) = 1..(Len(s) + 1)
      /\ Append(s, e)[Len(s) + 1] = e
      /\ \A n \in DOMAIN s : Append(s, e)[n] = s[n]
  OBVIOUS
<1>2. Has(s, r) \/ e.id = r => Has(Append(s, e), r)
  BY <1>1 DEF Has
<1>3. Has(Append(s, e), r) => Has(s, r) \/ e.id = r
  <2>1. ASSUME NEW n \in DOMAIN Append(s, e), Append(s, e)[n].id = r
        PROVE  Has(s, r) \/ e.id = r
    <3>1. n \in DOMAIN s \/ n = Len(s) + 1
      BY <1>1
    <3>2. QED  BY <1>1, <2>1, <3>1 DEF Has
  <2>2. QED  BY <2>1 DEF Has
<1>4. ASSUME Once(s, r), e.id = r => ~Has(s, r) PROVE Once(Append(s, e), r)
  <2>1. ASSUME NEW m \in DOMAIN Append(s, e), NEW n \in DOMAIN Append(s, e),
               Append(s, e)[m].id = r, Append(s, e)[n].id = r
        PROVE  m = n
    <3>1. /\ m \in DOMAIN s \/ m = Len(s) + 1
          /\ n \in DOMAIN s \/ n = Len(s) + 1
      BY <1>1
    <3>2. CASE m \in DOMAIN s /\ n \in DOMAIN s
      BY <1>1, <1>4, <2>1, <3>2 DEF Once
    <3>3. CASE m = Len(s) + 1 /\ n \in DOMAIN s
      BY <1>1, <1>4, <2>1, <3>3 DEF Has
    <3>4. CASE n = Len(s) + 1 /\ m \in DOMAIN s
      BY <1>1, <1>4, <2>1, <3>4 DEF Has
    <3>5. QED  BY <3>1, <3>2, <3>3, <3>4
  <2>2. QED  BY <2>1 DEF Once
<1>5. QED  BY <1>2, <1>3, <1>4

(* Of the messages with one id, taking the head leaves the others.         *)
LEMMA TailHas ==
  ASSUME NEW S, NEW s \in Seq(S), s # << >>, NEW r
  PROVE  /\ Has(s, r) <=> Head(s).id = r \/ Has(Tail(s), r)
         /\ Once(s, r) => Once(Tail(s), r) /\ (Head(s).id = r => ~Has(Tail(s), r))
<1>1. /\ Len(s) \in Nat \ {0} /\ DOMAIN s = 1..Len(s) /\ Head(s) = s[1]
      /\ DOMAIN Tail(s) = 1..(Len(s) - 1)
  OBVIOUS
<1>2. \A n \in DOMAIN Tail(s) : Tail(s)[n] = s[n + 1] /\ n + 1 \in DOMAIN s
  BY <1>1
<1>3. \A n \in DOMAIN s : n # 1 => n - 1 \in DOMAIN Tail(s) /\ Tail(s)[n - 1] = s[n]
  BY <1>1
<1>4. Has(s, r) <=> Head(s).id = r \/ Has(Tail(s), r)
  <2>1. ASSUME NEW n \in DOMAIN s, s[n].id = r PROVE Head(s).id = r \/ Has(Tail(s), r)
    BY <1>1, <1>3, <2>1 DEF Has
  <2>2. ASSUME Head(s).id = r PROVE Has(s, r)
    <3>1. 1 \in DOMAIN s /\ s[1].id = r
      BY <1>1, <2>2
    <3>2. QED  BY <3>1 DEF Has
  <2>3. ASSUME NEW n \in DOMAIN Tail(s), Tail(s)[n].id = r PROVE Has(s, r)
    BY <1>2, <2>3 DEF Has
  <2>4. QED  BY <2>1, <2>2, <2>3 DEF Has
<1>5. ASSUME Once(s, r) PROVE Once(Tail(s), r) /\ (Head(s).id = r => ~Has(Tail(s), r))
  <2>1. ASSUME NEW m \in DOMAIN Tail(s), NEW n \in DOMAIN Tail(s),
               Tail(s)[m].id = r, Tail(s)[n].id = r
        PROVE  m = n
    <3>1. m + 1 = n + 1
      BY <1>2, <1>5, <2>1 DEF Once
    <3>2. QED  BY <1>1, <3>1
  <2>2. ASSUME NEW n \in DOMAIN Tail(s), Tail(s)[n].id = r, Head(s).id = r PROVE FALSE
    <3>1. n + 1 = 1
      BY <1>1, <1>2, <1>5, <2>2 DEF Once
    <3>2. QED  BY <1>1, <3>1
  <2>3. QED  BY <2>1, <2>2 DEF Once, Has
<1>6. QED  BY <1>4, <1>5

-----------------------------------------------------------------------------
(* Types.                                                                  *)

(* Every step of the processor, its stream and the validator keeps types.  *)
LEMMA TypeStep ==
  ASSUME TypeOK, FamiliesCovered, [Next]_vars
  PROVE  TypeOK'
<1> USE ProgramAssumption DEF TypeOK, Stream!TypeOK, Stream!Phases, Go, RunPlaces,
           HookPlaces, Applying, Threads, threadVars, tpVars, streamVars, valVars
<1>1. CASE AddHandler
  BY <1>1 DEF AddHandler, SendRequest, Stream!Send, Stream!Move, Register, Asks
<1>2. CASE HandlerAdded
  BY <1>2 DEF HandlerAdded, FamiliesCovered
<1>3. CASE StartRun
  BY <1>3 DEF StartRun
<1>4. CASE RunReceive
  BY <1>4 DEF RunReceive
<1>5. CASE RunDispatch
  <2>1. \E p \in {"register", "ping", "find", "clear"} : pc' = [pc EXCEPT !["run"] = p]
    BY <1>5 DEF RunDispatch, Go
  <2>2. /\ pc' \in [Threads -> RunPlaces \cup HookPlaces]
        /\ pc'["run"] \in RunPlaces /\ pc'["hook"] \in HookPlaces
    BY <2>1 DEF RunPlaces, HookPlaces, Applying, Threads
  <2>3. currentMessage' \in Messages /\ registered' \in BOOLEAN /\ index' \in Nat
    <3>1. /\ currentMessage' = msg["run"]
          /\ registered' = FALSE \/ registered' = registered
          /\ index' = 1 \/ index' = index
      BY <1>5 DEF RunDispatch
    <3>2. currentMessage' \in Messages
      BY <3>1 DEF Threads
    <3>3. registered' \in BOOLEAN
      BY <3>1, Zenon
    <3>4. index' \in Nat
      BY <3>1
    <3>5. QED  BY <3>2, <3>3, <3>4
  <2>4. UNCHANGED << msg, handler, call, calls, failed, status, handlers, streamVars,
                     valVars, responses, shared >>
    BY <1>5 DEF RunDispatch
  <2>5. QED  BY <2>2, <2>3, <2>4
<1>6. CASE RunPing
  BY <1>6 DEF RunPing
<1>7. CASE RunClear
  BY <1>7 DEF RunClear, NoMessage, Messages, Kinds
<1>8. CASE RunRegister
  BY <1>8 DEF RunRegister, SendRequest, Stream!Send, Stream!Move, Register, Asks,
     FamiliesCovered
<1>9. CASE RunRegistered
  BY <1>9 DEF RunRegistered
<1>10. CASE RunAllRegistered
  BY <1>10 DEF RunAllRegistered
<1>11. CASE RunFind
  <2>1. Found \in Families \cup {None}
    BY ElementsType DEF Found
  <2>2. QED
    BY <1>11, <2>1 DEF RunFind,
       StartApply, Statuses, tpVars, streamVars, valVars
<1>12. CASE HookStart \/ HookLook \/ HookLog
  BY <1>12 DEF HookStart, HookLook, HookLog
<1>13. CASE HookUnregister
  BY <1>13 DEF HookUnregister, SendRequest, Stream!Send, Stream!Move, Ask, Asks
<1>14. CASE HookUnregistered
  BY <1>14 DEF HookUnregistered
<1>15. CASE HookLoad
  BY <1>15 DEF HookLoad, TakeOver, Messages
<1>16. CASE HookTake
  BY <1>16 DEF HookTake, TakeOver
<1>17. CASE HookTimeout
  BY <1>17 DEF HookTimeout
<1>18. CASE HookFind
  <2>1. Found \in Families \cup {None}
    BY ElementsType DEF Found
  <2>2. QED
    BY <1>18, <2>1 DEF HookFind,
       StartApply, Statuses, tpVars, streamVars, valVars
<1>19. CASE StreamReceive
  BY <1>19 DEF StreamReceive
<1>20. CASE StreamSweep \/ StreamClear
  <2>1. CASE StreamSweep
    <3>1. events - 1 \in Nat
      BY <2>1 DEF StreamSweep
    <3>2. QED
      BY <2>1, <3>1 DEF StreamSweep
  <2>2. CASE StreamClear
    BY <2>2 DEF StreamClear
  <2>3. QED
    BY <1>20, <2>1, <2>2
<1>21. CASE StreamMark
  BY <1>21 DEF StreamMark, NoMessage, Messages, Kinds
<1>22. CASE ValidatorDisconnects
  BY <1>22 DEF ValidatorDisconnects, Stream!Break
<1>23. ASSUME NEW t \in Threads, ContextCall(t) PROVE TypeOK'
  BY <1>23 DEF ContextCall, SendRequest, Stream!Send, Stream!Move, Ask, Asks
<1>24. ASSUME NEW t \in Threads, ContextReturn(t) PROVE TypeOK'
  <2>1. CASE Go(t, "context", "apply") /\ UNCHANGED << status, failed >>
    BY <1>24, <2>1 DEF Go, RunPlaces, HookPlaces, Applying, Threads, ContextReturn,
       tpVars, streamVars, valVars
  <2>2. ASSUME NEW s \in {"INVALID_TRANSACTION", "INTERNAL_ERROR"},
               Go(t, "context", "respond"), Fail(t, s)
        PROVE  TypeOK'
    BY <1>24, <2>2 DEF Go, Fail, Statuses, RunPlaces, HookPlaces, Applying, Threads, ContextReturn,
       tpVars, streamVars, valVars
  <2>3. QED  BY <1>24, <2>1, <2>2 DEF ContextReturn
<1>25. ASSUME NEW t \in Threads, ContextTimeout(t) PROVE TypeOK'
  BY <1>25 DEF ContextTimeout, Fail, Statuses
<1>26. ASSUME NEW t \in Threads, ApplyReturns(t) PROVE TypeOK'
  BY <1>26 DEF ApplyReturns, Statuses
<1>27. ASSUME NEW t \in Threads, ApplyThrows(t) PROVE TypeOK'
  BY <1>27 DEF ApplyThrows
<1>28. ASSUME NEW t \in Threads, Respond(t) PROVE TypeOK'
  BY <1>28 DEF Respond, Response, Reports, Messages
<1>29. ASSUME NEW i \in Ids, StreamLose(i) PROVE TypeOK'
  BY <1>29 DEF StreamLose, Stream!Lose, Stream!Move
<1>30. ASSUME NEW i \in Ids, ValidatorAnswers(i) PROVE TypeOK'
  <2>1. /\ UNCHANGED << threadVars, tpVars, queue, wire, events, disc, doomed, asks, sent,
                        responses, shared >>
        /\ atValidator' = atValidator \ {i}
    BY <1>30 DEF ValidatorAnswers
  <2>2. registrations' \subseteq Asks
    BY <1>30 DEF ValidatorAnswers
  <2>3. phase' \in [Ids -> Stream!Phases] /\ broken' \in BOOLEAN
    BY <1>30 DEF ValidatorAnswers, Stream!Answer, Stream!Move
  <2>4. QED  BY <2>1, <2>2, <2>3
<1>31. ASSUME NEW r \in Requests, ValidatorSends(r) PROVE TypeOK'
  <2>1. PICK m : Post(m) /\ m.id = r /\ m \in Messages
    <3>1. ASSUME NEW g \in registrations,
                 Post([id |-> r, kind |-> "process", family |-> g.family])
          PROVE  \E m \in Messages : Post(m) /\ m.id = r
      <4>1. [id |-> r, kind |-> "process", family |-> g.family] \in Messages
        BY DEF Messages, Kinds, Asks
      <4>2. QED  BY <3>1, <4>1
    <3>2. ASSUME NEW k \in {"ping", "other"},
                 Post([id |-> r, kind |-> k, family |-> None])
          PROVE  \E m \in Messages : Post(m) /\ m.id = r
      <4>1. [id |-> r, kind |-> k, family |-> None] \in Messages
        BY DEF Messages, Kinds
      <4>2. QED  BY <3>2, <4>1
    <3>3. QED  BY <1>31, <3>1, <3>2 DEF ValidatorSends
  <2>2. QED  BY <2>1 DEF Post
<1>32. CASE UNCHANGED vars
  BY <1>32 DEF vars
<1>33. QED
  BY <1>1, <1>2, <1>3, <1>4, <1>5, <1>6, <1>7, <1>8, <1>9, <1>10, <1>11, <1>12, <1>13,
     <1>14, <1>15, <1>16, <1>17, <1>18, <1>19, <1>20, <1>21, <1>22, <1>23, <1>24, <1>25,
     <1>26, <1>27, <1>28, <1>29, <1>30, <1>31, <1>32
     DEF Next, Run, Process, Hook, StreamStep, Environment

-----------------------------------------------------------------------------
(* Failed context calls.                                                   *)

(* A failed context call ends apply() and keeps its verdict from being OK. *)
LEMMA FailureStep ==
  ASSUME TypeOK, FailureKept, OkMeansContextAnswered, [Next]_vars
  PROVE  FailureKept' /\ OkMeansContextAnswered'
<1> USE DEF TypeOK, Applying
<1>1. ASSUME UNCHANGED << pc, failed, status, responses >>
      PROVE  FailureKept' /\ OkMeansContextAnswered'
  BY <1>1 DEF FailureKept, OkMeansContextAnswered
<1>2. ASSUME UNCHANGED << failed, status, responses >>, NEW t \in Threads,
             pc' = [pc EXCEPT ![t] = pc'[t]],
             pc'[t] \in {"apply", "context"} => pc[t] \in {"apply", "context"},
             pc'[t] # "respond"
      PROVE  FailureKept' /\ OkMeansContextAnswered'
  BY <1>2 DEF FailureKept, OkMeansContextAnswered
<1>3. CASE AddHandler \/ HandlerAdded \/ StartRun \/ RunReceive \/ RunPing \/ RunClear
           \/ RunRegister \/ RunRegistered \/ RunAllRegistered
  BY <1>2, <1>3 DEF AddHandler, HandlerAdded, StartRun, RunReceive, RunPing, RunClear,
     RunRegister, RunRegistered, RunAllRegistered, Go, Threads
<1>4. CASE RunDispatch
  BY <1>2, <1>4 DEF RunDispatch, Go, Threads
<1>5. CASE HookStart \/ HookLook \/ HookLog \/ HookUnregister \/ HookUnregistered
           \/ HookLoad \/ HookTake \/ HookTimeout
  BY <1>2, <1>5 DEF HookStart, HookLook, HookLog, HookUnregister, HookUnregistered, HookLoad, HookTake,
     HookTimeout, Go, Threads
<1>6. ASSUME NEW t \in Threads, ApplyThrows(t) \/ ContextCall(t)
      PROVE  FailureKept' /\ OkMeansContextAnswered'
  BY <1>2, <1>6 DEF ApplyThrows, ContextCall, Go
<1>7. CASE StreamStep \/ ValidatorDisconnects
  BY <1>1, <1>7 DEF StreamStep, StreamReceive, StreamSweep, StreamLose, StreamClear, StreamMark,
     ValidatorDisconnects, threadVars
<1>8. ASSUME NEW i, ValidatorAnswers(i) \/ ValidatorSends(i)
      PROVE  FailureKept' /\ OkMeansContextAnswered'
  BY <1>1, <1>8 DEF ValidatorAnswers, ValidatorSends, Post, threadVars
<1>9. CASE RunFind \/ HookFind
  BY <1>9 DEF RunFind, HookFind, StartApply, Go, Threads, FailureKept,
     OkMeansContextAnswered
<1>10. ASSUME NEW t \in Threads, ContextReturn(t) \/ ContextTimeout(t)
       PROVE  FailureKept' /\ OkMeansContextAnswered'
  <2>1. CASE ContextReturn(t) /\ Go(t, "context", "apply")
    BY <1>2, <1>10, <2>1 DEF ContextReturn, Go
  <2>2. ASSUME NEW s \in {"INVALID_TRANSACTION", "INTERNAL_ERROR"}, Fail(t, s),
               Go(t, "context", "respond"), responses' = responses
        PROVE  FailureKept' /\ OkMeansContextAnswered'
    BY <2>2 DEF Fail, Go, FailureKept, OkMeansContextAnswered
  <2>3. QED  BY <1>10, <2>1, <2>2 DEF ContextReturn, ContextTimeout
<1>11. ASSUME NEW t \in Threads, ApplyReturns(t)
       PROVE  FailureKept' /\ OkMeansContextAnswered'
  BY <1>11 DEF ApplyReturns, Go, FailureKept, OkMeansContextAnswered
<1>12. ASSUME NEW t \in Threads, Respond(t)
       PROVE  FailureKept' /\ OkMeansContextAnswered'
  <2>1. FailureKept'
    BY <1>12 DEF Respond, Go, FailureKept
  <2>2. status[t] = "OK" => ~failed[t]
    BY <1>12 DEF Respond, Go, FailureKept
  <2>3. /\ DOMAIN responses' = 1..(Len(responses) + 1) /\ Len(responses) \in Nat
        /\ \A n \in 1..Len(responses) : responses'[n] = responses[n]
        /\ responses'[Len(responses) + 1] = Response(t)
        /\ DOMAIN responses = 1..Len(responses)
    BY <1>12 DEF Respond
  <2>4. ASSUME NEW n \in DOMAIN responses', responses'[n].status = "OK"
        PROVE  ~responses'[n].failed
    <3>1. CASE n \in 1..Len(responses)
      BY <2>3, <2>4, <3>1 DEF OkMeansContextAnswered
    <3>2. CASE n = Len(responses) + 1
      <4>1. /\ responses'[n] = Response(t) /\ Response(t).status = status[t]
            /\ Response(t).failed = failed[t]
        BY <2>3, <3>2 DEF Response
      <4>2. QED  BY <2>2, <2>4, <4>1
    <3>3. n \in 1..Len(responses) \/ n = Len(responses) + 1
      BY <2>3, <2>4
    <3>4. QED  BY <3>1, <3>2, <3>3
  <2>5. QED  BY <2>1, <2>4 DEF OkMeansContextAnswered
<1>13. CASE UNCHANGED vars
  BY <1>1, <1>13 DEF vars, threadVars
<1>14. QED
  BY <1>3, <1>4, <1>5, <1>6, <1>7, <1>8, <1>9, <1>10, <1>11, <1>12, <1>13
     DEF Next, Run, Process, Hook, Environment

-----------------------------------------------------------------------------
(* Families.                                                               *)

(* A step that sends nothing and moves no message leaves them covered.     *)
LEMMA FamiliesFrame ==
  ASSUME TypeOK, FamiliesCovered,
         UNCHANGED << handlers, asks >>,
         registrations' \subseteq registrations, atValidator' \subseteq atValidator,
         Range(wire') \subseteq Range(wire) \cup Range(queue),
         \A m \in Range(queue') : m.kind = "process" => m \in Range(wire) \cup Range(queue),
         msg'["run"] = msg["run"] \/ msg'["run"] \in Range(queue),
         pc["run"] = "added" <=> pc'["run"] = "added",
         pc'["run"] \in {"register", "registering"} => index' > 0,
         pc'["run"] = "find" => currentMessage' = msg'["run"] /\ msg'["run"].kind = "process"
  PROVE  FamiliesCovered'
<1>1. \A f : Covered(f) => Covered(f)'
  BY DEF Covered
<1>2. \A m \in Range(wire') \cup Range(queue') \cup {msg'["run"]} :
        m.kind = "process" => Covered(m.family)'
  BY <1>1 DEF FamiliesCovered
<1>3. QED  BY <1>1, <1>2 DEF FamiliesCovered

(* A request that asks for no new registration.                            *)
LEMMA FamiliesSend ==
  ASSUME TypeOK, FamiliesCovered, NEW t \in Threads, NEW a \in Asks, SendRequest(t, a),
         a.what # "nothing",
         a.what = "register" => Covered(a.family)',
         UNCHANGED << handlers, msg, index >>,
         pc["run"] = "added" => pc'["run"] = "added",
         pc'["run"] = "added" => Len(handlers) < Len(Program),
         pc'["run"] \in {"register", "registering"} => index > 0,
         pc'["run"] = "find" => currentMessage' = msg["run"] /\ msg["run"].kind = "process"
  PROVE  FamiliesCovered'
<1> USE DEF TypeOK
<1>1. PICK i \in Ids : /\ asks' = [asks EXCEPT ![i] = a]
                       /\ atValidator' = atValidator \cup {i}
                       /\ UNCHANGED << queue, wire, registrations >>
  BY DEF SendRequest
<1>2. \A f : Covered(f) => Covered(f)'
  BY DEF Covered
<1>3. asks'[i] = a /\ \A j \in Ids \ {i} : asks'[j] = asks[j]
  BY <1>1
<1>4. \A j \in atValidator' : asks'[j].what # "nothing"
  BY <1>1, <1>3 DEF FamiliesCovered
<1>5. \A j \in Ids : asks'[j].what = "register" => Covered(asks[j].family)'
  BY <1>2, <1>3 DEF FamiliesCovered
<1>6. QED  BY <1>1, <1>2, <1>4, <1>5 DEF FamiliesCovered

(* No step makes the validator hold, or ask for, a family without handler. *)
LEMMA FamiliesStep ==
  ASSUME TypeOK, FamiliesCovered, [Next]_vars
  PROVE  FamiliesCovered'
<1> USE DEF TypeOK
<1> DEFINE Kept == UNCHANGED << handlers, asks, registrations, atValidator >>
           Queues == UNCHANGED << wire, queue >>
           Places == (pc["run"] = "added" <=> pc'["run"] = "added")
                     /\ pc'["run"] \notin {"register", "registering", "find"}
           Stay == UNCHANGED << currentMessage, index >> /\ pc'["run"] = pc["run"]
                   /\ msg'["run"] = msg["run"]
<1>1. ASSUME Kept, Queues, Places, msg'["run"] = msg["run"] PROVE FamiliesCovered'
  BY <1>1, FamiliesFrame
<1>2. ASSUME Kept, Queues, Stay PROVE FamiliesCovered'
  BY <1>2, FamiliesFrame DEF FamiliesCovered
<1>3. ASSUME Kept, Stay, Range(wire') \subseteq Range(wire),
             Range(queue') \subseteq Range(queue) \cup Range(wire) \cup {NoMessage}
      PROVE  FamiliesCovered'
  <2>1. \A m \in Range(queue') : m.kind = "process" => m \in Range(wire) \cup Range(queue)
    BY <1>3 DEF NoMessage
  <2>2. pc'["run"] = "find" => currentMessage' = msg'["run"] /\ msg'["run"].kind = "process"
    BY <1>3 DEF FamiliesCovered
  <2>3. pc'["run"] \in {"register", "registering"} => index' > 0
    BY <1>3 DEF FamiliesCovered
  <2>4. QED  BY <1>3, <2>1, <2>2, <2>3, FamiliesFrame
<1>4. CASE AddHandler
  <2>1. /\ SendRequest("run", Register(Program[Len(handlers) + 1], 1))
        /\ pc'["run"] = "added" /\ UNCHANGED << handlers, msg, index >>
        /\ Len(handlers) < Len(Program)
    BY <1>4 DEF AddHandler, Go, tpVars, Threads
  <2>2. /\ Register(Program[Len(handlers) + 1], 1) \in Asks
        /\ Register(Program[Len(handlers) + 1], 1).family = Program[Len(handlers) + 1]
    BY <2>1, ProgramAssumption DEF Register, Asks
  <2>3. Register(Program[Len(handlers) + 1], 1).what = "register"
    BY DEF Register
  <2>4. Covered(Program[Len(handlers) + 1])'
    BY <2>1 DEF Covered
  <2>5. QED  BY <2>1, <2>2, <2>3, <2>4, FamiliesSend DEF Threads
<1>5. CASE HandlerAdded
  <2>1. Len(handlers) < Len(Program) /\ Program[Len(handlers) + 1] \in Families
    BY <1>5, ProgramAssumption DEF HandlerAdded, Go, FamiliesCovered
  <2>2. Range(handlers') = Range(handlers) \cup {Program[Len(handlers) + 1]}
        /\ Len(handlers') = Len(handlers) + 1
    BY <1>5, <2>1, AppendElements DEF HandlerAdded
  <2>3. pc["run"] = "added" /\ pc'["run"] = "add"
    BY <1>5 DEF HandlerAdded, Go, Threads
  <2>4. \A x : Covered(x) => Covered(x)'
    BY <2>2, <2>3 DEF Covered
  <2>5. UNCHANGED << msg, index, wire, queue, asks, atValidator, registrations >>
    BY <1>5 DEF HandlerAdded, streamVars, valVars
  <2>6. QED  BY <2>1, <2>2, <2>3, <2>4, <2>5 DEF FamiliesCovered
<1>6. CASE StartRun \/ RunPing \/ RunClear \/ RunAllRegistered
  BY <1>1, <1>6 DEF StartRun, RunPing, RunClear, RunAllRegistered, Go, Threads, tpVars,
     streamVars, valVars
<1>7. CASE RunReceive
  <2>1. /\ Head(queue) \in Range(queue) /\ Range(Tail(queue)) \subseteq Range(queue)
        /\ queue # << >>
    BY <1>7, TailElements DEF RunReceive
  <2>2. /\ msg'["run"] = Head(queue) /\ queue' = Tail(queue) /\ wire' = wire
        /\ pc["run"] = "receive" /\ pc'["run"] = "assign" /\ Kept
    BY <1>7 DEF RunReceive, Go, Threads, tpVars, valVars
  <2>3. QED  BY <2>1, <2>2, FamiliesFrame
<1>8. CASE RunDispatch
  <2>1. /\ pc["run"] = "assign" /\ currentMessage' = msg["run"] /\ msg' = msg
        /\ Kept /\ Queues
    BY <1>8 DEF RunDispatch, Go, streamVars, valVars
  <2>2. CASE msg["run"].kind = "disconnect"
    BY <1>8, <2>1, <2>2, FamiliesFrame DEF RunDispatch, Go, Threads
  <2>3. CASE msg["run"].kind = "process"
    BY <1>8, <2>1, <2>3, FamiliesFrame DEF RunDispatch, Go, Threads
  <2>4. CASE msg["run"].kind \notin {"disconnect", "process"}
    BY <1>1, <1>8, <2>1, <2>4 DEF RunDispatch, Go, Threads
  <2>5. QED  BY <2>2, <2>3, <2>4
<1>9. CASE RunRegister
  <2>1. /\ SendRequest("run", Register(handlers[index], 0)) /\ pc["run"] = "register"
        /\ pc'["run"] = "registering" /\ UNCHANGED << handlers, msg, index >>
        /\ index <= Len(handlers)
    BY <1>9 DEF RunRegister, Go, tpVars, Threads
  <2>2. index > 0 /\ index \in DOMAIN handlers
    BY <2>1 DEF FamiliesCovered
  <2>3. /\ Register(handlers[index], 0) \in Asks
        /\ Register(handlers[index], 0).family = handlers[index]
        /\ Register(handlers[index], 0).what = "register"
    BY <2>2 DEF Register, Asks
  <2>4. Covered(handlers[index])'
    BY <2>1, <2>2 DEF Covered, Range
  <2>5. QED  BY <2>1, <2>2, <2>3, <2>4, FamiliesSend DEF Threads
<1>10. CASE RunRegistered
  <2>1. /\ pc["run"] = "registering" /\ pc'["run"] = "register" /\ index' = index + 1
        /\ Kept /\ Queues /\ msg' = msg
    BY <1>10 DEF RunRegistered, Go, Threads, streamVars, valVars
  <2>2. QED  BY <2>1, FamiliesFrame
<1>11. CASE RunFind
  BY <1>1, <1>11 DEF RunFind, StartApply, Go, Threads, tpVars, streamVars, valVars
<1>12. CASE HookFind
  BY <1>2, <1>12 DEF HookFind, StartApply, Go, Threads, tpVars, streamVars, valVars
<1>13. ASSUME NEW t \in Threads, ContextCall(t) PROVE FamiliesCovered'
  <2>1. /\ SendRequest(t, Ask("context"))
        /\ UNCHANGED << handlers, msg, index, currentMessage >>
        /\ pc'["run"] = pc["run"] \/ (pc["run"] = "apply" /\ pc'["run"] = "context")
    BY <1>13 DEF ContextCall, Go, tpVars, Threads
  <2>2. Ask("context") \in Asks /\ Ask("context").what = "context"
    BY DEF Ask, Asks
  <2>3. QED  BY <2>1, <2>2, FamiliesSend DEF FamiliesCovered
<1>14. CASE HookUnregister
  <2>1. /\ SendRequest("hook", Ask("unregister"))
        /\ UNCHANGED << handlers, msg, index, currentMessage >> /\ pc'["run"] = pc["run"]
    BY <1>14 DEF HookUnregister, Go, tpVars, Threads
  <2>2. Ask("unregister") \in Asks /\ Ask("unregister").what = "unregister"
    BY DEF Ask, Asks
  <2>3. QED  BY <2>1, <2>2, FamiliesSend DEF FamiliesCovered, Threads
<1>15. ASSUME NEW t \in Threads,
              ContextReturn(t) \/ ContextTimeout(t) \/ ApplyReturns(t) \/ ApplyThrows(t)
                \/ Respond(t)
       PROVE  FamiliesCovered'
  <2>1. Kept /\ Queues /\ UNCHANGED << currentMessage, index, msg >>
    BY <1>15 DEF ContextReturn, ContextTimeout, ApplyReturns, ApplyThrows, Respond,
       tpVars, streamVars, valVars
  <2>2. CASE t = "run"
    <3>1. Places
      BY <1>15, <2>2 DEF ContextReturn, ContextTimeout, ApplyReturns, ApplyThrows,
         Respond, Go, Threads
    <3>2. QED  BY <1>1, <2>1, <3>1
  <2>3. CASE t = "hook"
    <3>1. pc'["run"] = pc["run"]
      BY <1>15, <2>3 DEF ContextReturn, ContextTimeout, ApplyReturns, ApplyThrows,
         Respond, Go, Threads
    <3>2. QED  BY <1>2, <2>1, <3>1
  <2>4. QED  BY <2>2, <2>3 DEF Threads
<1>16. CASE HookStart \/ HookLook \/ HookLog \/ HookUnregistered \/ HookLoad
            \/ HookTimeout
  BY <1>2, <1>16 DEF HookStart, HookLook, HookLog, HookUnregistered, HookLoad, HookTimeout, TakeOver, Go,
     Threads, tpVars, streamVars, valVars
<1>17. CASE HookTake
  <2>1. Range(Tail(queue)) \subseteq Range(queue)
    BY <1>17, TailElements DEF HookTake
  <2>2. Kept /\ Stay /\ wire' = wire /\ queue' = Tail(queue)
    BY <1>17 DEF HookTake, TakeOver, Go, Threads, tpVars, valVars
  <2>3. QED  BY <1>3, <2>1, <2>2
<1>18. CASE StreamReceive
  <2>1. /\ wire # << >> /\ queue' = Append(queue, Head(wire)) /\ wire' = Tail(wire)
        /\ Kept /\ Stay
    BY <1>18 DEF StreamReceive, threadVars, tpVars, valVars
  <2>2. /\ Head(wire) \in Messages /\ Head(wire) \in Range(wire)
        /\ Range(Tail(wire)) \subseteq Range(wire)
    BY <2>1, TailElements
  <2>3. Range(queue') = Range(queue) \cup {Head(wire)}
    BY <2>1, <2>2, AppendElements
  <2>4. QED  BY <1>3, <2>1, <2>2, <2>3
<1>19. CASE StreamSweep \/ StreamClear \/ StreamMark \/ \E i \in Ids : StreamLose(i)
  <2>1. wire' = wire /\ Kept /\ Stay
    BY <1>19 DEF StreamSweep, StreamClear, StreamMark, StreamLose, threadVars, tpVars, valVars
  <2>2. NoMessage \in Messages
    BY DEF NoMessage, Messages, Kinds
  <2>3. queue' \in {queue, << >>, Append(queue, NoMessage)}
    BY <1>19 DEF StreamSweep, StreamClear, StreamMark, StreamLose
  <2>4. Range(Append(queue, NoMessage)) = Range(queue) \cup {NoMessage}
    BY <2>2, AppendElements
  <2>5. QED  BY <1>3, <2>1, <2>3, <2>4, ElementsType
<1>20. CASE ValidatorDisconnects
  BY <1>20, FamiliesFrame DEF ValidatorDisconnects, threadVars, tpVars, FamiliesCovered
<1>21. ASSUME NEW i \in Ids, ValidatorAnswers(i) PROVE FamiliesCovered'
  <2>1. /\ i \in atValidator /\ atValidator' \subseteq atValidator
        /\ UNCHANGED << threadVars, tpVars, queue, wire, asks >>
    BY <1>21 DEF ValidatorAnswers
  <2>2. UNCHANGED << pc, msg, index, handlers, currentMessage >>
    BY <2>1 DEF threadVars, tpVars
  <2>3. asks[i].what \in {"register", "unregister", "context"}
    BY <2>1 DEF FamiliesCovered, Asks
  <2>4. \A g \in registrations' : g \in registrations \/ (asks[i].what = "register" /\ g = asks[i])
    BY <1>21, <2>3 DEF ValidatorAnswers
  <2>5. \A f : Covered(f)' <=> Covered(f)
    BY <2>2 DEF Covered
  <2>6. \A g \in registrations' : Covered(g.family)
    BY <2>4 DEF FamiliesCovered
  <2>7. QED  BY <2>1, <2>2, <2>5, <2>6 DEF FamiliesCovered
<1>22. ASSUME NEW r \in Requests, ValidatorSends(r) PROVE FamiliesCovered'
  <2>1. PICK m \in Messages : Post(m) /\ (m.kind = "process" => Covered(m.family))
    <3>1. ASSUME NEW g \in registrations,
                 Post([id |-> r, kind |-> "process", family |-> g.family])
          PROVE  \E m \in Messages : Post(m) /\ (m.kind = "process" => Covered(m.family))
      <4>1. [id |-> r, kind |-> "process", family |-> g.family] \in Messages
        BY DEF Messages, Kinds, Asks
      <4>2. Covered(g.family)
        BY DEF FamiliesCovered
      <4>3. QED  BY <3>1, <4>1, <4>2
    <3>2. ASSUME NEW k \in {"ping", "other"},
                 Post([id |-> r, kind |-> k, family |-> None])
          PROVE  \E m \in Messages : Post(m) /\ (m.kind = "process" => Covered(m.family))
      <4>1. [id |-> r, kind |-> k, family |-> None] \in Messages
        BY DEF Messages, Kinds
      <4>2. QED  BY <3>2, <4>1
    <3>3. QED  BY <1>22, <3>1, <3>2 DEF ValidatorSends
  <2>2. /\ Range(wire') = Range(wire) \cup {m} /\ queue' = queue
        /\ UNCHANGED << pc, msg, index, handlers, currentMessage, asks, atValidator,
                        registrations >>
    BY <2>1, AppendElements DEF Post, threadVars, tpVars
  <2>3. \A f : Covered(f)' <=> Covered(f)
    BY <2>2 DEF Covered
  <2>4. QED  BY <2>1, <2>2, <2>3 DEF FamiliesCovered
<1>23. CASE UNCHANGED vars
  BY <1>2, <1>23 DEF vars, threadVars, tpVars, streamVars, valVars
<1>24. QED
  BY <1>4, <1>5, <1>6, <1>7, <1>8, <1>9, <1>10, <1>11, <1>12, <1>13, <1>14, <1>15,
     <1>16, <1>17, <1>18, <1>19, <1>20, <1>21, <1>22, <1>23
     DEF Next, Run, Process, Hook, StreamStep, Environment

-----------------------------------------------------------------------------
(* One place for each request.                                             *)

(* A step that moves no message, and by which no thread takes one.         *)
LEMMA PlacesFrame ==
  ASSUME OncePerRequest, shared \subseteq shared',
         UNCHANGED << wire, queue, responses, sent, msg >>,
         \A t \in Threads : pc'[t] \in {"assign"} \cup Applying
                             => pc[t] \in {"assign"} \cup Applying
  PROVE  OncePerRequest'
<1> SUFFICES ASSUME NEW r \in Requests \ shared' PROVE InOnePlace(r)'
  BY DEF OncePerRequest
<1>1. InOnePlace(r)
  BY DEF OncePerRequest
<1>2. \A t \in Threads : Holds(t, r)' => Holds(t, r)
  BY DEF Holds
<1>3. /\ Has(wire, r)' = Has(wire, r) /\ Has(queue, r)' = Has(queue, r)
      /\ Has(responses, r)' = Has(responses, r)
      /\ Once(wire, r)' = Once(wire, r) /\ Once(queue, r)' = Once(queue, r)
      /\ Once(responses, r)' = Once(responses, r)
  BY DEF Has, Once
<1>4. QED  BY <1>1, <1>2, <1>3 DEF InOnePlace, Threads

(* Every step leaves a request that is not shared in one place at most.    *)
LEMMA PlacesStep ==
  ASSUME TypeOK, OncePerRequest, [Next]_vars
  PROVE  OncePerRequest'
<1> USE DEF TypeOK
<1> DEFINE Unmoved == UNCHANGED << wire, queue, responses, sent, msg, shared >>
<1>1. CASE AddHandler \/ HandlerAdded \/ StartRun \/ RunPing \/ RunClear \/ RunRegister
             \/ RunRegistered \/ RunAllRegistered
  BY <1>1, PlacesFrame DEF AddHandler, HandlerAdded, StartRun, RunPing, RunClear,
     RunRegister, RunRegistered, RunAllRegistered, SendRequest, Go, Applying, streamVars,
     valVars
<1>2. CASE RunDispatch
  BY <1>2, PlacesFrame DEF RunDispatch, Go, streamVars, valVars
<1>3. CASE RunFind \/ HookFind
  BY <1>3, PlacesFrame DEF RunFind, HookFind, StartApply, Go, Applying, streamVars, valVars
<1>4. ASSUME NEW t \in Threads,
             ContextCall(t) \/ ContextReturn(t) \/ ContextTimeout(t) \/ ApplyReturns(t)
               \/ ApplyThrows(t)
      PROVE  OncePerRequest'
  BY <1>4, PlacesFrame DEF ContextCall, ContextReturn, ContextTimeout, ApplyReturns,
     ApplyThrows, SendRequest, Go, Applying, streamVars, valVars
<1>5. CASE HookStart \/ HookLook \/ HookLog \/ HookUnregister \/ HookUnregistered
           \/ HookTimeout
  BY <1>5, PlacesFrame DEF HookStart, HookLook, HookLog, HookUnregister, HookUnregistered, HookTimeout,
     SendRequest, Go, Applying, streamVars, valVars
<1>6. CASE StreamSweep \/ ValidatorDisconnects \/ \E i \in Ids : StreamLose(i) \/ ValidatorAnswers(i)
  BY <1>6, PlacesFrame DEF StreamSweep, ValidatorDisconnects, StreamLose, ValidatorAnswers, threadVars,
     valVars
<1>7. CASE UNCHANGED vars
  BY <1>7, PlacesFrame DEF vars, threadVars, streamVars, valVars
<1>8. CASE RunReceive
  <2> SUFFICES ASSUME NEW r \in Requests \ shared' PROVE InOnePlace(r)'
    BY DEF OncePerRequest
  <2>1. /\ queue # << >> /\ queue' = Tail(queue) /\ msg'["run"] = Head(queue)
        /\ pc["run"] = "receive" /\ pc'["run"] = "assign"
        /\ msg'["hook"] = msg["hook"] /\ pc'["hook"] = pc["hook"]
        /\ UNCHANGED << wire, responses, sent, shared >>
    BY <1>8 DEF RunReceive, Go, Threads, valVars
  <2>2. InOnePlace(r)
    BY <2>1 DEF OncePerRequest
  <2>3. /\ Has(queue, r) <=> Head(queue).id = r \/ Has(queue, r)'
        /\ Once(queue, r) => Once(queue, r)' /\ (Head(queue).id = r => ~Has(queue, r)')
    <3>1. Has(queue, r)' = Has(Tail(queue), r) /\ Once(queue, r)' = Once(Tail(queue), r)
      BY <2>1 DEF Has, Once
    <3>2. QED  BY <2>1, <3>1, TailHas
  <2>4. /\ ~Holds("run", r) /\ (Holds("run", r)' <=> Head(queue).id = r)
        /\ Holds("hook", r)' <=> Holds("hook", r)
    BY <2>1 DEF Holds, Applying
  <2>5. /\ Has(wire, r)' = Has(wire, r) /\ Has(responses, r)' = Has(responses, r)
        /\ Once(wire, r)' = Once(wire, r) /\ Once(responses, r)' = Once(responses, r)
    BY <2>1 DEF Has, Once
  <2>6. QED  BY <2>1, <2>2, <2>3, <2>4, <2>5 DEF InOnePlace, Threads
<1>9. CASE HookTake
  <2> SUFFICES ASSUME NEW r \in Requests \ shared' PROVE InOnePlace(r)'
    BY DEF OncePerRequest
  <2>1. /\ queue # << >> /\ queue' = Tail(queue) /\ msg'["hook"] = Head(queue)
        /\ pc["hook"] = "take" /\ pc'["run"] = pc["run"] /\ msg'["run"] = msg["run"]
        /\ UNCHANGED << wire, responses, sent, shared >>
    BY <1>9 DEF HookTake, TakeOver, Go, Threads, valVars
  <2>2. InOnePlace(r)
    BY <2>1 DEF OncePerRequest
  <2>3. /\ Has(queue, r) <=> Head(queue).id = r \/ Has(queue, r)'
        /\ Once(queue, r) => Once(queue, r)' /\ (Head(queue).id = r => ~Has(queue, r)')
    <3>1. Has(queue, r)' = Has(Tail(queue), r) /\ Once(queue, r)' = Once(Tail(queue), r)
      BY <2>1 DEF Has, Once
    <3>2. QED  BY <2>1, <3>1, TailHas
  <2>4. /\ ~Holds("hook", r) /\ (Holds("hook", r)' => Head(queue).id = r)
        /\ Holds("run", r)' <=> Holds("run", r)
    BY <2>1 DEF Holds, Applying
  <2>5. /\ Has(wire, r)' = Has(wire, r) /\ Has(responses, r)' = Has(responses, r)
        /\ Once(wire, r)' = Once(wire, r) /\ Once(responses, r)' = Once(responses, r)
    BY <2>1 DEF Has, Once
  <2>6. QED  BY <2>1, <2>2, <2>3, <2>4, <2>5 DEF InOnePlace, Threads
<1>10. CASE HookLoad
  <2> SUFFICES ASSUME NEW r \in Requests \ shared' PROVE InOnePlace(r)'
    BY DEF OncePerRequest
  <2>1. /\ pc["hook"] = "load" /\ pc'["run"] = pc["run"] /\ msg'["run"] = msg["run"]
        /\ UNCHANGED << wire, queue, responses, sent >> /\ shared \subseteq shared'
        /\ pc'["hook"] = "take" \/ msg'["hook"].id # r
    BY <1>10 DEF HookLoad, TakeOver, Go, Threads, streamVars, valVars
  <2>2. InOnePlace(r)
    BY <2>1 DEF OncePerRequest
  <2>3. ~Holds("hook", r)' /\ (Holds("run", r)' <=> Holds("run", r))
    BY <2>1 DEF Holds, Applying
  <2>4. /\ Has(wire, r)' = Has(wire, r) /\ Has(responses, r)' = Has(responses, r)
        /\ Once(wire, r)' = Once(wire, r) /\ Once(responses, r)' = Once(responses, r)
        /\ Has(queue, r)' = Has(queue, r) /\ Once(queue, r)' = Once(queue, r)
    BY <2>1 DEF Has, Once
  <2>5. QED  BY <2>1, <2>2, <2>3, <2>4 DEF InOnePlace, Threads
<1>11. ASSUME NEW t \in Threads, Respond(t) PROVE OncePerRequest'
  <2> SUFFICES ASSUME NEW r \in Requests \ shared' PROVE InOnePlace(r)'
    BY DEF OncePerRequest
  <2>1. /\ responses' = Append(responses, Response(t)) /\ Response(t).id = msg[t].id
        /\ pc[t] = "respond" /\ pc' = [pc EXCEPT ![t] = pc'[t]]
        /\ pc'[t] \in {"clear", "take"} /\ UNCHANGED << msg, wire, queue, sent, shared >>
    BY <1>11 DEF Respond, Response, Go, streamVars, valVars
  <2>2. InOnePlace(r)
    BY <2>1 DEF OncePerRequest
  <2>3. Response(t) \in Reports
    BY DEF Response, Reports, Messages
  <2>4. /\ Has(responses, r)' <=> Has(responses, r) \/ msg[t].id = r
        /\ Once(responses, r) /\ (msg[t].id = r => ~Has(responses, r)) => Once(responses, r)'
    <3>1. /\ Has(responses, r)' = Has(Append(responses, Response(t)), r)
          /\ Once(responses, r)' = Once(Append(responses, Response(t)), r)
      BY <2>1 DEF Has, Once
    <3>2. QED  BY <2>1, <2>3, <3>1, AppendHas
  <2>5. /\ Holds(t, r) <=> msg[t].id = r
        /\ ~Holds(t, r)'
        /\ \A u \in Threads \ {t} : Holds(u, r)' <=> Holds(u, r)
    BY <2>1 DEF Holds, Applying
  <2>6. /\ Has(wire, r)' = Has(wire, r) /\ Once(wire, r)' = Once(wire, r)
        /\ Has(queue, r)' = Has(queue, r) /\ Once(queue, r)' = Once(queue, r)
    BY <2>1 DEF Has, Once
  <2>7. QED  BY <2>1, <2>2, <2>4, <2>5, <2>6 DEF InOnePlace, Threads
<1>12. CASE StreamReceive
  <2> SUFFICES ASSUME NEW r \in Requests \ shared' PROVE InOnePlace(r)'
    BY DEF OncePerRequest
  <2>1. /\ wire # << >> /\ wire' = Tail(wire) /\ queue' = Append(queue, Head(wire))
        /\ UNCHANGED << pc, msg, responses, sent, shared >>
    BY <1>12 DEF StreamReceive, threadVars, valVars
  <2>2. InOnePlace(r)
    BY <2>1 DEF OncePerRequest
  <2>3. /\ Has(wire, r) <=> Head(wire).id = r \/ Has(wire, r)'
        /\ Once(wire, r) => Once(wire, r)' /\ (Head(wire).id = r => ~Has(wire, r)')
    <3>1. Has(wire, r)' = Has(Tail(wire), r) /\ Once(wire, r)' = Once(Tail(wire), r)
      BY <2>1 DEF Has, Once
    <3>2. QED  BY <2>1, <3>1, TailHas
  <2>4. Head(wire) \in Messages
    BY <2>1
  <2>5. /\ Has(queue, r)' <=> Has(queue, r) \/ Head(wire).id = r
        /\ Once(queue, r) /\ (Head(wire).id = r => ~Has(queue, r)) => Once(queue, r)'
    <3>1. /\ Has(queue, r)' = Has(Append(queue, Head(wire)), r)
          /\ Once(queue, r)' = Once(Append(queue, Head(wire)), r)
      BY <2>1 DEF Has, Once
    <3>2. QED  BY <2>4, <3>1, AppendHas
  <2>6. \A t \in Threads : Holds(t, r)' <=> Holds(t, r)
    BY <2>1 DEF Holds
  <2>7. Has(responses, r)' = Has(responses, r) /\ Once(responses, r)' = Once(responses, r)
    BY <2>1 DEF Has, Once
  <2>8. QED  BY <2>1, <2>2, <2>3, <2>5, <2>6, <2>7 DEF InOnePlace, Threads
<1>13. CASE StreamClear \/ StreamMark
  <2> SUFFICES ASSUME NEW r \in Requests \ shared' PROVE InOnePlace(r)'
    BY DEF OncePerRequest
  <2>1. /\ UNCHANGED << pc, msg, wire, responses, sent, shared >>
        /\ queue' = << >> \/ queue' = Append(queue, NoMessage)
    BY <1>13 DEF StreamClear, StreamMark, threadVars, valVars
  <2>2. InOnePlace(r)
    BY <2>1 DEF OncePerRequest
  <2>3. NoMessage \in Messages /\ NoMessage.id # r
    BY NoneAssumption DEF NoMessage, Messages, Kinds
  <2>4. (Has(queue, r)' => Has(queue, r)) /\ (Once(queue, r) => Once(queue, r)')
    <3>1. CASE queue' = << >>
      BY <3>1 DEF Has, Once
    <3>2. CASE queue' = Append(queue, NoMessage)
      BY <2>3, <3>2, AppendHas DEF Has, Once
    <3>3. QED  BY <2>1, <3>1, <3>2
  <2>5. \A t \in Threads : Holds(t, r)' <=> Holds(t, r)
    BY <2>1 DEF Holds
  <2>6. /\ Has(wire, r)' = Has(wire, r) /\ Has(responses, r)' = Has(responses, r)
        /\ Once(wire, r)' = Once(wire, r) /\ Once(responses, r)' = Once(responses, r)
    BY <2>1 DEF Has, Once
  <2>7. QED  BY <2>1, <2>2, <2>4, <2>5, <2>6 DEF InOnePlace, Threads
<1>14. ASSUME NEW q \in Requests, ValidatorSends(q) PROVE OncePerRequest'
  <2> SUFFICES ASSUME NEW r \in Requests \ shared' PROVE InOnePlace(r)'
    BY DEF OncePerRequest
  <2>1. PICK m \in Messages : Post(m) /\ m.id = q /\ q \notin sent
    <3>1. ASSUME NEW g \in registrations,
                 Post([id |-> q, kind |-> "process", family |-> g.family])
          PROVE  \E m \in Messages : Post(m) /\ m.id = q
      <4>1. [id |-> q, kind |-> "process", family |-> g.family] \in Messages
        BY DEF Messages, Kinds, Asks
      <4>2. QED  BY <3>1, <4>1
    <3>2. ASSUME NEW k \in {"ping", "other"},
                 Post([id |-> q, kind |-> k, family |-> None])
          PROVE  \E m \in Messages : Post(m) /\ m.id = q
      <4>1. [id |-> q, kind |-> k, family |-> None] \in Messages
        BY DEF Messages, Kinds
      <4>2. QED  BY <3>2, <4>1
    <3>3. QED  BY <1>14, <3>1, <3>2 DEF ValidatorSends
  <2>2. /\ wire' = Append(wire, m) /\ sent' = sent \cup {q}
        /\ UNCHANGED << pc, msg, queue, responses, shared >>
    BY <2>1 DEF Post, threadVars
  <2>3. InOnePlace(r)
    BY <2>2 DEF OncePerRequest
  <2>4. /\ Has(wire, r)' <=> Has(wire, r) \/ q = r
        /\ Once(wire, r) /\ (q = r => ~Has(wire, r)) => Once(wire, r)'
    <3>1. /\ Has(wire, r)' = Has(Append(wire, m), r)
          /\ Once(wire, r)' = Once(Append(wire, m), r)
      BY <2>2 DEF Has, Once
    <3>2. QED  BY <2>1, <3>1, AppendHas
  <2>5. \A t \in Threads : Holds(t, r)' <=> Holds(t, r)
    BY <2>2 DEF Holds
  <2>6. /\ Has(queue, r)' = Has(queue, r) /\ Has(responses, r)' = Has(responses, r)
        /\ Once(queue, r)' = Once(queue, r) /\ Once(responses, r)' = Once(responses, r)
    BY <2>2 DEF Has, Once
  <2>7. QED  BY <2>1, <2>2, <2>3, <2>4, <2>5, <2>6 DEF InOnePlace, Threads
<1>15. QED
  BY <1>1, <1>2, <1>3, <1>4, <1>5, <1>6, <1>7, <1>8, <1>9, <1>10, <1>11, <1>12, <1>13,
     <1>14 DEF Next, Run, Process, Hook, StreamStep, Environment

-----------------------------------------------------------------------------
(* The theorems.                                                           *)

(* The invariant holds before main() adds its first handler.               *)
LEMMA InitIInv == Init => IInv
<1> SUFFICES ASSUME Init PROVE IInv
  OBVIOUS
<1>1. Range(<< >>) = {}
  BY DEF Range
<1>2. TypeOK
  <2>1. NoMessage \in Messages /\ Ask("nothing") \in Asks
    BY DEF NoMessage, Messages, Kinds, Ask, Asks
  <2>2. /\ pc \in [Threads -> RunPlaces \cup HookPlaces]
        /\ pc["run"] \in RunPlaces /\ pc["hook"] \in HookPlaces
    BY DEF Init, RunPlaces, HookPlaces, Applying, Threads
  <2>3. Stream!TypeOK
    BY DEF Init, Stream!Init, Stream!TypeOK, Stream!Phases
  <2>4. /\ currentMessage \in Messages /\ msg \in [Threads -> Messages]
        /\ asks \in [Ids -> Asks]
    BY <2>1 DEF Init
  <2>5. /\ handlers \in Seq(Families) /\ queue \in Seq(Messages) /\ wire \in Seq(Messages)
        /\ responses \in Seq(Reports)
    BY DEF Init
  <2>6. /\ handler \in [Threads -> Families \cup {None}] /\ call \in [Threads -> Ids \cup {None}]
        /\ calls \in [Threads -> Nat] /\ index \in Nat
        /\ status \in [Threads -> Statuses]
    BY DEF Init, Statuses
  <2>7. registered \in BOOLEAN /\ failed \in [Threads -> BOOLEAN]
    BY DEF Init
  <2>8. /\ registrations \subseteq Asks /\ atValidator \subseteq Ids /\ doomed \subseteq Ids
        /\ sent \subseteq Requests /\ shared \subseteq Requests \cup {None}
        /\ disc \in {"idle", "sweep", "mark"} /\ events \in Nat
    BY DEF Init
  <2>9. QED  BY <2>2, <2>3, <2>4, <2>5, <2>6, <2>7, <2>8 DEF TypeOK
<1>3. FamiliesCovered
  BY <1>1, ProgramAssumption DEF Init, FamiliesCovered, NoMessage, Ask, Threads
<1>4. FailureKept /\ OkMeansContextAnswered
  BY DEF Init, FailureKept, OkMeansContextAnswered
<1>5. OncePerRequest
  BY NoneAssumption DEF Init, OncePerRequest, InOnePlace, Once, Has, Holds, Applying, Threads
<1>6. QED  BY <1>2, <1>3, <1>4, <1>5 DEF IInv

(* The inductive invariant, for every program and with the hook.           *)
THEOREM IInvAlways == Spec => []IInv
<1>1. IInv /\ [Next]_vars => IInv'
  BY TypeStep, FamiliesStep, FailureStep, PlacesStep DEF IInv
<1>2. QED  BY InitIInv, <1>1, PTL DEF Spec

(* The processor's variables keep their types.                             *)
THEOREM TypeCorrect == Spec => []TypeOK
<1>1. IInv => TypeOK
  BY DEF IInv
<1>2. QED  BY IInvAlways, <1>1, PTL

(* No transaction is reported OK after a failed context call.              *)
THEOREM OkIsDeserved == Spec => []OkMeansContextAnswered
<1>1. IInv => OkMeansContextAnswered
  BY DEF IInv
<1>2. QED  BY IInvAlways, <1>1, PTL

(* findHandler() always finds a handler for the run loop's request.        *)
THEOREM HandlerIsFound == Spec => []HandlerForEveryRequest
<1>1. ASSUME IInv PROVE HandlerForEveryRequest
  <2>1. pc["run"] = "find" => Found # None
    <3>1. ASSUME pc["run"] = "find" PROVE Found # None
      <4>1. /\ currentMessage.kind = "process" /\ currentMessage = msg["run"]
            /\ Covered(currentMessage.family)
        BY <1>1, <3>1 DEF IInv, FamiliesCovered
      <4>2. currentMessage.family \in Range(handlers)
        BY <3>1, <4>1 DEF Covered
      <4>3. Range(handlers) \subseteq Families
        BY <1>1, ElementsType DEF IInv, TypeOK
      <4>4. QED  BY <4>2, <4>3, NoneAssumption DEF Found
    <3>2. QED  BY <3>1
  <2>2. QED  BY <1>1, <2>1 DEF IInv, FamiliesCovered, Covered, HandlerForEveryRequest
<1>2. QED  BY IInvAlways, <1>1, PTL

(* A request that the hook and the run loop do not both hold is answered   *)
(* at most once.                                                           *)
THEOREM AtMostOneResponse == Spec => []OneResponse
<1>1. ASSUME IInv PROVE OneResponse
  <2>1. ASSUME NEW r \in Requests, r \notin shared PROVE Cardinality(ResponsesTo(r)) <= 1
    <3>1. Once(responses, r)
      BY <1>1, <2>1 DEF IInv, OncePerRequest, InOnePlace
    <3>2. CASE ResponsesTo(r) = {}
      BY <3>2, FS_EmptySet
    <3>3. CASE ResponsesTo(r) # {}
      <4>1. PICK n : n \in ResponsesTo(r)
        BY <3>3
      <4>2. ResponsesTo(r) = {n}
        BY <3>1, <4>1 DEF Once, ResponsesTo
      <4>3. QED  BY <4>2, FS_Singleton
    <3>4. QED  BY <3>2, <3>3
  <2>2. QED  BY <2>1 DEF OneResponse
<1>2. QED  BY IInvAlways, <1>1, PTL

=============================================================================
