------------------------ MODULE PythonProcessorProofs ------------------------
(***************************************************************************)
(* Proofs about PythonProcessor for any handlers, messages and numbers of  *)
(* requests, disconnects and calls.  The inductive invariant is proved     *)
(* part by part: types, the stream's futures and messages, what the main   *)
(* thread has in hand and waits for, failed calls, and the copies of a     *)
(* request.                                                                *)
(***************************************************************************)
EXTENDS PythonProcessor, QueueFacts, FiniteSetTheorems, TLAPS

-----------------------------------------------------------------------------
(* Steps of the main thread that leave the stream alone.                   *)

Quiet ==
  \/ WaitForReady \/ SendCheck \/ (SendTest /\ ~event) \/ (SendTest /\ event)
  \/ RegisterResult \/ CallResult \/ CallTimesOut
  \/ UnregisterResult \/ UnregisterTimesOut \/ Cancelled \/ AwaitTimesOut
  \/ RegisterAgain \/ Ping \/ Drop \/ Process \/ ContextCall \/ ApplyReturns
  \/ ApplyThrows \/ Respond \/ BackTest \/ Interrupt

(* They change no queue, no future and none of the messages at the         *)
(* validator.                                                              *)
LEMMA QuietStep ==
  Quiet => UNCHANGED << streamVars, registered, pushed, responses >>
BY DEF Quiet, WaitForReady, SendCheck, SendTest, RegisterResult, CallResult, CallTimesOut,
   UnregisterResult, UnregisterTimesOut, Cancelled, AwaitTimesOut, RegisterAgain, Ping,
   Drop, Process, ContextCall, ApplyReturns, ApplyThrows, Respond, BackTest, Interrupt,
   Sent, sideVars

(* Every step is quiet, or one of ten kinds that change the stream.        *)
LEMMA Steps ==
  Next => \/ Quiet \/ SendPut \/ SendSchedule \/ BackSchedule \/ Receive
          \/ LoopSends \/ LoopGets \/ LoopRecovers
          \/ (\E i \in Ids : ValidatorReplies(i))
          \/ (\E p \in Pushes : ValidatorPushes(p)) \/ ValidatorDisconnects
BY DEF Next, Main, Send, Loop, Environment, Quiet

-----------------------------------------------------------------------------
(* Types.                                                                  *)

(* The messages of both directions.                                        *)
LEMMA MessageTypes ==
  /\ \A m \in Requests : m[1] = "send" /\ m[2] \in Ids /\ m[3] \in Asked
  /\ \A m \in Responses : /\ m[1] = "back" /\ m[2] \in Pushes \cup {"reconnect"}
                          /\ m[3] \in Verdicts /\ m[4] \in BOOLEAN
  /\ \A i \in Ids, w \in Asked : << "send", i, w >> \in Requests
  /\ \A p \in Pushes \cup {"reconnect"}, v \in Verdicts, b \in BOOLEAN :
       << "back", p, v, b >> \in Responses
BY DEF Requests, Responses

(* The ids in use are ids, and there is a handler.                         *)
LEMMA Bounds ==
  ASSUME TypeOK
  PROVE  /\ used \in Nat /\ MaxSends \in Nat /\ 1..used \subseteq Ids
         /\ Handlers \in Seq(Families) /\ Len(Handlers) \in Nat \ {0}
<1>1. used \in Nat /\ MaxSends \in Nat /\ 1..used \subseteq Ids
  <2>1. used \in 0..MaxSends /\ MaxSends \in Nat
    BY PyBoundAssumption DEF TypeOK, MessagesOK, MainTypeOK, StreamTypeOK
  <2>2. QED  BY <2>1 DEF Ids
<1>2. Handlers \in Seq(Families) /\ Handlers # << >>
  BY HandlersAssumption
<1>3. Len(Handlers) \in Nat \ {0}
  BY <1>2
<1>4. QED  BY <1>1, <1>2, <1>3

(* A sequence over fewer values is one over more.                          *)
LEMMA SeqMonotonic ==
  ASSUME NEW S, NEW T, S \subseteq T, NEW s \in Seq(S)
  PROVE  s \in Seq(T)
OBVIOUS

(* What is sent for the task in hand can be asked of the validator.        *)
LEMMA WhatType ==
  ASSUME TypeOK, InHand, Sending
  PROVE  What \in Asked
<1>1. CASE task = "register"
  <2>1. regs \in 0..Len(Handlers) /\ regs < Len(Handlers) /\ Len(Handlers) \in Nat
    BY <1>1, Bounds DEF TypeOK, MessagesOK, MainTypeOK, InHand
  <2>2. Handlers[regs + 1] \in Families
    BY <2>1, Bounds
  <2>3. QED  BY <1>1, <2>2 DEF What, Asked
<1>2. CASE task # "register"
  BY <1>2 DEF What, Asked, InHand
<1>3. QED  BY <1>1, <1>2

(* The main thread's own variables have their types after send() returned. *)
LEMMA SentTypes ==
  ASSUME TypeOK, InHand, Calling, Sent
  PROVE  /\ pc' \in {"ready", "result"} /\ waits' \in Seq(1..used) /\ waits' # << >>
         /\ regs' \in 0..Len(Handlers)
<1>1. call \in 1..used /\ waits \in Seq(1..used)
  BY DEF TypeOK, MessagesOK, MainTypeOK, StreamTypeOK, InHand
<1>2. waits' \in Seq(1..used) /\ waits' # << >>
  BY <1>1 DEF Sent
<1>3. regs \in 0..Len(Handlers) /\ Len(Handlers) \in Nat
      /\ (task = "register" => regs < Len(Handlers))
  BY Bounds DEF TypeOK, MessagesOK, MainTypeOK, InHand, Sending, Calling
<1>4. regs' \in 0..Len(Handlers)
  BY <1>3 DEF Sent
<1>5. QED  BY <1>2, <1>4 DEF Sent

(* They keep the types.                                                    *)
LEMMA QuietTypes ==
  ASSUME TypeOK, InHand, Quiet
  PROVE  TypeOK'
<1> USE DEF Goto, End
<1>1. UNCHANGED << streamVars, registered, pushed, responses >>
  BY QuietStep
<1>2. MainTypeOK /\ used' = used /\ event \in BOOLEAN /\ got \in Incoming
      /\ << >> \in Seq(1..used) /\ 0 \in 0..Len(Handlers) /\ MaxCalls \in Nat
      /\ 0 \in 0..MaxCalls
  <2>1. MainTypeOK /\ used' = used /\ event \in BOOLEAN /\ got \in Incoming
    BY <1>1 DEF TypeOK, StreamTypeOK, MessagesOK, streamVars, callVars
  <2>2. 0 \in 0..Len(Handlers) /\ MaxCalls \in Nat /\ 0 \in 0..MaxCalls
    BY HandlersAssumption, Bounds
  <2>3. QED  BY <2>1, <2>2
<1>3. MainTypeOK'
  <2>1. CASE WaitForReady
    BY <2>1, <1>2 DEF MainTypeOK, WaitForReady, sideVars
  <2>2. CASE SendCheck
    BY <2>2, <1>2 DEF MainTypeOK, SendCheck, ConnectionError, sideVars
  <2>3. CASE SendTest
    <3>1. CASE event
      BY <3>1, <2>3, <1>2 DEF MainTypeOK, SendTest, sideVars
    <3>2. CASE ~event
      BY <3>2, <2>3, <1>2, SentTypes DEF MainTypeOK, SendTest, Sent, Calling, sideVars
    <3>3. QED  BY <3>1, <3>2
  <2>4. CASE RegisterResult
    <3>0. waits # << >> /\ waits \in Seq(1..used)
      BY <2>4, <1>2 DEF InHand, RegisterResult, Answered, MainTypeOK
    <3>1. Tail(waits) \in Seq(1..used)
      BY <3>0
    <3>2. CASE Answer = "version"
      BY <3>2, <2>4, <1>2 DEF MainTypeOK, RegisterResult, Unregister, sideVars
    <3>3. CASE Answer = "error"
      BY <3>3, <2>4, <1>2 DEF MainTypeOK, RegisterResult, sideVars
    <3>4. CASE Answer # "version" /\ Answer # "error"
      BY <3>4, <3>1, <2>4, <1>2 DEF MainTypeOK, RegisterResult, sideVars
    <3>5. QED  BY <3>2, <3>3, <3>4
  <2>5. CASE CallResult
    BY <2>5, <1>2 DEF MainTypeOK, CallResult, Answered, Verdicts, sideVars
  <2>6. CASE CallTimesOut
    BY <2>6, <1>2 DEF MainTypeOK, CallTimesOut, sideVars
  <2>7. CASE UnregisterResult \/ UnregisterTimesOut
    BY <2>7, <1>2 DEF MainTypeOK, UnregisterResult, UnregisterTimesOut, Answered, sideVars
  <2>8. CASE Cancelled \/ AwaitTimesOut
    BY <2>8, <1>2 DEF MainTypeOK, Cancelled, AwaitTimesOut, sideVars
  <2>9. CASE RegisterAgain
    BY <2>9, <1>2 DEF MainTypeOK, RegisterAgain, sideVars
  <2>10. CASE Ping
    BY <2>10, <1>2 DEF MainTypeOK, Ping, Verdicts, sideVars
  <2>11. CASE Drop \/ Process
    BY <2>11, <1>2 DEF MainTypeOK, Drop, Process, sideVars
  <2>12. CASE ContextCall
    <3>0. calls \in 0..MaxCalls /\ calls < MaxCalls /\ calls' = calls + 1
      BY <2>12, <1>2 DEF MainTypeOK, ContextCall
    <3>1. calls' \in 0..MaxCalls
      BY <3>0, <1>2
    <3>2. QED  BY <3>1, <2>12, <1>2 DEF MainTypeOK, ContextCall, sideVars
  <2>13. CASE ApplyReturns \/ ApplyThrows
    BY <2>13, <1>2 DEF MainTypeOK, ApplyReturns, ApplyThrows, Verdicts, sideVars
  <2>14. CASE Respond
    BY <2>14, <1>2 DEF MainTypeOK, Respond, ConnectionError, sideVars
  <2>15. CASE BackTest
    BY <2>15, <1>2 DEF MainTypeOK, BackTest, sideVars
  <2>16. CASE Interrupt
    <3>1. got.id \in Pushes \cup {"reconnect"}
      BY <1>2 DEF Incoming, Reconnect
    <3>2. QED  BY <3>1, <2>16, <1>2 DEF MainTypeOK, Interrupt, Unregister
  <2>17. QED
    BY <2>1, <2>2, <2>3, <2>4, <2>5, <2>6, <2>7, <2>8, <2>9, <2>10, <2>11, <2>12, <2>13,
       <2>14, <2>15, <2>16 DEF Quiet
<1>4. QED
  BY <1>1, <1>3 DEF TypeOK, MessagesOK, StreamTypeOK, streamVars, loopVars, callVars,
     getVars, outVars

(* The futures can be counted.                                             *)
LEMMA FuturesCount ==
  ASSUME TypeOK
  PROVE  IsFiniteSet(futures) /\ Cardinality(futures) \in Nat
<1>1. futures \subseteq 1..used /\ used \in Nat
  BY Bounds DEF TypeOK, MessagesOK, MainTypeOK, StreamTypeOK
<1>2. IsFiniteSet(1..used)
  BY <1>1, FS_Interval
<1>3. IsFiniteSet(futures)
  BY <1>1, <1>2, FS_Subset
<1>4. QED  BY <1>3, FS_CardinalityType

(* The other steps keep the types of the stream's variables.               *)
LEMMA LoopTypes ==
  ASSUME TypeOK, OnceUnderway, Next, ~Quiet
  PROVE  StreamTypeOK'
<1> USE DEF streamVars, loopVars, callVars, getVars, outVars
<1>1. StreamTypeOK /\ used \in Nat /\ 0 \in Nat
  BY Bounds DEF TypeOK, MessagesOK, MainTypeOK
<1>2. CASE SendPut
  <2>1. used' \in 0..MaxSends /\ 1..used \subseteq 1..used' /\ used' \in 1..used'
    BY <1>2, Bounds DEF SendPut, PutFuture
  <2>2. QED  BY <2>1, <1>1, <1>2 DEF SendPut, PutFuture, StreamTypeOK
<1>3. CASE SendSchedule \/ BackSchedule \/ Receive
  BY <1>1, <1>3 DEF SendSchedule, BackSchedule, Schedule, Receive, ScheduleGet, StreamTypeOK
<1>4. CASE LoopSends \/ LoopGets
  BY <1>1, <1>4 DEF LoopSends, LoopGets, Transmit, GetMessage, StreamTypeOK
<1>5. CASE LoopRecovers
  <2>1. CASE SweepBegins
    BY <2>1, <1>1, FuturesCount DEF SweepBegins, StreamTypeOK
  <2>2. CASE SweepNext
    BY <2>2, <1>1 DEF SweepNext, StreamTypeOK, Results
  <2>3. CASE SweepFails
    BY <2>3, <1>1 DEF SweepFails, StreamTypeOK
  <2>4. CASE StopLoop
    BY <2>4, <1>1 DEF StopLoop, StreamTypeOK
  <2>5. CASE Restart
    BY <2>5, <1>1 DEF Restart, StreamTypeOK
  <2>6. QED  BY <1>5, <2>1, <2>2, <2>3, <2>4, <2>5 DEF LoopRecovers, Recovery
<1>6. CASE \E i \in Ids : ValidatorReplies(i)
  <2>1. PICK m \in atValidator : \E reply \in Replies(m[3]) : ReceiveReply(m, reply)
    BY <1>6 DEF ValidatorReplies
  <2>2. PICK reply \in Replies(m[3]) : ReceiveReply(m, reply)
    BY <2>1
  <2>3. reply \in Results /\ m[2] \in Ids /\ m[2] \in futures
    BY <2>2, MessageTypes DEF Replies, Results, OnceUnderway, TypeOK, MessagesOK, MainTypeOK
  <2>4. QED  BY <2>2, <2>3, <1>1 DEF ReceiveReply, StreamTypeOK
<1>7. CASE (\E p \in Pushes : ValidatorPushes(p)) \/ ValidatorDisconnects
  <2>1. CASE \E p \in Pushes : ValidatorPushes(p)
    BY <2>1, <1>1 DEF ValidatorPushes, ReceiveInitial, StreamTypeOK
  <2>2. CASE ValidatorDisconnects
    <3>1. disconnects \in 0..MaxDisconnects /\ disconnects < MaxDisconnects
          /\ disconnects' = disconnects + 1 /\ MaxDisconnects \in Nat
      BY <2>2, <1>1, PyBoundAssumption DEF ValidatorDisconnects, Disconnect, StreamTypeOK
    <3>2. disconnects' \in 0..MaxDisconnects
      BY <3>1
    <3>3. QED  BY <3>2, <2>2, <1>1 DEF ValidatorDisconnects, Disconnect, StreamTypeOK
  <2>3. QED  BY <1>7, <2>1, <2>2
<1>8. QED  BY <1>2, <1>3, <1>4, <1>5, <1>6, <1>7, Steps

(* They keep the types of the messages.                                    *)
LEMMA LoopMessages ==
  ASSUME TypeOK, InHand, OnceUnderway, Next, ~Quiet
  PROVE  MessagesOK'
<1> USE DEF streamVars, loopVars, callVars, getVars, outVars, sideVars
<1>1. MessagesOK
  BY DEF TypeOK, MessagesOK
<1>2. CASE SendPut
  BY <1>2, <1>1 DEF SendPut, PutFuture, MessagesOK
<1>3. CASE SendSchedule
  <2>1. call \in Ids /\ What \in Asked
    BY <1>3, WhatType, Bounds DEF SendSchedule, InHand, Calling, Sending, TypeOK,
       MessagesOK, MainTypeOK, StreamTypeOK
  <2>2. << "send", call, What >> \in Requests \cup Responses
    BY <2>1, MessageTypes
  <2>3. sending' \in Seq(Requests \cup Responses)
    BY <2>2, <1>3, <1>1 DEF SendSchedule, Schedule, MessagesOK
  <2>4. QED  BY <2>3, <1>3, <1>1 DEF SendSchedule, Schedule, Sent, MessagesOK
<1>4. CASE BackSchedule
  <2>0. got.id \in Pushes \cup {"reconnect"}
    BY <1>1 DEF MessagesOK, Incoming, Reconnect
  <2>1. got.id \in Pushes \cup {"reconnect"} /\ verdict \in Verdicts /\ failed \in BOOLEAN
    BY <2>0 DEF TypeOK, MessagesOK, MainTypeOK
  <2>2. << "back", got.id, verdict, failed >> \in Requests \cup Responses
    BY <2>1, MessageTypes
  <2>3. sending' \in Seq(Requests \cup Responses)
    BY <2>2, <1>4, <1>1 DEF BackSchedule, Schedule, MessagesOK
  <2>4. QED  BY <2>3, <1>4, <1>1 DEF BackSchedule, Schedule, MessagesOK
<1>5. CASE Receive
  BY <1>5, <1>1 DEF Receive, ScheduleGet, MessagesOK
<1>6. CASE LoopSends
  <2>1. Head(sending) \in Requests \cup Responses /\ Tail(sending) \in Seq(Requests \cup Responses)
    BY <1>6, <1>1 DEF LoopSends, Transmit, MessagesOK
  <2>2. /\ Head(sending)[1] = "send" => Head(sending) \in Requests
        /\ Head(sending)[1] = "back" => Head(sending) \in Responses
    BY <2>1, MessageTypes
  <2>3. responses' \in Seq(Responses) /\ atValidator' \subseteq Requests
    BY <2>2, <1>6, <1>1 DEF LoopSends, Transmit, MessagesOK
  <2>4. QED  BY <2>1, <2>3, <1>6, <1>1 DEF LoopSends, Transmit, MessagesOK
<1>7. CASE LoopGets
  <2>1. Head(recvQueue) \in Incoming /\ Tail(recvQueue) \in Seq(Incoming)
    BY <1>7, <1>1 DEF LoopGets, GetMessage, MessagesOK
  <2>2. QED  BY <2>1, <1>7, <1>1 DEF LoopGets, GetMessage, MessagesOK
<1>8. CASE LoopRecovers
  <2>1. CASE SweepBegins \/ SweepNext \/ SweepFails
    BY <2>1, <1>8, <1>1 DEF LoopRecovers, SweepBegins, SweepNext, SweepFails, MessagesOK
  <2>2. CASE StopLoop
    <3>1. PICK n \in 0..Len(sending) : sending' = SubSeq(sending, n + 1, Len(sending))
      BY <2>2 DEF StopLoop
    <3>2. sending' \in Seq(Requests \cup Responses)
      BY <3>1, <1>1 DEF MessagesOK
    <3>3. << >> \in Seq(Incoming)
      OBVIOUS
    <3>4. QED  BY <3>2, <3>3, <2>2, <1>8, <1>1 DEF LoopRecovers, StopLoop, MessagesOK
  <2>3. CASE Restart
    <3>1. << Reconnect >> \in Seq(Incoming)
      <4>1. Reconnect \in Incoming
        BY DEF Incoming
      <4>2. QED  BY <4>1
    <3>2. QED  BY <3>1, <2>3, <1>8, <1>1 DEF LoopRecovers, Restart, MessagesOK
  <2>4. QED  BY <1>8, <2>1, <2>2, <2>3 DEF LoopRecovers, Recovery
<1>9. CASE \E i \in Ids : ValidatorReplies(i)
  <2>0. PICK m \in atValidator :
          /\ \E reply \in Replies(m[3]) :
               /\ ReceiveReply(m, reply)
               /\ registered' = IF m[3] = "unregister" THEN {}
                                ELSE IF m[3] \in Families /\ reply # "error"
                                     THEN registered \cup {m[3]} ELSE registered
          /\ UNCHANGED << mainVars, pushed, responses, redone >>
    BY <1>9 DEF ValidatorReplies
  <2>1. PICK reply \in Replies(m[3]) :
          /\ ReceiveReply(m, reply)
          /\ registered' = IF m[3] = "unregister" THEN {}
                           ELSE IF m[3] \in Families /\ reply # "error"
                                THEN registered \cup {m[3]} ELSE registered
    BY <2>0
  <2>2. m[2] \in futures
    BY <2>1 DEF OnceUnderway
  <2>3. registered' \subseteq Families
    BY <2>1, <1>1 DEF MessagesOK
  <2>4. QED  BY <2>0, <2>1, <2>2, <2>3, <1>1 DEF ReceiveReply, MessagesOK
<1>10. CASE \E p \in Pushes : ValidatorPushes(p)
  <2>1. PICK p \in Pushes, k \in registered \cup {"ping", "other"} :
          /\ pushed' = pushed \cup {[id |-> p, kind |-> k]}
          /\ ReceiveInitial([id |-> p, kind |-> k])
          /\ UNCHANGED << mainVars, registered, responses, redone >>
    BY <1>10 DEF ValidatorPushes
  <2>2. [id |-> p, kind |-> k] \in Incoming \ {Reconnect}
    <3>1. [id |-> p, kind |-> k] \in Incoming
      BY <1>1 DEF Incoming, MessagesOK
    <3>2. [id |-> p, kind |-> k].id # "reconnect" /\ Reconnect.id = "reconnect"
      BY PushesAssumption DEF Reconnect
    <3>3. QED  BY <3>1, <3>2
  <2>3. recvQueue' \in Seq(Incoming)
    BY <2>1, <2>2, <1>1 DEF ReceiveInitial, MessagesOK
  <2>4. QED  BY <2>1, <2>2, <2>3, <1>1 DEF ReceiveInitial, MessagesOK
<1>11. CASE ValidatorDisconnects
  BY <1>11, <1>1 DEF ValidatorDisconnects, Disconnect, MessagesOK
<1>12. QED
  BY <1>2, <1>3, <1>4, <1>5, <1>6, <1>7, <1>8, <1>9, <1>10, <1>11, Steps

(* The main thread's variables, when the step is not quiet.                *)
LEMMA LoopMain ==
  ASSUME TypeOK, InHand, Next, ~Quiet
  PROVE  MainTypeOK'
<1> USE DEF Goto
<1>1. MainTypeOK /\ used \in Nat
  BY Bounds DEF TypeOK, MainTypeOK
<1>2. CASE SendPut
  <2>1. used' = used + 1 /\ call' = used'
    BY <1>2 DEF SendPut, PutFuture
  <2>2. waits \in Seq(1..used') /\ call' \in 0..used'
    <3>1. 1..used \subseteq 1..used'
      BY <2>1, <1>1
    <3>2. waits \in Seq(1..used)
      BY <1>1 DEF MainTypeOK
    <3>3. waits \in Seq(1..used')
      BY <3>1, <3>2, SeqMonotonic
    <3>4. QED  BY <2>1, <3>3, <1>1
  <2>3. QED  BY <2>2, <1>1, <1>2 DEF SendPut, MainTypeOK, sideVars
<1>3. CASE SendSchedule
  <2>1. used' = used
    BY <1>3 DEF SendSchedule, Schedule, callVars
  <2>2. QED  BY <2>1, <1>1, <1>3, SentTypes DEF SendSchedule, Sent, Calling, MainTypeOK,
     sideVars
<1>4. CASE BackSchedule \/ Receive
  BY <1>1, <1>4 DEF BackSchedule, Schedule, Receive, ScheduleGet, MainTypeOK, sideVars,
     callVars
<1>5. CASE /\ used' = used
           /\ UNCHANGED << mainVars, redone >>
  BY <1>1, <1>5 DEF MainTypeOK, mainVars
<1>6. CASE LoopSends \/ LoopGets \/ LoopRecovers
  BY <1>5, <1>6 DEF LoopSends, LoopGets, LoopRecovers, Transmit, GetMessage, Recovery,
     SweepBegins, SweepNext, SweepFails, StopLoop, Restart, callVars, sideVars
<1>7. CASE \/ \E i \in Ids : ValidatorReplies(i)
           \/ \E p \in Pushes : ValidatorPushes(p)
           \/ ValidatorDisconnects
  BY <1>5, <1>7 DEF ValidatorReplies, ValidatorPushes, ValidatorDisconnects, ReceiveReply,
     ReceiveInitial, Disconnect, callVars, sideVars
<1>8. QED  BY <1>2, <1>3, <1>4, <1>6, <1>7, Steps

(* Every step keeps the types.                                             *)
LEMMA TypesKept ==
  ASSUME TypeOK, InHand, OnceUnderway, [Next]_vars
  PROVE  TypeOK'
<1>1. CASE Quiet
  BY <1>1, QuietTypes
<1>2. CASE Next /\ ~Quiet
  BY <1>2, LoopTypes, LoopMessages, LoopMain DEF TypeOK
<1>3. CASE UNCHANGED vars
  <2>1. StreamTypeOK'
    BY <1>3 DEF vars, streamVars, loopVars, callVars, getVars, TypeOK, StreamTypeOK
  <2>2. QED
    BY <2>1, <1>3 DEF vars, streamVars, loopVars, callVars, getVars, outVars, mainVars,
       sideVars, TypeOK, MessagesOK, MainTypeOK
<1>4. QED  BY <1>1, <1>2, <1>3

-----------------------------------------------------------------------------
(* The futures.                                                            *)

(* The sweep's next future is one it has before it: a set of numbers that  *)
(* is not empty has a least one.                                           *)
LEMMA MinIn ==
  ASSUME NEW S \in SUBSET Nat, S # {}
  PROVE  Min(S) \in S
BY LeastIn DEF Min

(* An open future stays in the dictionary; during a sweep it is still to   *)
(* be swept, or stray.                                                     *)
LEMMA FuturesKeptStep ==
  ASSUME TypeOK, FuturesKept, OnceUnderway, [Next]_vars
  PROVE  FuturesKept'
<1> USE DEF streamVars, loopVars, callVars, getVars, outVars, Open
<1>1. /\ used \in Nat /\ 1..used \subseteq Ids /\ Ids \subseteq Nat
      /\ futures \subseteq 1..used /\ unswept \subseteq 1..used
      /\ result \in [Ids -> Results] /\ event \in BOOLEAN
  <2>1. StreamTypeOK
    BY DEF TypeOK
  <2>. Ids \subseteq Nat
    BY PyBoundAssumption DEF Ids
  <2>2. QED  BY <2>1, Bounds DEF StreamTypeOK
<1>2. CASE Quiet \/ UNCHANGED vars
  BY <1>2, QuietStep DEF FuturesKept, vars
<1>3. CASE SendPut
  <2>1. /\ used' = used + 1 /\ futures' = futures \cup {used'} /\ result' = result
        /\ UNCHANGED << event, loop, unswept, size >>
        /\ stray' = IF loop \in {"sweep", "stopped", "orphan"} THEN stray \cup {used'} ELSE stray
    BY <1>3 DEF SendPut, PutFuture
  <2>2. \A i \in Ids : Open(i)' => Open(i) \/ i = used'
    BY <2>1, <1>1
  <2>3. \A i \in Ids : i > used' => i > used
    BY <2>1, <1>1
  <2>4. QED  BY <2>1, <2>2, <2>3 DEF FuturesKept
<1>4. CASE SendSchedule \/ BackSchedule \/ Receive \/ LoopSends \/ LoopGets
  BY <1>4 DEF SendSchedule, BackSchedule, Schedule, Receive, ScheduleGet, LoopSends, Transmit,
     LoopGets, GetMessage, FuturesKept
<1>5. CASE LoopRecovers
  <2>1. CASE SweepBegins
    BY <2>1, <1>1 DEF SweepBegins, FuturesKept
  <2>2. CASE SweepNext
    <3>1. Min(unswept) \in unswept /\ Min(unswept) \in Ids
      BY <2>2, <1>1, MinIn DEF SweepNext
    <3>2. \A i \in Ids : result'[i] = IF i = Min(unswept) THEN "lost" ELSE result[i]
      BY <2>2, <3>1, <1>1 DEF SweepNext
    <3>3. \A i \in Ids : i > used => i # Min(unswept)
      BY <3>1, <1>1
    <3>4. \A i \in Ids : Open(i)' => Open(i) /\ i # Min(unswept)
      BY <3>2, <2>2 DEF SweepNext
    <3>5. /\ UNCHANGED << event, loop, futures, stray, used, size >>
          /\ loop = "sweep" /\ unswept' = unswept \ {Min(unswept)}
      BY <2>2 DEF SweepNext
    <3>6. \A i \in Ids : i > used' => result'[i] = "none"
      BY <3>2, <3>3, <3>5 DEF FuturesKept
    <3>7. QED  BY <3>4, <3>5, <3>6 DEF FuturesKept
  <2>3. CASE SweepFails
    BY <2>3 DEF SweepFails, Resized, FuturesKept
  <2>4. CASE StopLoop
    BY <2>4 DEF StopLoop, FuturesKept
  <2>5. CASE Restart
    BY <2>5 DEF Restart, FuturesKept
  <2>6. QED  BY <1>5, <2>1, <2>2, <2>3, <2>4, <2>5 DEF LoopRecovers, Recovery
<1>6. CASE \E i \in Ids : ValidatorReplies(i)
  <2>1. PICK m \in atValidator : \E reply \in Replies(m[3]) : ReceiveReply(m, reply)
    BY <1>6 DEF ValidatorReplies
  <2>2. PICK reply \in Replies(m[3]) : ReceiveReply(m, reply)
    BY <2>1
  <2>3. m[2] \in futures /\ m[2] \in Ids /\ reply # "none"
    BY <1>1 DEF OnceUnderway, Replies
  <2>4. /\ UNCHANGED << event, loop, stray, used, size, unswept >>
        /\ loop = "serve" /\ futures' = futures \ {m[2]}
        /\ result' = [result EXCEPT ![m[2]] = reply]
    BY <2>2, <2>3 DEF ReceiveReply
  <2>5. \A i \in Ids : i > used => i # m[2]
    BY <2>3, <1>1
  <2>6. \A i \in Ids : result'[i] = IF i = m[2] THEN reply ELSE result[i]
    BY <2>3, <2>4, <1>1
  <2>7. \A i \in Ids : Open(i)' => Open(i) /\ i # m[2]
    BY <2>3, <2>4, <2>6
  <2>8. QED  BY <2>4, <2>5, <2>6, <2>7 DEF FuturesKept
<1>7. CASE (\E p \in Pushes : ValidatorPushes(p)) \/ ValidatorDisconnects
  BY <1>7 DEF ValidatorPushes, ReceiveInitial, ValidatorDisconnects, Disconnect, FuturesKept
<1>8. QED
  BY <1>2, <1>3, <1>4, <1>5, <1>6, <1>7, Steps

-----------------------------------------------------------------------------
(* A request is in one place on its way out.                               *)

(* A request is in one place on its way out, and has a future.             *)
LEMMA OnceUnderwayStep ==
  ASSUME TypeOK, InHand, OnceUnderway, [Next]_vars
  PROVE  OnceUnderway'
<1> USE DEF streamVars, loopVars, callVars, getVars, outVars, IsSend
<1>1. sending \in Seq(Requests \cup Responses) /\ atValidator \subseteq Requests
  BY DEF TypeOK, MessagesOK
<1>2. CASE UNCHANGED << sending, atValidator, futures >>
  BY <1>2 DEF OnceUnderway
<1>3. CASE SendPut
  BY <1>3 DEF SendPut, PutFuture, OnceUnderway
<1>4. CASE SendSchedule
  <2> DEFINE e == << "send", call, What >>
  <2>1. e \in Requests \cup Responses /\ e[1] = "send" /\ e[2] = call
    <3>1. call \in Ids /\ What \in Asked
      BY <1>4, WhatType, Bounds DEF SendSchedule, InHand, Calling, Sending, TypeOK,
         MessagesOK, MainTypeOK, StreamTypeOK
    <3>2. QED  BY <3>1, MessageTypes
  <2>2. sending' = Append(sending, e) /\ UNCHANGED << futures, atValidator >>
    BY <1>4 DEF SendSchedule, Schedule
  <2>3. call \in futures /\ Unsent(call)
    BY <1>4 DEF SendSchedule, InHand, Calling
  <2> HIDE DEF e
  <2>4. /\ \A n \in DOMAIN sending' : n \in DOMAIN sending \/ n = Len(sending) + 1
        /\ \A n \in DOMAIN sending : sending'[n] = sending[n] /\ n # Len(sending) + 1
        /\ sending'[Len(sending) + 1] = e
    BY <2>1, <2>2, <1>1, AppendIndex
  <2>5. QED  BY <2>1, <2>2, <2>3, <2>4 DEF OnceUnderway, Unsent
<1>5. CASE BackSchedule
  <2> DEFINE e == << "back", got.id, verdict, failed >>
  <2>1. e[1] = "back" /\ sending' = Append(sending, e) /\ UNCHANGED << futures, atValidator >>
    BY <1>5 DEF BackSchedule, Schedule
  <2> HIDE DEF e
  <2>2. /\ \A n \in DOMAIN sending' : n \in DOMAIN sending \/ n = Len(sending) + 1
        /\ \A n \in DOMAIN sending : sending'[n] = sending[n] /\ n # Len(sending) + 1
        /\ sending'[Len(sending) + 1] = e
    <3>1. sending \in Seq(Requests \cup Responses \cup {e})
          /\ e \in Requests \cup Responses \cup {e}
      BY <1>1, SeqMonotonic
    <3>2. QED  BY <2>1, <3>1, AppendIndex
  <2>3. QED  BY <2>1, <2>2 DEF OnceUnderway
<1>6. CASE LoopSends
  <2>1. /\ sending # << >> /\ sending' = Tail(sending) /\ futures' = futures
        /\ atValidator' = IF Head(sending)[1] = "send"
                          THEN atValidator \cup {Head(sending)} ELSE atValidator
    BY <1>6 DEF LoopSends, Transmit
  <2>2. /\ 1 \in DOMAIN sending /\ Head(sending) = sending[1]
        /\ \A n \in DOMAIN sending' :
             n + 1 \in DOMAIN sending /\ sending'[n] = sending[n + 1] /\ n \in Nat \ {0}
    BY <2>1, <1>1, TailIndex
  <2>3. \A n, k \in Nat \ {0} : n + 1 # 1 /\ (n + 1 = k + 1 => n = k)
    OBVIOUS
  <2>4. /\ \A n \in DOMAIN sending' : IsSend(n)' => sending'[n][2] \in futures'
        /\ \A k, n \in DOMAIN sending' :
             IsSend(k)' /\ IsSend(n)' /\ sending'[k][2] = sending'[n][2] => k = n
        /\ \A n \in DOMAIN sending' :
             IsSend(n)' /\ Head(sending)[1] = "send" => Head(sending)[2] # sending'[n][2]
        /\ \A m \in atValidator, n \in DOMAIN sending' : IsSend(n)' => m[2] # sending'[n][2]
    BY <2>1, <2>2, <2>3 DEF OnceUnderway
  <2>5. Head(sending)[1] = "send" => /\ Head(sending)[2] \in futures
                                     /\ \A m \in atValidator : m[2] # Head(sending)[2]
    BY <2>2 DEF OnceUnderway
  <2>6. QED  BY <2>1, <2>4, <2>5 DEF OnceUnderway
<1>7. CASE LoopRecovers
  <2>1. CASE StopLoop
    <3>1. PICK k \in 0..Len(sending) : sending' = SubSeq(sending, k + 1, Len(sending))
      BY <2>1 DEF StopLoop
    <3>2. UNCHANGED << futures, atValidator >>
      BY <2>1 DEF StopLoop
    <3>3. \A n \in DOMAIN sending' :
            n + k \in DOMAIN sending /\ sending'[n] = sending[n + k] /\ n \in Nat
      BY <3>1, <1>1, SuffixIndex
    <3>4. \A n, o \in Nat : n + k = o + k => n = o
      BY <1>1
    <3>5. QED  BY <3>2, <3>3, <3>4 DEF OnceUnderway
  <2>2. CASE ~StopLoop
    BY <2>2, <1>2, <1>7 DEF LoopRecovers, Recovery, SweepBegins, SweepNext, SweepFails, Restart
  <2>3. QED  BY <2>1, <2>2
<1>8. CASE \E i \in Ids : ValidatorReplies(i)
  <2>1. PICK m \in atValidator : \E reply \in Replies(m[3]) : ReceiveReply(m, reply)
    BY <1>8 DEF ValidatorReplies
  <2>2. atValidator' = atValidator \ {m} /\ futures' = futures \ {m[2]} /\ sending' = sending
    BY <2>1 DEF ReceiveReply, OnceUnderway
  <2>3. QED  BY <2>2 DEF OnceUnderway
<1>9. CASE ValidatorDisconnects
  <2>1. atValidator' \subseteq atValidator /\ UNCHANGED << sending, futures >>
    BY <1>9 DEF ValidatorDisconnects, Disconnect
  <2>2. QED  BY <2>1 DEF OnceUnderway
<1>10. CASE \/ Quiet \/ UNCHANGED vars \/ Receive \/ LoopGets
            \/ \E p \in Pushes : ValidatorPushes(p)
  BY <1>2, <1>10, QuietStep DEF vars, Receive, ScheduleGet, LoopGets, GetMessage,
     ValidatorPushes, ReceiveInitial
<1>11. QED
  BY <1>3, <1>4, <1>5, <1>6, <1>7, <1>8, <1>9, <1>10, Steps

-----------------------------------------------------------------------------
(* What the main thread has in hand.                                       *)

(* The loop and the validator carry requests, and make none.               *)
LEMMA Carried ==
  ASSUME TypeOK,
         LoopSends \/ LoopGets \/ LoopRecovers \/ ValidatorDisconnects
         \/ (\E j \in Ids : ValidatorReplies(j)) \/ (\E p \in Pushes : ValidatorPushes(p))
  PROVE  /\ \A n \in DOMAIN sending' : \E k \in DOMAIN sending : sending'[n] = sending[k]
         /\ \A m \in atValidator' :
              m \in atValidator \/ \E k \in DOMAIN sending : IsSend(k) /\ m = sending[k]
<1> USE DEF IsSend
<1>1. sending \in Seq(Requests \cup Responses)
  BY DEF TypeOK, MessagesOK
<1>2. CASE UNCHANGED sending /\ atValidator' \subseteq atValidator
  BY <1>2
<1>3. CASE LoopSends
  <2>1. /\ sending # << >> /\ sending' = Tail(sending)
        /\ atValidator' = IF Head(sending)[1] = "send"
                          THEN atValidator \cup {Head(sending)} ELSE atValidator
    BY <1>3 DEF LoopSends, Transmit
  <2>2. /\ 1 \in DOMAIN sending /\ Head(sending) = sending[1]
        /\ \A n \in DOMAIN sending' : n + 1 \in DOMAIN sending /\ sending'[n] = sending[n + 1]
    BY <2>1, <1>1, TailIndex
  <2>3. QED  BY <2>1, <2>2
<1>4. CASE LoopRecovers
  <2>1. CASE StopLoop
    <3>1. PICK k \in 0..Len(sending) : sending' = SubSeq(sending, k + 1, Len(sending))
      BY <2>1 DEF StopLoop
    <3>2. UNCHANGED atValidator
      BY <2>1 DEF StopLoop
    <3>3. \A n \in DOMAIN sending' : n + k \in DOMAIN sending /\ sending'[n] = sending[n + k]
      BY <3>1, <1>1, SuffixIndex
    <3>4. QED  BY <3>2, <3>3
  <2>2. CASE ~StopLoop
    BY <2>2, <1>2, <1>4 DEF LoopRecovers, Recovery, SweepBegins, SweepNext, SweepFails,
       Restart,
       outVars
  <2>3. QED  BY <2>1, <2>2
<1>5. CASE \E j \in Ids : ValidatorReplies(j)
  <2>1. PICK m \in atValidator : \E reply \in Replies(m[3]) : ReceiveReply(m, reply)
    BY <1>5 DEF ValidatorReplies
  <2>2. QED  BY <2>1, <1>2 DEF ReceiveReply
<1>6. CASE LoopGets \/ (\E p \in Pushes : ValidatorPushes(p)) \/ ValidatorDisconnects
  BY <1>2, <1>6 DEF LoopGets, GetMessage, ValidatorPushes, ReceiveInitial,
     ValidatorDisconnects,
     Disconnect, outVars
<1>7. QED  BY <1>3, <1>4, <1>5, <1>6

(* What the main thread has in hand agrees with where it is; a quiet step  *)
(* keeps that.                                                             *)
LEMMA InHandQuiet ==
  ASSUME TypeOK, InHand, Quiet
  PROVE  InHand'
<1> USE DEF Goto, End, Sending, Calling
<1>1. UNCHANGED << sending, atValidator, getter, futures, result, got >>
      /\ Len(Handlers) \in Nat \ {0}
  BY QuietStep, Bounds DEF streamVars, getVars, outVars, callVars
<1>2. /\ pc' \in {"test", "schedule"} => Calling /\ call' = call
      /\ Unsent(call) /\ call' = call => Unsent(call)'
  BY <1>1 DEF Quiet, WaitForReady, SendCheck, SendTest, RegisterResult, CallResult,
     CallTimesOut,
     UnregisterResult, UnregisterTimesOut, Cancelled, AwaitTimesOut, RegisterAgain, Ping,
     Drop, Process, ContextCall, ApplyReturns, ApplyThrows, Respond, BackTest, Interrupt,
     Sent, ConnectionError, Unregister, Unsent, IsSend
<1>3. Calling' => call' \in futures' /\ Unsent(call)' /\ result'[call'] \in {"none", "lost"}
  BY <1>1, <1>2 DEF InHand
<1>4. CASE WaitForReady \/ SendCheck
  BY <1>1, <1>3, <1>4 DEF InHand, WaitForReady, SendCheck, ConnectionError, sideVars
<1>5. CASE SendTest
  <2>1. CASE event
    BY <2>1, <1>1, <1>3, <1>5 DEF InHand, SendTest, sideVars
  <2>2. CASE ~event
    <3>1. Sent /\ pc = "test"
      BY <2>2, <1>5 DEF SendTest
    <3>2. waits' # << >>
      BY <3>1, SentTypes
    <3>3. QED  BY <3>1, <3>2, <1>1, <1>3 DEF InHand, Sent, sideVars
  <2>3. QED  BY <2>1, <2>2
<1>6. CASE RegisterResult
  BY <1>1, <1>3, <1>6 DEF InHand, RegisterResult, Answered, Unregister, sideVars
<1>7. CASE CallResult \/ CallTimesOut \/ UnregisterResult \/ UnregisterTimesOut
  BY <1>1, <1>3, <1>7 DEF InHand, CallResult, CallTimesOut, UnregisterResult,
     UnregisterTimesOut, Answered, sideVars
<1>8. CASE Cancelled \/ AwaitTimesOut \/ RegisterAgain
  BY <1>1, <1>3, <1>8 DEF InHand, Cancelled, AwaitTimesOut, RegisterAgain, sideVars
<1>9. CASE Ping \/ Drop \/ Process \/ ContextCall
  BY <1>1, <1>3, <1>9 DEF InHand, Ping, Drop, Process, ContextCall, sideVars
<1>10. CASE ApplyReturns \/ ApplyThrows \/ Respond \/ BackTest
  BY <1>1, <1>3, <1>10 DEF InHand, ApplyReturns, ApplyThrows, Respond, BackTest,
     ConnectionError, sideVars
<1>11. CASE Interrupt
  BY <1>1, <1>3, <1>11 DEF InHand, Interrupt, Unregister
<1>12. QED  BY <1>4, <1>5, <1>6, <1>7, <1>8, <1>9, <1>10, <1>11 DEF Quiet

(* So does every other step.                                               *)
LEMMA InHandStep ==
  ASSUME TypeOK, FuturesKept, OnceUnderway, InHand, [Next]_vars
  PROVE  InHand'
<1> USE DEF streamVars, loopVars, callVars, getVars, outVars, sideVars, Goto, Sending, Calling
<1>1. CASE Quiet
  BY <1>1, InHandQuiet
<1>2. CASE UNCHANGED vars
  BY <1>2 DEF vars, mainVars, InHand, Unsent, IsSend
<1>3. CASE SendPut
  <2>1. /\ used' = used + 1 /\ call' = used' /\ futures' = futures \cup {used'} /\ used < MaxSends
        /\ UNCHANGED << result, sending, atValidator, getter >>
    BY <1>3 DEF SendPut, PutFuture
  <2>2. futures \subseteq 1..used /\ used \in Nat /\ used' \in Ids /\ used' > used
    <3>1. futures \subseteq 1..used /\ used \in Nat /\ MaxSends \in Nat
      BY Bounds DEF TypeOK, MessagesOK, MainTypeOK, StreamTypeOK
    <3>2. QED  BY <2>1, <3>1 DEF Ids
  <2>3. Unsent(call)'
    BY <2>1, <2>2 DEF OnceUnderway, Unsent, IsSend
  <2>4. result'[call'] = "none"
    BY <2>1, <2>2 DEF FuturesKept
  <2>5. QED  BY <2>1, <2>3, <2>4, <1>3 DEF SendPut, InHand
<1>4. CASE SendSchedule
  <2>1. Sent /\ pc = "schedule" /\ getter' = getter
    BY <1>4 DEF SendSchedule, Schedule
  <2>2. waits' # << >>
    BY <2>1, SentTypes
  <2>3. QED  BY <2>1, <2>2 DEF InHand, Sent
<1>5. CASE BackSchedule \/ Receive
  BY <1>5 DEF BackSchedule, Receive, InHand
<1>6. CASE \/ LoopSends \/ LoopGets \/ LoopRecovers \/ ValidatorDisconnects
           \/ (\E j \in Ids : ValidatorReplies(j)) \/ (\E p \in Pushes : ValidatorPushes(p))
  <2>1. UNCHANGED << mainVars, redone >> /\ (getter = "done" => getter' = "done")
    BY <1>6 DEF LoopSends, Transmit, LoopGets, GetMessage, LoopRecovers, Recovery, SweepBegins,
       SweepNext, SweepFails, StopLoop, Restart, ValidatorDisconnects, Disconnect,
       ValidatorReplies, ReceiveReply, ValidatorPushes, ReceiveInitial
  <2>2. ASSUME Calling
        PROVE  call \in futures' /\ Unsent(call)' /\ result'[call] \in {"none", "lost"}
    <3>1. call \in futures /\ Unsent(call) /\ result[call] \in {"none", "lost"} /\ call \in Ids
          /\ result \in [Ids -> Results]
      BY <2>2, Bounds DEF InHand, TypeOK, MessagesOK, MainTypeOK, StreamTypeOK
    <3>2. Unsent(call)'
      <4>1. call' = call
        BY <2>1 DEF mainVars
      <4>2. QED  BY <4>1, <3>1, <1>6, Carried DEF Unsent, IsSend
    <3>3. CASE \E j \in Ids : ValidatorReplies(j)
      <4>1. PICK m \in atValidator : \E reply \in Replies(m[3]) : ReceiveReply(m, reply)
        BY <3>3 DEF ValidatorReplies
      <4>2. m[2] # call /\ m[2] \in futures
        BY <3>1 DEF Unsent, OnceUnderway
      <4>3. QED  BY <4>1, <4>2, <3>1, <3>2 DEF ReceiveReply
    <3>4. CASE LoopRecovers
      BY <3>1, <3>2, <3>4 DEF LoopRecovers, Recovery, SweepBegins, SweepNext, SweepFails,
         StopLoop,
         Restart
    <3>5. CASE \/ LoopSends \/ LoopGets \/ ValidatorDisconnects
               \/ (\E p \in Pushes : ValidatorPushes(p))
      BY <3>1, <3>2, <3>5 DEF LoopSends, Transmit, LoopGets, GetMessage, ValidatorDisconnects,
         Disconnect, ValidatorPushes, ReceiveInitial
    <3>6. QED  BY <1>6, <3>3, <3>4, <3>5
  <2>3. QED  BY <2>1, <2>2 DEF InHand, mainVars
<1>7. QED  BY <1>1, <1>2, <1>3, <1>4, <1>5, <1>6, Steps

-----------------------------------------------------------------------------
(* What the main thread waits for.                                         *)

(* While the loop serves, an awaited open future is stray, or its request  *)
(* is underway.                                                            *)
LEMMA ServedStep ==
  ASSUME TypeOK, FuturesKept, OnceUnderway, InHand, Served, [Next]_vars
  PROVE  Served'
<1> USE DEF Goto
<1>1. /\ waits \in Seq(1..used) /\ sending \in Seq(Requests \cup Responses)
      /\ used \in Nat /\ event \in BOOLEAN /\ result \in [Ids -> Results]
  BY Bounds DEF TypeOK, MessagesOK, MainTypeOK, StreamTypeOK
<1>2. SUFFICES ASSUME loop' = "serve", NEW n \in DOMAIN waits', Open(waits[n])'
               PROVE  waits'[n] \in stray' \/ Underway(waits[n])'
  BY DEF Served
<1>3. CASE UNCHANGED << loop, stray, result, used, sending, atValidator >>
           /\ \E k \in DOMAIN waits : waits'[n] = waits[k]
  BY <1>2, <1>3 DEF Served, Open, Underway
<1>4. CASE UNCHANGED << loop, event, stray, result, used, sending, atValidator >> /\ Quiet
  <2>1. event
    BY <1>2, <1>4 DEF FuturesKept
  <2>2. CASE UNCHANGED waits
    BY <2>2, <1>2, <1>3, <1>4
  <2>3. CASE waits' = << >>
    BY <2>3, <1>2
  <2>4. CASE RegisterResult /\ waits' = Tail(waits)
    <3>1. waits # << >>
      BY <2>4 DEF RegisterResult, Answered, InHand
    <3>2. n + 1 \in DOMAIN waits /\ waits'[n] = waits[n + 1]
      BY <3>1, <2>4, <1>1, <1>2, TailIndex
    <3>3. QED  BY <3>2, <1>3, <1>4
  <2>5. waits' = waits \/ waits' = << >> \/ (RegisterResult /\ waits' = Tail(waits))
    BY <2>1, <1>4 DEF Quiet, WaitForReady, SendCheck, SendTest, RegisterResult, CallResult,
       CallTimesOut, UnregisterResult, UnregisterTimesOut, Cancelled, AwaitTimesOut,
       RegisterAgain, Ping, Drop, Process, ContextCall, ApplyReturns, ApplyThrows, Respond,
       BackTest, Interrupt, Unregister
  <2>6. QED  BY <2>2, <2>3, <2>4, <2>5
<1>5. CASE Quiet
  BY <1>5, <1>4, QuietStep DEF streamVars, loopVars, callVars, outVars
<1>6. CASE UNCHANGED << vars >> \/ Receive \/ LoopGets \/ \E p \in Pushes : ValidatorPushes(p)
  BY <1>2, <1>3, <1>6 DEF vars, streamVars, loopVars, callVars, outVars, mainVars, Receive,
     ScheduleGet, LoopGets, GetMessage, ValidatorPushes, ReceiveInitial
<1>7. CASE SendPut
  <2>1. /\ waits' = waits /\ stray \subseteq stray' /\ used' = used + 1
        /\ UNCHANGED << loop, result, sending, atValidator >>
    BY <1>7 DEF SendPut, PutFuture, loopVars, outVars
  <2>2. waits[n] \in 1..used
    BY <2>1, <1>1, <1>2
  <2>3. QED  BY <2>1, <2>2, <1>2 DEF Served, Open, Underway
<1>8. CASE SendSchedule
  <2> DEFINE e == << "send", call, What >>
  <2>1. call \in 1..used /\ What \in Asked /\ call \in Ids
    BY <1>8, WhatType, Bounds DEF SendSchedule, InHand, Calling, Sending, TypeOK,
       MessagesOK, MainTypeOK, StreamTypeOK
  <2>2. e \in Requests \cup Responses /\ e[1] = "send" /\ e[2] = call
    BY <2>1, MessageTypes
  <2>3. /\ sending' = Append(sending, e) /\ waits' = Append(waits, call)
        /\ UNCHANGED << loop, stray, result, used, atValidator, call >>
    BY <1>8 DEF SendSchedule, Schedule, Sent, loopVars, callVars
  <2> HIDE DEF e
  <2>4. /\ DOMAIN sending \subseteq DOMAIN sending' /\ Len(sending) + 1 \in DOMAIN sending'
        /\ \A k \in DOMAIN sending : sending'[k] = sending[k]
        /\ sending'[Len(sending) + 1] = e
    BY <2>2, <2>3, <1>1, AppendIndex
  <2>5. Underway(call)'
    BY <2>2, <2>3, <2>4 DEF Underway
  <2>6. \A i \in Ids : Underway(i) => Underway(i)'
    BY <2>3, <2>4 DEF Underway
  <2>7. (n \in DOMAIN waits /\ waits'[n] = waits[n]) \/ waits'[n] = call
    BY <2>1, <2>3, <1>1, <1>2, AppendIndex
  <2>8. QED  BY <2>3, <2>5, <2>6, <2>7, <1>1, <1>2, Bounds DEF Served, Open
<1>9. CASE BackSchedule
  <2> DEFINE e == << "back", got.id, verdict, failed >>
  <2>1. sending' = Append(sending, e)
        /\ UNCHANGED << loop, stray, result, used, atValidator, waits >>
    BY <1>9 DEF BackSchedule, Schedule, loopVars, callVars
  <2> HIDE DEF e
  <2>2. DOMAIN sending \subseteq DOMAIN sending'
        /\ \A k \in DOMAIN sending : sending'[k] = sending[k]
    <3>1. sending \in Seq(Requests \cup Responses \cup {e})
          /\ e \in Requests \cup Responses \cup {e}
      BY <1>1, SeqMonotonic
    <3>2. QED  BY <2>1, <3>1, AppendIndex
  <2>3. QED  BY <2>1, <2>2, <1>2 DEF Served, Open, Underway
<1>10. CASE LoopSends
  <2>1. /\ sending # << >> /\ sending' = Tail(sending)
        /\ atValidator' = IF Head(sending)[1] = "send"
                          THEN atValidator \cup {Head(sending)} ELSE atValidator
        /\ UNCHANGED << loop, stray, result, used, waits >>
    BY <1>10 DEF LoopSends, Transmit, loopVars, callVars, mainVars
  <2>2. /\ Head(sending) = sending[1]
        /\ \A k \in DOMAIN sending :
             k = 1 \/ (k - 1 \in DOMAIN sending' /\ sending'[k - 1] = sending[k])
    BY <2>1, <1>1, TailIndex
  <2>3. \A i \in Ids : Underway(i) => Underway(i)'
    BY <2>1, <2>2 DEF Underway
  <2>4. waits[n] \in Ids
    BY <2>1, <1>1, <1>2, Bounds
  <2>5. QED  BY <2>1, <2>3, <2>4, <1>2 DEF Served, Open
<1>11. CASE LoopRecovers
  <2>1. CASE Restart
    <3>1. UNCHANGED << stray, result, used, waits >> /\ loop = "stopped" /\ waits'[n] \in Ids
      BY <2>1, <1>1, <1>2, <1>11, Bounds DEF LoopRecovers, Restart, callVars, mainVars
    <3>2. QED  BY <3>1, <1>2 DEF FuturesKept, Open
  <2>2. CASE ~Restart
    BY <2>2, <1>2, <1>11 DEF LoopRecovers, Recovery, SweepBegins, SweepNext, SweepFails,
       StopLoop
  <2>3. QED  BY <2>1, <2>2
<1>12. CASE \E i \in Ids : ValidatorReplies(i)
  <2>1. PICK m \in atValidator : /\ \E reply \in Replies(m[3]) : ReceiveReply(m, reply)
                                 /\ UNCHANGED mainVars
    BY <1>12 DEF ValidatorReplies
  <2>2. PICK reply \in Replies(m[3]) : ReceiveReply(m, reply)
    BY <2>1
  <2>3. m[2] \in futures /\ m[2] \in Ids /\ reply # "none"
    BY Bounds DEF OnceUnderway, Replies, TypeOK, MessagesOK, MainTypeOK, StreamTypeOK
  <2>4. /\ UNCHANGED << loop, stray, used, sending, waits >> /\ loop = "serve"
        /\ atValidator' = atValidator \ {m} /\ result' = [result EXCEPT ![m[2]] = reply]
    BY <2>1, <2>2, <2>3 DEF ReceiveReply, mainVars
  <2>5. waits[n] \in Ids /\ n \in DOMAIN waits
    BY <2>4, <1>1, <1>2, Bounds
  <2>6. waits[n] # m[2] /\ Open(waits[n])
    BY <2>3, <2>4, <2>5, <1>1, <1>2 DEF Open
  <2>7. waits[n] \in stray \/ Underway(waits[n])
    BY <2>4, <2>5, <2>6 DEF Served
  <2>8. QED  BY <2>4, <2>6, <2>7 DEF Underway
<1>13. CASE ValidatorDisconnects
  BY <1>13, <1>2 DEF ValidatorDisconnects, Disconnect
<1>14. QED
  BY <1>5, <1>6, <1>7, <1>8, <1>9, <1>10, <1>11, <1>12, <1>13, Steps

(* The call apply() waits for is its own, and is answered as one.          *)
LEMMA OwnCallStep ==
  ASSUME TypeOK, OnceUnderway, InHand, OwnCall, [Next]_vars
  PROVE  OwnCall'
<1> USE DEF Goto, Calling
<1>1. /\ waits \in Seq(1..used) /\ sending \in Seq(Requests \cup Responses)
      /\ result \in [Ids -> Results] /\ futures \subseteq Ids
  BY Bounds DEF TypeOK, MessagesOK, MainTypeOK, StreamTypeOK
<1>2. SUFFICES ASSUME task' = "apply", pc' = "result"
               PROVE  /\ Len(waits') = 1 /\ Answer' # "version"
                      /\ \A n \in DOMAIN sending' :
                           IsSend(n)' /\ sending'[n][2] = Head(waits') => sending'[n][3] = "apply"
                      /\ \A m \in atValidator' : m[2] = Head(waits') => m[3] = "apply"
  BY DEF OwnCall
<1>3. ASSUME Sent, Calling, task = "apply"
      PROVE  Len(waits') = 1 /\ Head(waits') = call
  <2>1. waits = << >> /\ waits' = Append(waits, call)
    BY <1>3 DEF Sent, InHand, Sending
  <2>2. QED  BY <2>1
<1>4. CASE Quiet
  <2>1. SendTest /\ ~event
    BY <1>2, <1>4 DEF Quiet, WaitForReady, SendCheck, SendTest, RegisterResult, CallResult,
       CallTimesOut, UnregisterResult, UnregisterTimesOut, Cancelled, AwaitTimesOut,
       RegisterAgain, Ping, Drop, Process, ContextCall, ApplyReturns, ApplyThrows, Respond,
       BackTest, Interrupt, Unregister, ConnectionError, End, Answered
  <2>2. Sent /\ task = "apply" /\ pc = "test" /\ UNCHANGED << sending, atValidator, result >>
    BY <2>1, <1>2 DEF SendTest, Sent, streamVars, outVars, callVars
  <2>3. QED  BY <2>2, <1>3 DEF InHand, Unsent, IsSend, Answer
<1>5. CASE SendSchedule
  <2> DEFINE e == << "send", call, What >>
  <2>1. /\ Sent /\ task = "apply" /\ pc = "schedule" /\ sending' = Append(sending, e)
        /\ UNCHANGED << atValidator, result >>
    BY <1>2, <1>5 DEF SendSchedule, Schedule, Sent, callVars
  <2>2. e \in Requests \cup Responses /\ e[2] = call /\ e[3] = "apply"
    <3>1. What = "apply" /\ call \in Ids
      BY <2>1, <1>1 DEF What, InHand
    <3>2. QED  BY <3>1, MessageTypes DEF Asked
  <2> HIDE DEF e
  <2>3. \A n \in DOMAIN sending' :
          (n \in DOMAIN sending /\ sending'[n] = sending[n]) \/ sending'[n] = e
    BY <2>1, <2>2, <1>1, AppendIndex
  <2>4. QED  BY <2>1, <2>2, <2>3, <1>3 DEF InHand, Unsent, IsSend, Answer
<1>6. CASE SendPut \/ BackSchedule \/ Receive
  BY <1>2, <1>6 DEF SendPut, BackSchedule, Receive
<1>7. CASE UNCHANGED vars
  BY <1>2, <1>7 DEF vars, streamVars, outVars, callVars, mainVars, OwnCall, IsSend, Answer
<1>8. CASE \/ LoopSends \/ LoopGets \/ LoopRecovers \/ ValidatorDisconnects
           \/ (\E j \in Ids : ValidatorReplies(j)) \/ (\E p \in Pushes : ValidatorPushes(p))
  <2>1. UNCHANGED << task, pc, waits >>
    BY <1>8 DEF LoopSends, LoopGets, LoopRecovers, ValidatorDisconnects, ValidatorReplies,
       ValidatorPushes, mainVars
  <2>2. OwnCall /\ task = "apply" /\ pc = "result"
    BY <2>1, <1>2
  <2>3. Answer' # "version"
    <3>0. Len(waits) = 1
      BY <2>2 DEF OwnCall
    <3>1. Head(waits) \in Ids
      <4>1. waits # << >>
        BY <3>0
      <4>2. QED  BY <4>1, <1>1, Bounds
    <3>2. CASE \E j \in Ids : ValidatorReplies(j)
      <4>1. PICK m \in atValidator : \E reply \in Replies(m[3]) : ReceiveReply(m, reply)
        BY <3>2 DEF ValidatorReplies
      <4>2. PICK reply \in Replies(m[3]) : ReceiveReply(m, reply)
        BY <4>1
      <4>3. m[2] \in futures /\ m[2] \in Ids /\ (m[2] = Head(waits) => reply # "version")
        BY <2>2, <1>1 DEF OnceUnderway, OwnCall, Replies
      <4>4. QED  BY <4>2, <4>3, <3>1, <2>1, <2>2, <1>1 DEF ReceiveReply, Answer, OwnCall
    <3>3. CASE LoopRecovers
      BY <3>1, <3>3, <2>1, <2>2, <1>1 DEF LoopRecovers, Recovery, SweepBegins, SweepNext,
         SweepFails, StopLoop, Restart, callVars, Answer, OwnCall
    <3>4. CASE LoopSends \/ LoopGets \/ ValidatorDisconnects
               \/ (\E p \in Pushes : ValidatorPushes(p))
      BY <3>4, <2>1, <2>2 DEF LoopSends, Transmit, LoopGets, GetMessage, ValidatorDisconnects,
         Disconnect, ValidatorPushes, ReceiveInitial, callVars, Answer, OwnCall
    <3>5. QED  BY <1>8, <3>2, <3>3, <3>4
  <2>4. QED  BY <2>1, <2>2, <2>3, <1>8, Carried DEF OwnCall, IsSend
<1>9. QED  BY <1>4, <1>5, <1>6, <1>7, <1>8, Steps

-----------------------------------------------------------------------------
(* A failed call ends in no OK.                                            *)

(* A failed call ends apply(), and with no OK.                             *)
LEMMA FailureKeptStep ==
  ASSUME TypeOK, InHand, OwnCall, FailureKept, OkMeansContextAnswered, [Next]_vars
  PROVE  FailureKept' /\ OkMeansContextAnswered'
<1> USE DEF Goto, Sending
<1>1. /\ sending \in Seq(Requests \cup Responses) /\ responses \in Seq(Responses)
      /\ failed \in BOOLEAN /\ event \in BOOLEAN
  BY DEF TypeOK, MessagesOK, MainTypeOK, StreamTypeOK
<1> DEFINE
  MainKept ==
    /\ pc \in {"apply"} \/ (task = "apply" /\ (Sending \/ pc = "result")) => ~failed
    /\ pc \in {"respond", "back", "backschedule"} /\ failed => verdict # "OK"
  Way == \A n \in DOMAIN sending : ~IsSend(n) /\ sending[n][3] = "OK" => ~sending[n][4]
<1>2. MainKept /\ Way
  BY DEF FailureKept
<1>3. (FailureKept <=> MainKept /\ Way)'
  BY DEF FailureKept
<1>4. CASE Quiet
  <2>1. UNCHANGED << sending, responses >>
    BY <1>4, QuietStep DEF streamVars, outVars
  <2>2. Way' /\ OkMeansContextAnswered'
    BY <2>1, <1>2 DEF IsSend, OkMeansContextAnswered
  <2>3. MainKept'
    <3>1. CASE WaitForReady \/ SendCheck \/ SendTest
      BY <3>1, <1>2 DEF WaitForReady, SendCheck, SendTest, Sent, ConnectionError, End
    <3>2. CASE RegisterResult \/ CallTimesOut \/ UnregisterResult \/ UnregisterTimesOut
      BY <3>2, <1>2 DEF RegisterResult, CallTimesOut, UnregisterResult, UnregisterTimesOut,
         Answered, Unregister, End
    <3>3. CASE CallResult
      <4>1. failed' = (failed \/ Answer # "ok") /\ task' = task /\ Answered("apply")
        BY <3>3 DEF CallResult
      <4>2. Answer \in Results /\ Answer # "version"
        <5>0. waits # << >> /\ waits \in Seq(1..used)
          BY <4>1 DEF Answered, InHand, TypeOK, MainTypeOK
        <5>1. Head(waits) \in Ids
          BY <5>0, Bounds
        <5>2. QED  BY <4>1, <5>1 DEF Answered, OwnCall, Answer, TypeOK, StreamTypeOK
      <4>3. CASE Answer = "ok"
        BY <4>1, <4>3, <3>3, <1>2 DEF CallResult, Answered
      <4>4. CASE Answer = "lost"
        BY <4>1, <4>4, <3>3, <1>2 DEF CallResult, Answered
      <4>5. CASE Answer \in {"error", "unauthorized"}
        BY <4>1, <4>5, <3>3, <1>2 DEF CallResult, Answered
      <4>6. QED  BY <4>1, <4>2, <4>3, <4>4, <4>5 DEF Results, Answered
    <3>4. CASE Cancelled \/ AwaitTimesOut \/ RegisterAgain
      BY <3>4, <1>2 DEF Cancelled, AwaitTimesOut, RegisterAgain, End
    <3>5. CASE Ping \/ Drop \/ Process \/ ContextCall
      BY <3>5, <1>2 DEF Ping, Drop, Process, ContextCall, InHand
    <3>6. CASE ApplyReturns \/ ApplyThrows \/ Respond \/ BackTest
      BY <3>6, <1>2 DEF ApplyReturns, ApplyThrows, Respond, BackTest, ConnectionError, End
    <3>7. CASE Interrupt
      BY <3>7 DEF Interrupt, Unregister
    <3>8. QED  BY <1>4, <3>1, <3>2, <3>3, <3>4, <3>5, <3>6, <3>7 DEF Quiet
  <2>4. QED  BY <2>2, <2>3, <1>3
<1>5. CASE SendSchedule \/ BackSchedule
  <2>1. PICK e : /\ sending' = Append(sending, e) /\ responses' = responses
                 /\ e[1] = "send" \/ (e[3] = "OK" => ~e[4])
    <3>1. CASE SendSchedule
      <4> DEFINE e == << "send", call, What >>
      <4>1. sending' = Append(sending, e) /\ responses' = responses /\ e[1] = "send"
        BY <3>1 DEF SendSchedule, Schedule, Sent, sideVars
      <4> HIDE DEF e
      <4>2. QED  BY <4>1
    <3>2. CASE BackSchedule
      <4> DEFINE e == << "back", got.id, verdict, failed >>
      <4>1. /\ sending' = Append(sending, e) /\ e[3] = verdict /\ e[4] = failed
            /\ responses' = responses /\ pc = "backschedule"
        BY <3>2 DEF BackSchedule, Schedule, sideVars
      <4> HIDE DEF e
      <4>2. failed => verdict # "OK"
        BY <4>1, <1>2
      <4>3. QED  BY <4>1, <4>2
    <3>3. QED  BY <1>5, <3>1, <3>2
  <2>2. \A n \in DOMAIN sending' :
          (n \in DOMAIN sending /\ sending'[n] = sending[n]) \/ sending'[n] = e
    <3>1. sending \in Seq(Requests \cup Responses \cup {e})
          /\ e \in Requests \cup Responses \cup {e}
      BY <1>1, SeqMonotonic
    <3>2. QED  BY <2>1, <3>1, AppendIndex
  <2>3. Way' /\ OkMeansContextAnswered'
    BY <2>1, <2>2, <1>2 DEF IsSend, OkMeansContextAnswered
  <2>4. MainKept'
    BY <1>5, <1>2 DEF SendSchedule, BackSchedule, Sent
  <2>5. QED  BY <2>3, <2>4, <1>3
<1>6. CASE SendPut \/ Receive
  <2>1. UNCHANGED << sending, responses >>
    BY <1>6 DEF SendPut, PutFuture, Receive, ScheduleGet, outVars, sideVars
  <2>2. Way' /\ OkMeansContextAnswered'
    BY <2>1, <1>2 DEF IsSend, OkMeansContextAnswered
  <2>3. MainKept'
    BY <1>6, <1>2 DEF SendPut, Receive
  <2>4. QED  BY <2>2, <2>3, <1>3
<1>7. CASE \/ LoopSends \/ LoopGets \/ LoopRecovers \/ ValidatorDisconnects
           \/ (\E j \in Ids : ValidatorReplies(j)) \/ (\E p \in Pushes : ValidatorPushes(p))
  <2>1. UNCHANGED << task, pc, failed, verdict >>
    BY <1>7 DEF LoopSends, LoopGets, LoopRecovers, ValidatorDisconnects, ValidatorReplies,
       ValidatorPushes, mainVars
  <2>2. MainKept'
    BY <2>1, <1>2
  <2>3. Way'
    BY <1>7, <1>2, Carried DEF IsSend
  <2>4. OkMeansContextAnswered'
    <3>1. CASE LoopSends
      <4>1. Head(sending) = sending[1] /\ 1 \in DOMAIN sending
            /\ Head(sending) \in Requests \cup Responses
        BY <3>1, <1>1, TailIndex, TailElements DEF LoopSends, Transmit
      <4>2. CASE Head(sending)[1] = "back"
        <5>1. responses' = Append(responses, Head(sending)) /\ Head(sending) \in Responses
          BY <4>1, <4>2, <3>1, MessageTypes DEF LoopSends
        <5>2. Head(sending)[3] = "OK" => ~Head(sending)[4]
          BY <4>1, <4>2, <1>2 DEF IsSend
        <5>3. \A n \in DOMAIN responses' :
                (n \in DOMAIN responses /\ responses'[n] = responses[n])
                \/ responses'[n] = Head(sending)
          BY <5>1, <1>1, AppendIndex
        <5>4. QED  BY <5>2, <5>3 DEF OkMeansContextAnswered
      <4>3. CASE Head(sending)[1] # "back"
        BY <4>3, <3>1 DEF LoopSends, OkMeansContextAnswered
      <4>4. QED  BY <4>2, <4>3
    <3>2. CASE ~LoopSends
      BY <3>2, <1>7 DEF LoopGets, LoopRecovers, ValidatorDisconnects, ValidatorReplies,
         ValidatorPushes, sideVars, OkMeansContextAnswered
    <3>3. QED  BY <3>1, <3>2
  <2>5. QED  BY <2>2, <2>3, <2>4, <1>3
<1>8. CASE UNCHANGED vars
  <2>1. UNCHANGED << pc, task, failed, verdict, sending, responses >>
    BY <1>8 DEF vars, streamVars, outVars, mainVars, sideVars
  <2>2. QED  BY <2>1, <1>2, <1>3 DEF IsSend, OkMeansContextAnswered
<1>9. QED  BY <1>4, <1>5, <1>6, <1>7, <1>8, Steps

-----------------------------------------------------------------------------
(* The copies of a request.                                                *)

BackMessages(p) == {m \in Requests \cup Responses : m[1] = "back" /\ m[2] = p}
InMessages(p) == {m \in Incoming : m.id = p}

(* The copies in the queues are positions of messages.                     *)
LEMMA CopiesArePositions ==
  ASSUME NEW p
  PROVE  /\ \A s \in Seq(Requests \cup Responses) : BackTo(s, p) = Positions(s, BackMessages(p))
         /\ recvQueue \in Seq(Incoming) => Queued(p) = Positions(recvQueue, InMessages(p))
BY DEF BackTo, Positions, BackMessages, Queued, InMessages

(* The copies of a request are counted by numbers.                         *)
LEMMA CopiesType ==
  ASSUME TypeOK, NEW p
  PROVE  /\ Cardinality(BackTo(responses, p)) \in Nat
         /\ Cardinality(BackTo(sending, p)) \in Nat
         /\ Cardinality(Queued(p)) \in Nat
<1>1. /\ sending \in Seq(Requests \cup Responses) /\ responses \in Seq(Responses)
      /\ recvQueue \in Seq(Incoming)
  BY DEF TypeOK, MessagesOK
<1>2. responses \in Seq(Requests \cup Responses)
  BY <1>1, SeqMonotonic
<1>3. QED  BY <1>1, <1>2, CopiesArePositions, PositionsFinite

(* A message sent back is one more copy on its way.                        *)
LEMMA BackAppend ==
  ASSUME NEW s \in Seq(Requests \cup Responses), NEW e \in Requests \cup Responses, NEW p
  PROVE  Cardinality(BackTo(Append(s, e), p))
           = Cardinality(BackTo(s, p)) + IF e \in BackMessages(p) THEN 1 ELSE 0
<1>1. Append(s, e) \in Seq(Requests \cup Responses)
  OBVIOUS
<1>2. /\ BackTo(s, p) = Positions(s, BackMessages(p))
      /\ BackTo(Append(s, e), p) = Positions(Append(s, e), BackMessages(p))
  BY <1>1, CopiesArePositions
<1>3. QED  BY <1>2, PositionsAppend

Bound(p) == IF p \in redone THEN 2 ELSE 1
Fresh(p) == \A m \in pushed : m.id # p
Bounded(p) == Copies(p) <= Bound(p) /\ (Fresh(p) => Copies(p) = 0 /\ got.id # p)

(* A quiet step passes the request in hand on, and makes no copy of it.    *)
LEMMA QuietCopies ==
  ASSUME TypeOK, InHand, NEW p \in Pushes, Bounded(p), Quiet
  PROVE  Bounded(p)'
<1> USE DEF Goto, End
<1>1. UNCHANGED << sending, recvQueue, responses, pushed, got, getter >>
  BY QuietStep DEF streamVars, loopVars, getVars, outVars
<1>0. UNCHANGED << Cardinality(BackTo(responses, p)), Cardinality(BackTo(sending, p)),
                   Cardinality(Queued(p)) >>
  BY <1>1 DEF BackTo, Queued
<1>2. CASE ~Interrupt
  <2>1. pc \notin {"receive", "ended"} /\ redone' = redone
    BY <1>2 DEF Quiet, WaitForReady, SendCheck, SendTest, RegisterResult, CallResult,
       CallTimesOut, UnregisterResult, UnregisterTimesOut, Cancelled, AwaitTimesOut,
       RegisterAgain, Ping, Drop, Process, ContextCall, ApplyReturns, ApplyThrows, Respond,
       BackTest, Answered, Sent, sideVars
  <2>2. Held(p)' => Held(p)
    BY <1>1, <2>1 DEF Held, HeldCopy
  <2>3. Copies(p)' <= Copies(p) /\ Copies(p)' \in Nat /\ Copies(p) \in Nat
    BY <1>0, <2>2, CopiesType DEF Copies, HeldCopy
  <2>4. QED  BY <1>1, <2>1, <2>3 DEF Bounded, Bound, Fresh
<1>3. CASE Interrupt
  <2>1. redone = {} /\ redone' = IF getter = "done" THEN {got.id} ELSE {}
    BY <1>3 DEF Interrupt, InHand
  <2>2. Held(p)' => p \in redone' /\ got.id = p
    BY <1>1, <2>1 DEF Held, HeldCopy
  <2>3. Copies(p)' <= Copies(p) + (IF Held(p)' THEN 1 ELSE 0)
        /\ Copies(p)' \in Nat /\ Copies(p) \in Nat
    BY <1>0, CopiesType DEF Copies, HeldCopy
  <2>4. QED  BY <1>1, <2>1, <2>2, <2>3 DEF Bounded, Bound, Fresh
<1>4. QED  BY <1>2, <1>3

(* Nor does any other step: it moves a copy from one place to the next.    *)
LEMMA CopiesStep ==
  ASSUME TypeOK, OnceUnderway, InHand, NEW p \in Pushes, Bounded(p), [Next]_vars
  PROVE  Bounded(p)'
<1> USE DEF Goto
<1>1. /\ sending \in Seq(Requests \cup Responses) /\ responses \in Seq(Responses)
      /\ responses \in Seq(Requests \cup Responses)
      /\ recvQueue \in Seq(Incoming) /\ got \in Incoming
  <2>1. responses \in Seq(Responses)
    BY DEF TypeOK, MessagesOK
  <2>2. QED  BY <2>1, SeqMonotonic DEF TypeOK, MessagesOK
<1> DEFINE R == Cardinality(BackTo(responses, p))
           B == Cardinality(BackTo(sending, p))
           Q == Cardinality(Queued(p))
           InH == HeldCopy(p)
<1>2. Copies(p) = R + B + Q + InH /\ (Copies(p) = R + B + Q + InH)'
  BY DEF Copies
<1>3. R \in Nat /\ B \in Nat /\ Q \in Nat /\ InH \in Nat /\ InH' \in Nat /\ InH' <= 1
  BY CopiesType DEF HeldCopy
<1>4. ASSUME Copies(p)' \in Int, Copies(p)' <= Copies(p), redone' = redone, pushed' = pushed,
             got' = got \/ got'.id # p, Copies(p)' >= 0
      PROVE  Bounded(p)'
  BY <1>2, <1>3, <1>4 DEF Bounded, Bound, Fresh
<1>5. ASSUME R' = R, B' = B, Q' = Q, InH' <= InH, redone' = redone, pushed' = pushed,
             got' = got \/ got'.id # p
      PROVE  Bounded(p)'
  <2> HIDE DEF R, B, Q, InH
  <2>1. R' = R /\ B' = B /\ Q' = Q /\ InH' <= InH
    BY <1>5
  <2>2. PICK h \in Nat : InH' = h
    BY <1>3
  <2>3. Copies(p)' = R + B + Q + h /\ h <= InH
    BY <1>2, <2>1, <2>2
  <2>4. Copies(p)' \in Int /\ Copies(p)' <= Copies(p) /\ Copies(p)' >= 0
    BY <1>2, <1>3, <2>3
  <2>5. QED  BY <2>4, <1>4, <1>5
<1>6. CASE Quiet
  BY <1>6, QuietCopies
<1>7. CASE UNCHANGED vars
  <2>1. UNCHANGED << responses, sending, recvQueue, getter, got, pc, redone, pushed >>
    BY <1>7 DEF vars, streamVars, loopVars, getVars, outVars, mainVars, sideVars
  <2>2. QED  BY <2>1, <1>3, <1>5 DEF BackTo, Queued, Held, HeldCopy
<1>8. CASE SendPut \/ Receive
  <2>1. UNCHANGED << responses, sending, recvQueue, got, redone, pushed >>
    BY <1>8 DEF SendPut, PutFuture, Receive, ScheduleGet, loopVars, getVars, outVars, sideVars
  <2>2. InH' <= InH
    BY <1>8 DEF SendPut, PutFuture, Receive, ScheduleGet, getVars, Held, HeldCopy
  <2>3. QED  BY <2>1, <2>2, <1>5 DEF BackTo, Queued
<1>9. CASE SendSchedule
  <2> DEFINE e == << "send", call, What >>
  <2>1. /\ sending' = Append(sending, e) /\ pc = "schedule"
        /\ UNCHANGED << responses, recvQueue, getter, got, redone, pushed >>
    BY <1>9 DEF SendSchedule, Schedule, Sent, loopVars, getVars, sideVars
  <2>2. call \in Ids /\ What \in Asked
    BY <1>9, WhatType, Bounds DEF SendSchedule, InHand, Calling, Sending, TypeOK, StreamTypeOK
  <2>3. e \in Requests \cup Responses /\ e \notin BackMessages(p)
    BY <2>2, MessageTypes DEF BackMessages
  <2> HIDE DEF e
  <2>4. B' = B
    <3>1. B' = B + 0
      BY <2>1, <2>3, <1>1, BackAppend
    <3>2. QED  BY <3>1, <1>3
  <2>5. InH' <= InH
    BY <2>1 DEF Held, HeldCopy
  <2>6. QED  BY <2>1, <2>4, <2>5, <1>5 DEF BackTo, Queued
<1>10. CASE BackSchedule
  <2> DEFINE e == << "back", got.id, verdict, failed >>
  <2>1. /\ sending' = Append(sending, e) /\ pc = "backschedule" /\ pc' = "receive"
        /\ UNCHANGED << responses, recvQueue, getter, got, redone, pushed >>
    BY <1>10 DEF BackSchedule, Schedule, loopVars, getVars, sideVars
  <2>2. got.id \in Pushes \cup {"reconnect"} /\ verdict \in Verdicts /\ failed \in BOOLEAN
    <3>1. got.id \in Pushes \cup {"reconnect"}
      BY <1>1 DEF Incoming, Reconnect
    <3>2. QED  BY <3>1 DEF TypeOK, MainTypeOK
  <2>3. e \in Requests \cup Responses /\ (e \in BackMessages(p) <=> got.id = p)
    BY <2>2, MessageTypes DEF BackMessages
  <2> HIDE DEF e
  <2>4. B' = B + IF got.id = p THEN 1 ELSE 0
    BY <2>1, <2>3, <1>1, BackAppend
  <2>5. InH = (IF got.id = p THEN 1 ELSE 0) /\ InH' = 0
    BY <2>1 DEF Held, HeldCopy, InHand
  <2>6. R' = R /\ Q' = Q
    BY <2>1 DEF BackTo, Queued
  <2> HIDE DEF R, B, Q, InH
  <2>7. Copies(p)' \in Int /\ Copies(p)' <= Copies(p) /\ Copies(p)' >= 0
    BY <2>4, <2>5, <2>6, <1>2, <1>3
  <2>8. QED  BY <2>1, <2>7, <1>4
<1>11. CASE LoopSends
  <2> DEFINE one == IF Head(sending) \in BackMessages(p) THEN 1 ELSE 0
  <2>1. /\ sending # << >> /\ sending' = Tail(sending)
        /\ responses' = IF Head(sending)[1] = "back" THEN Append(responses, Head(sending))
                        ELSE responses
        /\ UNCHANGED << recvQueue, getter, got, pc, redone, pushed >>
    BY <1>11 DEF LoopSends, Transmit, loopVars, getVars, mainVars
  <2>2. Head(sending) \in Requests \cup Responses /\ Tail(sending) \in Seq(Requests \cup Responses)
    BY <2>1, <1>1
  <2>3. B = B' + one
    <3>1. /\ BackTo(sending, p) = Positions(sending, BackMessages(p))
          /\ BackTo(Tail(sending), p) = Positions(Tail(sending), BackMessages(p))
      BY <2>2, <1>1, CopiesArePositions
    <3>2. QED  BY <3>1, <2>1, <1>1, PositionsTail
  <2>4. R' = R + one
    <3>1. CASE Head(sending)[1] = "back"
      BY <3>1, <2>1, <2>2, <1>1, BackAppend
    <3>2. CASE Head(sending)[1] # "back"
      BY <3>2, <2>1, <1>3 DEF BackMessages
    <3>3. QED  BY <3>1, <3>2
  <2>5. Q' = Q /\ InH' = InH
    BY <2>1 DEF Queued, Held, HeldCopy
  <2>6. B' \in Nat
    BY <2>1, <2>2, CopiesArePositions, PositionsFinite
  <2>7. one \in Nat
    OBVIOUS
  <2> HIDE DEF R, B, Q, InH, one
  <2>8. PICK b \in Nat : B' = b
    BY <2>6
  <2>9. Copies(p)' \in Int /\ Copies(p)' <= Copies(p) /\ Copies(p)' >= 0
    <3>1. Copies(p)' = (R + one) + b + Q + InH /\ Copies(p) = R + (b + one) + Q + InH
      BY <2>3, <2>4, <2>5, <2>8, <1>2
    <3>2. QED  BY <2>7, <3>1, <1>3
  <2>10. QED  BY <2>1, <2>9, <1>4
<1>12. CASE LoopGets
  <2> DEFINE one == IF Head(recvQueue) \in InMessages(p) THEN 1 ELSE 0
  <2>1. /\ recvQueue # << >> /\ recvQueue' = Tail(recvQueue) /\ got' = Head(recvQueue)
        /\ getter = "waiting" /\ UNCHANGED << responses, sending, pc, redone, pushed >>
    BY <1>12 DEF LoopGets, GetMessage, outVars, mainVars, sideVars
  <2>2. Head(recvQueue) \in Incoming /\ Tail(recvQueue) \in Seq(Incoming)
    BY <2>1, <1>1
  <2>3. Q = Q' + one
    <3>1. /\ Queued(p) = Positions(recvQueue, InMessages(p))
          /\ Queued(p)' = Positions(recvQueue', InMessages(p))
      BY <2>1, <2>2, <1>1 DEF Queued, Positions, InMessages
    <3>2. QED  BY <3>1, <2>1, <1>1, PositionsTail
  <2>4. one \in Nat /\ (one = 0 => got'.id # p)
    BY <2>1, <2>2 DEF InMessages
  <2>5. InH = 0 /\ InH' <= one
    BY <2>1, <2>2 DEF Held, HeldCopy, InMessages
  <2>6. R' = R /\ B' = B
    BY <2>1 DEF BackTo
  <2>7. Q' \in Nat
    <3>1. Queued(p)' = Positions(recvQueue', InMessages(p))
      BY <2>1, <2>2 DEF Queued, Positions, InMessages
    <3>2. QED  BY <3>1, <2>1, <2>2, PositionsFinite
  <2>8. one \in Nat
    BY <2>4
  <2> HIDE DEF R, B, Q, InH, one
  <2>9. Copies(p)' \in Int /\ Copies(p)' <= Copies(p) /\ Copies(p)' >= 0
    <3>1. PICK h \in Nat : InH' = h
      BY <1>3
    <3>2. PICK q \in Nat : Q' = q
      BY <2>7
    <3>3. Copies(p)' = R + B + q + h /\ Copies(p) = R + B + (q + one) + 0 /\ h <= one
      BY <2>3, <2>5, <2>6, <3>1, <3>2, <1>2
    <3>4. QED  BY <2>8, <3>3, <1>3
  <2>10. ASSUME Fresh(p) PROVE got'.id # p
    <3>1. Copies(p) = 0
      BY <2>10 DEF Bounded
    <3>2. one = 0
      BY <3>1, <2>3, <2>7, <2>8, <1>2, <1>3
    <3>3. QED  BY <3>2, <2>4
  <2>11. QED  BY <2>1, <2>9, <2>10, <1>2, <1>3 DEF Bounded, Bound, Fresh
<1>13. CASE LoopRecovers
  <2>1. UNCHANGED << responses, pc, redone, pushed, got >> /\ (getter' = "done" => getter = "done")
    BY <1>13 DEF LoopRecovers, Recovery, SweepBegins, SweepNext, SweepFails, StopLoop, Restart,
       getVars, mainVars, sideVars
  <2>2. R' = R /\ InH' <= InH
    BY <2>1 DEF BackTo, Held, HeldCopy
  <2>3. B' \in Nat /\ B' <= B
    <3>1. CASE StopLoop
      <4>1. PICK k \in 0..Len(sending) : sending' = SubSeq(sending, k + 1, Len(sending))
        BY <3>1 DEF StopLoop
      <4>2. sending' \in Seq(Requests \cup Responses)
        BY <4>1, <1>1, SuffixIndex
      <4>3. BackTo(sending', p) = Positions(sending', BackMessages(p))
            /\ BackTo(sending, p) = Positions(sending, BackMessages(p))
        BY <4>2, <1>1, CopiesArePositions
      <4>4. QED  BY <4>1, <4>2, <4>3, <1>1, PositionsSuffix, PositionsFinite
    <3>2. CASE ~StopLoop
      <4>1. sending' = sending
        BY <3>2, <1>13 DEF LoopRecovers, Recovery, SweepBegins, SweepNext, SweepFails, Restart,
           outVars
      <4>2. QED  BY <4>1, <1>3
    <3>3. QED  BY <3>1, <3>2
  <2>4. Q' = Q \/ Q' = 0
    <3>1. CASE recvQueue' = recvQueue
      BY <3>1 DEF Queued
    <3>2. CASE recvQueue' \in {<< >>, << Reconnect >>}
      <4>1. Queued(p)' = {}
        BY <3>2, PushesAssumption DEF Queued, Reconnect
      <4>2. QED  BY <4>1, FS_EmptySet
    <3>3. QED
      BY <1>13, <3>1, <3>2 DEF LoopRecovers, Recovery, SweepBegins, SweepNext, SweepFails,
         StopLoop, Restart
  <2> HIDE DEF R, B, Q, InH
  <2>5. Copies(p)' \in Int /\ Copies(p)' <= Copies(p) /\ Copies(p)' >= 0
    BY <2>2, <2>3, <2>4, <1>2, <1>3
  <2>6. QED  BY <2>1, <2>5, <1>4
<1>14. CASE \E i \in Ids : ValidatorReplies(i)
  <2>1. PICK m \in atValidator : /\ \E reply \in Replies(m[3]) : ReceiveReply(m, reply)
                                 /\ UNCHANGED << mainVars, pushed, responses, redone >>
    BY <1>14 DEF ValidatorReplies
  <2>2. UNCHANGED << responses, sending, recvQueue, getter, got, pc, redone, pushed >>
    BY <2>1 DEF ReceiveReply, OnceUnderway, getVars, mainVars
  <2>3. QED  BY <2>2, <1>3, <1>5 DEF BackTo, Queued, Held, HeldCopy
<1>15. CASE \E q \in Pushes : ValidatorPushes(q)
  <2>1. PICK q \in Pushes : ValidatorPushes(q)
    BY <1>15
  <2>2. PICK k \in registered \cup {"ping", "other"} :
          /\ pushed' = pushed \cup {[id |-> q, kind |-> k]}
          /\ recvQueue' = Append(recvQueue, [id |-> q, kind |-> k])
    BY <2>1 DEF ValidatorPushes, ReceiveInitial
  <2>3. \A m \in pushed : m.id # q
    BY <2>1 DEF ValidatorPushes
  <2>4. UNCHANGED << responses, sending, getter, got, pc, redone >>
    BY <2>1 DEF ValidatorPushes, ReceiveInitial, outVars, getVars, mainVars
  <2> DEFINE m == [id |-> q, kind |-> k]
  <2>5. m \in Incoming /\ m.id = q
    BY DEF TypeOK, MessagesOK, Incoming
  <2>6. Q' = Q + IF q = p THEN 1 ELSE 0
    <3> HIDE DEF m
    <3>1. recvQueue' = Append(recvQueue, m) /\ recvQueue' \in Seq(Incoming)
      BY <2>2, <2>5, <1>1 DEF m
    <3>2. /\ Queued(p) = Positions(recvQueue, InMessages(p))
          /\ Queued(p)' = Positions(recvQueue', InMessages(p))
      BY <3>1, <1>1 DEF Queued, Positions, InMessages
    <3>3. m \in InMessages(p) <=> q = p
      BY <2>5 DEF InMessages
    <3>4. QED  BY <3>1, <3>2, <3>3, <2>5, <1>1, PositionsAppend
  <2>7. R' = R /\ B' = B /\ InH' = InH
    BY <2>4 DEF BackTo, Held, HeldCopy
  <2>8. Fresh(p)' => Fresh(p) /\ q # p
    BY <2>2, <2>5 DEF Fresh
  <2>9. q = p => Fresh(p)
    BY <2>3 DEF Fresh
  <2> HIDE DEF R, B, Q, InH
  <2>10. CASE q = p
    <3>1. Copies(p) = 0 /\ Copies(p)' = 1
      BY <2>6, <2>7, <2>9, <2>10, <1>2, <1>3 DEF Bounded
    <3>2. QED  BY <3>1, <2>8, <2>10 DEF Bounded, Bound
  <2>11. CASE q # p
    <3>1. Copies(p)' = Copies(p)
      BY <2>6, <2>7, <2>11, <1>2, <1>3
    <3>2. QED  BY <3>1, <2>4, <2>8 DEF Bounded, Bound
  <2>12. QED  BY <2>10, <2>11
<1>16. CASE ValidatorDisconnects
  <2>1. UNCHANGED << responses, sending, recvQueue, getter, got, pc, redone, pushed >>
    BY <1>16 DEF ValidatorDisconnects, Disconnect, getVars, mainVars
  <2>2. QED  BY <2>1, <1>3, <1>5 DEF BackTo, Queued, Held, HeldCopy
<1>17. QED
  BY <1>6, <1>7, <1>8, <1>9, <1>10, <1>11, <1>12, <1>13, <1>14, <1>15, <1>16, Steps

(* So no request has more copies than are allowed it.                      *)
LEMMA CopiesBoundedStep ==
  ASSUME TypeOK, OnceUnderway, InHand, CopiesBounded, [Next]_vars
  PROVE  CopiesBounded'
<1>1. ASSUME NEW p \in Pushes PROVE Bounded(p)'
  <2>1. Bounded(p)
    BY DEF CopiesBounded, Bounded, Bound, Fresh
  <2>2. QED  BY <2>1, CopiesStep
<1>2. QED  BY <1>1 DEF CopiesBounded, Bounded, Bound, Fresh

(* A response is a copy of its request.                                    *)
LEMMA OneResponseHolds ==
  ASSUME TypeOK, CopiesBounded
  PROVE  OneResponse
<1>1. SUFFICES ASSUME NEW p \in Pushes
               PROVE  Cardinality(ResponsesTo(p)) <= IF p \in redone THEN 2 ELSE 1
  BY DEF OneResponse
<1>2. ResponsesTo(p) = BackTo(responses, p)
  <2>1. \A n \in DOMAIN responses : responses[n][1] = "back"
    BY MessageTypes DEF TypeOK, MessagesOK
  <2>2. QED  BY <2>1 DEF ResponsesTo, BackTo
<1> DEFINE R == Cardinality(BackTo(responses, p))
           B == Cardinality(BackTo(sending, p))
           Q == Cardinality(Queued(p))
<1>3. R \in Nat /\ B \in Nat /\ Q \in Nat /\ HeldCopy(p) \in Nat
  BY CopiesType DEF HeldCopy
<1>4. Copies(p) = R + B + Q + HeldCopy(p)
  BY DEF Copies
<1>5. Copies(p) <= Bound(p) /\ Bound(p) \in Nat
  BY DEF CopiesBounded, Bound
<1> HIDE DEF R, B, Q
<1>6. R <= Bound(p)
  BY <1>3, <1>4, <1>5
<1>7. QED  BY <1>2, <1>6 DEF R, Bound

-----------------------------------------------------------------------------
(* The awaited futures are accounted for.                                  *)

(* What is awaited and not underway is in the dictionary or still to be    *)
(* swept.                                                                  *)
LEMMA WaiterAccountedHolds ==
  ASSUME TypeOK, FuturesKept, Served
  PROVE  WaiterAccounted
<1>1. loop = "orphan" => stray # {}
  BY DEF FuturesKept
<1>2. ASSUME NEW n \in DOMAIN waits, result[waits[n]] = "none", waits[n] \notin stray,
             ~Underway(waits[n])
      PROVE  \/ waits[n] \in futures /\ loop = "cleared"
             \/ waits[n] \in unswept /\ loop \in {"sweep", "orphan"}
  <2>1. waits[n] \in 1..used /\ waits[n] \in Ids
    <3>1. waits \in Seq(1..used)
      BY DEF TypeOK, MainTypeOK
    <3>2. QED  BY <3>1, Bounds
  <2>2. Open(waits[n])
    BY <1>2, <2>1 DEF Open
  <2>3. loop # "serve"
    BY <1>2, <2>2 DEF Served
  <2>4. loop \in {"cleared", "sweep", "stopped", "orphan"}
    BY <2>3 DEF TypeOK, StreamTypeOK
  <2>5. QED  BY <1>2, <2>1, <2>2, <2>4 DEF FuturesKept
<1>3. QED  BY <1>1, <1>2 DEF WaiterAccounted

-----------------------------------------------------------------------------
(* The theorems.                                                           *)

(* The invariant holds when the processor starts.                          *)
LEMMA InitEstablishes ==
  ASSUME Init
  PROVE  IInv
<1>1. /\ event = TRUE /\ loop = "serve" /\ disconnects = 0
      /\ futures = {} /\ unswept = {} /\ size = 0 /\ used = 0 /\ stray = {}
      /\ result = [i \in Ids |-> "none"] /\ getter = "none"
  BY DEF Init, StreamInit
<1>2. /\ sending = << >> /\ recvQueue = << >> /\ got = Reconnect /\ atValidator = {}
      /\ registered = {} /\ pushed = {} /\ responses = << >> /\ redone = {}
  BY DEF Init, StreamInit
<1>3. /\ pc = "ready" /\ task = "register" /\ regs = 0 /\ call = 0 /\ waits = << >>
      /\ calls = 0 /\ verdict = "OK" /\ failed = FALSE /\ stopping = FALSE /\ ended = ""
  BY DEF Init
<1>4. MaxSends \in Nat /\ MaxDisconnects \in Nat /\ MaxCalls \in Nat
      /\ Len(Handlers) \in Nat \ {0}
  <2>1. Handlers \in Seq(Families) /\ Handlers # << >>
    BY HandlersAssumption
  <2>2. Len(Handlers) \in Nat \ {0}
    BY <2>1
  <2>3. QED  BY <2>2, PyBoundAssumption, HandlersAssumption
<1>5. StreamTypeOK
  <2>1. used \in 0..MaxSends /\ disconnects \in 0..MaxDisconnects
    BY <1>1, <1>4
  <2>2. QED  BY <2>1, <1>1 DEF StreamTypeOK, Results
<1>6. MessagesOK
  BY <1>2 DEF MessagesOK, Incoming
<1>7. MainTypeOK
  <2>1. 0 \in 0..Len(Handlers) /\ 0 \in 0..MaxCalls /\ 0 \in 0..0
    BY <1>4
  <2>2. << >> \in Seq(1..used)
    OBVIOUS
  <2>3. QED  BY <2>1, <2>2, <1>1, <1>2, <1>3 DEF MainTypeOK, Verdicts
<1>8. FuturesKept
  BY <1>1 DEF FuturesKept, Open
<1>9. DOMAIN sending = {} /\ DOMAIN waits = {} /\ DOMAIN responses = {}
      /\ DOMAIN recvQueue = {}
  <2>1. DOMAIN << >> = {}
    OBVIOUS
  <2>2. QED  BY <2>1, <1>2, <1>3
<1>10. OnceUnderway /\ Served /\ OwnCall /\ FailureKept /\ OkMeansContextAnswered
  BY <1>2, <1>3, <1>9 DEF OnceUnderway, Served, OwnCall, FailureKept, Sending,
     OkMeansContextAnswered
<1>11. InHand
  <2>0. 0 < Len(Handlers)
    BY <1>4
  <2>1. regs < Len(Handlers)
    BY <2>0, <1>3
  <2>2. QED  BY <2>1, <1>2, <1>3 DEF InHand, Sending, Calling
<1>12. CopiesBounded
  <2>1. ASSUME NEW p \in Pushes PROVE Copies(p) = 0 /\ got.id # p
    <3>1. BackTo(responses, p) = {} /\ BackTo(sending, p) = {} /\ Queued(p) = {}
      BY <1>9 DEF BackTo, Queued
    <3>2. HeldCopy(p) = 0 /\ got.id = "reconnect"
      BY <1>1, <1>2 DEF HeldCopy, Held, Reconnect
    <3>3. Cardinality({}) = 0
      BY FS_EmptySet
    <3>4. QED  BY <3>1, <3>2, <3>3, PushesAssumption DEF Copies
  <2>2. QED  BY <2>1 DEF CopiesBounded
<1>13. TypeOK
  BY <1>5, <1>6, <1>7 DEF TypeOK
<1>14. QED
  BY <1>8, <1>10, <1>11, <1>12, <1>13, WaiterAccountedHolds, OneResponseHolds DEF IInv

(* Every step keeps the invariant.                                         *)
LEMMA StepPreserves ==
  ASSUME IInv, [Next]_vars
  PROVE  IInv'
<1> USE DEF IInv
<1>1. TypeOK' /\ FuturesKept' /\ OnceUnderway' /\ InHand' /\ Served' /\ OwnCall'
  BY TypesKept, FuturesKeptStep, OnceUnderwayStep, InHandStep, ServedStep, OwnCallStep
<1>2. FailureKept' /\ OkMeansContextAnswered' /\ CopiesBounded'
  BY FailureKeptStep, CopiesBoundedStep
<1>3. WaiterAccounted'
  BY <1>1, WaiterAccountedHolds, PTL
<1>4. OneResponse'
  BY <1>1, <1>2, OneResponseHolds, PTL
<1>5. QED  BY <1>1, <1>2, <1>3, <1>4

(* The inductive invariant holds in every behaviour.                       *)
THEOREM Invariant == Spec => []IInv
<1>1. IInv /\ [Next]_vars => IInv'
  BY StepPreserves
<1>2. QED  BY InitEstablishes, <1>1, PTL DEF Spec

(* Every variable keeps its type, so no reply is ever taken for a message  *)
(* of the validator's own (Stream._receive_message).                       *)
THEOREM TypesHold == Spec => []TypeOK
BY Invariant, PTL DEF IInv

(* The main thread never waits for a result that nothing will bring, but   *)
(* for a send() that spanned a disconnect (Future.result, the sweep of     *)
(* _monitor_disconnects).                                                  *)
THEOREM WaitersAccounted == Spec => []WaiterAccounted
BY Invariant, PTL DEF IInv

(* A request gets one response, or two when start() was interrupted with   *)
(* it in hand (TransactionProcessor.start).                                *)
THEOREM ResponsesBounded == Spec => []OneResponse
BY Invariant, PTL DEF IInv

(* OK is answered only when every Context call of apply() was              *)
(* (TransactionProcessor._process).                                        *)
THEOREM OkIsHonest == Spec => []OkMeansContextAnswered
BY Invariant, PTL DEF IInv
==============================================================================
