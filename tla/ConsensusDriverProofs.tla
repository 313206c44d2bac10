----------------------- MODULE ConsensusDriverProofs -----------------------
(***************************************************************************)
(* Proofs about ConsensusDriver for any engine calls, notifications,       *)
(* NOT_READY answers and with and without a disconnect.  The inductive     *)
(* invariant is proved part by part: types and the markers of a            *)
(* disconnect, the notifications each place can hold, acknowledgements,    *)
(* and what the engine was told of its candidate block.                    *)
(***************************************************************************)
EXTENDS ConsensusDriver, QueueFacts, TLAPS

Threads == TypeOK /\ OnlySent /\ MarkerMeansBroken /\ OneThreadAtFirst

-----------------------------------------------------------------------------
(* Types and markers.                                                      *)

(* Every step keeps types, and a marker, a cancelled future or a stream    *)
(* that is not ready means a disconnect.                                   *)
LEMMA ThreadsStep ==
  ASSUME Threads, [Next]_vars
  PROVE  Threads'
<1> USE ConsensusBoundAssumption DEF Threads, TypeOK, OnlySent, MarkerMeansBroken,
        OneThreadAtFirst, Reconnect, streamVars, callVars, driverVars, stopVars, Goto,
        DriverGoto
<1>1. CASE RegisterNotReady
  BY <1>1 DEF RegisterNotReady
<1>2. CASE Registered
  BY <1>2 DEF Registered
<1>3. CASE ReceiveActivation
  BY <1>3 DEF ReceiveActivation
<1>4. CASE Waited
  <2>1. main' \in {"raised", "activated", "wait"} /\ main = "waiting"
    BY <1>4 DEF Waited
  <2>2. main' = "activated" => future \in 1..Len(notes) /\ Kind(future) = "activated"
    <3>1. ASSUME future \in {-2, Reconnect} PROVE main' = "raised"
      BY <1>4, <3>1 DEF Waited
    <3>2. future # -1
      BY <1>4 DEF Waited
    <3>3. ASSUME future \notin {-2, Reconnect}, main' = "activated"
          PROVE  Kind(future) = "activated"
      BY <1>4, <3>3 DEF Waited
    <3>4. QED  BY <3>1, <3>2, <3>3
  <2>3. UNCHANGED << driver, notReady, streamVars, callVars, driverVars, stopVars >>
    BY <1>4 DEF Waited
  <2>4. TypeOK'
    BY <2>1, <2>3
  <2>5. OnlySent'
    BY <2>1, <2>3
  <2>6. MarkerMeansBroken'
    BY <2>1, <2>3
  <2>7. OneThreadAtFirst'
    BY <2>1, <2>2, <2>3 DEF Kind
  <2>8. QED  BY <2>4, <2>5, <2>6, <2>7
<1>4a. CASE AckActivation
  <2>1. /\ main = "activated" /\ main' = "create" /\ future \in 1..Len(notes)
        /\ acked' = acked \cup {future} \/ acked' = acked
        /\ UNCHANGED << driver, notReady, streamVars, callVars, message, updates, delivered,
                        stopVars >>
    BY <1>4a DEF AckActivation
  <2>2. TypeOK'
    BY <2>1
  <2>3. OnlySent'
    BY <2>1
  <2>4. MarkerMeansBroken' /\ OneThreadAtFirst'
    BY <2>1
  <2>5. QED  BY <2>2, <2>3, <2>4
<1>5. CASE StartDriver
  BY <1>5 DEF StartDriver
<1>6. CASE EngineUpdate
  BY <1>6 DEF EngineUpdate
<1>7. ASSUME NEW c \in Calls, EngineCalls(c) PROVE Threads'
  <2>1. TypeOK'
    BY <1>7 DEF EngineCalls
  <2>2. OnlySent'
    BY <1>7 DEF EngineCalls
  <2>3. MarkerMeansBroken' /\ OneThreadAtFirst'
    BY <1>7 DEF EngineCalls
  <2>4. QED  BY <2>1, <2>2, <2>3
<1>8. CASE CallReturns
  BY <1>8 DEF CallReturns, Told
<1>9. CASE CallFails
  BY <1>9 DEF CallFails
<1>10. CASE EngineReturns \/ EngineObeys
  <2>1. EngineReturns
    BY <1>10 DEF EngineObeys
  <2>2. TypeOK'
    BY <2>1 DEF EngineReturns
  <2>3. OnlySent'
    BY <2>1 DEF EngineReturns
  <2>4. MarkerMeansBroken'
    BY <2>1 DEF EngineReturns
  <2>5. OneThreadAtFirst'
    BY <2>1 DEF EngineReturns
  <2>6. QED  BY <2>2, <2>3, <2>4, <2>5
<1>11. CASE SetExit
  BY <1>11 DEF SetExit
<1>12. CASE TellEngine
  BY <1>12 DEF TellEngine
<1>13. CASE CloseStream
  BY <1>13 DEF CloseStream
<1>14. CASE Join
  BY <1>14 DEF Join
<1>15. CASE DriverReceives
  BY <1>15 DEF DriverReceives
<1>16. CASE DriverChecks
  BY <1>16 DEF DriverChecks
<1>17. CASE ResultTimesOut
  BY <1>17 DEF ResultTimesOut
<1>18. CASE ResultCancelled
  BY <1>18 DEF ResultCancelled
<1>19. CASE Result
  BY <1>19 DEF Result
<1>20. CASE Process
  <2>1. /\ driver' \in {"ended", "check", "exit", "ack"}
        /\ driver' = "ended" => broken
        /\ driver' \in {"exit", "ack"} => message # Reconnect
    <3>1. Kind(message) = "reconnect" <=> message = Reconnect
      <4>1. message # Reconnect => notes[message] \in Kinds
        OBVIOUS
      <4>2. QED  BY <4>1 DEF Kind, Kinds
    <3>2. message = Reconnect => broken
      BY <1>20 DEF Process
    <3>3. QED  BY <1>20, <3>1, <3>2 DEF Process
  <2>2. /\ UNCHANGED << main, notReady, streamVars, callVars, driverVars, stopVars >>
        /\ driver = "process"
    BY <1>20 DEF Process
  <2>3. TypeOK'
    BY <2>1, <2>2
  <2>4. OnlySent'
    BY <2>1, <2>2
  <2>5. MarkerMeansBroken' /\ OneThreadAtFirst'
    BY <2>1, <2>2
  <2>6. QED  BY <2>3, <2>4, <2>5
<1>20a. CASE SendBack
  BY <1>20a DEF SendBack
<1>21. CASE Acknowledge
  BY <1>21 DEF Acknowledge, Kind
<1>22. CASE PutUpdate
  BY <1>22 DEF PutUpdate
<1>23. CASE StreamGets
  <2>1. /\ future = -1 /\ recvQueue # << >> /\ future' = Head(recvQueue)
        /\ recvQueue' = Tail(recvQueue)
        /\ UNCHANGED << main, driver, notReady, ready, closed, broken, notes, callVars,
                        driverVars, stopVars >>
    BY <1>23 DEF StreamGets
  <2>2. /\ Head(recvQueue) \in 0..MaxNotes /\ Tail(recvQueue) \in Seq(0..MaxNotes)
        /\ Range(recvQueue) = {Head(recvQueue)} \cup Range(Tail(recvQueue))
    BY <2>1, TailElements
  <2>3. /\ future' \in 0..MaxNotes /\ future' <= Len(notes) /\ (future' = Reconnect => broken)
        /\ recvQueue' \in Seq(0..MaxNotes) /\ Range(recvQueue') \subseteq Range(recvQueue)
    BY <2>1, <2>2
  <2>4. TypeOK'
    BY <2>1, <2>3
  <2>5. OnlySent'
    BY <2>1, <2>3
  <2>6. MarkerMeansBroken' /\ OneThreadAtFirst'
    BY <2>1, <2>3 DEF Kind
  <2>7. QED  BY <2>4, <2>5, <2>6
<1>24. CASE StreamBreaks
  BY <1>24, ElementsType DEF StreamBreaks, Kind
<1>25. CASE StreamRecovers
  <2>1. << Reconnect >> \in Seq(0..MaxNotes) /\ Range(<< Reconnect >>) = {Reconnect}
    BY DEF Range
  <2>2. QED  BY <1>25, <2>1 DEF StreamRecovers, Kind
<1>26. ASSUME NEW k \in Kinds, ValidatorNotifies(k) PROVE Threads'
  <2>1. /\ notes' = Append(notes, k) /\ Len(notes) < MaxNotes
        /\ recvQueue' = Append(recvQueue, Len(notes'))
        /\ UNCHANGED << main, driver, notReady, future, ready, closed, broken, callVars,
                        driverVars, stopVars >>
    BY <1>26 DEF ValidatorNotifies
  <2>2. /\ Len(notes) \in Nat /\ Len(notes') = Len(notes) + 1
        /\ Len(notes') \in 0..MaxNotes /\ notes' \in Seq(Kinds)
    BY <2>1
  <2>3. /\ recvQueue' \in Seq(0..MaxNotes)
        /\ Range(recvQueue') = Range(recvQueue) \cup {Len(notes')}
    <3>1. ASSUME NEW e \in 0..MaxNotes
          PROVE  /\ Append(recvQueue, e) \in Seq(0..MaxNotes)
                 /\ Range(Append(recvQueue, e)) = Range(recvQueue) \cup {e}
      <4> DEFINE Ids == 0..MaxNotes
      <4>1. recvQueue \in Seq(Ids) /\ e \in Ids
        OBVIOUS
      <4> HIDE DEF Ids
      <4>2. /\ Append(recvQueue, e) \in Seq(Ids)
            /\ Range(Append(recvQueue, e)) = Range(recvQueue) \cup {e}
        BY <4>1, AppendElements
      <4>3. QED  BY <4>2 DEF Ids
    <3>2. QED  BY <2>1, <2>2, <3>1
  <2>4. TypeOK'
    BY <2>1, <2>2, <2>3
  <2>5. delivered' \in Seq(1..Len(notes'))
    BY <2>1, <2>2
  <2>6. OnlySent'
    <3>1. \A n \in Range(recvQueue') : n <= Len(notes')
      <4>1. Range(recvQueue) \subseteq 0..MaxNotes
        BY ElementsType
      <4>2. QED  BY <2>2, <2>3, <4>1
    <3>2. acked' \subseteq 1..Len(notes')
      BY <2>1, <2>2
    <3>3. QED  BY <2>1, <2>2, <2>5, <3>1, <3>2
  <2>7. MarkerMeansBroken'
    BY <2>1, <2>3
  <2>8. OneThreadAtFirst'
    <3>1. \A n \in 1..Len(notes) : notes'[n] = notes[n] /\ n \in 1..Len(notes')
      BY <2>1, <2>2
    <3>2. QED  BY <2>1, <3>1 DEF Kind
  <2>9. QED  BY <2>4, <2>6, <2>7, <2>8
<1>27. CASE ValidatorAnswers
  BY <1>27 DEF ValidatorAnswers, Statuses
<1>28. CASE UNCHANGED vars
  BY <1>28 DEF vars, Kind
<1>29. QED
  BY <1>1, <1>2, <1>3, <1>4, <1>5, <1>6, <1>7, <1>8, <1>9, <1>10, <1>11, <1>12, <1>13,
     <1>14, <1>15, <1>16, <1>17, <1>18, <1>19, <1>20, <1>21, <1>22, <1>23, <1>24, <1>25,
     <1>26, <1>27, <1>28, <1>4a, <1>20a
     DEF Next, Start, Stop, DriverLoop, Call, Environment

-----------------------------------------------------------------------------
(* Acknowledgements.                                                       *)

(* A step that acknowledges and puts nothing, and leaves the one that is   *)
(* about to be put, keeps the promise.                                     *)
LEMMA AckFrame ==
  ASSUME Threads, AckMeansDelivery, UNCHANGED << acked, delivered >>,
         notes' = notes \/ \E k \in Kinds : notes' = Append(notes, k),
         driver = "put" => driver' = "put" /\ message' = message,
         closed => closed', broken => broken'
  PROVE  AckMeansDelivery'
<1>1. acked \subseteq 1..Len(notes)
  BY DEF Threads, OnlySent
<1>2. \A n \in 1..Len(notes) : Kind(n)' = Kind(n)
  <2>1. CASE notes' = notes
    BY <2>1 DEF Kind
  <2>2. ASSUME NEW k \in Kinds, notes' = Append(notes, k), NEW n \in 1..Len(notes)
        PROVE  notes'[n] = notes[n]
    <3>1. notes \in Seq(Kinds)
      BY DEF Threads, TypeOK
    <3>2. QED  BY <2>2, <3>1
  <2>3. QED  BY <2>1, <2>2 DEF Kind
<1>3. QED  BY <1>1, <1>2 DEF AckMeansDelivery

(* No step acknowledges what it does not put or is about to put.           *)
LEMMA AckStep ==
  ASSUME Threads, AckMeansDelivery, [Next]_vars
  PROVE  AckMeansDelivery'
<1> USE DEF streamVars, callVars, driverVars, stopVars, Goto, DriverGoto
<1>1. CASE RegisterNotReady \/ Registered \/ ReceiveActivation
  BY <1>1, AckFrame DEF RegisterNotReady, Registered, ReceiveActivation
<1>2. CASE Waited
  BY <1>2, AckFrame DEF Waited
<1>2a. CASE AckActivation
  <2>1. UNCHANGED << notes, delivered, driver, closed, broken, message >>
    BY <1>2a DEF AckActivation
  <2>2. CASE acked' = acked
    BY <2>1, <2>2, AckFrame
  <2>3. CASE acked' = acked \cup {future}
    <3>1. Kind(future) = "activated"
      BY <1>2a DEF AckActivation, Threads, OneThreadAtFirst
    <3>2. \A n : Kind(n)' = Kind(n)
      BY <2>1 DEF Kind
    <3>3. QED  BY <2>1, <2>3, <3>1, <3>2 DEF AckMeansDelivery
  <2>4. QED  BY <1>2a, <2>2, <2>3 DEF AckActivation
<1>3. CASE StartDriver
  BY <1>3, AckFrame DEF StartDriver, Threads, OneThreadAtFirst
<1>4. CASE EngineUpdate \/ EngineReturns \/ EngineObeys \/ \E c \in Calls : EngineCalls(c)
  <2>1. /\ UNCHANGED << acked, delivered, notes, message, closed, broken >>
        /\ driver' = driver
    BY <1>4 DEF EngineUpdate, EngineReturns, EngineObeys, EngineCalls
  <2>2. QED  BY <2>1, AckFrame
<1>5. CASE Call
  <2>1. UNCHANGED << driver, streamVars, driverVars >>
    BY <1>5 DEF Call, CallReturns, CallFails
  <2>2. QED  BY <2>1, AckFrame
<1>6. CASE Stop
  BY <1>6, AckFrame DEF Stop, SetExit, TellEngine, CloseStream, Join
<1>7. CASE DriverReceives \/ DriverChecks \/ ResultTimesOut \/ ResultCancelled \/ Result
            \/ Process \/ SendBack
  BY <1>7, AckFrame DEF DriverReceives, DriverChecks, ResultTimesOut, ResultCancelled,
     Result, Process, SendBack
<1>8. CASE Acknowledge
  <2>1. /\ driver = "send" /\ UNCHANGED << notes, delivered, closed, broken, message >>
        /\ acked' = acked \/ acked' = acked \cup {message}
    BY <1>8 DEF Acknowledge
  <2>2. \A n : Kind(n)' = Kind(n)
    BY <2>1 DEF Kind
  <2>3. Kind(message) = "ping" \/ driver' = "put"
    BY <1>8 DEF Acknowledge
  <2>4. QED  BY <2>1, <2>2, <2>3 DEF AckMeansDelivery
<1>9. CASE PutUpdate
  <2>1. /\ driver = "put" /\ delivered' = Append(delivered, message)
        /\ UNCHANGED << notes, acked, closed, broken, message >>
    BY <1>9 DEF PutUpdate
  <2>2. message \in 1..Len(notes) /\ (message \in acked \/ closed \/ broken)
    BY <2>1 DEF Threads, OnlySent
  <2>3. Range(delivered') = Range(delivered) \cup {message}
    <3> DEFINE Ids == 1..Len(notes)
    <3>1. delivered \in Seq(Ids) /\ message \in Ids
      BY <2>2 DEF Threads, OnlySent
    <3> HIDE DEF Ids
    <3>2. QED  BY <2>1, <3>1, AppendElements
  <2>4. \A n : Kind(n)' = Kind(n)
    BY <2>1 DEF Kind
  <2>5. QED  BY <2>1, <2>2, <2>3, <2>4 DEF AckMeansDelivery
<1>10. CASE StreamGets \/ StreamBreaks \/ StreamRecovers
  BY <1>10, AckFrame DEF StreamGets, StreamBreaks, StreamRecovers
<1>11. CASE ValidatorAnswers
  BY <1>11, AckFrame DEF ValidatorAnswers
<1>11a. ASSUME NEW k \in Kinds, ValidatorNotifies(k) PROVE AckMeansDelivery'
  BY <1>11a, AckFrame DEF ValidatorNotifies
<1>12. CASE UNCHANGED vars
  BY <1>12, AckFrame DEF vars
<1>13. QED
  BY <1>1, <1>2, <1>3, <1>4, <1>5, <1>6, <1>7, <1>8, <1>9, <1>10, <1>11, <1>11a, <1>12, <1>2a
     DEF Next, Start, DriverLoop, Environment

-----------------------------------------------------------------------------
(* The candidate block.                                                    *)

(* What a call tells the engine is true when the validator answers it, and *)
(* no step but an answer changes what is true.                             *)
LEMMA CandidateStep ==
  ASSUME TypeOK, AnswerTells, EngineKnowsCandidate, [Next]_vars
  PROVE  AnswerTells' /\ EngineKnowsCandidate'
<1> USE DEF streamVars, callVars, driverVars, stopVars, Goto, DriverGoto
<1>1. ASSUME UNCHANGED callVars, main = "call" <=> main' = "call"
      PROVE  AnswerTells' /\ EngineKnowsCandidate'
  BY <1>1 DEF AnswerTells, EngineKnowsCandidate, Told, Outcome, Raised
<1>2. CASE Start
  BY <1>1, <1>2 DEF Start, RegisterNotReady, Registered, ReceiveActivation, Waited,
     AckActivation, StartDriver
<1>3. CASE EngineUpdate \/ EngineReturns \/ EngineObeys
  BY <1>1, <1>3 DEF EngineUpdate, EngineReturns, EngineObeys
<1>4. ASSUME NEW c \in Calls, EngineCalls(c) PROVE AnswerTells' /\ EngineKnowsCandidate'
  BY <1>4 DEF EngineCalls, AnswerTells, EngineKnowsCandidate
<1>5. CASE CallReturns
  BY <1>5 DEF CallReturns, AnswerTells, EngineKnowsCandidate
<1>6. CASE CallFails
  BY <1>6 DEF CallFails, AnswerTells, EngineKnowsCandidate
<1>7. CASE Stop
  BY <1>1, <1>7 DEF Stop, SetExit, TellEngine, CloseStream, Join
<1>8. CASE DriverLoop
  BY <1>1, <1>8 DEF DriverLoop, DriverReceives, DriverChecks, ResultTimesOut,
     ResultCancelled, Result, Process, SendBack, Acknowledge, PutUpdate
<1>9. CASE StreamGets \/ StreamRecovers \/ \E k \in Kinds : ValidatorNotifies(k)
  BY <1>1, <1>9 DEF StreamGets, StreamRecovers, ValidatorNotifies
<1>10. CASE StreamBreaks
  BY <1>10 DEF StreamBreaks, AnswerTells, EngineKnowsCandidate
<1>11. CASE ValidatorAnswers
  BY <1>11 DEF ValidatorAnswers, AnswerTells, EngineKnowsCandidate, Told, Outcome, Raised,
     Statuses, TypeOK
<1>12. CASE UNCHANGED vars
  BY <1>1, <1>12 DEF vars
<1>13. QED
  BY <1>2, <1>3, <1>4, <1>5, <1>6, <1>7, <1>8, <1>9, <1>10, <1>11, <1>12
     DEF Next, Call, Environment

-----------------------------------------------------------------------------
(* Delivery in order.                                                      *)

(* A run of notifications is increasing.                                   *)
LEMMA RunInOrder ==
  ASSUME TakenRun, notes \in Seq(Kinds)
  PROVE  TakenInOrder
<1> SUFFICES ASSUME NEW j \in DOMAIN handled, NEW k \in DOMAIN handled, j < k,
                    ~(handled[k] = Reconnect /\ k = Len(handled))
             PROVE  handled[j] < handled[k]
  BY DEF TakenInOrder
<1>1. handled \in Seq(Nat)
  BY DEF TakenRun
<1>2. j \in Nat /\ k \in Nat /\ k <= Len(handled) /\ Len(handled) \in Nat
      /\ handled[1] \in Nat
  BY <1>1
<1>3. handled[k] = handled[1] + k - 1
  BY DEF TakenRun
<1>4. handled[j] = handled[1] + j - 1
  <2>1. j # Len(handled)
    BY <1>2
  <2>2. QED  BY <2>1 DEF TakenRun
<1>5. QED  BY <1>2, <1>3, <1>4

(* While connected, every notification from the first that was taken is    *)
(* taken, in the future or in the queue.                                   *)
LEMMA RunUnbroken ==
  ASSUME Threads, TakenRun, RestFollows
  PROVE  NoneSkipped
<1> SUFFICES ASSUME ~broken, handled # << >>, NEW n \in handled[1]..Len(notes)
             PROVE  n = future \/ n \in Range(handled) \/ n \in Range(recvQueue)
  BY DEF NoneSkipped
<1> DEFINE last == Len(notes) - Len(recvQueue)
<1>1. /\ handled \in Seq(Nat) /\ recvQueue \in Seq(0..MaxNotes) /\ notes \in Seq(Kinds)
      /\ future \in -2..MaxNotes /\ message \in 0..MaxNotes
  BY DEF TakenRun, Threads, TypeOK
<1>2. Len(handled) \in Nat \ {0} /\ handled[1] \in Nat /\ Len(recvQueue) \in Nat
      /\ Len(notes) \in Nat /\ n \in Nat /\ n <= Len(notes) /\ handled[1] <= n
      /\ future \in Int /\ message \in Nat
  BY <1>1, ConsensusBoundAssumption
<1>3. message # Reconnect /\ message = handled[Len(handled)]
  BY DEF TakenRun
<1>4. handled[Len(handled)] = handled[1] + Len(handled) - 1
  BY <1>1, <1>2, <1>3 DEF TakenRun
<1>5. CASE n > last
  <2>1. n - last \in DOMAIN recvQueue
    BY <1>1, <1>2, <1>5
  <2>2. recvQueue[n - last] = last + 1 + (n - last) - 1
    BY <2>1 DEF RestFollows
  <2>3. recvQueue[n - last] = n
    BY <2>2, <1>2
  <2>4. QED  BY <2>1, <2>3 DEF Range
<1>6. CASE n <= last /\ n # future
  <2>1. n <= message
    <3>1. CASE future > 0
      <4>1. future = message + 1 /\ future = last + 1 - 1
        BY <3>1 DEF RestFollows
      <4>2. QED  BY <4>1, <1>2, <1>6
    <3>2. CASE future <= 0
      <4>1. message = last + 1 - 1
        BY <3>2 DEF RestFollows
      <4>2. QED  BY <4>1, <1>2, <1>6
    <3>3. QED  BY <3>1, <3>2, <1>2
  <2>2. n - handled[1] + 1 \in 1..Len(handled)
    BY <2>1, <1>2, <1>3, <1>4
  <2>3. handled[n - handled[1] + 1] = n
    <3>1. CASE n = message
      <4>1. n - handled[1] + 1 = Len(handled)
        BY <3>1, <1>2, <1>3, <1>4
      <4>2. QED  BY <4>1, <3>1, <1>3
    <3>2. CASE n # message
      <4>1. n - handled[1] + 1 # Len(handled)
        BY <3>2, <1>2, <1>3, <1>4
      <4>2. handled[n - handled[1] + 1] = handled[1] + (n - handled[1] + 1) - 1
        <5>1. \A k \in 1..Len(handled) :
                k # Len(handled) => handled[k] = handled[1] + k - 1
          <6>1. DOMAIN handled = 1..Len(handled)
            BY <1>1
          <6>2. QED  BY <6>1 DEF TakenRun
        <5>2. QED  BY <4>1, <5>1, <2>2
      <4>3. QED  BY <4>2, <1>2
    <3>3. QED  BY <3>1, <3>2
  <2>4. QED  BY <2>2, <2>3, <1>1 DEF Range
<1>7. QED  BY <1>2, <1>5, <1>6

(* A notification that is sent changes no kind of those before it.         *)
LEMMA KindsKept ==
  ASSUME TypeOK, notes' = notes \/ \E k \in Kinds : notes' = Append(notes, k)
  PROVE  \A n \in 0..Len(notes) : Kind(n)' = Kind(n) /\ (IsUpdate(n)' <=> IsUpdate(n))
<1>1. \A n \in 1..Len(notes) : notes'[n] = notes[n]
  BY DEF TypeOK
<1>2. QED  BY <1>1 DEF Kind, IsUpdate, Reconnect

(* The driver thread's run grows by what it takes, which the future makes  *)
(* the next one or the marker; after the marker it takes nothing.          *)
LEMMA TakenRunStep ==
  ASSUME Threads, TakenRun, RestFollows, [Next]_vars
  PROVE  TakenRun'
<1> USE DEF streamVars, callVars, driverVars, stopVars, Goto, DriverGoto
<1>0. handled \in Seq(0..Len(notes)) /\ notes \in Seq(Kinds)
  BY DEF TakenRun, Threads, TypeOK
<1>1. ASSUME UNCHANGED << handled, message >>, broken => broken',
             notes' = notes \/ \E k \in Kinds : notes' = Append(notes, k),
             \/ driver' = driver
             \/ driver = "off" /\ driver' = "receive" /\ handled = << >>
             \/ driver \notin {"off", "ended"} /\ driver' \notin {"off", "receive"}
                  /\ (handled # << >> /\ message = Reconnect => driver' \in {"process", "ended"})
                  /\ (handled = << >> => driver' \in {"check", "result", "ended"})
      PROVE  TakenRun'
  <2>1. handled' \in Seq(0..Len(notes'))
    <3>1. 0..Len(notes) \subseteq 0..Len(notes')
      BY <1>0, <1>1
    <3>2. QED  BY <1>0, <1>1, <3>1
  <2>2. QED  BY <1>1, <2>1 DEF TakenRun
<1>2. CASE Start
  BY <1>1, <1>2 DEF Start, RegisterNotReady, Registered, ReceiveActivation, Waited,
     AckActivation, StartDriver, TakenRun, Threads, OneThreadAtFirst
<1>3. CASE EngineUpdate \/ EngineReturns \/ EngineObeys \/ Call
            \/ \E c \in Calls : EngineCalls(c)
  BY <1>1, <1>3 DEF EngineUpdate, EngineReturns, EngineObeys, EngineCalls, Call,
     CallReturns, CallFails
<1>4. CASE Stop
  BY <1>1, <1>4 DEF Stop, SetExit, TellEngine, CloseStream, Join, TakenRun
<1>5. CASE DriverReceives \/ DriverChecks \/ ResultTimesOut \/ ResultCancelled
  BY <1>1, <1>5 DEF DriverReceives, DriverChecks, ResultTimesOut, ResultCancelled, TakenRun
<1>6. CASE Result
  <2>1. /\ driver = "result" /\ driver' = "process" /\ future >= 0
        /\ message' = future /\ handled' = Append(handled, future) /\ UNCHANGED << broken, notes >>
    BY <1>6 DEF Result
  <2>2. handled \in Seq(0..Len(notes)) /\ future \in 0..Len(notes) /\ Len(handled) \in Nat
        /\ Len(notes) \in Nat
    BY <1>0, <2>1 DEF Threads, TypeOK, OnlySent
  <2>3. /\ handled' \in Seq(0..Len(notes)) /\ Len(handled') = Len(handled) + 1
        /\ DOMAIN handled' = 1..(Len(handled) + 1)
        /\ handled'[Len(handled) + 1] = future
        /\ \A k \in DOMAIN handled : handled'[k] = handled[k]
    BY <2>1, <2>2
  <2>4. future = Reconnect => broken
    BY DEF Threads, MarkerMeansBroken
  <2>5. ASSUME handled # << >>
        PROVE  /\ message = handled[Len(handled)] /\ message # Reconnect
               /\ 1 \in DOMAIN handled /\ handled[1] \in Nat
               /\ \A k \in DOMAIN handled : /\ handled[k] # Reconnect
                                            /\ handled[k] = handled[1] + k - 1
    <3>1. message = handled[Len(handled)] /\ message # Reconnect
      BY <2>1, <2>5 DEF TakenRun
    <3>2. QED  BY <2>2, <2>5, <3>1 DEF TakenRun
  <2>6. ASSUME NEW k \in DOMAIN handled'
        PROVE  \/ handled'[k] # Reconnect /\ handled'[k] = handled'[1] + k - 1
               \/ handled'[k] = Reconnect /\ k = Len(handled')
    <3>1. CASE k = Len(handled) + 1
      <4>1. CASE future = Reconnect
        BY <2>3, <3>1, <4>1
      <4>2. CASE future # Reconnect /\ handled = << >>
        BY <2>2, <2>3, <3>1, <4>2
      <4>3. CASE future # Reconnect /\ handled # << >>
        <5>1. future = message + 1
          BY <2>2, <4>3 DEF RestFollows, Reconnect
        <5>2. message = handled[1] + Len(handled) - 1 /\ handled'[1] = handled[1]
          <6>1. Len(handled) \in DOMAIN handled /\ 1 \in DOMAIN handled
            BY <2>2, <4>3
          <6>2. QED  BY <6>1, <2>3, <2>5, <4>3
        <5>3. handled'[k] = future /\ k = Len(handled) + 1 /\ handled[1] \in Nat
          BY <2>3, <2>5, <3>1, <4>3
        <5>4. handled'[k] = handled[1] + k - 1
          <6> DEFINE h == handled[1]
                     n == Len(handled)
          <6>1. future = h + n - 1 + 1 /\ k = n + 1 /\ h \in Nat /\ n \in Nat
            BY <5>1, <5>2, <5>3, <2>2
          <6> HIDE DEF h, n
          <6>2. future = h + k - 1
            BY <6>1
          <6>3. QED  BY <5>3, <6>2 DEF h
        <5>5. QED  BY <5>2, <5>3, <5>4, <4>3
      <4>4. QED  BY <4>1, <4>2, <4>3
    <3>2. CASE k \in DOMAIN handled
      <4>1. handled # << >> /\ 1 \in DOMAIN handled
        BY <2>2, <3>2
      <4>2. QED  BY <2>3, <2>5, <3>2, <4>1
    <3>3. QED  BY <2>2, <2>3, <3>1, <3>2
  <2>7. handled' # << >>
    BY <2>2, <2>3
  <2>8. message' = handled'[Len(handled')]
    BY <2>1, <2>3
  <2>9. QED  BY <2>1, <2>3, <2>4, <2>6, <2>7, <2>8 DEF TakenRun
<1>7. CASE Process
  <2>1. Kind(message) = "reconnect" \/ message # Reconnect
    BY DEF Kind
  <2>2. QED  BY <1>1, <1>7, <2>1 DEF Process, TakenRun
<1>8. CASE SendBack \/ Acknowledge \/ PutUpdate
  BY <1>1, <1>8 DEF SendBack, Acknowledge, PutUpdate, TakenRun
<1>9. CASE StreamGets \/ StreamRecovers \/ StreamBreaks \/ ValidatorAnswers
            \/ \E k \in Kinds : ValidatorNotifies(k)
  BY <1>1, <1>9 DEF StreamGets, StreamRecovers, StreamBreaks, ValidatorAnswers,
     ValidatorNotifies
<1>10. CASE UNCHANGED vars
  BY <1>1, <1>10 DEF vars
<1>11. QED
  BY <1>2, <1>3, <1>4, <1>5, <1>6, <1>7, <1>8, <1>9, <1>10
     DEF Next, DriverLoop, Environment

(* The future and the queue still go on where the run ends.                *)
LEMMA RestFollowsStep ==
  ASSUME Threads, TakenRun, RestFollows, [Next]_vars
  PROVE  RestFollows'
<1> USE DEF streamVars, callVars, driverVars, stopVars, Goto, DriverGoto
<1>1. ASSUME UNCHANGED << handled, message, future, broken, recvQueue, notes >>
      PROVE  RestFollows'
  BY <1>1 DEF RestFollows
<1>2. ASSUME UNCHANGED << handled, message, broken, recvQueue, notes >>, future' = -1,
             handled = << >>
      PROVE  RestFollows'
  BY <1>2 DEF RestFollows
<1>3. CASE Start
  BY <1>1, <1>2, <1>3 DEF Start, RegisterNotReady, Registered, ReceiveActivation, Waited,
     AckActivation, StartDriver, TakenRun, Threads, OneThreadAtFirst
<1>4. CASE EngineUpdate \/ EngineReturns \/ EngineObeys \/ Call
            \/ \E c \in Calls : EngineCalls(c)
  BY <1>1, <1>4 DEF EngineUpdate, EngineReturns, EngineObeys, EngineCalls, Call,
     CallReturns, CallFails
<1>5. CASE Stop
  <2>1. CASE SetExit \/ TellEngine \/ Join
    BY <1>1, <2>1 DEF SetExit, TellEngine, Join
  <2>2. CASE CloseStream
    <3>1. CASE future' = future
      BY <1>1, <2>2, <3>1 DEF CloseStream
    <3>2. CASE future = -1 /\ future' = -2
      BY <2>2, <3>2 DEF CloseStream, RestFollows
    <3>3. QED  BY <2>2, <3>1, <3>2 DEF CloseStream
  <2>3. QED  BY <1>5, <2>1, <2>2 DEF Stop
<1>6. CASE DriverReceives
  BY <1>2, <1>6 DEF DriverReceives, TakenRun
<1>7. CASE DriverChecks \/ ResultTimesOut \/ ResultCancelled \/ Process \/ SendBack
            \/ Acknowledge \/ PutUpdate
  BY <1>1, <1>7 DEF DriverChecks, ResultTimesOut, ResultCancelled, Process, SendBack,
     Acknowledge, PutUpdate
<1>8. CASE Result
  <2>1. /\ future >= 0 /\ message' = future /\ future' = -1
        /\ UNCHANGED << broken, recvQueue, notes >>
    BY <1>8 DEF Result
  <2>2. future = Reconnect => broken
    BY DEF Threads, MarkerMeansBroken
  <2>3. future \in Nat
    BY <2>1 DEF Threads, TypeOK
  <2>4. ~broken => future > 0
    BY <2>2, <2>3 DEF Reconnect
  <2>5. QED  BY <2>1, <2>4 DEF RestFollows
<1>9. CASE StreamGets
  <2>1. /\ recvQueue # << >> /\ future = -1
        /\ future' = Head(recvQueue) /\ recvQueue' = Tail(recvQueue)
        /\ UNCHANGED << handled, message, broken, notes >>
    BY <1>9 DEF StreamGets
  <2>2. recvQueue \in Seq(0..MaxNotes) /\ notes \in Seq(Kinds) /\ message \in 0..MaxNotes
    BY DEF Threads, TypeOK
  <2>3. /\ Len(recvQueue) \in Nat \ {0} /\ Len(notes) \in Nat
        /\ Len(Tail(recvQueue)) = Len(recvQueue) - 1
    BY <2>1, <2>2
  <2>4. /\ Head(recvQueue) = recvQueue[1] /\ 1 \in DOMAIN recvQueue
        /\ \A k \in DOMAIN Tail(recvQueue) :
             k + 1 \in DOMAIN recvQueue /\ Tail(recvQueue)[k] = recvQueue[k + 1]
             /\ k \in Nat
    BY <2>1, <2>2
  <2>5. CASE broken
    <3>1. future' = 0
      BY <2>1, <2>4, <2>5 DEF RestFollows, Reconnect
    <3>2. \A k \in DOMAIN recvQueue' : recvQueue'[k] = Reconnect
      BY <2>1, <2>4, <2>5 DEF RestFollows
    <3>3. QED  BY <2>1, <2>5, <3>1, <3>2 DEF RestFollows
  <2>6. CASE ~broken
    <3> DEFINE first == Len(notes) - Len(recvQueue) + 1
    <3>1. future' = first + 1 - 1
      BY <2>1, <2>4, <2>6 DEF RestFollows
    <3>2. handled # << >> => message = first - 1 /\ message # Reconnect
      BY <2>1, <2>6 DEF RestFollows, TakenRun
    <3>3. \A k \in DOMAIN Tail(recvQueue) : Tail(recvQueue)[k] = first + (k + 1) - 1
      BY <2>4, <2>6 DEF RestFollows
    <3>4. Len(notes') - Len(recvQueue') + 1 = first + 1 /\ first \in Int
      BY <2>1, <2>3
    <3>5. future' = first /\ future' > 0
      <4>1. future' = first
        BY <3>1, <3>4
      <4>2. Reconnect \notin Range(recvQueue) /\ Head(recvQueue) \in 0..MaxNotes
        <5>1. Head(recvQueue) \in 0..MaxNotes
          BY <2>1, <2>2, TailElements
        <5>2. QED  BY <5>1, <2>6 DEF Threads, MarkerMeansBroken
      <4>3. Head(recvQueue) # 0
        BY <2>4, <4>2 DEF Range, Reconnect
      <4>4. Head(recvQueue) \in Nat
        BY <4>2
      <4>5. QED  BY <4>1, <4>3, <4>4, <2>1
    <3>6. \A k \in DOMAIN recvQueue' : recvQueue'[k] = first + 1 + k - 1
      BY <2>1, <2>4, <3>3, <3>4
    <3>7. (handled # << >> /\ future > 0 => message # Reconnect /\ future = message + 1)'
      BY <2>1, <3>2, <3>4, <3>5
    <3>8. (~broken /\ future > 0 => future = Len(notes) - Len(recvQueue) + 1 - 1)'
      BY <3>4, <3>5
    <3> HIDE DEF first
    <3>9. QED  BY <2>1, <2>6, <3>4, <3>5, <3>6, <3>7, <3>8 DEF RestFollows
  <2>7. QED  BY <2>5, <2>6
<1>10. CASE StreamBreaks
  <2>1. /\ broken' /\ recvQueue' = << >> /\ future' \in {future, -2}
        /\ UNCHANGED << handled, message, notes >>
    BY <1>10 DEF StreamBreaks
  <2>2. QED  BY <2>1 DEF RestFollows
<1>11. CASE StreamRecovers
  <2>1. /\ ~ready /\ recvQueue' = << Reconnect >>
        /\ UNCHANGED << handled, message, notes, future, broken >>
    BY <1>11 DEF StreamRecovers
  <2>2. broken
    BY <2>1 DEF Threads, MarkerMeansBroken
  <2>3. QED  BY <2>1, <2>2 DEF RestFollows
<1>12. ASSUME NEW k \in Kinds, ValidatorNotifies(k) PROVE RestFollows'
  <2>1. /\ ~broken /\ notes' = Append(notes, k) /\ recvQueue' = Append(recvQueue, Len(notes'))
        /\ UNCHANGED << handled, message, future, broken >>
    BY <1>12 DEF ValidatorNotifies
  <2>2. notes \in Seq(Kinds) /\ recvQueue \in Seq(0..MaxNotes)
    BY DEF Threads, TypeOK
  <2>3. /\ Len(notes') = Len(notes) + 1 /\ Len(recvQueue') = Len(recvQueue) + 1
        /\ Len(notes) \in Nat /\ Len(recvQueue) \in Nat
    BY <2>1, <2>2
  <2>4. /\ DOMAIN recvQueue' = 1..(Len(recvQueue) + 1)
        /\ recvQueue'[Len(recvQueue) + 1] = Len(notes) + 1
        /\ \A j \in DOMAIN recvQueue : recvQueue'[j] = recvQueue[j] /\ j \in Nat
        /\ DOMAIN recvQueue = 1..Len(recvQueue)
    BY <2>1, <2>2, <2>3
  <2>5. Len(notes') - Len(recvQueue') + 1 = Len(notes) - Len(recvQueue) + 1
    BY <2>3
  <2>6. ASSUME NEW j \in DOMAIN recvQueue'
        PROVE  recvQueue'[j] = Len(notes) - Len(recvQueue) + 1 + j - 1
    <3>1. CASE j \in DOMAIN recvQueue
      BY <2>1, <2>4, <3>1 DEF RestFollows
    <3>2. CASE j = Len(recvQueue) + 1
      BY <2>3, <2>4, <3>2
    <3>3. QED  BY <2>3, <2>4, <3>1, <3>2
  <2>7. QED  BY <2>1, <2>5, <2>6 DEF RestFollows
<1>13. CASE ValidatorAnswers
  BY <1>1, <1>13 DEF ValidatorAnswers
<1>14. CASE UNCHANGED vars
  BY <1>1, <1>14 DEF vars
<1>15. QED
  BY <1>3, <1>4, <1>5, <1>6, <1>7, <1>8, <1>9, <1>10, <1>11, <1>12, <1>13, <1>14
     DEF Next, DriverLoop, Environment

(* What the driver thread stops for or puts is still an update.            *)
LEMMA PutsUpdatesStep ==
  ASSUME Threads, PutsUpdates, [Next]_vars
  PROVE  PutsUpdates'
<1> USE DEF streamVars, callVars, driverVars, stopVars, Goto, DriverGoto
<1>1. ASSUME message' = message, notes' = notes \/ \E k \in Kinds : notes' = Append(notes, k),
             \/ driver' = driver
             \/ driver' \in {"exit", "tell", "close", "put"} /\ IsUpdate(message)
             \/ driver' = "ack" /\ Kind(message) # "activated"
             \/ driver' \notin {"exit", "tell", "close", "put", "ack", "send"}
      PROVE  PutsUpdates'
  <2>1. message \in 0..Len(notes)
    BY DEF Threads, OnlySent, TypeOK
  <2>2. Kind(message)' = Kind(message) /\ (IsUpdate(message)' <=> IsUpdate(message))
    BY <1>1, <2>1, KindsKept DEF Threads, Kind, IsUpdate
  <2>3. QED  BY <1>1, <2>2 DEF PutsUpdates
<1>2. CASE Start
  BY <1>1, <1>2 DEF Start, RegisterNotReady, Registered, ReceiveActivation, Waited,
     AckActivation, StartDriver
<1>3. CASE EngineUpdate \/ EngineReturns \/ EngineObeys \/ Call
            \/ \E c \in Calls : EngineCalls(c)
  BY <1>1, <1>3 DEF EngineUpdate, EngineReturns, EngineObeys, EngineCalls, Call,
     CallReturns, CallFails
<1>4. CASE Stop
  <2>1. IsUpdate(message) => Kind(message) # "activated"
    BY DEF IsUpdate, Kind
  <2>2. QED
    BY <1>1, <1>4, <2>1 DEF Stop, SetExit, TellEngine, CloseStream, Join, PutsUpdates
<1>5. CASE DriverReceives \/ DriverChecks \/ ResultTimesOut \/ ResultCancelled
  BY <1>1, <1>5 DEF DriverReceives, DriverChecks, ResultTimesOut, ResultCancelled
<1>6. CASE Result
  BY <1>6 DEF Result, PutsUpdates
<1>7. CASE Process
  <2>1. Kind(message) = "deactivated" => IsUpdate(message)
    BY DEF Kind, IsUpdate
  <2>2. QED  BY <1>1, <1>7, <2>1 DEF Process
<1>7a. CASE SendBack
  BY <1>7a DEF SendBack, PutsUpdates, Kind, IsUpdate
<1>8. CASE Acknowledge
  <2>1. /\ driver = "send" /\ message \in 1..Len(notes) /\ message # Reconnect
        /\ notes[message] \in Kinds
    BY <1>8 DEF Acknowledge, Threads, OnlySent, TypeOK, Reconnect
  <2>2. Kind(message) # "ping" => IsUpdate(message)
    BY <2>1 DEF PutsUpdates, Kind, IsUpdate, Kinds
  <2>3. QED  BY <1>1, <1>8, <2>2 DEF Acknowledge
<1>9. CASE PutUpdate
  BY <1>1, <1>9 DEF PutUpdate
<1>10. CASE StreamGets \/ StreamRecovers \/ StreamBreaks \/ ValidatorAnswers
            \/ \E k \in Kinds : ValidatorNotifies(k)
  BY <1>1, <1>10 DEF StreamGets, StreamRecovers, StreamBreaks, ValidatorAnswers,
     ValidatorNotifies
<1>11. CASE UNCHANGED vars
  BY <1>1, <1>11 DEF vars
<1>12. QED
  BY <1>2, <1>3, <1>4, <1>5, <1>6, <1>7, <1>7a, <1>8, <1>9, <1>10, <1>11
     DEF Next, DriverLoop, Environment

(* What has been put is still the updates that have been taken: each leaves *)
(* the driver thread's hands once, before the next one is taken.           *)
LEMMA PutIsTakenStep ==
  ASSUME Threads, TakenRun, RestFollows, PutsUpdates, PutIsTaken, [Next]_vars
  PROVE  PutIsTaken'
<1> USE DEF streamVars, callVars, driverVars, stopVars, Goto, DriverGoto
<1> DEFINE Idle == {"receive", "check", "result"}
<1>1. /\ handled \in Seq(0..Len(notes)) /\ DOMAIN handled = 1..Len(handled)
      /\ Len(handled) \in Nat /\ Len(notes) \in Nat /\ Range(handled) \subseteq 0..Len(notes)
      /\ delivered \in Seq(1..Len(notes)) /\ message \in 0..Len(notes)
  BY ElementsType DEF TakenRun, Threads, TypeOK, OnlySent
<1>2. handled = << >> => Taken = {}
  BY ElementsType DEF Taken
<1>3. ASSUME UNCHANGED << handled, message, delivered >>,
             notes' = notes \/ \E k \in Kinds : notes' = Append(notes, k),
             \/ driver' = driver
             \/ driver' = "ended"
             \/ driver # "ended" /\ (driver' \in Idle <=> driver \in Idle)
             \/ driver # "ended" /\ ~IsUpdate(message)
             \/ driver # "ended" /\ handled = << >>
      PROVE  PutIsTaken'
  <2>1. Taken' = Taken
    <3>1. \A n \in Range(handled) : IsUpdate(n)' <=> IsUpdate(n)
      <4>1. \A n \in 0..Len(notes) : IsUpdate(n)' <=> IsUpdate(n)
        BY <1>3, KindsKept DEF Threads
      <4>2. QED  BY <4>1, <1>1
    <3>2. QED  BY <1>3, <3>1 DEF Taken
  <2>2. Increasing(delivered)'
    BY <1>3 DEF PutIsTaken, Increasing
  <2>3. CASE driver = "ended"
    <3>1. driver' = "ended"
      BY <1>3, <2>3
    <3>2. QED  BY <1>3, <2>1, <2>2, <2>3, <3>1 DEF PutIsTaken, InHand
  <2>4. CASE driver # "ended"
    <3>1. Range(delivered) = {n \in Taken : ~InHand(n)}
      BY <2>4 DEF PutIsTaken
    <3>2. CASE driver \in Idle \/ ~IsUpdate(message) \/ handled = << >>
      <4>1. Range(delivered) = Taken
        BY <3>1, <3>2, <1>2 DEF InHand, Taken
      <4>2. CASE driver' = "ended"
        BY <1>3, <2>1, <2>2, <4>1, <4>2 DEF PutIsTaken
      <4>3. CASE driver' \in Idle
        BY <1>3, <2>1, <2>2, <4>1, <4>3 DEF PutIsTaken, InHand
      <4>4. CASE driver' # "ended" /\ driver' \notin Idle
        <5>1. driver' = driver \/ ~IsUpdate(message) \/ handled = << >>
          BY <1>3, <3>2, <4>4
        <5>2. \A n \in Taken : ~InHand(n)'
          BY <1>3, <3>2, <4>4, <5>1, <1>2 DEF InHand, Taken
        <5>3. QED  BY <1>3, <2>1, <2>2, <4>1, <5>2 DEF PutIsTaken
      <4>5. QED  BY <4>2, <4>3, <4>4
    <3>3. CASE driver \notin Idle /\ IsUpdate(message) /\ handled # << >>
      <4>1. driver' \notin Idle
        BY <1>3, <2>4, <3>3
      <4>2. \A n : InHand(n)' <=> InHand(n)
        BY <1>3, <3>3, <4>1 DEF InHand
      <4>3. QED  BY <1>3, <2>1, <2>2, <3>1, <4>2 DEF PutIsTaken
    <3>4. QED  BY <3>2, <3>3
  <2>5. QED  BY <2>3, <2>4
<1>4. CASE Start
  BY <1>3, <1>4 DEF Start, RegisterNotReady, Registered, ReceiveActivation, Waited,
     AckActivation, StartDriver, TakenRun, Threads, OneThreadAtFirst
<1>5. CASE EngineUpdate \/ EngineReturns \/ EngineObeys \/ Call
            \/ \E c \in Calls : EngineCalls(c)
  BY <1>3, <1>5 DEF EngineUpdate, EngineReturns, EngineObeys, EngineCalls, Call,
     CallReturns, CallFails
<1>6. CASE Stop
  BY <1>3, <1>6 DEF Stop, SetExit, TellEngine, CloseStream, Join
<1>7. CASE DriverReceives \/ DriverChecks \/ ResultTimesOut \/ ResultCancelled
  BY <1>3, <1>7 DEF DriverReceives, DriverChecks, ResultTimesOut, ResultCancelled
<1>8. CASE Result
  <2>1. /\ driver = "result" /\ driver' = "process" /\ future >= 0
        /\ message' = future /\ handled' = Append(handled, future)
        /\ UNCHANGED << delivered, notes >>
    BY <1>8 DEF Result
  <2>2. future \in 0..Len(notes)
    BY <2>1, <1>1 DEF Threads, TypeOK, OnlySent
  <2>3. Range(handled') = Range(handled) \cup {future}
    <3> DEFINE Ids == 0..Len(notes)
    <3>1. handled \in Seq(Ids) /\ future \in Ids
      BY <1>1, <2>2
    <3> HIDE DEF Ids
    <3>2. QED  BY <2>1, <3>1, AppendElements
  <2>4. IsUpdate(future) => future \notin Range(handled)
    <3> SUFFICES ASSUME IsUpdate(future), NEW j \in DOMAIN handled, handled[j] = future
                 PROVE  FALSE
      BY DEF Range
    <3>0. notes \in Seq(Kinds)
      BY DEF Threads, TypeOK
    <3>1. future > 0 /\ handled # << >>
      BY <1>1, <2>2 DEF IsUpdate, Reconnect
    <3>2. future = message + 1 /\ message # Reconnect /\ message = handled[Len(handled)]
      BY <3>1 DEF RestFollows, TakenRun
    <3>3. CASE j = Len(handled)
      BY <1>1, <3>2, <3>3
    <3>4. CASE j # Len(handled)
      <4>1. j < Len(handled) /\ Len(handled) \in DOMAIN handled
        BY <1>1, <3>4
      <4>2. handled[j] < handled[Len(handled)]
        BY <3>0, <4>1, <3>2, RunInOrder DEF TakenInOrder
      <4>3. QED  BY <4>2, <3>2, <1>1
    <3>5. QED  BY <3>3, <3>4
  <2>5. \A n : IsUpdate(n)' <=> IsUpdate(n)
    BY <2>1 DEF IsUpdate
  <2>6. \A n : InHand(n)' <=> n = future
    BY <2>1 DEF InHand
  <2>7. Range(delivered) = Taken
    BY <2>1 DEF PutIsTaken, InHand, Taken
  <2>8. Range(delivered)' = {n \in Taken' : ~InHand(n)'}
    BY <2>1, <2>3, <2>4, <2>5, <2>6, <2>7 DEF Taken
  <2>9. Increasing(delivered)'
    BY <2>1 DEF PutIsTaken, Increasing
  <2>10. QED  BY <2>8, <2>9 DEF PutIsTaken
<1>9. CASE Process
  <2>1. driver' = "check" => ~IsUpdate(message)
    BY <1>9 DEF Process, Kind, IsUpdate
  <2>2. /\ UNCHANGED << handled, message, delivered, notes >>
        /\ driver = "process" /\ driver' \in {"ended", "check", "exit", "ack"}
    BY <1>9 DEF Process
  <2>3. QED  BY <1>3, <2>1, <2>2
<1>9a. CASE SendBack
  <2>1. UNCHANGED << handled, message, delivered, notes >>
    BY <1>9a DEF SendBack
  <2>2. driver = "ack" /\ driver' \in {"ended", "send"}
    BY <1>9a DEF SendBack
  <2>3. QED  BY <1>3, <2>1, <2>2
<1>10. CASE Acknowledge
  <2>1. driver' = "check" => ~IsUpdate(message)
    BY <1>10 DEF Acknowledge, Kind, IsUpdate
  <2>2. /\ UNCHANGED << handled, message, delivered, notes >>
        /\ driver = "send" /\ driver' \in {"check", "put"}
    BY <1>10 DEF Acknowledge
  <2>3. QED  BY <1>3, <2>1, <2>2
<1>11. CASE PutUpdate
  <2>1. /\ driver = "put" /\ driver' = "check" /\ delivered' = Append(delivered, message)
        /\ UNCHANGED << handled, message, notes >>
    BY <1>11 DEF PutUpdate
  <2>2. IsUpdate(message) /\ message \in 1..Len(notes)
    BY <2>1 DEF PutsUpdates, Threads, OnlySent
  <2>3. handled # << >> /\ message = handled[Len(handled)] /\ message # Reconnect
    BY <2>1, <2>2 DEF TakenRun, Reconnect
  <2>4. message \in Taken
    BY <1>1, <2>2, <2>3 DEF Taken, Range
  <2>5. Range(delivered) = {n \in Taken : n # message}
    BY <2>1 DEF PutIsTaken, InHand
  <2>6. Range(delivered') = Range(delivered) \cup {message}
    <3> DEFINE Ids == 1..Len(notes)
    <3>1. delivered \in Seq(Ids) /\ message \in Ids
      BY <1>1, <2>2
    <3> HIDE DEF Ids
    <3>2. QED  BY <2>1, <3>1, AppendElements
  <2>7. Taken' = Taken /\ \A n : ~InHand(n)'
    BY <2>1 DEF Taken, IsUpdate, InHand
  <2>8. Range(delivered)' = {n \in Taken' : ~InHand(n)'}
    BY <2>4, <2>5, <2>6, <2>7
  <2>9. \A n \in Taken : n # message => n < message
    <3> SUFFICES ASSUME NEW j \in DOMAIN handled, handled[j] # message
                 PROVE  handled[j] < message
      BY DEF Taken, Range
    <3>1. j < Len(handled) /\ Len(handled) \in DOMAIN handled
      BY <1>1, <2>3
    <3>2. notes \in Seq(Kinds)
      BY DEF Threads, TypeOK
    <3>3. QED  BY <3>1, <3>2, <2>3, RunInOrder DEF TakenInOrder
  <2>10. \A j \in DOMAIN delivered : delivered[j] < message
    BY <2>5, <2>9 DEF Range
  <2>11. /\ DOMAIN delivered' = 1..(Len(delivered) + 1) /\ DOMAIN delivered = 1..Len(delivered)
         /\ Len(delivered) \in Nat /\ delivered'[Len(delivered) + 1] = message
         /\ \A j \in DOMAIN delivered : delivered'[j] = delivered[j]
    BY <1>1, <2>1, <2>2
  <2>12. Increasing(delivered')
    <3>1. ASSUME NEW j \in DOMAIN delivered', NEW k \in DOMAIN delivered', j < k
          PROVE  delivered'[j] < delivered'[k]
      <4>1. j \in DOMAIN delivered
        BY <2>11, <3>1
      <4>2. CASE k \in DOMAIN delivered
        <5>1. delivered[j] < delivered[k]
          BY <3>1, <4>1, <4>2 DEF PutIsTaken, Increasing
        <5>2. QED  BY <4>1, <4>2, <5>1, <2>11
      <4>3. CASE k = Len(delivered) + 1
        BY <4>1, <4>3, <2>10, <2>11
      <4>4. QED  BY <4>2, <4>3, <2>11
    <3>2. QED  BY <3>1 DEF Increasing
  <2>13. QED  BY <2>8, <2>12 DEF PutIsTaken, Increasing
<1>12. CASE StreamGets \/ StreamRecovers \/ StreamBreaks \/ ValidatorAnswers
            \/ \E k \in Kinds : ValidatorNotifies(k)
  BY <1>3, <1>12 DEF StreamGets, StreamRecovers, StreamBreaks, ValidatorAnswers,
     ValidatorNotifies
<1>13. CASE UNCHANGED vars
  BY <1>3, <1>13 DEF vars
<1>14. QED
  BY <1>4, <1>5, <1>6, <1>7, <1>8, <1>9, <1>9a, <1>10, <1>11, <1>12, <1>13
     DEF Next, DriverLoop, Environment

-----------------------------------------------------------------------------
(* The theorems.                                                           *)

(* The invariant holds before the engine is registered.                    *)
LEMMA InitIInv == Init => IInv
<1> SUFFICES ASSUME Init PROVE IInv
  OBVIOUS
<1>1. TypeOK
  <2>1. /\ main = "register" /\ driver = "off" /\ answer = "none"
        /\ future \in -2..MaxNotes /\ message \in 0..MaxNotes /\ notReady \in 0..MaxNotReady
    <3>1. /\ main = "register" /\ driver = "off" /\ answer = "none"
          /\ future = -2 /\ message = 0 /\ notReady = 0
      BY DEF Init, Reconnect
    <3>2. MaxNotes \in Nat /\ MaxNotReady \in Nat
      BY ConsensusBoundAssumption
    <3>3. QED  BY <3>1, <3>2
  <2>2. /\ updates \in Seq(1..MaxNotes) /\ recvQueue \in Seq(0..MaxNotes)
        /\ notes \in Seq(Kinds) /\ Len(notes) <= MaxNotes
    <3>1. updates = << >> /\ recvQueue = << >> /\ notes = << >>
      BY DEF Init
    <3>2. MaxNotes \in Nat
      BY ConsensusBoundAssumption
    <3>3. QED  BY <3>1, <3>2
  <2>3. exit \in BOOLEAN /\ told \in BOOLEAN /\ candidate \in BOOLEAN /\ building \in BOOLEAN
    BY DEF Init
  <2>4. QED  BY <2>1, <2>2, <2>3 DEF TypeOK
<1>2. OnlySent /\ MarkerMeansBroken /\ OneThreadAtFirst
  <2>1. Len(notes) = 0 /\ Range(recvQueue) = {} /\ acked = {} /\ delivered = << >>
    BY ElementsType DEF Init
  <2>2. /\ future = -2 /\ message = 0 /\ driver = "off" /\ ready /\ ~closed
        /\ main = "register"
    BY DEF Init, Reconnect
  <2>3. QED  BY <2>1, <2>2 DEF OnlySent, MarkerMeansBroken, OneThreadAtFirst, Reconnect
<1>3. AnswerTells
  BY DEF Init, AnswerTells
<1>4. AckMeansDelivery /\ EngineKnowsCandidate
  BY ElementsType DEF Init, AckMeansDelivery, EngineKnowsCandidate
<1>5. /\ handled = << >> /\ delivered = << >> /\ recvQueue = << >> /\ future = -2
      /\ driver = "off"
  BY DEF Init
<1>6. TakenRun /\ RestFollows /\ PutsUpdates
  BY <1>5 DEF TakenRun, RestFollows, PutsUpdates
<1>7. DeliversInOrder
  BY <1>5, ElementsType
     DEF DeliversInOrder, TakenInOrder, NoneSkipped, PutIsTaken, Increasing, Taken
<1>8. QED  BY <1>1, <1>2, <1>3, <1>4, <1>6, <1>7 DEF IInv

(* The inductive invariant, for any engine and any notifications.          *)
THEOREM IInvAlways == Spec => []IInv
<1>1. IInv /\ [Next]_vars => IInv'
  <2> SUFFICES ASSUME IInv, [Next]_vars PROVE IInv'
    OBVIOUS
  <2>1. Threads /\ AckMeansDelivery /\ AnswerTells /\ EngineKnowsCandidate /\ TakenRun
        /\ RestFollows /\ PutsUpdates /\ PutIsTaken
    BY DEF IInv, Threads, DeliversInOrder
  <2>2. Threads' /\ TakenRun' /\ RestFollows' /\ PutsUpdates' /\ PutIsTaken'
    BY <2>1, ThreadsStep, TakenRunStep, RestFollowsStep, PutsUpdatesStep, PutIsTakenStep
  <2>3. AckMeansDelivery' /\ AnswerTells' /\ EngineKnowsCandidate'
    BY <2>1, AckStep, CandidateStep DEF Threads
  <2>4. Threads /\ TakenRun /\ RestFollows => TakenInOrder /\ NoneSkipped
    BY RunInOrder, RunUnbroken DEF Threads, TypeOK
  <2>5. TakenInOrder' /\ NoneSkipped'
    BY <2>2, RunInOrder, RunUnbroken, PTL DEF Threads, TypeOK
  <2>6. QED  BY <2>2, <2>3, <2>5 DEF IInv, Threads, DeliversInOrder
<1>2. QED  BY InitIInv, <1>1, PTL DEF Spec

(* The variables keep their types, and the driver thread ends only after   *)
(* stop() or a disconnect.                                                 *)
THEOREM TypeCorrect == Spec => []TypeOK
<1>1. IInv => TypeOK
  BY DEF IInv
<1>2. QED  BY IInvAlways, <1>1, PTL

(* The validator is told that a notification arrived only if the engine    *)
(* gets it.                                                                *)
THEOREM AcknowledgedIsDelivered == Spec => []AckMeansDelivery
<1>1. IInv => AckMeansDelivery
  BY DEF IInv
<1>2. QED  BY IInvAlways, <1>1, PTL

(* Updates are given to the engine once each, in the validator's order,    *)
(* with none skipped while connected.                                      *)
THEOREM DeliveredInOrder == Spec => []DeliversInOrder
<1>1. IInv => DeliversInOrder
  BY DEF IInv
<1>2. QED  BY IInvAlways, <1>1, PTL

(* Until a call is lost, the engine is right about its candidate block.    *)
THEOREM CandidateIsKnown == Spec => []EngineKnowsCandidate
<1>1. IInv => EngineKnowsCandidate
  BY DEF IInv
<1>2. QED  BY IInvAlways, <1>1, PTL

=============================================================================
