-------------------------- MODULE JavaStreamProofs --------------------------
(***************************************************************************)
(* Proofs about JavaStream for every set of callers, ids and messages and  *)
(* every number of disconnects.                                            *)
(***************************************************************************)
EXTENDS JavaStream, QueueFacts, TLAPS

USE CallerAssumption, IdAssumption, BoundAssumption

-----------------------------------------------------------------------------
(* The invariant holds at the start.                                       *)
LEMMA InitIInv == Init => IInv
<1> SUFFICES ASSUME Init PROVE IInv
  OBVIOUS
<1>1. Range(<< >>) = {} /\ IsInjective(<< >>)
  BY DEF Range, IsInjective
<1>2. TypeOK
  BY DEF Init, TypeOK, CorrelationIds
<1>3. QED
  BY <1>1, <1>2 DEF Init, IInv, CallersApart, OncePerMessage,
     MappedWhileUnderway, ReplyNeverQueued, WaiterAccounted, Underway, Keys,
     ErrorsAfterDisconnect, MarkerToCome, MapHoldsUnanswered

(* The socket is known to nobody yet: no request moves.                   *)
LEMMA CreateSocketStep ==
  ASSUME IInv, CreateSocket
  PROVE  IInv'
<1> USE DEF CreateSocket, IInv, vars, callerVars, valVars, recvVars, discVars, queueVars
<1>1. TypeOK'
  BY DEF TypeOK
<1>2. CallersApart'
  BY DEF TypeOK, CallersApart, Underway
<1>3. OncePerMessage'
  BY DEF TypeOK, OncePerMessage
<1>4. MappedWhileUnderway'
  BY DEF TypeOK, MappedWhileUnderway, OncePerMessage, Underway, Keys
<1>5. ReplyNeverQueued'
  BY DEF TypeOK, ReplyNeverQueued
<1>6. WaiterAccounted'
  BY DEF TypeOK, WaiterAccounted, InFlight
<1>7. ErrorsAfterDisconnect'
  BY DEF TypeOK, ErrorsAfterDisconnect, CorrelationIds
<1>8. MapHoldsUnanswered'
  BY DEF TypeOK, MapHoldsUnanswered, ErrorsAfterDisconnect, Keys,
     MappedWhileUnderway, OncePerMessage, CorrelationIds
<1>9. MarkerToCome'
  BY DEF TypeOK, MarkerToCome
<1>10. QED  BY <1>1, <1>2, <1>3, <1>4, <1>5, <1>6, <1>7, <1>8, <1>9

(* Connecting the socket moves no request.                                *)
LEMMA ConnectSocketStep ==
  ASSUME IInv, ConnectSocket
  PROVE  IInv'
<1> USE DEF ConnectSocket, IInv, vars, callerVars, valVars, recvVars, discVars, queueVars
<1>1. TypeOK'
  BY DEF TypeOK
<1>2. CallersApart'
  BY DEF TypeOK, CallersApart, Underway
<1>3. OncePerMessage'
  BY DEF TypeOK, OncePerMessage
<1>4. MappedWhileUnderway'
  BY DEF TypeOK, MappedWhileUnderway, OncePerMessage, Underway, Keys
<1>5. ReplyNeverQueued'
  BY DEF TypeOK, ReplyNeverQueued
<1>6. WaiterAccounted'
  BY DEF TypeOK, WaiterAccounted, InFlight
<1>7. ErrorsAfterDisconnect'
  BY DEF TypeOK, ErrorsAfterDisconnect, CorrelationIds
<1>8. MapHoldsUnanswered'
  BY DEF TypeOK, MapHoldsUnanswered, ErrorsAfterDisconnect, Keys,
     MappedWhileUnderway, OncePerMessage, CorrelationIds
<1>9. MarkerToCome'
  BY DEF TypeOK, MarkerToCome
<1>10. QED  BY <1>1, <1>2, <1>3, <1>4, <1>5, <1>6, <1>7, <1>8, <1>9

(* The senders that are woken still hold their unsent requests.           *)
LEMMA SignalSendersStep ==
  ASSUME IInv, SignalSenders
  PROVE  IInv'
<1> USE DEF SignalSenders, IInv, vars, callerVars, valVars, recvVars, discVars, queueVars
<1>1. TypeOK'
  BY DEF TypeOK
<1>2. CallersApart'
  BY DEF TypeOK, CallersApart, Underway
<1>3. OncePerMessage'
  BY DEF TypeOK, OncePerMessage
<1>4. MappedWhileUnderway'
  BY DEF TypeOK, MappedWhileUnderway, OncePerMessage, Underway, Keys
<1>5. ReplyNeverQueued'
  BY DEF TypeOK, ReplyNeverQueued
<1>6. WaiterAccounted'
  BY DEF TypeOK, WaiterAccounted, InFlight
<1>7. ErrorsAfterDisconnect'
  BY DEF TypeOK, ErrorsAfterDisconnect, CorrelationIds
<1>8. MapHoldsUnanswered'
  BY DEF TypeOK, MapHoldsUnanswered, ErrorsAfterDisconnect, Keys,
     MappedWhileUnderway, OncePerMessage, CorrelationIds
<1>9. MarkerToCome'
  BY DEF TypeOK, MarkerToCome
<1>10. QED  BY <1>1, <1>2, <1>3, <1>4, <1>5, <1>6, <1>7, <1>8, <1>9

(* A fresh id is underway nowhere, and gets its entry before it is sent.  *)
LEMMA PutFutureStep ==
  ASSUME IInv, NEW c \in Callers, NEW i \in Ids, PutFuture(c, i)
  PROVE  IInv'
<1> USE DEF PutFuture, IInv, vars, callerVars, valVars, recvVars, discVars, queueVars
<1>1. TypeOK'
  BY DEF TypeOK
<1>2. CallersApart'
  <2>1. i \notin Underway \cup resolved \cup lost /\ rMsg # i /\ i # NoId
    BY DEF TypeOK, OncePerMessage, Underway
  <2>2. Underway' = Underway
    BY DEF Underway
  <2>3. \A d \in Callers : d # c => cur'[d] = cur[d] /\ at'[d] = at[d]
    BY DEF TypeOK
  <2>4. cur'[c] = i /\ at'[c] = "send" /\ futures'[i] = "bytes"
    BY DEF TypeOK, CorrelationIds
  <2>5. \A d \in Callers : cur[d] # i
    BY DEF CallersApart, TypeOK
  <2>6. QED
    BY <2>1, <2>2, <2>3, <2>4, <2>5 DEF TypeOK, CallersApart, CorrelationIds
<1>3. OncePerMessage'
  BY DEF TypeOK, OncePerMessage
<1>4. MappedWhileUnderway'
  BY DEF TypeOK, MappedWhileUnderway, OncePerMessage, Underway, Keys
<1>5. ReplyNeverQueued'
  BY DEF TypeOK, ReplyNeverQueued
<1>6. WaiterAccounted'
  BY DEF TypeOK, WaiterAccounted, InFlight, CallersApart
<1>7. ErrorsAfterDisconnect'
  BY DEF TypeOK, ErrorsAfterDisconnect, CorrelationIds
<1>8. MapHoldsUnanswered'
  BY DEF TypeOK, MapHoldsUnanswered, ErrorsAfterDisconnect, Keys,
     MappedWhileUnderway, OncePerMessage, CorrelationIds
<1>9. MarkerToCome'
  BY DEF TypeOK, MarkerToCome
<1>10. QED  BY <1>1, <1>2, <1>3, <1>4, <1>5, <1>6, <1>7, <1>8, <1>9

(* Whether it waits for the socket or not, the sender keeps its id.       *)
LEMMA CheckSocketStep ==
  ASSUME IInv, NEW c \in Callers, CheckSocket(c)
  PROVE  IInv'
<1> USE DEF CheckSocket, IInv, vars, callerVars, valVars, recvVars, discVars, queueVars
<1>1. TypeOK'
  BY DEF TypeOK
<1>2. CallersApart'
  BY DEF TypeOK, CallersApart, Underway
<1>3. OncePerMessage'
  BY DEF TypeOK, OncePerMessage
<1>4. MappedWhileUnderway'
  BY DEF TypeOK, MappedWhileUnderway, OncePerMessage, Underway, Keys
<1>5. ReplyNeverQueued'
  BY DEF TypeOK, ReplyNeverQueued
<1>6. WaiterAccounted'
  BY DEF TypeOK, WaiterAccounted, InFlight
<1>7. ErrorsAfterDisconnect'
  BY DEF TypeOK, ErrorsAfterDisconnect, CorrelationIds
<1>8. MapHoldsUnanswered'
  BY DEF TypeOK, MapHoldsUnanswered, ErrorsAfterDisconnect, Keys,
     MappedWhileUnderway, OncePerMessage, CorrelationIds
<1>9. MarkerToCome'
  BY DEF TypeOK, MarkerToCome
<1>10. QED  BY <1>1, <1>2, <1>3, <1>4, <1>5, <1>6, <1>7, <1>8, <1>9

(* The request a sender holds moves to the validator.                     *)
LEMMA TransmitStep ==
  ASSUME IInv, NEW c \in Callers, Transmit(c)
  PROVE  IInv'
<1> USE DEF Transmit, IInv, vars, callerVars, valVars, recvVars, discVars, queueVars
<1>1. TypeOK'
  BY DEF TypeOK
<1>2. CallersApart'
  BY DEF TypeOK, CallersApart, Underway
<1>3. OncePerMessage'
  BY DEF TypeOK, OncePerMessage, CallersApart, Underway
<1>4. MappedWhileUnderway'
  BY DEF TypeOK, MappedWhileUnderway, OncePerMessage, Underway, Keys, CallersApart
<1>5. ReplyNeverQueued'
  BY DEF TypeOK, ReplyNeverQueued
<1>6. WaiterAccounted'
  BY DEF TypeOK, WaiterAccounted, InFlight
<1>7. ErrorsAfterDisconnect'
  BY DEF TypeOK, ErrorsAfterDisconnect, CorrelationIds
<1>8. MapHoldsUnanswered'
  BY DEF TypeOK, MapHoldsUnanswered, ErrorsAfterDisconnect, Keys,
     MappedWhileUnderway, OncePerMessage, CorrelationIds
<1>9. MarkerToCome'
  BY DEF TypeOK, MarkerToCome
<1>10. QED  BY <1>1, <1>2, <1>3, <1>4, <1>5, <1>6, <1>7, <1>8, <1>9

(* A caller leaves with an answer; the other callers are not touched.     *)
LEMMA GetResultStep ==
  ASSUME IInv, NEW c \in Callers, GetResult(c)
  PROVE  IInv'
<1> USE DEF GetResult, Leave, IInv, vars, callerVars, valVars, recvVars, discVars, queueVars
<1>1. TypeOK'
  BY DEF TypeOK
<1>2. CallersApart'
  BY DEF TypeOK, CallersApart, Underway
<1>3. OncePerMessage'
  BY DEF TypeOK, OncePerMessage
<1>4. MappedWhileUnderway'
  BY DEF TypeOK, MappedWhileUnderway, OncePerMessage, Underway, Keys
<1>5. ReplyNeverQueued'
  BY DEF TypeOK, ReplyNeverQueued
<1>6. WaiterAccounted'
  BY DEF TypeOK, WaiterAccounted, InFlight
<1>7. ErrorsAfterDisconnect'
  BY DEF TypeOK, ErrorsAfterDisconnect, CorrelationIds
<1>8. MapHoldsUnanswered'
  BY DEF TypeOK, MapHoldsUnanswered, ErrorsAfterDisconnect, Keys,
     MappedWhileUnderway, OncePerMessage, CorrelationIds
<1>9. MarkerToCome'
  BY DEF TypeOK, MarkerToCome
<1>10. QED  BY <1>1, <1>2, <1>3, <1>4, <1>5, <1>6, <1>7, <1>8, <1>9

(* A caller that gives up leaves its future in the map.                   *)
LEMMA TimeoutStep ==
  ASSUME IInv, NEW c \in Callers, Timeout(c)
  PROVE  IInv'
<1> USE DEF Timeout, Leave, IInv, vars, callerVars, valVars, recvVars, discVars, queueVars
<1>1. TypeOK'
  BY DEF TypeOK
<1>2. CallersApart'
  BY DEF TypeOK, CallersApart, Underway
<1>3. OncePerMessage'
  BY DEF TypeOK, OncePerMessage
<1>4. MappedWhileUnderway'
  BY DEF TypeOK, MappedWhileUnderway, OncePerMessage, Underway, Keys
<1>5. ReplyNeverQueued'
  BY DEF TypeOK, ReplyNeverQueued
<1>6. WaiterAccounted'
  BY DEF TypeOK, WaiterAccounted, InFlight
<1>7. ErrorsAfterDisconnect'
  BY DEF TypeOK, ErrorsAfterDisconnect, CorrelationIds
<1>8. MapHoldsUnanswered'
  BY DEF TypeOK, MapHoldsUnanswered, ErrorsAfterDisconnect, Keys,
     MappedWhileUnderway, OncePerMessage, CorrelationIds
<1>9. MarkerToCome'
  BY DEF TypeOK, MarkerToCome
<1>10. QED  BY <1>1, <1>2, <1>3, <1>4, <1>5, <1>6, <1>7, <1>8, <1>9

(* The head of the socket's queue becomes the message in hand.            *)
LEMMA RecvMsgStep ==
  ASSUME IInv, RecvMsg
  PROVE  IInv'
<1> USE DEF RecvMsg, IInv, vars, callerVars, valVars, recvVars, discVars, queueVars
<1>a. /\ inbox' \in Seq(CorrelationIds)
      /\ Range(inbox) = {rMsg'} \cup Range(inbox')
      /\ rMsg' \in CorrelationIds /\ rMsg' \notin Range(inbox')
      /\ IsInjective(inbox') /\ rMsg = NoId
  BY TailElements, TailDistinct DEF TypeOK, OncePerMessage
<1>1. TypeOK'
  <2>1. rAt' = "check" /\ rMsg' # NoId
    BY <1>a DEF CorrelationIds
  <2>2. QED  BY <1>a, <2>1 DEF TypeOK
<1>2. CallersApart'
  BY <1>a DEF TypeOK, CallersApart, Underway, OncePerMessage
<1>3. OncePerMessage'
  BY <1>a DEF TypeOK, OncePerMessage, Underway
<1>4. MappedWhileUnderway'
  BY <1>a DEF TypeOK, MappedWhileUnderway, OncePerMessage, Underway, Keys
<1>5. ReplyNeverQueued'
  BY DEF TypeOK, ReplyNeverQueued
<1>6. WaiterAccounted'
  BY <1>a DEF TypeOK, WaiterAccounted, InFlight, CallersApart
<1>7. ErrorsAfterDisconnect'
  BY DEF TypeOK, ErrorsAfterDisconnect, CorrelationIds
<1>8. MapHoldsUnanswered'
  BY DEF TypeOK, MapHoldsUnanswered, ErrorsAfterDisconnect, Keys,
     MappedWhileUnderway, OncePerMessage, CorrelationIds
<1>9. MarkerToCome'
  BY DEF TypeOK, MarkerToCome
<1>10. QED  BY <1>1, <1>2, <1>3, <1>4, <1>5, <1>6, <1>7, <1>8, <1>9

(* A reply finds its entry, so only pushes go on to the queue.            *)
LEMMA ContainsKeyStep ==
  ASSUME IInv, ContainsKey
  PROVE  IInv'
<1> USE DEF ContainsKey, IInv, vars, callerVars, valVars, recvVars, discVars, queueVars
<1>1. TypeOK'
  BY DEF TypeOK
<1>2. CallersApart'
  BY DEF TypeOK, CallersApart, Underway
<1>3. OncePerMessage'
  BY DEF TypeOK, OncePerMessage
<1>4. MappedWhileUnderway'
  BY DEF TypeOK, MappedWhileUnderway, OncePerMessage, Underway, Keys
<1>5. ReplyNeverQueued'
  BY DEF TypeOK, ReplyNeverQueued, MappedWhileUnderway, Underway, Keys
<1>6. WaiterAccounted'
  BY DEF TypeOK, WaiterAccounted, InFlight, MappedWhileUnderway, Underway, Keys, CallersApart
<1>7. ErrorsAfterDisconnect'
  BY DEF TypeOK, ErrorsAfterDisconnect, CorrelationIds
<1>8. MapHoldsUnanswered'
  BY DEF TypeOK, MapHoldsUnanswered, ErrorsAfterDisconnect, Keys,
     MappedWhileUnderway, OncePerMessage, CorrelationIds
<1>9. MarkerToCome'
  BY DEF TypeOK, MarkerToCome
<1>10. QED  BY <1>1, <1>2, <1>3, <1>4, <1>5, <1>6, <1>7, <1>8, <1>9

(* The future in hand is the one in the map, or its error since.          *)
LEMMA GetFutureStep ==
  ASSUME IInv, GetFuture
  PROVE  IInv'
<1> USE DEF GetFuture, IInv, vars, callerVars, valVars, recvVars, discVars, queueVars
<1>1. TypeOK'
  BY DEF TypeOK
<1>2. CallersApart'
  BY DEF TypeOK, CallersApart, Underway
<1>3. OncePerMessage'
  BY DEF TypeOK, OncePerMessage
<1>4. MappedWhileUnderway'
  BY DEF TypeOK, MappedWhileUnderway, OncePerMessage, Underway, Keys
<1>5. ReplyNeverQueued'
  BY DEF TypeOK, ReplyNeverQueued
<1>6. WaiterAccounted'
  BY DEF TypeOK, WaiterAccounted, InFlight, MappedWhileUnderway, Underway
<1>7. ErrorsAfterDisconnect'
  BY DEF TypeOK, ErrorsAfterDisconnect, CorrelationIds
<1>8. MapHoldsUnanswered'
  BY DEF TypeOK, MapHoldsUnanswered, ErrorsAfterDisconnect, Keys,
     MappedWhileUnderway, OncePerMessage, CorrelationIds
<1>9. MarkerToCome'
  BY DEF TypeOK, MarkerToCome
<1>10. QED  BY <1>1, <1>2, <1>3, <1>4, <1>5, <1>6, <1>7, <1>8, <1>9

(* A reply resolves its future, or is dropped for a FutureError.          *)
LEMMA SetResultStep ==
  ASSUME IInv, SetResult
  PROVE  IInv'
<1> USE DEF SetResult, HandleDone, IInv, vars, callerVars, valVars, recvVars, discVars, queueVars
<1>1. TypeOK'
  BY DEF TypeOK, MappedWhileUnderway
<1>2. CallersApart'
  BY DEF TypeOK, CallersApart, Underway
<1>3. OncePerMessage'
  BY ElementsType DEF TypeOK, OncePerMessage, MappedWhileUnderway, CorrelationIds
<1>4. MappedWhileUnderway'
  BY DEF TypeOK, MappedWhileUnderway, OncePerMessage, Underway, Keys
<1>5. ReplyNeverQueued'
  BY DEF TypeOK, ReplyNeverQueued
<1>6. WaiterAccounted'
  BY DEF TypeOK, WaiterAccounted, InFlight
<1>7. ErrorsAfterDisconnect'
  BY DEF TypeOK, ErrorsAfterDisconnect, CorrelationIds
<1>8. MapHoldsUnanswered'
  BY DEF TypeOK, MapHoldsUnanswered, ErrorsAfterDisconnect, Keys,
     MappedWhileUnderway, OncePerMessage, CorrelationIds, Underway
<1>9. MarkerToCome'
  BY DEF TypeOK, MarkerToCome
<1>10. QED  BY <1>1, <1>2, <1>3, <1>4, <1>5, <1>6, <1>7, <1>8, <1>9

(* Only the future that was resolved leaves the map.                      *)
LEMMA RemoveFutureStep ==
  ASSUME IInv, RemoveFuture
  PROVE  IInv'
<1> USE DEF RemoveFuture, HandleDone, IInv, vars, callerVars, valVars, recvVars, discVars, queueVars
<1>1. TypeOK'
  BY DEF TypeOK
<1>2. CallersApart'
  BY DEF TypeOK, CallersApart, Underway
<1>3. OncePerMessage'
  BY ElementsType DEF TypeOK, OncePerMessage, CorrelationIds
<1>4. MappedWhileUnderway'
  BY DEF TypeOK, MappedWhileUnderway, OncePerMessage, Underway, Keys
<1>5. ReplyNeverQueued'
  BY DEF TypeOK, ReplyNeverQueued
<1>6. WaiterAccounted'
  BY DEF TypeOK, WaiterAccounted, InFlight, MappedWhileUnderway
<1>7. ErrorsAfterDisconnect'
  BY DEF TypeOK, ErrorsAfterDisconnect, CorrelationIds
<1>8. MapHoldsUnanswered'
  BY DEF TypeOK, MapHoldsUnanswered, ErrorsAfterDisconnect, Keys,
     MappedWhileUnderway, OncePerMessage, CorrelationIds
<1>9. MarkerToCome'
  BY DEF TypeOK, MarkerToCome
<1>10. QED  BY <1>1, <1>2, <1>3, <1>4, <1>5, <1>6, <1>7, <1>8, <1>9

(* Only a push is put in the receive queue.                               *)
LEMMA QueuePutStep ==
  ASSUME IInv, QueuePut
  PROVE  IInv'
<1> USE DEF QueuePut, HandleDone, IInv, vars, callerVars, valVars, recvVars, discVars, queueVars
<1>1. TypeOK'
  BY DEF TypeOK
<1>2. CallersApart'
  BY DEF TypeOK, CallersApart, Underway
<1>3. OncePerMessage'
  BY ElementsType DEF TypeOK, OncePerMessage, CorrelationIds
<1>4. MappedWhileUnderway'
  BY DEF TypeOK, MappedWhileUnderway, OncePerMessage, Underway, Keys
<1>5. ReplyNeverQueued'
  BY AppendElements DEF TypeOK, ReplyNeverQueued, CorrelationIds
<1>6. WaiterAccounted'
  BY DEF TypeOK, WaiterAccounted, InFlight
<1>7. ErrorsAfterDisconnect'
  BY DEF TypeOK, ErrorsAfterDisconnect, CorrelationIds
<1>8. MapHoldsUnanswered'
  BY DEF TypeOK, MapHoldsUnanswered, ErrorsAfterDisconnect, Keys,
     MappedWhileUnderway, OncePerMessage, CorrelationIds
<1>9. MarkerToCome'
  BY AppendElements DEF TypeOK, MarkerToCome
<1>10. QED  BY <1>1, <1>2, <1>3, <1>4, <1>5, <1>6, <1>7, <1>8, <1>9

(* The keys to visit are ids of requests that were sent.                  *)
LEMMA DiscEventStep ==
  ASSUME IInv, DiscEvent
  PROVE  IInv'
<1> USE DEF DiscEvent, IInv, vars, callerVars, valVars, recvVars, discVars, queueVars
<1>1. TypeOK'
  BY DEF TypeOK, Keys
<1>2. CallersApart'
  BY DEF TypeOK, CallersApart, Underway
<1>3. OncePerMessage'
  BY DEF TypeOK, OncePerMessage
<1>4. MappedWhileUnderway'
  BY DEF TypeOK, MappedWhileUnderway, OncePerMessage, Underway, Keys
<1>5. ReplyNeverQueued'
  BY DEF TypeOK, ReplyNeverQueued
<1>6. WaiterAccounted'
  BY DEF TypeOK, WaiterAccounted, InFlight
<1>7. ErrorsAfterDisconnect'
  BY DEF TypeOK, ErrorsAfterDisconnect, CorrelationIds
<1>8. MapHoldsUnanswered'
  BY DEF TypeOK, MapHoldsUnanswered, ErrorsAfterDisconnect, Keys,
     MappedWhileUnderway, OncePerMessage, CorrelationIds
<1>9. MarkerToCome'
  BY DEF TypeOK, MarkerToCome
<1>10. QED  BY <1>1, <1>2, <1>3, <1>4, <1>5, <1>6, <1>7, <1>8, <1>9

(* A replaced future is accounted for by its FutureError.                 *)
LEMMA DiscSweepStep ==
  ASSUME IInv, NEW k \in CorrelationIds, DiscSweep(k)
  PROVE  IInv'
<1> USE DEF DiscSweep, IInv, vars, callerVars, valVars, recvVars, discVars, queueVars
<1>1. TypeOK'
  BY DEF TypeOK
<1>2. CallersApart'
  BY DEF TypeOK, CallersApart, Underway
<1>3. OncePerMessage'
  BY DEF TypeOK, OncePerMessage
<1>4. MappedWhileUnderway'
  BY DEF TypeOK, MappedWhileUnderway, OncePerMessage, Underway, Keys
<1>5. ReplyNeverQueued'
  BY DEF TypeOK, ReplyNeverQueued
<1>6. WaiterAccounted'
  BY DEF TypeOK, WaiterAccounted, InFlight
<1>7. ErrorsAfterDisconnect'
  BY DEF TypeOK, ErrorsAfterDisconnect, CorrelationIds
<1>8. MapHoldsUnanswered'
  BY DEF TypeOK, MapHoldsUnanswered, ErrorsAfterDisconnect, Keys,
     MappedWhileUnderway, OncePerMessage, CorrelationIds
<1>9. MarkerToCome'
  BY DEF TypeOK, MarkerToCome
<1>10. QED  BY <1>1, <1>2, <1>3, <1>4, <1>5, <1>6, <1>7, <1>8, <1>9

(* The end of the sweep touches no request.                               *)
LEMMA DiscSweepEndStep ==
  ASSUME IInv, DiscSweepEnd
  PROVE  IInv'
<1> USE DEF DiscSweepEnd, After, IInv, vars, callerVars, valVars, recvVars, discVars, queueVars
<1>1. TypeOK'
  BY DEF TypeOK
<1>2. CallersApart'
  BY DEF TypeOK, CallersApart, Underway
<1>3. OncePerMessage'
  BY DEF TypeOK, OncePerMessage
<1>4. MappedWhileUnderway'
  BY DEF TypeOK, MappedWhileUnderway, OncePerMessage, Underway, Keys
<1>5. ReplyNeverQueued'
  BY DEF TypeOK, ReplyNeverQueued
<1>6. WaiterAccounted'
  BY DEF TypeOK, WaiterAccounted, InFlight
<1>7. ErrorsAfterDisconnect'
  BY DEF TypeOK, ErrorsAfterDisconnect, CorrelationIds
<1>8. MapHoldsUnanswered'
  BY DEF TypeOK, MapHoldsUnanswered, ErrorsAfterDisconnect, Keys,
     MappedWhileUnderway, OncePerMessage, CorrelationIds
<1>9. MarkerToCome'
  BY DEF TypeOK, MarkerToCome
<1>10. QED  BY <1>1, <1>2, <1>3, <1>4, <1>5, <1>6, <1>7, <1>8, <1>9

(* Clearing the queue touches pushes only.                                *)
LEMMA DiscClearStep ==
  ASSUME IInv, DiscClear
  PROVE  IInv'
<1> USE DEF DiscClear, After, IInv, vars, callerVars, valVars, recvVars, discVars, queueVars
<1>1. TypeOK'
  BY DEF TypeOK
<1>2. CallersApart'
  BY DEF TypeOK, CallersApart, Underway
<1>3. OncePerMessage'
  BY DEF TypeOK, OncePerMessage
<1>4. MappedWhileUnderway'
  BY DEF TypeOK, MappedWhileUnderway, OncePerMessage, Underway, Keys
<1>5. ReplyNeverQueued'
  BY ElementsType DEF TypeOK, ReplyNeverQueued
<1>6. WaiterAccounted'
  BY DEF TypeOK, WaiterAccounted, InFlight
<1>7. ErrorsAfterDisconnect'
  BY DEF TypeOK, ErrorsAfterDisconnect, CorrelationIds
<1>8. MapHoldsUnanswered'
  BY DEF TypeOK, MapHoldsUnanswered, ErrorsAfterDisconnect, Keys,
     MappedWhileUnderway, OncePerMessage, CorrelationIds
<1>9. MarkerToCome'
  BY DEF TypeOK, MarkerToCome
<1>10. QED  BY <1>1, <1>2, <1>3, <1>4, <1>5, <1>6, <1>7, <1>8, <1>9

(* The marker is no reply.                                                *)
LEMMA DiscMarkStep ==
  ASSUME IInv, DiscMark
  PROVE  IInv'
<1> USE DEF DiscMark, After, IInv, vars, callerVars, valVars, recvVars, discVars, queueVars
<1>1. TypeOK'
  BY DEF TypeOK
<1>2. CallersApart'
  BY DEF TypeOK, CallersApart, Underway
<1>3. OncePerMessage'
  BY DEF TypeOK, OncePerMessage
<1>4. MappedWhileUnderway'
  BY DEF TypeOK, MappedWhileUnderway, OncePerMessage, Underway, Keys
<1>5. ReplyNeverQueued'
  BY AppendElements DEF TypeOK, ReplyNeverQueued
<1>6. WaiterAccounted'
  BY DEF TypeOK, WaiterAccounted, InFlight
<1>7. ErrorsAfterDisconnect'
  BY DEF TypeOK, ErrorsAfterDisconnect, CorrelationIds
<1>8. MapHoldsUnanswered'
  BY DEF TypeOK, MapHoldsUnanswered, ErrorsAfterDisconnect, Keys,
     MappedWhileUnderway, OncePerMessage, CorrelationIds
<1>9. MarkerToCome'
  BY AppendElements DEF TypeOK, MarkerToCome
<1>10. QED  BY <1>1, <1>2, <1>3, <1>4, <1>5, <1>6, <1>7, <1>8, <1>9

(* The consumer takes a push or a marker, never a reply.                  *)
LEMMA ReceiveStep ==
  ASSUME IInv, Receive
  PROVE  IInv'
<1> USE DEF Receive, IInv, vars, callerVars, valVars, recvVars, discVars, queueVars
<1>1. TypeOK'
  BY DEF TypeOK
<1>2. CallersApart'
  BY DEF TypeOK, CallersApart, Underway
<1>3. OncePerMessage'
  BY DEF TypeOK, OncePerMessage
<1>4. MappedWhileUnderway'
  BY DEF TypeOK, MappedWhileUnderway, OncePerMessage, Underway, Keys
<1>5. ReplyNeverQueued'
  BY TailElements DEF TypeOK, ReplyNeverQueued
<1>6. WaiterAccounted'
  BY DEF TypeOK, WaiterAccounted, InFlight
<1>7. ErrorsAfterDisconnect'
  BY DEF TypeOK, ErrorsAfterDisconnect, CorrelationIds
<1>8. MapHoldsUnanswered'
  BY DEF TypeOK, MapHoldsUnanswered, ErrorsAfterDisconnect, Keys,
     MappedWhileUnderway, OncePerMessage, CorrelationIds
<1>9. MarkerToCome'
  <2>1. Range(receiveQueue) = {Head(receiveQueue)} \cup Range(Tail(receiveQueue))
    BY TailElements DEF TypeOK
  <2>2. CASE Head(receiveQueue) = Disconnected
    BY <2>2 DEF MarkerToCome
  <2>3. CASE Head(receiveQueue) # Disconnected
    <3>1. told' = told
      BY <2>3 DEF TypeOK
    <3>2. QED  BY <2>1, <2>3, <3>1 DEF TypeOK, MarkerToCome
  <2>4. QED  BY <2>2, <2>3
<1>10. QED  BY <1>1, <1>2, <1>3, <1>4, <1>5, <1>6, <1>7, <1>8, <1>9

(* A reply moves from the validator to the socket.                        *)
LEMMA ReplyStep ==
  ASSUME IInv, NEW i \in Ids, Reply(i)
  PROVE  IInv'
<1> USE DEF Reply, IInv, vars, callerVars, valVars, recvVars, discVars, queueVars
<1>a. /\ inbox' \in Seq(CorrelationIds) /\ i \in CorrelationIds
      /\ i \notin Range(inbox) /\ rMsg # i
      /\ Range(inbox') = Range(inbox) \cup {i}
      /\ IsInjective(inbox')
  <2>1. i \in CorrelationIds /\ i \notin Range(inbox) /\ rMsg # i
    BY DEF TypeOK, OncePerMessage, CorrelationIds
  <2>2. QED
    BY <2>1, AppendElements, AppendDistinct DEF TypeOK, OncePerMessage
<1>1. TypeOK'
  BY <1>a DEF TypeOK
<1>2. CallersApart'
  BY <1>a DEF TypeOK, CallersApart, Underway, OncePerMessage
<1>3. OncePerMessage'
  BY <1>a DEF TypeOK, OncePerMessage, CorrelationIds
<1>4. MappedWhileUnderway'
  BY <1>a DEF TypeOK, MappedWhileUnderway, OncePerMessage, Underway, Keys
<1>5. ReplyNeverQueued'
  BY DEF TypeOK, ReplyNeverQueued
<1>6. WaiterAccounted'
  BY <1>a DEF TypeOK, WaiterAccounted, InFlight, CallersApart
<1>7. ErrorsAfterDisconnect'
  BY DEF TypeOK, ErrorsAfterDisconnect, CorrelationIds
<1>8. MapHoldsUnanswered'
  BY DEF TypeOK, MapHoldsUnanswered, ErrorsAfterDisconnect, Keys,
     MappedWhileUnderway, OncePerMessage, CorrelationIds
<1>9. MarkerToCome'
  BY DEF TypeOK, MarkerToCome
<1>10. QED  BY <1>1, <1>2, <1>3, <1>4, <1>5, <1>6, <1>7, <1>8, <1>9

(* A push has an id of its own, different from every request's.           *)
LEMMA PushStep ==
  ASSUME IInv, NEW p \in Pushes, Push(p)
  PROVE  IInv'
<1> USE DEF Push, IInv, vars, callerVars, valVars, recvVars, discVars, queueVars
<1>a. /\ inbox' \in Seq(CorrelationIds) /\ p \in CorrelationIds
      /\ p \notin Range(inbox) /\ rMsg # p
      /\ Range(inbox') = Range(inbox) \cup {p}
      /\ IsInjective(inbox')
  <2>1. p \in CorrelationIds /\ p \notin Range(inbox) /\ rMsg # p
    BY DEF TypeOK, OncePerMessage, CorrelationIds
  <2>2. QED
    BY <2>1, AppendElements, AppendDistinct DEF TypeOK, OncePerMessage
<1>1. TypeOK'
  BY <1>a DEF TypeOK
<1>2. CallersApart'
  BY <1>a DEF TypeOK, CallersApart, Underway, OncePerMessage
<1>3. OncePerMessage'
  BY <1>a DEF TypeOK, OncePerMessage, CorrelationIds
<1>4. MappedWhileUnderway'
  BY <1>a DEF TypeOK, MappedWhileUnderway, OncePerMessage, Underway, Keys
<1>5. ReplyNeverQueued'
  BY DEF TypeOK, ReplyNeverQueued
<1>6. WaiterAccounted'
  BY <1>a DEF TypeOK, WaiterAccounted, InFlight, CallersApart
<1>7. ErrorsAfterDisconnect'
  BY DEF TypeOK, ErrorsAfterDisconnect, CorrelationIds
<1>8. MapHoldsUnanswered'
  BY DEF TypeOK, MapHoldsUnanswered, ErrorsAfterDisconnect, Keys,
     MappedWhileUnderway, OncePerMessage, CorrelationIds
<1>9. MarkerToCome'
  BY DEF TypeOK, MarkerToCome
<1>10. QED  BY <1>1, <1>2, <1>3, <1>4, <1>5, <1>6, <1>7, <1>8, <1>9

(* A disconnect accounts for the requests it takes with it.               *)
LEMMA DisconnectStep ==
  ASSUME IInv, Disconnect
  PROVE  IInv'
<1> USE DEF Disconnect, IInv, vars, callerVars, valVars, recvVars, discVars, queueVars
<1>1. TypeOK'
  <2>1. events' \in Nat /\ disconnects' \in Nat
    BY DEF TypeOK
  <2>2. atValidator' \subseteq Ids /\ lost' \subseteq Ids
    BY DEF TypeOK
  <2>3. told' \in BOOLEAN
    OBVIOUS
  <2>4. QED  BY <2>1, <2>2, <2>3 DEF TypeOK
<1>2. CallersApart'
  BY DEF TypeOK, CallersApart, Underway
<1>3. OncePerMessage'
  BY DEF TypeOK, OncePerMessage
<1>4. MappedWhileUnderway'
  BY DEF TypeOK, MappedWhileUnderway, OncePerMessage, Underway, Keys
<1>5. ReplyNeverQueued'
  BY DEF TypeOK, ReplyNeverQueued
<1>6. WaiterAccounted'
  BY DEF TypeOK, WaiterAccounted, InFlight
<1>7. ErrorsAfterDisconnect'
  BY DEF TypeOK, ErrorsAfterDisconnect, CorrelationIds
<1>8. MapHoldsUnanswered'
  BY DEF TypeOK, MapHoldsUnanswered, ErrorsAfterDisconnect, Keys,
     MappedWhileUnderway, OncePerMessage, CorrelationIds
<1>9. MarkerToCome'
  BY DEF TypeOK, MarkerToCome
<1>10. QED  BY <1>1, <1>2, <1>3, <1>4, <1>5, <1>6, <1>7, <1>8, <1>9

-----------------------------------------------------------------------------
(* Every step preserves the invariant.                                     *)
LEMMA NextIInv == IInv /\ [Next]_vars => IInv'
<1> SUFFICES ASSUME IInv, [Next]_vars PROVE IInv'
  OBVIOUS
<1>1. CASE Next
  BY <1>1, CreateSocketStep, ConnectSocketStep, SignalSendersStep, RecvMsgStep,
     ContainsKeyStep, GetFutureStep, SetResultStep, RemoveFutureStep,
     QueuePutStep, DiscEventStep, DiscSweepEndStep, DiscClearStep,
     DiscMarkStep, ReceiveStep, DisconnectStep, PutFutureStep,
     CheckSocketStep, TransmitStep, GetResultStep, TimeoutStep,
     DiscSweepStep, ReplyStep, PushStep
  DEF Next, SocketThread, Handle, Sweep, Validator, Caller, SendStep
<1>2. CASE UNCHANGED vars
  BY <1>2 DEF vars, callerVars, valVars, recvVars, discVars, queueVars, IInv, TypeOK,
     CallersApart, OncePerMessage, MappedWhileUnderway, ErrorsAfterDisconnect, MarkerToCome,
     ReplyNeverQueued, WaiterAccounted, MapHoldsUnanswered, Underway, InFlight,
     Keys
<1>3. QED  BY <1>1, <1>2

(* The inductive invariant holds in every reachable state.                *)
THEOREM IInvAlways == Spec => []IInv
<1>1. QED  BY InitIInv, NextIInv, PTL DEF Spec

(* For every number of callers, requests, messages and disconnects, each   *)
(* variable keeps its type and a caller its id (ZmqStream, Receiver).      *)
THEOREM TypeCorrect == Spec => []TypeOK
<1>1. IInv => TypeOK
  BY DEF IInv
<1>2. QED  BY <1>1, IInvAlways, PTL

(* The receive queue never holds the reply to a request.                   *)
THEOREM RepliesFindTheirFuture == Spec => []ReplyNeverQueued
<1>1. IInv => ReplyNeverQueued
  BY DEF IInv
<1>2. QED  BY <1>1, IInvAlways, PTL

(* Nothing but a disconnect separates a waiting caller from its reply.     *)
THEOREM OnlyDisconnectLosesReplies == Spec => []WaiterAccounted
<1>1. IInv => WaiterAccounted
  BY DEF IInv
<1>2. QED  BY <1>1, IInvAlways, PTL

(* After every disconnect, however many there are, a marker is in the      *)
(* queue or will be put there, until the consumer has taken one: neither   *)
(* clear() nor a later disconnect loses the last of them.                  *)
THEOREM MarkerIsKept == Spec => []MarkerToCome
<1>1. IInv => MarkerToCome
  BY DEF IInv
<1>2. QED  BY <1>1, IInvAlways, PTL

(* While the validator stays connected, futureHashMap does not leak.       *)
THEOREM NoLeakWhileConnected == Spec => []MapHoldsUnanswered
<1>1. IInv => MapHoldsUnanswered
  BY DEF IInv
<1>2. QED  BY <1>1, IInvAlways, PTL

-----------------------------------------------------------------------------
(* JavaStream implements RequestReply.                                     *)

(* No request has been made at the start.                                  *)
LEMMA InitRefines == Init => Contract!Init
BY DEF Init, Contract!Init, PhaseOf

(* Every step is a step of the abstract specification or leaves its        *)
(* variables alone.                                                        *)
LEMMA NextRefines == IInv /\ [Next]_vars => [Contract!Next]_(Contract!vars)
<1> SUFFICES ASSUME IInv, [Next]_vars PROVE [Contract!Next]_(Contract!vars)
  OBVIOUS
<1> DEFINE ph == [i \in Ids |-> PhaseOf(i)]
<1> USE DEF IInv, vars, callerVars, valVars, recvVars, discVars, queueVars
<1>same. ASSUME UNCHANGED << used, resolved, disconnects >>,
                \A i \in Ids : PhaseOf(i)' = PhaseOf(i)
         PROVE  UNCHANGED Contract!vars
  BY <1>same DEF Contract!vars
<1>quiet. ASSUME UNCHANGED << used, resolved, disconnects, futures, rMsg, rFut >>,
                 (rAt = "set") <=> (rAt = "set")'
          PROVE  UNCHANGED Contract!vars
  <2>1. \A i \in Ids : PhaseOf(i)' = PhaseOf(i)
    BY <1>quiet DEF PhaseOf
  <2>2. QED  BY <2>1, <1>quiet, <1>same
<1>move. ASSUME NEW i \in Ids, NEW new, PhaseOf(i)' = new, UNCHANGED disconnects,
                \A j \in Ids : j # i => PhaseOf(j)' = PhaseOf(j)
         PROVE  /\ [j \in Ids |-> PhaseOf(j)]' = [ph EXCEPT ![i] = new]
                /\ UNCHANGED (disconnects > 0)
  BY <1>move
<1>1. CASE SocketThread \/ Receive \/ DiscEvent \/ DiscSweepEnd \/ DiscClear \/ DiscMark
  BY <1>1, <1>quiet DEF SocketThread, CreateSocket, ConnectSocket, SignalSenders,
     Receive, DiscEvent, DiscSweepEnd, DiscClear, DiscMark
<1>2. ASSUME NEW c \in Callers, SendStep(c) \/ GetResult(c) \/ Timeout(c)
      PROVE  UNCHANGED Contract!vars
  BY <1>2, <1>quiet DEF SendStep, CheckSocket, Transmit, GetResult, Timeout, Leave
<1>3. ASSUME NEW i \in Ids \cup Pushes, Reply(i) \/ Push(i)
      PROVE  UNCHANGED Contract!vars
  BY <1>3, <1>quiet DEF Reply, Push
<1>4. CASE RecvMsg \/ ContainsKey \/ QueuePut
  <2>1. rAt # "set" /\ rAt' # "set" /\ UNCHANGED << used, resolved, disconnects, futures >>
    BY <1>4 DEF RecvMsg, ContainsKey, QueuePut, HandleDone
  <2>2. \A i \in Ids : PhaseOf(i)' = PhaseOf(i)
    BY <2>1 DEF PhaseOf
  <2>3. QED  BY <2>1, <2>2, <1>same
<1>5. CASE GetFuture
  <2>1. /\ rAt = "get" /\ rAt' = "set" /\ rFut' = futures[rMsg] /\ rMsg' = rMsg
        /\ UNCHANGED << used, resolved, disconnects, futures >>
    BY <1>5 DEF GetFuture
  <2>2. \A i \in Ids : PhaseOf(i)' = PhaseOf(i)
    BY <2>1 DEF PhaseOf
  <2>3. QED  BY <2>1, <2>2, <1>same
<1>6. CASE SetResult
  <2>1. rAt = "set" /\ rMsg \in Ids /\ rMsg \notin resolved /\ rMsg \in used
    BY <1>6 DEF SetResult, MappedWhileUnderway, Underway, OncePerMessage, TypeOK
  <2>2. UNCHANGED << used, futures, disconnects >>
    BY <1>6 DEF SetResult
  <2>3. CASE rFut = "bytes"
    <3>1. PICK m \in Ids : m = rMsg
      BY <2>1
    <3>2. resolved' = resolved \cup {m} /\ rAt' = "remove"
      BY <1>6, <2>3, <3>1 DEF SetResult
    <3>3. PhaseOf(m) = "pending" /\ PhaseOf(m)' = "answered"
      BY <2>1, <2>2, <2>3, <3>1, <3>2 DEF PhaseOf
    <3>4. \A j \in Ids : j # m => PhaseOf(j)' = PhaseOf(j)
      BY <2>1, <2>2, <3>1, <3>2 DEF PhaseOf
    <3>5. Contract!Answer(m)
      BY <2>2, <3>3, <3>4, <1>move DEF Contract!Answer, Contract!Move
    <3>6. QED  BY <3>5 DEF Contract!Next
  <2>4. CASE rFut # "bytes"
    <3>1. UNCHANGED resolved /\ rAt' = "poll"
      BY <1>6, <2>4 DEF SetResult, HandleDone
    <3>2. \A i \in Ids : PhaseOf(i)' = PhaseOf(i)
      BY <2>1, <2>2, <2>4, <3>1 DEF PhaseOf
    <3>3. QED  BY <2>2, <3>1, <3>2, <1>same
  <2>5. QED  BY <2>3, <2>4
<1>7. CASE RemoveFuture
  <2>1. /\ rAt = "remove" /\ rAt' = "poll" /\ rMsg \in resolved
        /\ \A k \in Ids : k # rMsg => futures'[k] = futures[k]
        /\ UNCHANGED << used, resolved, disconnects >>
    BY <1>7 DEF RemoveFuture, HandleDone, MappedWhileUnderway, TypeOK
  <2>2. \A i \in Ids : PhaseOf(i)' = PhaseOf(i)
    BY <2>1 DEF PhaseOf, OncePerMessage
  <2>3. QED  BY <2>1, <2>2, <1>same
<1>8. ASSUME NEW c \in Callers, NEW i \in Ids, PutFuture(c, i)
      PROVE  Contract!Next
  <2>1. /\ i \notin used /\ i \notin resolved /\ used' = used \cup {i}
        /\ rMsg # i /\ futures'[i] = "bytes"
        /\ \A k \in Ids : k # i => futures'[k] = futures[k]
        /\ UNCHANGED << resolved, disconnects, rAt, rMsg, rFut >>
    BY <1>8 DEF PutFuture, OncePerMessage, TypeOK, CorrelationIds
  <2>2. PhaseOf(i) = "unused" /\ PhaseOf(i)' = "pending"
    BY <2>1 DEF PhaseOf
  <2>3. \A j \in Ids : j # i => PhaseOf(j)' = PhaseOf(j)
    BY <2>1 DEF PhaseOf
  <2>4. Contract!Send(i)
    BY <2>1, <2>2, <2>3, <1>move DEF Contract!Send, Contract!Move
  <2>5. QED  BY <2>4 DEF Contract!Next
<1>9. ASSUME NEW k \in CorrelationIds, DiscSweep(k)
      PROVE  Contract!Next \/ UNCHANGED Contract!vars
  <2>1. /\ k \in used /\ k \in Ids /\ disconnects > 0 /\ futures'[k] = "error"
        /\ \A j \in Ids : j # k => futures'[j] = futures[j]
        /\ UNCHANGED << used, resolved, disconnects, rAt, rMsg, rFut >>
    BY <1>9 DEF DiscSweep, MappedWhileUnderway, ErrorsAfterDisconnect, TypeOK
  <2>2. \A j \in Ids : j # k => PhaseOf(j)' = PhaseOf(j)
    BY <2>1 DEF PhaseOf
  <2>3. CASE k \in resolved \/ (rAt = "set" /\ rMsg = k /\ rFut = "bytes")
    <3>1. PhaseOf(k)' = PhaseOf(k)
      BY <2>1, <2>3 DEF PhaseOf
    <3>2. QED  BY <2>1, <2>2, <3>1, <1>same
  <2>4. CASE k \notin resolved /\ ~(rAt = "set" /\ rMsg = k /\ rFut = "bytes")
    <3>1. PhaseOf(k)' = "lost" /\ PhaseOf(k) \in {"pending", "lost"}
      BY <2>1, <2>4 DEF PhaseOf
    <3>2. CASE PhaseOf(k) = "pending"
      <4>1. Contract!Lose(k)
        BY <2>1, <2>2, <3>1, <3>2, <1>move DEF Contract!Lose, Contract!Move
      <4>2. QED  BY <2>1, <4>1 DEF Contract!Next
    <3>3. CASE PhaseOf(k) = "lost"
      BY <2>1, <2>2, <3>1, <3>3, <1>same
    <3>4. QED  BY <3>1, <3>2, <3>3
  <2>5. QED  BY <2>3, <2>4
<1>10. CASE Disconnect
  <2>1. /\ disconnects' > 0
        /\ UNCHANGED << used, resolved, futures, rAt, rMsg, rFut >>
    BY <1>10 DEF Disconnect, TypeOK
  <2>2. [i \in Ids |-> PhaseOf(i)]' = ph
    BY <2>1 DEF PhaseOf
  <2>3. Contract!Break
    BY <2>1, <2>2 DEF Contract!Break
  <2>4. QED  BY <2>3 DEF Contract!Next
<1>11. CASE UNCHANGED vars
  BY <1>11, <1>quiet
<1>12. QED
  BY <1>1, <1>2, <1>3, <1>4, <1>5, <1>6, <1>7, <1>8, <1>9, <1>10, <1>11
  DEF Next, Handle, Sweep, Validator, Caller

(* JavaStream implements RequestReply: a request is answered at most once, *)
(* never after it was given up, and given up only after a disconnect.      *)
THEOREM Refinement == Spec => KeepsContract
<1>1. QED
  BY InitRefines, NextRefines, IInvAlways, PTL
  DEF Spec, KeepsContract, Contract!Spec

=============================================================================
