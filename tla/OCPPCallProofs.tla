--------------------------- MODULE OCPPCallProofs ---------------------------
(***************************************************************************)
(* Safety of the call path for every set of calls, every retry policy and  *)
(* every bound.                                                            *)
(***************************************************************************)
EXTENDS OCPPCall, FiniteSetTheorems, TLAPS

(* What the replies of the central system have to do with the outcome.     *)
ReplyInv ==
  /\ \A c \in Calls : caller[c] = "true" => finished[c] /\ success[c]
  /\ \A c \in Calls : success[c] => finished[c] /\ "CallResult" \in replied[c]
  /\ received # <<>> => received[2] \in replied[received[1]]

(* Only transaction calls with attempts left are on the retry list.        *)
RetryInv ==
  /\ RetryBudget
  /\ \A c \in retryList : IsTx[c] /\ retryCount[c] < MaxRetry

(* Only a running send thread holds a message, and none runs after stop.   *)
StopInv ==
  /\ \A i \in Ctx : hold[i] # None => sender[i] = "run"
  /\ control = "stopped" => SendersJoined

-----------------------------------------------------------------------------
(* The delay before a resend is a number.                                  *)
LEMMA DelayType ==
  ASSUME NEW k \in Nat, k > 0
  PROVE  Delay(k) \in Nat
<1> DEFINE m == IF k < 8 THEN k ELSE 8
<1>1. m \in 1 .. 8
  OBVIOUS
<1>2. Shift[m] \in Nat
  BY <1>1 DEF Shift
<1>3. \A x, y \in Nat : x * y \in Nat
  OBVIOUS
<1> QED
  BY <1>2, <1>3, NumberAssumption DEF Delay

(* One more start makes m_connectors longer by Contexts.                   *)
LEMMA SizeStep ==
  ASSUME NEW k \in Nat
  PROVE  Contexts * k + Contexts = Contexts * (k + 1)
<1>1. Contexts \in Nat
  BY NumberAssumption DEF Contexts
<1> QED
  BY <1>1

(* Pushing a call keeps the queues of all contexts sequences of calls.     *)
LEMMA AppendType ==
  ASSUME NEW f \in [Ctx -> Seq(Calls)], NEW i, NEW c \in Calls
  PROVE  [f EXCEPT ![i] = Append(@, c)] \in [Ctx -> Seq(Calls)]
<1>1. \A j \in Ctx : Append(f[j], c) \in Seq(Calls)
  OBVIOUS
<1> QED
  BY <1>1, Zenon

(* The head of a queue is a call, and the rest a sequence of calls.        *)
LEMMA TailType ==
  ASSUME NEW s \in Seq(Calls), s # <<>>
  PROVE  Tail(s) \in Seq(Calls) /\ Head(s) \in Calls /\ Len(Tail(s)) <= Len(s)
  OBVIOUS

(* Popping from one queue keeps the queues of all contexts well typed.     *)
LEMMA PopType ==
  ASSUME NEW f \in [Ctx -> Seq(Calls)], NEW i \in Ctx, f[i] # <<>>
  PROVE  [f EXCEPT ![i] = Tail(@)] \in [Ctx -> Seq(Calls)]
  OBVIOUS

(* A looked-up reply is a call and a kind of reply.                        *)
LEMMA ReceivedType ==
  ASSUME TypeOK, received # <<>>
  PROVE  received[1] \in Calls /\ received[2] \in Replies
  BY DEF TypeOK

(* Every variable stays within its type: the queues only ever hold calls,  *)
(* and the size of m_connectors is that of all starts together.            *)
THEOREM TypeCorrect == Spec => []TypeOK
<1>1. Init => TypeOK
  <2>1. Contexts * 0 = 0
    BY NumberAssumption DEF Contexts
  <2> QED
    <3> SUFFICES ASSUME Init PROVE TypeOK
      OBVIOUS
    <3>1. starts \in 0 .. MaxStarts /\ size = Contexts * starts
      BY <2>1, NumberAssumption DEF Init
    <3>2. <<>> \in Seq(Calls)
      OBVIOUS
    <3>3. txQueue \in [Ctx -> Seq(Calls)] /\ nonTxQueue \in [Ctx -> Seq(Calls)]
      BY <3>2 DEF Init
    <3> QED
      BY <3>1, <3>2, <3>3 DEF Init, TypeOK
<1>2. TypeOK /\ [Next]_vars => TypeOK'
  <2> SUFFICES ASSUME TypeOK, [Next]_vars
               PROVE  TypeOK'
    OBVIOUS
  <2>a. /\ txQueue \in [Ctx -> Seq(Calls)]
        /\ nonTxQueue \in [Ctx -> Seq(Calls)]
        /\ m_queue \in Seq(Calls)
        /\ hold \in [Ctx -> Calls \cup {None}]
    BY DEF TypeOK
  <2>b. /\ now \in Nat /\ scanTime \in Nat
        /\ born \in [Calls -> Nat]
        /\ nextRetry \in [Calls -> Nat]
        /\ retryCount \in [Calls -> Nat]
        /\ atCS \in [Calls -> Nat]
        /\ sent \in [Calls -> Nat]
    BY DEF TypeOK
  <2>1. CASE Tick
    BY <2>1 DEF Tick, TypeOK, clientVars, sendVars, queueVars,
       wsVars, callVars, retryVars, history
  <2>2. ASSUME NEW c \in Calls, Reject(c)
        PROVE  TypeOK'
    BY <2>2 DEF Reject, TypeOK, clientVars, sendVars, queueVars,
       wsVars, callVars, retryVars, history
  <2>3. ASSUME NEW c \in Calls, SendCall(c)
        PROVE  TypeOK'
    <3>1. /\ born' \in [Calls -> Nat]
          /\ nextRetry' \in [Calls -> Nat]
      BY <2>3, <2>b, NumberAssumption DEF SendCall
    <3>2. caller' \in [Calls -> {"idle", "queue", "wait", "true", "false"}]
      BY <2>3 DEF SendCall, TypeOK
    <3> QED
      BY <2>3, <3>1, <3>2 DEF SendCall, TypeOK, clientVars, sendVars, queueVars,
         wsVars, callVars, retryVars, history
  <2>4. ASSUME NEW c \in Calls, Enqueue(c)
        PROVE  TypeOK'
    <3>1. /\ txQueue' \in [Ctx -> Seq(Calls)]
          /\ nonTxQueue' \in [Ctx -> Seq(Calls)]
      <4>1. [txQueue EXCEPT ![ConnId[c]] = Append(@, c)] \in [Ctx -> Seq(Calls)]
        BY <2>a, AppendType
      <4>2. [nonTxQueue EXCEPT ![ConnId[c]] = Append(@, c)] \in [Ctx -> Seq(Calls)]
        BY <2>a, AppendType
      <4> QED
        BY <2>4, <2>a, <4>1, <4>2 DEF Enqueue
    <3>2. caller' \in [Calls -> {"idle", "queue", "wait", "true", "false"}]
      BY <2>4 DEF Enqueue, TypeOK
    <3> QED
      BY <2>4, <3>1, <3>2 DEF Enqueue, TypeOK, clientVars, sendVars, queueVars,
         wsVars, callVars, retryVars, history
  <2>5. ASSUME NEW c \in Calls, Return(c)
        PROVE  TypeOK'
    BY <2>5 DEF Return, TypeOK, clientVars, sendVars, queueVars,
       wsVars, callVars, retryVars, history
  <2>6. ASSUME NEW i \in Ctx, Pop(i)
        PROVE  TypeOK'
    <3>1. /\ hold' \in [Ctx -> Calls \cup {None}]
          /\ txQueue' \in [Ctx -> Seq(Calls)]
          /\ nonTxQueue' \in [Ctx -> Seq(Calls)]
      <4>1. CASE txQueue[i] # <<>>
        <5>1. Head(txQueue[i]) \in Calls
          BY <2>a, <4>1, TailType
        <5>2. [txQueue EXCEPT ![i] = Tail(@)] \in [Ctx -> Seq(Calls)]
          BY <2>a, <4>1, PopType
        <5> QED
          BY <2>6, <2>a, <4>1, <5>1, <5>2 DEF Pop
      <4>2. CASE txQueue[i] = <<>>
        <5>1. nonTxQueue[i] # <<>>
          BY <2>6, <4>2 DEF Pop
        <5>2. Head(nonTxQueue[i]) \in Calls
          BY <2>a, <5>1, TailType
        <5>3. [nonTxQueue EXCEPT ![i] = Tail(@)] \in [Ctx -> Seq(Calls)]
          BY <2>a, <5>1, PopType
        <5> QED
          BY <2>6, <2>a, <4>2, <5>2, <5>3 DEF Pop
      <4> QED
        BY <4>1, <4>2
    <3> QED
      BY <2>6, <3>1 DEF Pop, TypeOK, clientVars, sendVars, queueVars,
         wsVars, callVars, retryVars, history
  <2>7. ASSUME NEW i \in Ctx, DoSend(i)
        PROVE  TypeOK'
    <3>1. m_queue' \in Seq(Calls) /\ hold' \in [Ctx -> Calls \cup {None}]
      BY <2>7, <2>a DEF DoSend
    <3> QED
      BY <2>7, <3>1 DEF DoSend, TypeOK, clientVars, sendVars, queueVars,
         wsVars, callVars, retryVars, history
  <2>8. ASSUME NEW i \in Ctx, SenderExit(i)
        PROVE  TypeOK'
    BY <2>8 DEF SenderExit, TypeOK, clientVars, sendVars, queueVars,
       wsVars, callVars, retryVars, history
  <2>9. CASE RetryWake
    BY <2>9 DEF RetryWake, TypeOK, clientVars, sendVars, queueVars,
       wsVars, callVars, retryVars, history
  <2>10. CASE RetryScan
    BY <2>10 DEF RetryScan, TypeOK, clientVars, sendVars, queueVars,
       wsVars, callVars, retryVars, history
  <2>11. ASSUME NEW c \in Calls, Resend(c)
         PROVE  TypeOK'
    <3>1. scanTime + Delay(retryCount[c] + 1) \in Nat /\ Counted(c) \in Nat
      BY <2>b, DelayType DEF Counted
    <3>2. /\ nextRetry' \in [Calls -> Nat]
          /\ retryCount' \in [Calls -> Nat]
      BY <2>11, <2>b, <3>1 DEF Resend
    <3>3. txQueue' \in [Ctx -> Seq(Calls)]
      <4>1. [txQueue EXCEPT ![ConnId[c]] = Append(@, c)] \in [Ctx -> Seq(Calls)]
        BY <2>a, AppendType
      <4> QED
        BY <2>11, <2>a, <4>1 DEF Resend
    <3> QED
      BY <2>11, <3>1, <3>2, <3>3
      DEF Resend, TypeOK, clientVars, sendVars, queueVars,
         wsVars, callVars, retryVars, history
  <2>12. CASE RetrySleep
    BY <2>12 DEF RetrySleep, TypeOK, clientVars, sendVars, queueVars,
       wsVars, callVars, retryVars, history
  <2>13. CASE Established
    BY <2>13 DEF Established, TypeOK, clientVars, sendVars, queueVars,
       wsVars, callVars, retryVars, history
  <2>14. CASE ClientClosed
    <3>1. atCS' \in [Calls -> Nat]
      BY <2>14, <2>b DEF ClientClosed
    <3>2. m_queue' \in Seq(Calls) /\ closed' \in Nat
      BY <2>14 DEF ClientClosed, TypeOK
    <3> QED
      BY <2>14, <3>1, <3>2
      DEF ClientClosed, TypeOK, clientVars, sendVars, queueVars,
         wsVars, callVars, retryVars, history
  <2>15. CASE ClientWriteable
    <3>1. m_queue' \in Seq(Calls)
      BY <2>15, <2>a, TailType DEF ClientWriteable
    <3>2. /\ atCS' \in [Calls -> Nat]
          /\ sent' \in [Calls -> Nat]
      <4>1. Head(m_queue) \in Calls
        BY <2>15, <2>a, TailType DEF ClientWriteable
      <4> QED
        BY <2>15, <2>b, <4>1 DEF ClientWriteable
    <3> QED
      BY <2>15, <3>1, <3>2
      DEF ClientWriteable, TypeOK, clientVars, sendVars, queueVars,
         wsVars, callVars, retryVars, history
  <2>16. ASSUME NEW c \in Calls, ReceiveReply(c)
         PROVE  TypeOK'
    <3>1. atCS' \in [Calls -> Nat]
      BY <2>16, <2>b DEF ReceiveReply
    <3>2. replied' \in [Calls -> SUBSET Replies]
      <4>1. replied \in [Calls -> SUBSET Replies]
        BY DEF TypeOK
      <4>2. ASSUME NEW kind \in Replies
            PROVE  [replied EXCEPT ![c] = @ \cup {kind}] \in [Calls -> SUBSET Replies]
        BY <4>1
      <4> QED
        BY <2>16, <4>1, <4>2 DEF ReceiveReply
    <3>3. received' \in (Calls \X Replies) \cup {<<>>}
      BY <2>16 DEF ReceiveReply, TypeOK
    <3> QED
      BY <2>16, <3>1, <3>2, <3>3
      DEF ReceiveReply, TypeOK, clientVars, sendVars, queueVars,
         wsVars, callVars, retryVars, history
  <2>17. CASE ApplyReply
    BY <2>17 DEF ApplyReply, Succeeds, TypeOK, clientVars, sendVars, queueVars,
       wsVars, callVars, retryVars, history
  <2>18. CASE Start
    <3>1. size' = Contexts * starts'
      BY <2>18, SizeStep, NumberAssumption DEF Start, NewSize, TypeOK
    <3>2. starts' \in 0 .. MaxStarts
      BY <2>18, NumberAssumption DEF Start, TypeOK
    <3> QED
      BY <2>18, <3>1, <3>2 DEF Start, TypeOK, clientVars, sendVars, queueVars,
         wsVars, callVars, retryVars, history
  <2>19. CASE StartAgain
    BY <2>19 DEF StartAgain, TypeOK, clientVars, sendVars, queueVars,
       wsVars, callVars, retryVars, history
  <2>20. CASE Disconnect
    <3>1. atCS' \in [Calls -> Nat]
      BY <2>20, <2>b DEF Disconnect, WsDisconnect
    <3>2. m_queue' \in Seq(Calls)
      BY <2>20, <2>a DEF Disconnect, WsDisconnect
    <3> QED
      BY <2>20, <3>1, <3>2
      DEF Disconnect, WsDisconnect, TypeOK, clientVars, sendVars, queueVars,
         wsVars, callVars, retryVars, history
  <2>21. CASE Stop
    BY <2>21 DEF Stop, TypeOK, clientVars, sendVars, queueVars,
       wsVars, callVars, retryVars, history
  <2>22. CASE StopClear
    BY <2>22 DEF StopClear, TypeOK, clientVars, sendVars, queueVars,
       wsVars, callVars, retryVars, history
  <2>23. CASE StopDisconnect
    <3>1. atCS' \in [Calls -> Nat]
      BY <2>23, <2>b DEF StopDisconnect, WsDisconnect
    <3>2. m_queue' \in Seq(Calls)
      <4>1. CASE m_isConnected
        BY <2>23, <4>1 DEF StopDisconnect, WsDisconnect
      <4>2. CASE ~m_isConnected
        BY <2>23, <2>a, <4>2 DEF StopDisconnect
      <4> QED
        BY <4>1, <4>2
    <3> QED
      BY <2>23, <3>1, <3>2
      DEF StopDisconnect, WsDisconnect, TypeOK, clientVars, sendVars, queueVars,
         wsVars, callVars, retryVars, history
  <2>24. CASE UNCHANGED vars
    BY <2>24 DEF vars, TypeOK, clientVars, sendVars, queueVars, wsVars,
       callVars, retryVars, history
  <2> QED
    BY <2>1, <2>2, <2>3, <2>4, <2>5, <2>6, <2>7, <2>8, <2>9, <2>10, <2>11,
       <2>12, <2>13, <2>14, <2>15, <2>16, <2>17, <2>18, <2>19, <2>20, <2>21,
       <2>22, <2>23, <2>24
    DEF Next, Caller, Sender, Retry, WebSocket, Owner
<1> QED
  BY <1>1, <1>2, PTL DEF Spec

-----------------------------------------------------------------------------
(* The reply invariant: neither a late reply nor the expiry of a call      *)
(* changes an outcome that stands.                                         *)
LEMMA ReplyInvariant == Spec => []ReplyInv
<1>1. Init => ReplyInv
  BY DEF Init, ReplyInv
<1>2. TypeOK /\ ReplyInv /\ [Next]_vars => ReplyInv'
  <2> SUFFICES ASSUME TypeOK, ReplyInv, [Next]_vars
               PROVE  ReplyInv'
    OBVIOUS
  <2>a. /\ finished \in [Calls -> BOOLEAN]
        /\ success \in [Calls -> BOOLEAN]
        /\ replied \in [Calls -> SUBSET Replies]
        /\ caller \in [Calls -> {"idle", "queue", "wait", "true", "false"}]
    BY DEF TypeOK
  <2>1. ASSUME NEW c \in Calls, Reject(c) \/ SendCall(c) \/ Enqueue(c)
        PROVE  ReplyInv'
    BY <2>1, <2>a DEF ReplyInv, Reject, SendCall, Enqueue, wsVars, history
  <2>2. ASSUME NEW c \in Calls, Return(c)
        PROVE  ReplyInv'
    BY <2>2, <2>a DEF ReplyInv, Return, wsVars, history
  <2>3. CASE RetryScan
    BY <2>3, <2>a DEF ReplyInv, RetryScan, wsVars, history
  <2>4. ASSUME NEW c \in Calls, ReceiveReply(c)
        PROVE  ReplyInv'
    BY <2>4, <2>a DEF ReplyInv, ReceiveReply, callVars
  <2>5. CASE ApplyReply
    BY <2>5, <2>a, ReceivedType
    DEF ReplyInv, ApplyReply, Open, Succeeds, history
  <2>6. UNCHANGED <<caller, finished, success, replied, received>> => ReplyInv'
    BY DEF ReplyInv
  <2>7. CASE Tick \/ Owner \/ UNCHANGED vars
    BY <2>6, <2>7 DEF Tick, Owner, Start, StartAgain, Disconnect, Stop,
       StopClear, StopDisconnect, vars, wsVars, callVars, history
  <2>8. ASSUME NEW i \in Ctx, Sender(i)
        PROVE  ReplyInv'
    BY <2>6, <2>8 DEF Sender, Pop, DoSend, SenderExit, wsVars, callVars, history
  <2>9. CASE RetryWake \/ RetrySleep \/ \E c \in Calls : Resend(c)
    BY <2>6, <2>9 DEF RetryWake, RetrySleep, Resend, wsVars, callVars, history
  <2>10. CASE Established \/ ClientClosed \/ ClientWriteable
    BY <2>6, <2>10 DEF Established, ClientClosed, ClientWriteable, callVars,
       history
  <2> QED
    BY <2>1, <2>2, <2>3, <2>4, <2>5, <2>7, <2>8, <2>9, <2>10
    DEF Next, Caller, Retry, WebSocket
<1> QED
  BY <1>1, <1>2, TypeCorrect, PTL DEF Spec

(* sendCall returns true only if a CallResult for this call was received.  *)
THEOREM ReplyCorrect == Spec => []TrueMeansCallResult
<1>1. ReplyInv => TrueMeansCallResult
  BY DEF ReplyInv, TrueMeansCallResult
<1> QED
  BY <1>1, ReplyInvariant, PTL

(* Whichever of parseMessage and the retry thread finishes a call first    *)
(* decides its outcome for good.                                           *)
THEOREM OutcomeCorrect == Spec => OutcomeIsFinal
<1>1. TypeOK /\ [Next]_vars =>
        [\A c \in Calls : finished[c] => finished'[c] /\ success'[c] = success[c]]_vars
  <2> SUFFICES ASSUME TypeOK, Next, NEW c \in Calls, finished[c]
               PROVE  finished'[c] /\ success'[c] = success[c]
    BY Zenon
  <2>a. /\ finished \in [Calls -> BOOLEAN]
        /\ success \in [Calls -> BOOLEAN]
    BY DEF TypeOK
  <2>1. CASE RetryScan
    BY <2>1, <2>a DEF RetryScan
  <2>2. CASE ApplyReply
    BY <2>2, <2>a DEF ApplyReply, Open
  <2>3. CASE UNCHANGED <<finished, success>>
    BY <2>3
  <2>4. Next => RetryScan \/ ApplyReply \/ UNCHANGED <<finished, success>>
    BY DEF Next, Tick, Caller, Reject, SendCall, Enqueue, Return, Sender, Pop,
       DoSend, SenderExit, Retry, RetryWake, Resend, RetrySleep, WebSocket,
       Established, ClientClosed, ClientWriteable, ReceiveReply, Owner, Start,
       StartAgain, Disconnect, Stop, StopClear, StopDisconnect, callVars
  <2> QED
    BY <2>1, <2>2, <2>3, <2>4
<1> QED
  BY <1>1, TypeCorrect, PTL DEF Spec, OutcomeIsFinal

(* The number of resends stays within transactionMessageAttempts, and is   *)
(* zero for calls outside a transaction: the retry list is built under     *)
(* m_pendingMutex but used after it is released, and only this thread      *)
(* counts resends.                                                         *)
THEOREM RetryCorrect == Spec => []RetryBudget
<1>1. Init => RetryInv
  BY CallAssumption, NumberAssumption DEF Init, RetryInv, RetryBudget
<1>2. TypeOK /\ RetryInv /\ [Next]_vars => RetryInv'
  <2> SUFFICES ASSUME TypeOK, RetryInv, [Next]_vars
               PROVE  RetryInv'
    OBVIOUS
  <2>a. retryCount \in [Calls -> Nat] /\ retryList \subseteq Calls
    BY DEF TypeOK
  <2>1. CASE RetryScan
    BY <2>1, <2>a DEF RetryInv, RetryBudget, RetryScan, Due
  <2>2. ASSUME NEW c \in Calls, Resend(c)
        PROVE  RetryInv'
    BY <2>2, <2>a, NumberAssumption DEF RetryInv, RetryBudget, Resend, Counted
  <2>3. CASE UNCHANGED <<retryCount, retryList>>
    BY <2>3 DEF RetryInv, RetryBudget
  <2>4. Next => RetryScan \/ (\E c \in Calls : Resend(c))
                  \/ UNCHANGED <<retryCount, retryList>>
    BY DEF Next, Tick, Caller, Reject, SendCall, Enqueue, Return, Sender, Pop,
       DoSend, SenderExit, Retry, RetryWake, RetrySleep, WebSocket,
       Established, ClientClosed, ClientWriteable, ReceiveReply, ApplyReply,
       Owner, Start, StartAgain, Disconnect, Stop, StopClear, StopDisconnect,
       callVars, retryVars
  <2>5. UNCHANGED vars => UNCHANGED <<retryCount, retryList>>
    BY DEF vars, callVars, retryVars
  <2> QED
    BY <2>1, <2>2, <2>3, <2>4, <2>5
<1>3. RetryInv => RetryBudget
  BY DEF RetryInv
<1> QED
  BY <1>1, <1>2, <1>3, TypeCorrect, PTL DEF Spec

(* After stop has returned no send thread exists, so nothing more is       *)
(* handed to the websocket.                                                *)
THEOREM StopCorrect == Spec => StopQuiesces
<1>1. Init => StopInv
  BY DEF Init, StopInv, SendersJoined
<1>2. TypeOK /\ StopInv /\ [Next]_vars => StopInv'
  <2> SUFFICES ASSUME TypeOK, StopInv, [Next]_vars
               PROVE  StopInv'
    OBVIOUS
  <2>a. /\ hold \in [Ctx -> Calls \cup {None}]
        /\ sender \in [Ctx -> {"none", "run"}]
    BY DEF TypeOK
  <2>1. ASSUME NEW i \in Ctx, Pop(i)
        PROVE  StopInv'
    BY <2>1, <2>a DEF StopInv, SendersJoined, Pop, clientVars
  <2>2. ASSUME NEW i \in Ctx, DoSend(i)
        PROVE  StopInv'
    BY <2>2, <2>a DEF StopInv, SendersJoined, DoSend, clientVars
  <2>3. ASSUME NEW i \in Ctx, SenderExit(i)
        PROVE  StopInv'
    BY <2>3, <2>a DEF StopInv, SendersJoined, SenderExit, clientVars
  <2>4. CASE Start
    BY <2>4, <2>a DEF StopInv, SendersJoined, Start
  <2>5. CASE Stop \/ StopClear \/ StopDisconnect
    BY <2>5, <2>a DEF StopInv, SendersJoined, Stop, StopClear, StopDisconnect,
       sendVars
  <2>6. CASE UNCHANGED <<control, sender, hold>>
    BY <2>6 DEF StopInv, SendersJoined
  <2>7. Next => \/ \E i \in Ctx : Sender(i)
                \/ Start \/ Stop \/ StopClear \/ StopDisconnect
                \/ UNCHANGED <<control, sender, hold>>
    BY DEF Next, Tick, Caller, Reject, SendCall, Enqueue, Return, Retry,
       RetryWake, RetryScan, Resend, RetrySleep, WebSocket, Established,
       ClientClosed, ClientWriteable, ReceiveReply, ApplyReply, Owner,
       StartAgain, Disconnect, clientVars, sendVars
  <2>8. UNCHANGED vars => UNCHANGED <<control, sender, hold>>
    BY DEF vars, clientVars, sendVars
  <2> QED
    BY <2>1, <2>2, <2>3, <2>4, <2>5, <2>6, <2>7, <2>8 DEF Sender
<1>3. TypeOK /\ StopInv /\ [Next]_vars =>
        [control = "stopped" => Len(m_queue') <= Len(m_queue)]_vars
  <2> SUFFICES ASSUME TypeOK, StopInv, Next, control = "stopped"
               PROVE  Len(m_queue') <= Len(m_queue)
    BY Zenon
  <2>a. m_queue \in Seq(Calls)
    BY DEF TypeOK
  <2>1. CASE ClientWriteable
    BY <2>1, <2>a, TailType DEF ClientWriteable
  <2>2. ASSUME NEW i \in Ctx, DoSend(i)
        PROVE  FALSE
    BY <2>2 DEF DoSend, StopInv, SendersJoined
  <2>3. CASE m_queue' = <<>> \/ m_queue' = m_queue
    BY <2>3, <2>a
  <2>4. ClientClosed \/ Disconnect \/ StopDisconnect =>
          m_queue' = <<>> \/ m_queue' = m_queue
    BY Zenon DEF ClientClosed, Disconnect, StopDisconnect, WsDisconnect
  <2>5. \/ ClientClosed \/ Disconnect \/ StopDisconnect \/ ClientWriteable
        \/ \E i \in Ctx : DoSend(i)
        \/ m_queue' = m_queue
    BY DEF Next, Tick, Caller, Reject, SendCall, Enqueue, Return, Sender, Pop,
       SenderExit, Retry, RetryWake, RetryScan, Resend, RetrySleep, WebSocket,
       Established, ReceiveReply, ApplyReply, Owner, Start, StartAgain, Stop,
       StopClear, wsVars
  <2> QED
    BY <2>1, <2>2, <2>3, <2>4, <2>5
<1> QED
  BY <1>1, <1>2, <1>3, TypeCorrect, PTL DEF Spec, StopQuiesces

-----------------------------------------------------------------------------
(* The client implements the contract of sendCall, for every number of     *)
(* calls, connectors and resends.                                          *)
THEOREM ContractCorrect == Spec => ImplementsContract
<1>1. Init => Contract!Init
  BY DEF Init, Contract!Init
<1>2. TypeOK /\ ReplyInv /\ [Next]_vars => [Contract!Next]_(Contract!cvars)
  <2> SUFFICES ASSUME TypeOK, ReplyInv, [Next]_vars
               PROVE  [Contract!Next]_(Contract!cvars)
    OBVIOUS
  <2>a. /\ finished \in [Calls -> BOOLEAN]
        /\ success \in [Calls -> BOOLEAN]
        /\ caller \in [Calls -> {"idle", "queue", "wait", "true", "false"}]
    BY DEF TypeOK
  <2>b. /\ received \in (Calls \X Replies) \cup {<<>>}
        /\ replied \in [Calls -> SUBSET Replies]
    BY DEF TypeOK
  <2>1. ASSUME NEW c \in Calls, Reject(c)
        PROVE  Contract!Refuse(c)
    BY <2>1, <2>a DEF Reject, history, Contract!Refuse
  <2>2. ASSUME NEW c \in Calls, SendCall(c)
        PROVE  Contract!Call(c)
    BY <2>2, <2>a DEF SendCall, history, Contract!Call
  <2>3. ASSUME NEW c \in Calls, Enqueue(c)
        PROVE  UNCHANGED Contract!cvars
    BY <2>3, <2>a DEF Enqueue, history, Contract!cvars
  <2>4. ASSUME NEW c \in Calls, Return(c)
        PROVE  Contract!Return(c)
    BY <2>4, <2>a DEF Return, history, Contract!Return
  <2>5. CASE RetryScan
    <3>1. PICK dead \in SUBSET Calls :
            dead = {c \in m_pending : ~finished[c] /\ Expired(c)}
      BY DEF TypeOK
    <3>2. /\ finished' = [c \in Calls |-> finished[c] \/ c \in dead]
          /\ success' = [c \in Calls |-> success[c] /\ c \notin dead]
          /\ UNCHANGED <<caller, replied>>
      BY <2>5, <3>1 DEF RetryScan, history
    <3>3. \A c \in dead : ~finished[c]
      BY <3>1
    <3>4. Contract!Expire(dead)
      BY <2>a, <3>2, <3>3 DEF Contract!Expire
    <3> QED
      BY <3>4 DEF Contract!Next
  <2>6. ASSUME NEW c \in Calls, ReceiveReply(c)
        PROVE  \/ \E kind \in Contract!Kinds : Contract!Answer(c, kind)
               \/ UNCHANGED Contract!cvars
    BY <2>6, <2>a DEF ReceiveReply, callVars, Replies, Contract!Kinds,
       Contract!Answer, Contract!cvars
  <2>7. CASE ApplyReply
    <3>1. PICK c \in Calls, kind \in Contract!Kinds :
            received[1] = c /\ received[2] = kind
      BY <2>7, ReceivedType DEF ApplyReply, Replies, Contract!Kinds
    <3>2. kind \in replied[c]
      BY <2>7, <3>1 DEF ApplyReply, ReplyInv
    <3>3. CASE finished[c]
      BY <2>7, <3>1, <3>3 DEF ApplyReply, Open, history, Contract!cvars
    <3>4. CASE ~finished[c]
      <4>1. Contract!Judge(c, kind)
        BY <2>7, <2>a, <3>1, <3>2, <3>4
        DEF ApplyReply, Open, Succeeds, history, Contract!Judge
      <4> QED
        BY <4>1 DEF Contract!Next
    <3> QED
      BY <3>3, <3>4
  <2>8. UNCHANGED <<caller, finished, success, replied>> =>
          UNCHANGED Contract!cvars
    BY DEF Contract!cvars
  <2>9. CASE Tick \/ Owner \/ UNCHANGED vars
    BY <2>8, <2>9 DEF Tick, Owner, Start, StartAgain, Disconnect, Stop,
       StopClear, StopDisconnect, vars, callVars, history
  <2>10. ASSUME NEW i \in Ctx, Sender(i)
         PROVE  UNCHANGED Contract!cvars
    BY <2>8, <2>10 DEF Sender, Pop, DoSend, SenderExit, callVars, history
  <2>11. CASE RetryWake \/ RetrySleep \/ \E c \in Calls : Resend(c)
    BY <2>8, <2>11 DEF RetryWake, RetrySleep, Resend, callVars, history
  <2>12. CASE Established \/ ClientClosed \/ ClientWriteable
    BY <2>8, <2>12 DEF Established, ClientClosed, ClientWriteable, callVars,
       history
  <2> QED
    BY <2>1, <2>2, <2>3, <2>4, <2>5, <2>6, <2>7, <2>9, <2>10, <2>11, <2>12
    DEF Next, Caller, Retry, WebSocket, Contract!Next
<1> QED
  BY <1>1, <1>2, TypeCorrect, ReplyInvariant, PTL
  DEF Spec, ImplementsContract, Contract!Spec

-----------------------------------------------------------------------------
(* The spacing of the resends.                                             *)

(* A listed call is pending and was due when the pass began; there is no   *)
(* pass, and no list, without the retry thread.                            *)
BackoffInv ==
  /\ Backoff
  /\ \A c \in Calls : caller[c] = "idle" => retryCount[c] = 0 /\ c \notin m_pending
  /\ control \in {"stopped", "joinSend"} => retry = "exit"
  /\ retry # "resend" => retryList = {}
  /\ \A c \in retryList : c \in m_pending /\ nextRetry[c] <= scanTime

(* The table of delays continues the sum of the earlier ones.              *)
LEMMA ShiftDoubles ==
  ASSUME NEW r \in 0 .. 6
  PROVE  /\ 2 ^ (r + 1) \in Nat /\ Shift[r + 1] = 2 ^ (r + 1)
         /\ 2 ^ ((r + 1) + 1) = 2 ^ (r + 1) + Shift[r + 1]
<1>1. r = 0 \/ r = 1 \/ r = 2 \/ r = 3 \/ r = 4 \/ r = 5 \/ r = 6
  OBVIOUS
<1>2. CASE r = 0
  BY <1>2 DEF Shift
<1>3. CASE r = 1
  BY <1>3 DEF Shift
<1>4. CASE r = 2
  BY <1>4 DEF Shift
<1>5. CASE r = 3
  BY <1>5 DEF Shift
<1>6. CASE r = 4
  BY <1>6 DEF Shift
<1>7. CASE r = 5
  BY <1>7 DEF Shift
<1>8. CASE r = 6
  BY <1>8 DEF Shift
<1> QED BY <1>1, <1>2, <1>3, <1>4, <1>5, <1>6, <1>7, <1>8

(* The bound of Backoff for one call: after k resends, at the time t.      *)
Spaced(b, k, t) == k < 8 => t >= b + RetryInterval * (2 ^ (k + 1) - 1)

(* The first resend, and every further one, keep their distance.           *)
LEMMA FirstSpaced ==
  ASSUME NEW b \in Nat
  PROVE  Spaced(b, 0, b + RetryInterval)
<1>1. PICK k : k = 0
  OBVIOUS
<1>2. 2 ^ (k + 1) = 2
  BY <1>1
<1>3. RetryInterval * (2 - 1) = RetryInterval
  BY NumberAssumption
<1>4. b + RetryInterval >= b + RetryInterval
  BY NumberAssumption
<1> QED BY <1>1, <1>2, <1>3, <1>4 DEF Spaced

LEMMA NextSpaced ==
  ASSUME NEW b \in Nat, NEW k \in Nat, NEW t \in Nat, NEW s \in Nat,
         Spaced(b, k, t), t <= s
  PROVE  Spaced(b, k + 1, s + Delay(k + 1))
<1> SUFFICES ASSUME k + 1 < 8
             PROVE  s + Delay(k + 1) >= b + RetryInterval * (2 ^ ((k + 1) + 1) - 1)
  BY DEF Spaced
<1>1. k \in 0 .. 6
  OBVIOUS
<1>2. PICK p \in Nat : p = 2 ^ (k + 1)
  BY <1>1, ShiftDoubles
<1>3. Shift[k + 1] = p /\ 2 ^ ((k + 1) + 1) = p + p
  BY <1>1, <1>2, ShiftDoubles
<1>4. Delay(k + 1) = RetryInterval * p
  BY <1>3 DEF Delay
<1>5. t >= b + RetryInterval * (p - 1)
  BY <1>1, <1>2 DEF Spaced
<1>6. PICK m \in Int : m = RetryInterval * (p - 1)
  BY <1>2, NumberAssumption
<1>7. PICK q \in Int : q = RetryInterval * p
  BY <1>2, NumberAssumption
<1>8. RetryInterval * ((p + p) - 1) = m + q
  BY <1>2, <1>6, <1>7, NumberAssumption
<1>9. s + q >= b + (m + q)
  BY <1>5, <1>6, <1>7
<1> QED BY <1>3, <1>4, <1>7, <1>8, <1>9

LEMMA BackoffStep == TypeOK /\ BackoffInv /\ [Next]_vars => BackoffInv'
<1> SUFFICES ASSUME TypeOK, BackoffInv, [Next]_vars PROVE BackoffInv'
  OBVIOUS
<1>a. /\ now \in Nat /\ scanTime \in Nat /\ m_pending \subseteq Calls /\ retryList \subseteq Calls
      /\ born \in [Calls -> Nat] /\ nextRetry \in [Calls -> Nat] /\ retryCount \in [Calls -> Nat]
      /\ DOMAIN caller = Calls
  BY DEF TypeOK
<1>b. \A c \in m_pending : Spaced(born[c], retryCount[c], nextRetry[c])
  BY <1>a DEF BackoffInv, Backoff, Spaced
<1>c. ASSUME \A c \in m_pending' : Spaced(born'[c], retryCount'[c], nextRetry'[c])
      PROVE  Backoff'
  BY <1>c DEF Backoff, Spaced
<1>1. ASSUME NEW c \in Calls, SendCall(c) PROVE BackoffInv'
  <2>1. retryCount'[c] = 0 /\ born'[c] = now /\ nextRetry'[c] = now + RetryInterval
    BY <1>1, <1>a DEF SendCall, BackoffInv
  <2>2. Spaced(born'[c], retryCount'[c], nextRetry'[c])
    BY <1>a, <2>1, FirstSpaced
  <2>3. \A d \in m_pending' : Spaced(born'[d], retryCount'[d], nextRetry'[d])
    BY <1>1, <1>a, <1>b, <2>2 DEF SendCall
  <2>4. Backoff'
    BY <1>c, <2>3
  <2> QED BY <1>1, <1>a, <2>4 DEF SendCall, BackoffInv, clientVars, retryVars
<1>2. ASSUME NEW c \in Calls, Resend(c) PROVE BackoffInv'
  <2>1. CASE finished[c]
    <3>1. Backoff'
      BY <1>2, <1>b, <1>c, <2>1 DEF Resend
    <3> QED BY <1>2, <2>1, <3>1 DEF Resend, BackoffInv, clientVars
  <2>2. CASE ~finished[c]
    <3>1. retryCount'[c] = retryCount[c] + 1 /\ nextRetry'[c] = scanTime + Delay(retryCount[c] + 1)
      BY <1>2, <1>a, <2>2 DEF Resend, Counted
    <3>2. c \in m_pending /\ nextRetry[c] <= scanTime
      BY <1>2 DEF Resend, BackoffInv
    <3>3. Spaced(born[c], retryCount[c] + 1, scanTime + Delay(retryCount[c] + 1))
      BY <1>a, <1>b, <3>2, NextSpaced
    <3>4. \A d \in m_pending' : Spaced(born'[d], retryCount'[d], nextRetry'[d])
      BY <1>2, <1>a, <1>b, <2>2, <3>1, <3>3 DEF Resend
    <3>5. Backoff'
      BY <1>c, <3>4
    <3> QED BY <1>2, <1>a, <2>2, <3>2, <3>5 DEF Resend, BackoffInv, clientVars
  <2> QED BY <2>1, <2>2
<1>3. CASE RetryScan
  <2>1. Backoff'
    BY <1>3, <1>b, <1>c DEF RetryScan
  <2> QED BY <1>3, <1>a, <2>1 DEF RetryScan, BackoffInv, Due, Expired, clientVars
<1>4. CASE RetryWake \/ RetrySleep \/ Start \/ Stop \/ StopClear \/ StopDisconnect
  <2>1. Backoff'
    BY <1>4, <1>b, <1>c DEF RetryWake, RetrySleep, Start, Stop, StopClear, StopDisconnect, callVars
  <2> QED BY <1>4, <2>1 DEF RetryWake, RetrySleep, Start, Stop, StopClear, StopDisconnect,
             BackoffInv, clientVars, callVars, retryVars
<1>5. CASE /\ UNCHANGED <<control, m_pending, born, nextRetry, retryCount, retryVars>>
           /\ \A c \in Calls : caller'[c] = "idle" => caller[c] = "idle"
  <2>1. Backoff'
    BY <1>5, <1>b, <1>c
  <2> QED BY <1>5, <2>1 DEF BackoffInv, retryVars
<1>6. ASSUME NEW c \in Calls, Reject(c) \/ Enqueue(c) \/ Return(c) PROVE BackoffInv'
  BY <1>5, <1>6, <1>a DEF Reject, Enqueue, Return, clientVars
<1>7. CASE Tick \/ (\E i \in Ctx : Sender(i)) \/ WebSocket \/ StartAgain \/ Disconnect \/ UNCHANGED vars
  BY <1>5, <1>7 DEF Tick, Sender, Pop, DoSend, SenderExit, WebSocket, Established, ClientClosed,
     ClientWriteable, ReceiveReply, ApplyReply, StartAgain, Disconnect, vars, clientVars, callVars
<1> QED BY <1>1, <1>2, <1>3, <1>4, <1>6, <1>7 DEF Next, Caller, Retry, Owner

(* The k-th resend comes no earlier than RetryInterval * (2^k - 1) after   *)
(* the call, although the pass that resends has released m_pendingMutex    *)
(* and may be late by any time.                                            *)
THEOREM BackoffCorrect == Spec => []Backoff
<1>1. Init => BackoffInv
  BY DEF Init, BackoffInv, Backoff
<1>2. BackoffInv => Backoff
  BY DEF BackoffInv
<1> QED BY <1>1, <1>2, BackoffStep, TypeCorrect, PTL DEF Spec

-----------------------------------------------------------------------------
(* The copies of a call.                                                   *)

(* How often c is in the queue s, or in the hand of a send thread.         *)
Occ(s, c)  == Cardinality({i \in DOMAIN s : s[i] = c})
One(x, c)  == IF x = c THEN 1 ELSE 0

(* The copies of c between its push and the network, where q is m_queue,   *)
(* and tx, nt and h the queues and the hands of the contexts.              *)
Waiting(tx, nt, h, c) ==
  IF ConnId[c] \in Ctx
    THEN Occ(tx[ConnId[c]], c) + Occ(nt[ConnId[c]], c) + One(h[ConnId[c]], c)
    ELSE 0
Copies(q, tx, nt, h, c) == Occ(q, c) + Waiting(tx, nt, h, c)

Pushed(c) == IF caller[c] \in {"idle", "queue"} THEN 0 ELSE 1

(* Every copy, sent or on its way, comes from the push or from a resend;   *)
(* a call is only in the context of its connector.                         *)
InPlace(q, i) == \A j \in DOMAIN q : ConnId[q[j]] = i
WireInv ==
  /\ \A c \in Calls :
       sent[c] + Copies(m_queue, txQueue, nonTxQueue, hold, c) <= Pushed(c) + retryCount[c]
  /\ \A i \in Ctx : InPlace(txQueue[i], i) /\ InPlace(nonTxQueue[i], i)
  /\ \A i \in Ctx : hold[i] # None => ConnId[hold[i]] = i

LEMMA OccFinite ==
  ASSUME NEW s \in Seq(Calls), NEW c
  PROVE  IsFiniteSet({i \in DOMAIN s : s[i] = c}) /\ Occ(s, c) \in Nat
<1>1. PICK n \in Nat : n = Len(s) /\ DOMAIN s = 1 .. n
  OBVIOUS
<1>2. IsFiniteSet(1 .. n)
  BY FS_Interval
<1>3. {i \in DOMAIN s : s[i] = c} \in SUBSET (1 .. n)
  BY <1>1
<1>4. IsFiniteSet({i \in DOMAIN s : s[i] = c})
  BY <1>2, <1>3, FS_Subset
<1> QED BY <1>4, FS_CardinalityType DEF Occ

LEMMA OccEmpty ==
  ASSUME NEW c
  PROVE  Occ(<<>>, c) = 0
<1>1. {i \in DOMAIN <<>> : <<>>[i] = c} = {}
  OBVIOUS
<1> QED BY <1>1, FS_EmptySet DEF Occ

(* A push adds one copy, a pop takes one away.                             *)
LEMMA OccAppend ==
  ASSUME NEW s \in Seq(Calls), NEW x \in Calls, NEW c
  PROVE  Occ(Append(s, x), c) = Occ(s, c) + One(x, c)
<1>1. PICK n \in Nat : n = Len(s) /\ DOMAIN s = 1 .. n
  OBVIOUS
<1>2. PICK q : q = Append(s, x)
  OBVIOUS
<1>3. DOMAIN q = (1 .. n) \cup {n + 1} /\ q[n + 1] = x /\ \A i \in 1 .. n : q[i] = s[i]
  BY <1>1, <1>2
<1>4. PICK A : A = {i \in DOMAIN s : s[i] = c}
  OBVIOUS
<1>5. IsFiniteSet(A) /\ Occ(s, c) = Cardinality(A) /\ Occ(s, c) \in Nat
  BY <1>4, OccFinite DEF Occ
<1>6. CASE x = c
  <2>1. {i \in DOMAIN q : q[i] = c} = A \cup {n + 1} /\ n + 1 \notin A
    BY <1>1, <1>3, <1>4, <1>6
  <2>2. Cardinality(A \cup {n + 1}) = Cardinality(A) + 1
    BY <1>5, <2>1, FS_AddElement
  <2> QED BY <1>2, <1>5, <1>6, <2>1, <2>2 DEF Occ, One
<1>7. CASE x # c
  <2>1. {i \in DOMAIN q : q[i] = c} = A
    BY <1>1, <1>3, <1>4, <1>7
  <2>2. Occ(q, c) = Cardinality(A)
    BY <2>1 DEF Occ
  <2>3. One(x, c) = 0
    BY <1>7 DEF One
  <2> QED BY <1>2, <1>5, <2>2, <2>3
<1> QED BY <1>6, <1>7

LEMMA OccTail ==
  ASSUME NEW s \in Seq(Calls), s # <<>>, NEW c
  PROVE  Occ(s, c) = Occ(Tail(s), c) + One(Head(s), c)
<1>1. PICK n \in Nat : n + 1 = Len(s) /\ DOMAIN s = 1 .. n + 1
  <2>1. Len(s) \in Nat \ {0} /\ DOMAIN s = 1 .. Len(s)
    OBVIOUS
  <2>2. PICK n \in Nat : n + 1 = Len(s)
    <3>1. Len(s) - 1 \in Nat /\ (Len(s) - 1) + 1 = Len(s)
      BY <2>1
    <3> QED BY <3>1
  <2> QED BY <2>1, <2>2
<1>2. PICK q : q = Tail(s)
  OBVIOUS
<1>3. /\ DOMAIN q = 1 .. n /\ q \in Seq(Calls) /\ Head(s) = s[1]
      /\ \A i \in 1 .. n : q[i] = s[i + 1]
  BY <1>1, <1>2
<1>4. PICK A : A = {i \in DOMAIN s : s[i] = c}
  OBVIOUS
<1>5. PICK T : T = {i \in DOMAIN q : q[i] = c}
  OBVIOUS
<1>6. IsFiniteSet(A) /\ IsFiniteSet(T) /\ Occ(s, c) = Cardinality(A) /\ Occ(q, c) = Cardinality(T)
  BY <1>3, <1>4, <1>5, OccFinite DEF Occ
<1>7. Cardinality(T) = Cardinality(A \ {1})
  <2>1. PICK f : f = [i \in T |-> i + 1]
    OBVIOUS
  <2>2. \A i \in T : i \in Int /\ i + 1 \in A \ {1} /\ f[i] = i + 1
    BY <1>1, <1>3, <1>4, <1>5, <2>1
  <2>3. ASSUME NEW a \in A \ {1} PROVE \E i \in T : f[i] = a
    <3>1. a - 1 \in 1 .. n /\ (a - 1) + 1 = a
      BY <1>1, <1>4, <2>3
    <3>2. a - 1 \in T
      BY <1>3, <1>4, <1>5, <3>1
    <3> QED BY <2>2, <3>1, <3>2
  <2>4. f \in [T -> A \ {1}]
    BY <2>1, <2>2
  <2>5. f \in Injection(T, A \ {1})
    BY <2>2, <2>4 DEF Injection, IsInjective
  <2>6. f \in Surjection(T, A \ {1})
    BY <2>3, <2>4 DEF Surjection
  <2>7. ExistsBijection(T, A \ {1})
    BY <2>5, <2>6 DEF ExistsBijection, Bijection
  <2> QED BY <1>6, <2>7, FS_Bijection
<1>8. Cardinality(A) \in Nat /\ Cardinality(T) \in Nat
  BY <1>6, FS_CardinalityType
<1>9. 1 \in A <=> Head(s) = c
  BY <1>1, <1>3, <1>4
<1>10. Cardinality(A \ {1}) = IF 1 \in A THEN Cardinality(A) - 1 ELSE Cardinality(A)
  BY <1>6, FS_RemoveElement
<1> QED BY <1>2, <1>6, <1>7, <1>8, <1>9, <1>10 DEF One

LEMMA CopiesType ==
  ASSUME NEW q \in Seq(Calls), NEW tx \in [Ctx -> Seq(Calls)], NEW nt \in [Ctx -> Seq(Calls)],
         NEW h, NEW c \in Calls
  PROVE  /\ Occ(q, c) \in Nat /\ Waiting(tx, nt, h, c) \in Nat
         /\ Copies(q, tx, nt, h, c) \in Nat
<1>1. Occ(q, c) \in Nat
  BY OccFinite
<1>2. ASSUME ConnId[c] \in Ctx
      PROVE  Occ(tx[ConnId[c]], c) \in Nat /\ Occ(nt[ConnId[c]], c) \in Nat
  <2>1. tx[ConnId[c]] \in Seq(Calls) /\ nt[ConnId[c]] \in Seq(Calls)
    BY <1>2
  <2> QED BY <2>1, OccFinite
<1> QED BY <1>1, <1>2 DEF Copies, Waiting, One

(* A push of x to one of the queues of its context.                        *)
LEMMA CopiesPush ==
  ASSUME NEW q \in Seq(Calls), NEW tx \in [Ctx -> Seq(Calls)], NEW nt \in [Ctx -> Seq(Calls)],
         NEW h, NEW x \in Calls, NEW c \in Calls
  PROVE  /\ Copies(q, [tx EXCEPT ![ConnId[x]] = Append(@, x)], nt, h, c)
              <= Copies(q, tx, nt, h, c) + One(x, c)
         /\ Copies(q, tx, [nt EXCEPT ![ConnId[x]] = Append(@, x)], h, c)
              <= Copies(q, tx, nt, h, c) + One(x, c)
<1>0. One(x, c) \in Nat /\ Occ(q, c) \in Nat
  BY OccFinite DEF One
<1>1. CASE ConnId[c] \notin Ctx
  BY <1>0, <1>1 DEF Copies, Waiting
<1>2. CASE ConnId[c] \in Ctx
  <2>1. tx[ConnId[c]] \in Seq(Calls) /\ nt[ConnId[c]] \in Seq(Calls)
    BY <1>2
  <2>2. /\ Occ(tx[ConnId[c]], c) \in Nat /\ Occ(nt[ConnId[c]], c) \in Nat
        /\ One(h[ConnId[c]], c) \in Nat
    BY <2>1, OccFinite DEF One
  <2>3. CASE ConnId[x] = ConnId[c]
    <3>1. /\ Occ(Append(tx[ConnId[c]], x), c) = Occ(tx[ConnId[c]], c) + One(x, c)
          /\ Occ(Append(nt[ConnId[c]], x), c) = Occ(nt[ConnId[c]], c) + One(x, c)
      BY <2>1, OccAppend
    <3> QED BY <1>0, <1>2, <2>2, <2>3, <3>1 DEF Copies, Waiting
  <2>4. CASE ConnId[x] # ConnId[c]
    BY <1>0, <1>2, <2>2, <2>4 DEF Copies, Waiting
  <2> QED BY <2>3, <2>4
<1> QED BY <1>1, <1>2

LEMMA PlacePush ==
  ASSUME NEW f \in [Ctx -> Seq(Calls)], \A i \in Ctx : InPlace(f[i], i), NEW x \in Calls
  PROVE  \A i \in Ctx : InPlace([f EXCEPT ![ConnId[x]] = Append(@, x)][i], i)
<1> SUFFICES ASSUME NEW i \in Ctx PROVE InPlace([f EXCEPT ![ConnId[x]] = Append(@, x)][i], i)
  OBVIOUS
<1>1. CASE i # ConnId[x]
  BY <1>1
<1>2. CASE i = ConnId[x]
  <2>1. PICK s \in Seq(Calls) : s = f[i]
    OBVIOUS
  <2>2. \A j \in DOMAIN Append(s, x) : Append(s, x)[j] = x \/ (j \in DOMAIN s /\ Append(s, x)[j] = s[j])
    OBVIOUS
  <2>3. InPlace(Append(s, x), i)
    BY <1>2, <2>1, <2>2 DEF InPlace
  <2> QED BY <1>2, <2>1, <2>3
<1> QED BY <1>1, <1>2

(* A send thread pops a message from f[i] into its empty hand: g and k are *)
(* the queues f and the hands h afterwards.                                *)
Popped(f, g, h, k, i) ==
  /\ f[i] # <<>> /\ h[i] = None /\ DOMAIN h = Ctx
  /\ g = [f EXCEPT ![i] = Tail(f[i])]
  /\ k = [h EXCEPT ![i] = Head(f[i])]

(* The number of copies of c that wait is the same as before.              *)
SameWaiting(f, g, h, k, other, c) ==
  /\ Waiting(g, other, k, c) = Waiting(f, other, h, c)
  /\ Waiting(other, g, k, c) = Waiting(other, f, h, c)

LEMMA WaitingPop ==
  ASSUME NEW f \in [Ctx -> Seq(Calls)], NEW other \in [Ctx -> Seq(Calls)], NEW g, NEW h, NEW k,
         NEW i \in Ctx, NEW c \in Calls, Popped(f, g, h, k, i)
  PROVE  SameWaiting(f, g, h, k, other, c)
<1> USE DEF Popped, SameWaiting
<1>1. CASE ConnId[c] # i
  BY <1>1 DEF Waiting
<1>2. CASE ConnId[c] = i
  <2>1. Occ(f[i], c) = Occ(Tail(f[i]), c) + One(Head(f[i]), c)
    BY OccTail
  <2>2. One(h[i], c) = 0
    BY CallAssumption DEF One
  <2>3. Tail(f[i]) \in Seq(Calls)
    BY TailType
  <2>4. Occ(Tail(f[i]), c) \in Nat /\ Occ(other[i], c) \in Nat /\ One(Head(f[i]), c) \in Nat
    BY <2>3, OccFinite DEF One
  <2> QED BY <1>2, <2>1, <2>2, <2>4 DEF Waiting
<1> QED BY <1>1, <1>2

LEMMA PlacePop ==
  ASSUME NEW s \in Seq(Calls), s # <<>>, NEW i, InPlace(s, i)
  PROVE  InPlace(Tail(s), i) /\ ConnId[Head(s)] = i
<1>1. 1 \in DOMAIN s /\ Head(s) = s[1]
  OBVIOUS
<1>2. \A j \in DOMAIN Tail(s) : j + 1 \in DOMAIN s /\ Tail(s)[j] = s[j + 1]
  OBVIOUS
<1> QED BY <1>1, <1>2 DEF InPlace

CopiesNow(c) == Copies(m_queue, txQueue, nonTxQueue, hold, c)

LEMMA WireStep == TypeOK /\ TypeOK' /\ WireInv /\ [Next]_vars => WireInv'
<1> SUFFICES ASSUME TypeOK, TypeOK', WireInv, [Next]_vars PROVE WireInv'
  OBVIOUS
<1>a. /\ hold \in [Ctx -> Calls \cup {None}] /\ m_queue \in Seq(Calls)
      /\ txQueue \in [Ctx -> Seq(Calls)] /\ nonTxQueue \in [Ctx -> Seq(Calls)]
      /\ sent \in [Calls -> Nat] /\ retryCount \in [Calls -> Nat] /\ DOMAIN caller = Calls
  BY DEF TypeOK
<1>b. m_queue' \in Seq(Calls) /\ txQueue' \in [Ctx -> Seq(Calls)] /\ nonTxQueue' \in [Ctx -> Seq(Calls)]
  BY DEF TypeOK
<1>c. \A c \in Calls : CopiesNow(c) \in Nat /\ CopiesNow(c)' \in Nat
  <2>1. \A c \in Calls : CopiesNow(c) \in Nat
    BY <1>a, CopiesType DEF CopiesNow
  <2>2. \A c \in Calls : CopiesNow(c)' \in Nat
    BY <1>b, CopiesType DEF CopiesNow
  <2> QED BY <2>1, <2>2
<1>d. \A c \in Calls : Pushed(c) \in Nat /\ sent[c] \in Nat /\ retryCount[c] \in Nat
  BY <1>a DEF Pushed
<1>e. \A c \in Calls : sent[c] + CopiesNow(c) <= Pushed(c) + retryCount[c]
  BY DEF WireInv, CopiesNow
<1>f. \A x, c : One(x, c) \in Nat
  BY DEF One
<1>1. ASSUME NEW x \in Calls, Enqueue(x) PROVE WireInv'
  <2>1. \A c \in Calls : Pushed(c)' = Pushed(c) + One(x, c)
    BY <1>1, <1>a DEF Enqueue, Pushed, One
  <2>2. /\ UNCHANGED <<m_queue, hold, sent, retryCount>>
        /\ \/ txQueue' = [txQueue EXCEPT ![ConnId[x]] = Append(@, x)] /\ nonTxQueue' = nonTxQueue
           \/ nonTxQueue' = [nonTxQueue EXCEPT ![ConnId[x]] = Append(@, x)] /\ txQueue' = txQueue
    BY <1>1 DEF Enqueue, sendVars, wsVars, history
  <2>3. \A c \in Calls : CopiesNow(c)' <= CopiesNow(c) + One(x, c)
    BY <1>a, <2>2, CopiesPush DEF CopiesNow
  <2>4. \A c \in Calls : sent'[c] + CopiesNow(c)' <= Pushed(c)' + retryCount'[c]
    <3> TAKE c \in Calls
    <3>1. CopiesNow(c) \in Nat /\ CopiesNow(c)' \in Nat /\ One(x, c) \in Nat
      BY <1>c, <1>f
    <3>2. Pushed(c) \in Nat /\ sent[c] \in Nat /\ retryCount[c] \in Nat
      BY <1>d
    <3>3. sent[c] + CopiesNow(c) <= Pushed(c) + retryCount[c]
      BY <1>e
    <3>4. /\ sent'[c] = sent[c] /\ retryCount'[c] = retryCount[c]
         /\ Pushed(c)' = Pushed(c) + One(x, c) /\ CopiesNow(c)' <= CopiesNow(c) + One(x, c)
      BY <2>1, <2>2, <2>3
    <3> QED BY <3>1, <3>2, <3>3, <3>4
  <2>5. \A i \in Ctx : InPlace(txQueue'[i], i) /\ InPlace(nonTxQueue'[i], i)
    BY <1>a, <2>2, PlacePush DEF WireInv
  <2> QED BY <2>2, <2>4, <2>5 DEF WireInv, CopiesNow
<1>2. ASSUME NEW x \in Calls, Resend(x) PROVE WireInv'
  <2>1. UNCHANGED <<m_queue, hold, sent, nonTxQueue, caller>>
    BY <1>2 DEF Resend, sendVars, wsVars, history
  <2>2. CASE finished[x]
    BY <1>2, <2>1, <2>2 DEF Resend, WireInv, Pushed
  <2>3. CASE ~finished[x]
    <3>1. /\ txQueue' = [txQueue EXCEPT ![ConnId[x]] = Append(@, x)]
          /\ \A c \in Calls : retryCount'[c] = retryCount[c] + One(x, c)
      BY <1>2, <1>a, <2>3 DEF Resend, Counted, One
    <3>2. \A c \in Calls : CopiesNow(c)' <= CopiesNow(c) + One(x, c)
      BY <1>a, <2>1, <3>1, CopiesPush DEF CopiesNow
    <3>3. \A c \in Calls : Pushed(c)' = Pushed(c)
      BY <2>1 DEF Pushed
    <3>4. \A c \in Calls : sent'[c] + CopiesNow(c)' <= Pushed(c)' + retryCount'[c]
      <4> TAKE c \in Calls
      <4>1. CopiesNow(c) \in Nat /\ CopiesNow(c)' \in Nat /\ One(x, c) \in Nat
        BY <1>c, <1>f
      <4>2. Pushed(c) \in Nat /\ sent[c] \in Nat /\ retryCount[c] \in Nat
        BY <1>d
      <4>3. sent[c] + CopiesNow(c) <= Pushed(c) + retryCount[c]
        BY <1>e
      <4>4. /\ sent'[c] = sent[c] /\ retryCount'[c] = retryCount[c] + One(x, c)
           /\ Pushed(c)' = Pushed(c) /\ CopiesNow(c)' <= CopiesNow(c) + One(x, c)
        BY <2>1, <3>1, <3>2, <3>3
      <4> QED BY <4>1, <4>2, <4>3, <4>4
    <3>5. \A i \in Ctx : InPlace(txQueue'[i], i) /\ InPlace(nonTxQueue'[i], i)
      BY <1>a, <2>1, <3>1, PlacePush DEF WireInv
    <3> QED BY <2>1, <3>4, <3>5 DEF WireInv, CopiesNow
  <2> QED BY <2>2, <2>3
<1>g. ASSUME UNCHANGED <<sent, retryCount, caller>>,
             \A c \in Calls : CopiesNow(c)' <= CopiesNow(c)
      PROVE  \A c \in Calls : sent'[c] + CopiesNow(c)' <= Pushed(c)' + retryCount'[c]
  <2> TAKE c \in Calls
  <2>1. Pushed(c)' = Pushed(c) /\ sent'[c] = sent[c] /\ retryCount'[c] = retryCount[c]
    BY <1>g DEF Pushed
  <2>2. CopiesNow(c)' <= CopiesNow(c) /\ CopiesNow(c) \in Nat /\ CopiesNow(c)' \in Nat
    BY <1>c, <1>g
  <2>3. Pushed(c) \in Nat /\ sent[c] \in Nat /\ retryCount[c] \in Nat
    BY <1>d
  <2>4. sent[c] + CopiesNow(c) <= Pushed(c) + retryCount[c]
    BY <1>e
  <2> QED BY <2>1, <2>2, <2>3, <2>4
<1>h. \A c \in Calls : Occ(m_queue, c) \in Nat /\ Waiting(txQueue, nonTxQueue, hold, c) \in Nat
  BY <1>a, CopiesType
<1>3. ASSUME NEW i \in Ctx, Pop(i) PROVE WireInv'
  <2>1. UNCHANGED <<m_queue, sent, retryCount, caller>> /\ hold[i] = None /\ DOMAIN hold = Ctx
    BY <1>3, <1>a DEF Pop, wsVars, callVars, history
  <2>2. CASE /\ txQueue[i] # <<>>
             /\ hold' = [hold EXCEPT ![i] = Head(txQueue[i])]
             /\ txQueue' = [txQueue EXCEPT ![i] = Tail(@)]
             /\ UNCHANGED nonTxQueue
    <3>1. \A c \in Calls : Waiting(txQueue', nonTxQueue', hold', c) = Waiting(txQueue, nonTxQueue, hold, c)
      <4>1. Popped(txQueue, txQueue', hold, hold', i)
        BY <2>1, <2>2 DEF Popped
      <4>2. txQueue \in [Ctx -> Seq(Calls)] /\ nonTxQueue \in [Ctx -> Seq(Calls)]
        BY <1>a
      <4>3. ASSUME NEW c \in Calls
            PROVE  Waiting(txQueue', nonTxQueue, hold', c) = Waiting(txQueue, nonTxQueue, hold, c)
        <5>1. SameWaiting(txQueue, txQueue', hold, hold', nonTxQueue, c)
          BY <4>1, <4>2, WaitingPop
        <5> QED BY <5>1 DEF SameWaiting
      <4> QED BY <2>2, <4>3
    <3>2. \A c \in Calls : CopiesNow(c)' <= CopiesNow(c)
      BY <1>h, <2>1, <3>1 DEF CopiesNow, Copies
    <3>3. InPlace(Tail(txQueue[i]), i) /\ ConnId[Head(txQueue[i])] = i
      BY <1>a, <2>2, PlacePop DEF WireInv
    <3>4. \A j \in Ctx : /\ InPlace(txQueue'[j], j) /\ InPlace(nonTxQueue'[j], j)
                         /\ hold'[j] # None => ConnId[hold'[j]] = j
      BY <1>a, <2>2, <3>3 DEF WireInv
    <3> QED BY <1>g, <2>1, <3>2, <3>4 DEF WireInv, CopiesNow
  <2>3. CASE /\ nonTxQueue[i] # <<>>
             /\ hold' = [hold EXCEPT ![i] = Head(nonTxQueue[i])]
             /\ nonTxQueue' = [nonTxQueue EXCEPT ![i] = Tail(@)]
             /\ UNCHANGED txQueue
    <3>1. \A c \in Calls : Waiting(txQueue', nonTxQueue', hold', c) = Waiting(txQueue, nonTxQueue, hold, c)
      <4>1. Popped(nonTxQueue, nonTxQueue', hold, hold', i)
        BY <2>1, <2>3 DEF Popped
      <4>2. txQueue \in [Ctx -> Seq(Calls)] /\ nonTxQueue \in [Ctx -> Seq(Calls)]
        BY <1>a
      <4>3. ASSUME NEW c \in Calls
            PROVE  Waiting(txQueue, nonTxQueue', hold', c) = Waiting(txQueue, nonTxQueue, hold, c)
        <5>1. SameWaiting(nonTxQueue, nonTxQueue', hold, hold', txQueue, c)
          BY <4>1, <4>2, WaitingPop
        <5> QED BY <5>1 DEF SameWaiting
      <4> QED BY <2>3, <4>3
    <3>2. \A c \in Calls : CopiesNow(c)' <= CopiesNow(c)
      BY <1>h, <2>1, <3>1 DEF CopiesNow, Copies
    <3>3. InPlace(Tail(nonTxQueue[i]), i) /\ ConnId[Head(nonTxQueue[i])] = i
      BY <1>a, <2>3, PlacePop DEF WireInv
    <3>4. \A j \in Ctx : /\ InPlace(txQueue'[j], j) /\ InPlace(nonTxQueue'[j], j)
                         /\ hold'[j] # None => ConnId[hold'[j]] = j
      BY <1>a, <2>3, <3>3 DEF WireInv
    <3> QED BY <1>g, <2>1, <3>2, <3>4 DEF WireInv, CopiesNow
  <2> QED BY <1>3, <2>2, <2>3 DEF Pop
<1>4. ASSUME NEW i \in Ctx, DoSend(i) PROVE WireInv'
  <2>1. PICK x \in Calls : x = hold[i] /\ ConnId[x] = i
    BY <1>4, <1>a DEF DoSend, WireInv
  <2>2. /\ m_queue' = Append(m_queue, x) /\ hold' = [hold EXCEPT ![i] = None]
        /\ UNCHANGED <<txQueue, nonTxQueue, sent, retryCount, caller>>
    BY <1>4, <2>1 DEF DoSend, queueVars, callVars, history
  <2>3. \A c \in Calls : CopiesNow(c)' <= CopiesNow(c)
    <3> TAKE c \in Calls
    <3>1. Occ(m_queue', c) = Occ(m_queue, c) + One(x, c)
      BY <1>a, <2>2, OccAppend
    <3>2. Waiting(txQueue', nonTxQueue', hold', c) + One(x, c) = Waiting(txQueue, nonTxQueue, hold, c)
      <4>1. CASE ConnId[c] = i
        <5>1. One(hold'[i], c) = 0 /\ One(hold[i], c) = One(x, c)
          BY <1>a, <2>1, <2>2, CallAssumption DEF One
        <5>2. txQueue[i] \in Seq(Calls) /\ nonTxQueue[i] \in Seq(Calls)
          BY <1>a
        <5>3. Occ(txQueue[i], c) \in Nat /\ Occ(nonTxQueue[i], c) \in Nat /\ One(x, c) \in Nat
          BY <1>f, <5>2, OccFinite
        <5> QED BY <2>2, <4>1, <5>1, <5>3 DEF Waiting
      <4>2. CASE ConnId[c] # i
        <5>1. One(x, c) = 0
          BY <2>1, <4>2 DEF One
        <5>2. Waiting(txQueue', nonTxQueue', hold', c) = Waiting(txQueue, nonTxQueue, hold, c)
          BY <1>a, <2>2, <4>2 DEF Waiting
        <5> QED BY <1>h, <5>1, <5>2
      <4> QED BY <4>1, <4>2
    <3>3. Waiting(txQueue', nonTxQueue', hold', c) \in Nat
      BY <1>b, CopiesType
    <3> QED BY <1>f, <1>h, <3>1, <3>2, <3>3 DEF CopiesNow, Copies
  <2>4. \A j \in Ctx : hold'[j] # None => ConnId[hold'[j]] = j
    BY <1>a, <2>2 DEF WireInv
  <2> QED BY <1>g, <2>2, <2>3, <2>4 DEF WireInv, CopiesNow
<1>5. CASE ClientWriteable
  <2>1. PICK x \in Calls : x = Head(m_queue)
    BY <1>5, <1>a, TailType DEF ClientWriteable
  <2>2. /\ UNCHANGED <<txQueue, nonTxQueue, hold, caller, retryCount>>
        /\ m_queue # <<>> /\ m_queue' = Tail(m_queue)
        /\ \A c \in Calls : sent'[c] = sent[c] + One(x, c)
    BY <1>5, <1>a, <2>1 DEF ClientWriteable, sendVars, queueVars, callVars, One
  <2>3. \A c \in Calls : Occ(m_queue, c) = Occ(m_queue', c) + One(x, c)
    BY <1>a, <2>1, <2>2, OccTail
  <2>4. \A c \in Calls : CopiesNow(c) = CopiesNow(c)' + One(x, c)
    <3> TAKE c \in Calls
    <3>1. Occ(m_queue', c) \in Nat
      BY <1>b, CopiesType
    <3> QED BY <1>f, <1>h, <2>2, <2>3, <3>1 DEF CopiesNow, Copies
  <2>5. \A c \in Calls : Pushed(c)' = Pushed(c)
    BY <2>2 DEF Pushed
  <2>6. \A c \in Calls : sent'[c] + CopiesNow(c)' <= Pushed(c)' + retryCount'[c]
    <3> TAKE c \in Calls
    <3>1. CopiesNow(c) \in Nat /\ CopiesNow(c)' \in Nat /\ One(x, c) \in Nat
      BY <1>c, <1>f
    <3>2. Pushed(c) \in Nat /\ sent[c] \in Nat /\ retryCount[c] \in Nat
      BY <1>d
    <3>3. sent[c] + CopiesNow(c) <= Pushed(c) + retryCount[c]
      BY <1>e
    <3>4. /\ sent'[c] = sent[c] + One(x, c) /\ retryCount'[c] = retryCount[c]
         /\ Pushed(c)' = Pushed(c) /\ CopiesNow(c) = CopiesNow(c)' + One(x, c)
      BY <2>2, <2>4, <2>5
    <3> QED BY <3>1, <3>2, <3>3, <3>4
  <2> QED BY <2>2, <2>6 DEF WireInv, CopiesNow
<1>6. CASE /\ m_queue' = <<>>
           /\ UNCHANGED <<txQueue, nonTxQueue, hold, caller, retryCount, sent>>
  <2>1. \A c \in Calls : Occ(m_queue', c) = 0
    BY <1>6, OccEmpty
  <2>2. \A c \in Calls : CopiesNow(c)' <= CopiesNow(c)
    BY <1>h, <1>6, <2>1 DEF CopiesNow, Copies
  <2> QED BY <1>g, <1>6, <2>2 DEF WireInv, CopiesNow
<1>7. CASE /\ UNCHANGED <<m_queue, txQueue, nonTxQueue, hold, retryCount, sent>>
           /\ \A c \in Calls : Pushed(c) <= Pushed(c)' /\ Pushed(c)' \in Nat
  <2>1. \A c \in Calls : sent'[c] + CopiesNow(c)' <= Pushed(c)' + retryCount'[c]
    BY <1>c, <1>d, <1>e, <1>7 DEF CopiesNow
  <2> QED BY <1>7, <2>1 DEF WireInv, CopiesNow
<1>8. ASSUME NEW c \in Calls, Reject(c) \/ SendCall(c) \/ Return(c) PROVE WireInv'
  <2>1. \A d \in Calls : Pushed(d) <= Pushed(d)' /\ Pushed(d)' \in Nat
    BY <1>8, <1>a DEF Reject, SendCall, Return, Pushed
  <2> QED BY <1>7, <1>8, <2>1 DEF Reject, SendCall, Return, sendVars, queueVars, wsVars, history
<1>9. CASE ClientClosed \/ Disconnect \/ StopDisconnect
  <2>1. UNCHANGED <<txQueue, nonTxQueue, hold, caller, retryCount, sent>> /\ m_queue' \in {<<>>, m_queue}
    BY <1>9 DEF ClientClosed, Disconnect, StopDisconnect, WsDisconnect, sendVars, queueVars, callVars, history
  <2>2. \A d \in Calls : Pushed(d) <= Pushed(d)' /\ Pushed(d)' \in Nat
    BY <2>1 DEF Pushed
  <2> QED BY <1>6, <1>7, <2>1, <2>2
<1>10. CASE UNCHANGED <<m_queue, txQueue, nonTxQueue, hold, retryCount, sent, caller>>
  <2>1. \A d \in Calls : Pushed(d) <= Pushed(d)' /\ Pushed(d)' \in Nat
    BY <1>10 DEF Pushed
  <2> QED BY <1>7, <1>10, <2>1
<1>11. CASE \/ Tick \/ (\E i \in Ctx : SenderExit(i)) \/ RetryWake \/ RetryScan \/ RetrySleep
            \/ Established \/ (\E c \in Calls : ReceiveReply(c)) \/ ApplyReply
            \/ Start \/ StartAgain \/ Stop \/ StopClear \/ UNCHANGED vars
  BY <1>10, <1>11 DEF Tick, SenderExit, RetryWake, RetryScan, RetrySleep, Established, ReceiveReply,
     ApplyReply, Start, StartAgain, Stop, StopClear, vars, sendVars, queueVars, wsVars, callVars, history
<1> QED BY <1>1, <1>2, <1>3, <1>4, <1>5, <1>8, <1>9, <1>11
        DEF Next, Caller, Sender, Retry, WebSocket, Owner

(* A call is written to the network at most once for its own push and once *)
(* for each resend: whatever the threads do with their queues, they move   *)
(* copies and lose them, and only sendCall and the retry thread make any.  *)
THEOREM WireCorrect == Spec => []WireBudget
<1>1. Init => WireInv
  <2> SUFFICES ASSUME Init PROVE WireInv
    OBVIOUS
  <2>1. ASSUME NEW c \in Calls
        PROVE  sent[c] = 0 /\ retryCount[c] = 0 /\ Pushed(c) = 0 /\ CopiesNow(c) = 0
    <3>1. Occ(<<>>, c) = 0 /\ One(None, c) = 0
      BY OccEmpty, CallAssumption DEF One
    <3> QED BY <3>1 DEF Init, Pushed, CopiesNow, Copies, Waiting
  <2> QED BY <2>1 DEF Init, WireInv, InPlace, CopiesNow
<1>2. TypeOK /\ WireInv => WireBudget
  <2> SUFFICES ASSUME TypeOK, WireInv, NEW c \in Calls PROVE sent[c] <= 1 + retryCount[c]
    BY DEF WireBudget
  <2>1. Copies(m_queue, txQueue, nonTxQueue, hold, c) \in Nat
    BY CopiesType DEF TypeOK
  <2>2. Pushed(c) \in 0 .. 1 /\ sent[c] \in Nat /\ retryCount[c] \in Nat
    BY DEF Pushed, TypeOK
  <2>3. sent[c] + Copies(m_queue, txQueue, nonTxQueue, hold, c) <= Pushed(c) + retryCount[c]
    BY DEF WireInv
  <2> QED BY <2>1, <2>2, <2>3
<1> QED BY <1>1, <1>2, WireStep, TypeCorrect, PTL DEF Spec
=============================================================================
