------------------------------ MODULE OCPPCall ------------------------------
(***************************************************************************)
(* The synchronous call path of OCPPClient (src/ocpp/client/OCPPClient.cpp) *)
(* and the part of WebSocketClient it rests on: callers blocked in          *)
(* sendCall, one send thread per connector context, the retry/timeout       *)
(* thread, the websocket service thread, and start/stop.                    *)
(*                                                                          *)
(* A call is one invocation of sendCall; the call itself stands for its     *)
(* uniqueId, for the serialized text (raw) and for the PendingCall object.  *)
(* Its arguments are given by the constant functions IsTx, ConnId, Timeout. *)
(***************************************************************************)
EXTENDS Integers, Sequences, FiniteSets

CONSTANTS
  Calls,          \* the sendCall invocations
  IsTx,           \* [Calls -> BOOLEAN], the argument isTx
  ConnId,         \* [Calls -> Nat], the argument connId
  Timeout,        \* [Calls -> Nat], the argument timeout
  WellFormed,     \* the calls whose payload passes the JSON schema
  ConnectorNum,   \* number of guns, as given to the constructor
  RetryInterval,  \* m_connectInfo.retryInterval
  MaxRetry,       \* m_connectInfo.transactionMessageAttempts
  MaxTime,        \* bound of the clock
  MaxStarts,      \* bound on the number of calls of start
  MaxClosed,      \* bound on the number of connection losses
  None            \* "no message"

ASSUME CallAssumption ==
  /\ IsTx \in [Calls -> BOOLEAN]
  /\ ConnId \in [Calls -> Nat]
  /\ Timeout \in [Calls -> Nat]
  /\ WellFormed \subseteq Calls
  /\ None \notin Calls

ASSUME NumberAssumption ==
  /\ ConnectorNum \in Nat
  /\ RetryInterval \in Nat
  /\ MaxRetry \in Nat
  /\ MaxTime \in Nat
  /\ MaxStarts \in Nat
  /\ MaxClosed \in Nat

VARIABLES
  now,            \* steady_clock
  control,        \* progress of start and stop
  starts,         \* how often start has succeeded
  size,           \* m_connectors.size()
  running,        \* ConnectorContext::running
  sender,         \* state of sendThread(i)
  hold,           \* the message sendThread(i) has popped and not yet sent
  txQueue,        \* ConnectorContext::txQueue
  nonTxQueue,     \* ConnectorContext::nonTxQueue
  m_isConnected,
  wsThread,       \* the websocket service thread exists (m_thread)
  m_queue,        \* WebSocketClient::m_queue
  closed,         \* how often the connection was lost
  atCS,           \* copies of a call at the central system, not answered yet
  received,       \* the reply parseMessage has looked up and not yet applied
  m_pending,
  caller,         \* progress and result of sendCall
  born,           \* when sendCall created the PendingCall
  nextRetry,
  retryCount,
  finished,
  success,
  retry,          \* progress of retryTimeoutThread
  scanTime,       \* its local variable now
  retryList,
  sent,           \* history: copies of a call written to the network
  replied         \* history: the kinds of reply received for a call

clientVars == <<control, starts, size, running>>
sendVars   == <<sender, hold>>
queueVars  == <<txQueue, nonTxQueue>>
wsVars     == <<m_isConnected, wsThread, m_queue, closed, atCS, received>>
callVars   == <<caller, born, nextRetry, retryCount, finished, success>>
retryVars  == <<retry, scanTime, retryList>>
history    == <<sent, replied>>
vars == <<now, clientVars, sendVars, queueVars, wsVars, m_pending, callVars,
          retryVars, history>>

(* The constructor adds one to the number of guns and start creates a      *)
(* context for every i from 0 to m_connectorNum inclusive.                 *)
Contexts == ConnectorNum + 2
Ctx == 0 .. Contexts * MaxStarts - 1

m_running == control = "running"

expireAt(c) == born[c] + Timeout[c]

Replies == {"CallResult", "CallError"}

(* The delay before the next resend, doubling with every resend up to      *)
(* 2^8; the product stays below 2^32 for every interval below 4.6 hours.   *)
Shift == <<2, 4, 8, 16, 32, 64, 128, 256>>
DelayFlat(count) == RetryInterval
Delay(count) == RetryInterval * Shift[IF count < 8 THEN count ELSE 8]

TypeOK ==
  /\ now \in Nat
  /\ control \in {"stopped", "running", "joinRetry", "joinSend"}
  /\ starts \in 0 .. MaxStarts
  /\ size = Contexts * starts
  /\ running \in [Ctx -> BOOLEAN]
  /\ sender \in [Ctx -> {"none", "run"}]
  /\ hold \in [Ctx -> Calls \cup {None}]
  /\ txQueue \in [Ctx -> Seq(Calls)]
  /\ nonTxQueue \in [Ctx -> Seq(Calls)]
  /\ m_isConnected \in BOOLEAN
  /\ wsThread \in BOOLEAN
  /\ m_queue \in Seq(Calls)
  /\ closed \in Nat
  /\ atCS \in [Calls -> Nat]
  /\ received \in (Calls \X Replies) \cup {<<>>}
  /\ m_pending \subseteq Calls
  /\ caller \in [Calls -> {"idle", "queue", "wait", "true", "false"}]
  /\ born \in [Calls -> Nat]
  /\ nextRetry \in [Calls -> Nat]
  /\ retryCount \in [Calls -> Nat]
  /\ finished \in [Calls -> BOOLEAN]
  /\ success \in [Calls -> BOOLEAN]
  /\ retry \in {"exit", "sleep", "scan", "resend"}
  /\ scanTime \in Nat
  /\ retryList \subseteq Calls
  /\ sent \in [Calls -> Nat]
  /\ replied \in [Calls -> SUBSET Replies]

Init ==
  /\ now = 0
  /\ control = "stopped"
  /\ starts = 0
  /\ size = 0
  /\ running = [i \in Ctx |-> FALSE]
  /\ sender = [i \in Ctx |-> "none"]
  /\ hold = [i \in Ctx |-> None]
  /\ txQueue = [i \in Ctx |-> <<>>]
  /\ nonTxQueue = [i \in Ctx |-> <<>>]
  /\ m_isConnected = FALSE
  /\ wsThread = FALSE
  /\ m_queue = <<>>
  /\ closed = 0
  /\ atCS = [c \in Calls |-> 0]
  /\ received = <<>>
  /\ m_pending = {}
  /\ caller = [c \in Calls |-> "idle"]
  /\ born = [c \in Calls |-> 0]
  /\ nextRetry = [c \in Calls |-> 0]
  /\ retryCount = [c \in Calls |-> 0]
  /\ finished = [c \in Calls |-> FALSE]
  /\ success = [c \in Calls |-> FALSE]
  /\ retry = "exit"
  /\ scanTime = 0
  /\ retryList = {}
  /\ sent = [c \in Calls |-> 0]
  /\ replied = [c \in Calls |-> {}]

-----------------------------------------------------------------------------
(* The clock.  A thread may be delayed for any time between two steps.     *)
Tick ==
  /\ now < MaxTime
  /\ now' = now + 1
  /\ UNCHANGED <<clientVars, sendVars, queueVars, wsVars, m_pending, callVars,
                 retryVars, history>>

-----------------------------------------------------------------------------
(* sendCall, in the thread of the caller.                                  *)

Accepted(c) == m_isConnected /\ c \in WellFormed /\ ConnId[c] < size

Reject(c) ==
  /\ caller[c] = "idle"
  /\ ~Accepted(c)
  /\ caller' = [caller EXCEPT ![c] = "false"]
  /\ UNCHANGED <<now, clientVars, sendVars, queueVars, wsVars, m_pending, born,
                 nextRetry, retryCount, finished, success, retryVars, history>>

(* Create the PendingCall and insert it under m_pendingMutex.  Only calls  *)
(* whose deadline lies within the bound of the clock are started.          *)
SendCall(c) ==
  /\ caller[c] = "idle"
  /\ Accepted(c)
  /\ now + Timeout[c] <= MaxTime
  /\ caller' = [caller EXCEPT ![c] = "queue"]
  /\ born' = [born EXCEPT ![c] = now]
  /\ nextRetry' = [nextRetry EXCEPT ![c] = now + RetryInterval]
  /\ m_pending' = m_pending \cup {c}
  /\ UNCHANGED <<now, clientVars, sendVars, queueVars, wsVars, retryCount,
                 finished, success, retryVars, history>>

(* Push the message to the connector's queue; the lock is no longer held.  *)
Enqueue(c) ==
  /\ caller[c] = "queue"
  /\ caller' = [caller EXCEPT ![c] = "wait"]
  /\ IF IsTx[c]
       THEN /\ txQueue' = [txQueue EXCEPT ![ConnId[c]] = Append(@, c)]
            /\ UNCHANGED nonTxQueue
       ELSE /\ nonTxQueue' = [nonTxQueue EXCEPT ![ConnId[c]] = Append(@, c)]
            /\ UNCHANGED txQueue
  /\ UNCHANGED <<now, clientVars, sendVars, wsVars, m_pending, born, nextRetry,
                 retryCount, finished, success, retryVars, history>>

(* wait_until returns: with the predicate true, or false at the deadline.  *)
WaitOverNoDeadline(c) == finished[c]
WaitOver(c) == finished[c] \/ now >= expireAt(c)

Return(c) ==
  /\ caller[c] = "wait"
  /\ WaitOver(c)
  /\ caller' = [caller EXCEPT ![c] =
                  IF finished[c] /\ success[c] THEN "true" ELSE "false"]
  /\ UNCHANGED <<now, clientVars, sendVars, queueVars, wsVars, m_pending, born,
                 nextRetry, retryCount, finished, success, retryVars, history>>

Caller(c) == Reject(c) \/ SendCall(c) \/ Enqueue(c) \/ Return(c)

-----------------------------------------------------------------------------
(* sendThread(i): transaction messages first.                              *)

Pop(i) ==
  /\ sender[i] = "run"
  /\ running[i]
  /\ hold[i] = None
  /\ \/ /\ txQueue[i] # <<>>
        /\ hold' = [hold EXCEPT ![i] = Head(txQueue[i])]
        /\ txQueue' = [txQueue EXCEPT ![i] = Tail(@)]
        /\ UNCHANGED nonTxQueue
     \/ /\ txQueue[i] = <<>>
        /\ nonTxQueue[i] # <<>>
        /\ hold' = [hold EXCEPT ![i] = Head(nonTxQueue[i])]
        /\ nonTxQueue' = [nonTxQueue EXCEPT ![i] = Tail(@)]
        /\ UNCHANGED txQueue
  /\ UNCHANGED <<now, clientVars, sender, wsVars, m_pending, callVars,
                 retryVars, history>>

(* doSend: WebSocketClient::send queues the message, connected or not.     *)
DoSend(i) ==
  /\ hold[i] # None
  /\ m_queue' = Append(m_queue, hold[i])
  /\ hold' = [hold EXCEPT ![i] = None]
  /\ UNCHANGED <<now, clientVars, sender, queueVars, m_isConnected, wsThread,
                 closed, atCS, received, m_pending, callVars, retryVars,
                 history>>

SenderExit(i) ==
  /\ sender[i] = "run"
  /\ ~running[i]
  /\ hold[i] = None
  /\ sender' = [sender EXCEPT ![i] = "none"]
  /\ UNCHANGED <<now, clientVars, hold, queueVars, wsVars, m_pending, callVars,
                 retryVars, history>>

Sender(i) == Pop(i) \/ DoSend(i) \/ SenderExit(i)

-----------------------------------------------------------------------------
(* retryTimeoutThread.                                                     *)

RetryWake ==
  /\ retry = "sleep"
  /\ IF m_running THEN /\ retry' = "scan"
                       /\ scanTime' = now
                  ELSE /\ retry' = "exit"
                       /\ UNCHANGED scanTime
  /\ UNCHANGED <<now, clientVars, sendVars, queueVars, wsVars, m_pending,
                 callVars, retryList, history>>

DueNotTx(c) == scanTime >= nextRetry[c] /\ retryCount[c] < MaxRetry
Due(c) == IsTx[c] /\ scanTime >= nextRetry[c] /\ retryCount[c] < MaxRetry

ExpiredNotTx(c) == ~IsTx[c] /\ scanTime >= expireAt(c)
Expired(c) == ~Due(c) /\ scanTime >= expireAt(c)

(* One pass over m_pending under m_pendingMutex: answered calls are        *)
(* erased, due transaction calls are listed, expired ones fail.            *)
RetryScan ==
  LET dead == {c \in m_pending : ~finished[c] /\ Expired(c)}
  IN /\ retry = "scan"
     /\ retry' = "resend"
     /\ m_pending' = {c \in m_pending : ~finished[c]} \ dead
     /\ retryList' = {c \in m_pending : ~finished[c] /\ Due(c)}
     /\ finished' = [c \in Calls |-> finished[c] \/ c \in dead]
     /\ success' = [c \in Calls |-> success[c] /\ c \notin dead]
     /\ UNCHANGED <<now, clientVars, sendVars, queueVars, wsVars, caller, born,
                    nextRetry, retryCount, scanTime, history>>

CountedLost(c) == retryCount[c]
Counted(c) == retryCount[c] + 1

(* Resend one listed call, with no lock on m_pending.                      *)
Resend(c) ==
  /\ retry = "resend"
  /\ c \in retryList
  /\ retryList' = retryList \ {c}
  /\ IF finished[c]
       THEN UNCHANGED <<retryCount, nextRetry, txQueue>>
       ELSE /\ retryCount' = [retryCount EXCEPT ![c] = Counted(c)]
            /\ nextRetry' = [nextRetry EXCEPT ![c] =
                               scanTime + Delay(retryCount[c] + 1)]
            /\ txQueue' = [txQueue EXCEPT ![ConnId[c]] = Append(@, c)]
  /\ UNCHANGED <<now, clientVars, sendVars, nonTxQueue, wsVars, m_pending,
                 caller, born, finished, success, retry, scanTime, history>>

(* The pass is over; its local variable now ends with it.                  *)
RetrySleep ==
  /\ retry = "resend"
  /\ retryList = {}
  /\ retry' = "sleep"
  /\ scanTime' = 0
  /\ UNCHANGED <<now, clientVars, sendVars, queueVars, wsVars, m_pending,
                 callVars, retryList, history>>

Retry ==
  \/ RetryWake
  \/ RetryScan
  \/ \E c \in Calls : Resend(c)
  \/ RetrySleep

-----------------------------------------------------------------------------
(* The websocket service thread: eventcb and the listener it calls.  It is *)
(* one thread, so nothing else of it happens while a reply is applied.     *)

WsIdle == wsThread /\ received = <<>>

Established ==
  /\ WsIdle
  /\ ~m_isConnected
  /\ m_isConnected' = TRUE
  /\ UNCHANGED <<now, clientVars, sendVars, queueVars, wsThread, m_queue,
                 closed, atCS, received, m_pending, callVars, retryVars,
                 history>>

(* The connection is lost: the queue is drained, and what the central      *)
(* system has not answered yet may stay unanswered.                        *)
ClientClosed ==
  /\ WsIdle
  /\ m_isConnected
  /\ closed < MaxClosed
  /\ closed' = closed + 1
  /\ m_isConnected' = FALSE
  /\ m_queue' = <<>>
  /\ \E lost \in SUBSET Calls :
       atCS' = [c \in Calls |-> IF c \in lost THEN 0 ELSE atCS[c]]
  /\ UNCHANGED <<now, clientVars, sendVars, queueVars, wsThread, received,
                 m_pending, callVars, retryVars, history>>

ClientWriteable ==
  /\ WsIdle
  /\ m_isConnected
  /\ m_queue # <<>>
  /\ LET c == Head(m_queue)
     IN /\ sent' = [sent EXCEPT ![c] = @ + 1]
        /\ atCS' = [atCS EXCEPT ![c] = @ + 1]
  /\ m_queue' = Tail(m_queue)
  /\ UNCHANGED <<now, clientVars, sendVars, queueVars, m_isConnected, wsThread,
                 closed, received, m_pending, callVars, retryVars, replied>>

(* parseMessage up to the end of the m_pendingMutex section.  A reply whose *)
(* id is not pending, or that fails validateOCPPMessage, is dropped.        *)
ReceiveReply(c) ==
  /\ WsIdle
  /\ m_isConnected
  /\ atCS[c] > 0
  /\ atCS' = [atCS EXCEPT ![c] = @ - 1]
  /\ \/ \E kind \in Replies :
          /\ replied' = [replied EXCEPT ![c] = @ \cup {kind}]
          /\ received' = IF c \in m_pending THEN <<c, kind>> ELSE <<>>
     \/ UNCHANGED <<replied, received>>
  /\ UNCHANGED <<now, clientVars, sendVars, queueVars, m_isConnected, wsThread,
                 m_queue, closed, m_pending, callVars, retryVars, sent>>

OpenAlways(c) == TRUE
Open(c) == ~finished[c]

SucceedsAlways(kind) == kind \in Replies
Succeeds(kind) == kind = "CallResult"

(* parseMessage, the section under the mutex of the PendingCall.           *)
ApplyReply ==
  /\ received # <<>>
  /\ LET c == received[1]
     IN IF Open(c)
          THEN /\ finished' = [finished EXCEPT ![c] = TRUE]
               /\ success' = [success EXCEPT ![c] = Succeeds(received[2])]
          ELSE UNCHANGED <<finished, success>>
  /\ received' = <<>>
  /\ UNCHANGED <<now, clientVars, sendVars, queueVars, m_isConnected, wsThread,
                 m_queue, closed, atCS, m_pending, caller, born, nextRetry,
                 retryCount, retryVars, history>>

WebSocket ==
  \/ Established
  \/ ClientClosed
  \/ ClientWriteable
  \/ \E c \in Calls : ReceiveReply(c)
  \/ ApplyReply

-----------------------------------------------------------------------------
(* start and stop, called by the owner of the client.                      *)

HasThreadGunsOnly(i) == i \in 1 .. Contexts - 1
HasThread(i) == i \in 0 .. Contexts - 1

NewSizeShort == size + Contexts - 1
NewSize == size + Contexts

(* doConnect succeeds when connected or when no websocket thread exists;   *)
(* then the contexts of this start are appended to those of earlier ones.  *)
Start ==
  /\ control = "stopped"
  /\ starts < MaxStarts
  /\ m_isConnected \/ ~wsThread
  /\ control' = "running"
  /\ starts' = starts + 1
  /\ wsThread' = TRUE
  /\ size' = NewSize
  /\ running' = [i \in Ctx |-> running[i] \/ i \in size .. NewSize - 1]
  /\ sender' = [i \in Ctx |-> IF HasThread(i) THEN "run" ELSE sender[i]]
  /\ retry' = "sleep"
  /\ UNCHANGED <<now, hold, queueVars, m_isConnected, m_queue, closed, atCS,
                 received, m_pending, callVars, scanTime, retryList, history>>

(* start on a running client connects again before it returns false.       *)
StartAgain ==
  /\ m_running
  /\ ~m_isConnected
  /\ ~wsThread
  /\ wsThread' = TRUE
  /\ UNCHANGED <<now, clientVars, sendVars, queueVars, m_isConnected, m_queue,
                 closed, atCS, received, m_pending, callVars, retryVars,
                 history>>

(* WebSocketClient::disConnect(true), which joins the service thread.      *)
WsDisconnect ==
  /\ received = <<>>
  /\ wsThread' = FALSE
  /\ m_isConnected' = FALSE
  /\ m_queue' = <<>>
  /\ atCS' = [c \in Calls |-> 0]

Disconnect ==
  /\ m_running
  /\ wsThread
  /\ WsDisconnect
  /\ UNCHANGED <<now, clientVars, sendVars, queueVars, closed, received,
                 m_pending, callVars, retryVars, history>>

Stop ==
  /\ control \in {"running", "stopped"}
  /\ starts > 0
  /\ control' = "joinRetry"
  /\ running' = [i \in Ctx |-> FALSE]
  /\ UNCHANGED <<now, starts, size, sendVars, queueVars, wsVars, m_pending,
                 callVars, retryVars, history>>

StopClear ==
  /\ control = "joinRetry"
  /\ retry = "exit"
  /\ control' = "joinSend"
  /\ m_pending' = {}
  /\ UNCHANGED <<now, starts, size, running, sendVars, queueVars, wsVars,
                 callVars, retryVars, history>>

SendersJoinedNot == TRUE
SendersJoined == \A i \in Ctx : sender[i] = "none"

StopDisconnect ==
  /\ control = "joinSend"
  /\ SendersJoined
  /\ control' = "stopped"
  /\ IF m_isConnected
       THEN WsDisconnect
       ELSE UNCHANGED <<wsThread, m_isConnected, m_queue, atCS>>
  /\ UNCHANGED <<now, starts, size, running, sendVars, queueVars, closed,
                 received, m_pending, callVars, retryVars, history>>

Owner == Start \/ StartAgain \/ Disconnect \/ Stop \/ StopClear \/ StopDisconnect

-----------------------------------------------------------------------------
Next ==
  \/ Tick
  \/ \E c \in Calls : Caller(c)
  \/ \E i \in Ctx : Sender(i)
  \/ Retry
  \/ WebSocket
  \/ Owner

Spec == Init /\ [][Next]_vars

(* Time passes, and every thread of the client keeps running: the waits    *)
(* are timed (100 ms in sendThread, 200 ms in the retry thread, expireAt   *)
(* in sendCall).  Nothing is promised of the network, of the central       *)
(* system, or of the owner beginning to start or to stop the client.       *)
Fairness ==
  /\ WF_vars(Tick)
  /\ \A c \in Calls : WF_vars(Enqueue(c)) /\ WF_vars(Return(c))
  /\ \A i \in Ctx : WF_vars(Sender(i))
  /\ WF_vars(Retry)
  /\ WF_vars(ApplyReply)
  /\ WF_vars(StopClear)
  /\ WF_vars(StopDisconnect)

FairSpec == Spec /\ Fairness

-----------------------------------------------------------------------------
(* Properties.                                                             *)

(* sendCall returns true only for a call to which the central system       *)
(* answered with a CallResult, whatever the order of late replies, resends, *)
(* expiry by the retry thread and the caller's own timeout.                *)
TrueMeansCallResult ==
  \A c \in Calls : caller[c] = "true" => "CallResult" \in replied[c]

(* parseMessage and the retry thread both finish a PendingCall; whichever  *)
(* comes first decides, and the other never changes the outcome.           *)
OutcomeIsFinal ==
  [][\A c \in Calls : finished[c] => finished'[c] /\ success'[c] = success[c]]_vars

(* The client implements the contract of sendCall: a call is judged when   *)
(* its PendingCall is finished.                                            *)
Contract == INSTANCE CallContract WITH
  phase   <- [c \in Calls |-> IF caller[c] \in {"queue", "wait"}
                                THEN "called" ELSE caller[c]],
  answers <- replied,
  verdict <- [c \in Calls |-> IF ~finished[c] THEN "open"
                              ELSE IF success[c] THEN "true" ELSE "false"]

ImplementsContract == Contract!Spec

(* No call is resent more often than transactionMessageAttempts, and a     *)
(* call that is not part of a transaction is never resent.                 *)
RetryBudget ==
  \A c \in Calls : retryCount[c] <= (IF IsTx[c] THEN MaxRetry ELSE 0)

(* A call is written to the network at most once for its own push and once *)
(* for every resend: no queue on the way duplicates it.                    *)
WireBudget ==
  \A c \in Calls : sent[c] <= 1 + retryCount[c]

(* Resends back off: the k-th one is scheduled no earlier than             *)
(* RetryInterval * (2^k - 1) after sendCall began, however late the retry  *)
(* thread is and however it interleaves with the caller.                   *)
Backoff ==
  \A c \in Calls :
    c \in m_pending /\ retryCount[c] < 8 =>
      nextRetry[c] >= born[c] + RetryInterval * (2 ^ (retryCount[c] + 1) - 1)

(* Once stop has returned, no thread of the client hands another message   *)
(* to the websocket.                                                       *)
StopQuiesces ==
  [][control = "stopped" => Len(m_queue') <= Len(m_queue)]_vars

(* sendCall always returns: with the reply or at its deadline, also when   *)
(* the connection is lost or the client is stopped in between.             *)
CallReturns ==
  \A c \in Calls :
    (caller[c] \in {"queue", "wait"}) ~> (caller[c] \in {"true", "false"})

(* m_pending does not leak: while the client runs, every entry is erased.  *)
PendingErased ==
  \A c \in Calls : (m_running /\ c \in m_pending) ~> (~m_running \/ c \notin m_pending)

Queued(c) ==
  \E i \in Ctx : \/ \E k \in DOMAIN txQueue[i] : txQueue[i][k] = c
                 \/ \E k \in DOMAIN nonTxQueue[i] : nonTxQueue[i][k] = c

(* A message in a connector's queue is taken by that connector's send      *)
(* thread while the client runs.                                           *)
QueueServed ==
  \A c \in Calls : (m_running /\ Queued(c)) ~> (~m_running \/ ~Queued(c))
=============================================================================
