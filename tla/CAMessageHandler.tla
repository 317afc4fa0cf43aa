---------------------------- MODULE CAMessageHandler ----------------------------
(***************************************************************************)
(* The message handler of the connectivity abstraction layer               *)
(* (connectivity/src/camessagehandler.c): it composes the send thread      *)
(* (g_sendThread, a CAQueueingThread with one worker), the retransmission  *)
(* context (CARetransmission), the network and the receive queue that the  *)
(* stack empties from OCProcess.                                           *)
(*                                                                         *)
(* The send thread first hands the PDU to the adapter and only then        *)
(* registers it for retransmission; the adapter's receive thread, the      *)
(* adapter's send thread (errors) and the retransmission thread run in     *)
(* between.  Block-wise transfer, CoAP over TCP and routing are left out.  *)
(***************************************************************************)
EXTENDS CARetransmission, Sequences, FiniteSets

CONSTANTS
  SendThread,   \* the worker of g_sendThread
  NoMessage     \* it holds nothing

ASSUME SendThreadAssumption == SendThread # Owner
ASSUME NoMessageAssumption == NoMessage \notin Messages

VARIABLES
  sendStop,     \* g_sendThread.isStop
  sendQueue,    \* g_sendThread.dataQueue
  sendWaiting,  \* threads blocked on g_sendThread.threadCond
  sendPc,       \* the worker in CAQueueingThreadBaseRoutine
  sendHeld,     \* the message in CAProcessSendData
  sendOwner,    \* the terminating thread in CAQueueingThreadStop or Destroy
  processed,    \* messages CAProcessSendData has returned from
  dropped,      \* messages still queued when g_sendThread was destroyed
  adaptersUp,   \* CAStopAdapters has not been called
  wire,         \* copies of each PDU on their way to the peer
  copies,       \* copies of each PDU handed to the adapter so far
  acks,         \* ACKs of each PDU on their way back
  recvQueue,    \* g_receiveThread.dataQueue
  reported,     \* what the stack's callbacks have been given
  ackSeen       \* PDUs whose ACK the receive path has handled

sendVars == <<sendStop, sendQueue, sendWaiting, sendPc, sendHeld, sendOwner,
              processed, dropped>>
netVars == <<wire, copies, acks>>
upVars == <<recvQueue, reported>>
mhVars == <<sendVars, adaptersUp, netVars, upVars, ackSeen>>
vars == <<rtVars, mhVars>>

(* g_sendThread, with its own mutex and condition variable.                *)
Send == INSTANCE CAQueueingThread
  WITH isStop <- sendStop, dataQueue <- sendQueue, waiting <- sendWaiting,
       pc <- sendPc, held <- sendHeld, owner <- sendOwner,
       finished <- processed, discarded <- dropped,
       Workers <- {SendThread}, Spurious <- TRUE

Sending(m) == sendPc[SendThread] = "task" /\ sendHeld[SendThread] = m
sendClosed == sendOwner = "gone"

(* What the receive queue carries: the response for a PDU, the report      *)
(* CA_RETRANSMIT_TIMEOUT, an error, or a message to the own endpoint.      *)
Events == {"response", "timeout", "error", "loopback"} \X Messages
MaxCopies == TryingCount + 1

(* Type invariant; the send thread has one message in CAProcessSendData.   *)
TypeOK ==
  /\ RTTypeOK
  /\ Send!TypeOK
  /\ adaptersUp \in BOOLEAN
  /\ wire \in [Messages -> Nat]
  /\ copies \in [Messages -> Nat]
  /\ acks \in [Messages -> Nat]
  /\ recvQueue \in Seq(Events)
  /\ reported \subseteq Events
  /\ ackSeen \subseteq Messages

-----------------------------------------------------------------------------
(* CAInitializeMessageHandler: the send thread has been started; the       *)
(* retransmission thread is about to be created.                           *)
Init ==
  /\ RTInit
  /\ sendStop = FALSE
  /\ sendQueue = <<>>
  /\ sendWaiting = {}
  /\ sendPc = [w \in {SendThread} |-> "loop"]
  /\ sendHeld = [w \in {SendThread} |-> NoMessage]
  /\ sendOwner = "idle"
  /\ processed = {}
  /\ dropped = {}
  /\ adaptersUp = TRUE
  /\ wire = [m \in Messages |-> 0]
  /\ copies = [m \in Messages |-> 0]
  /\ acks = [m \in Messages |-> 0]
  /\ recvQueue = <<>>
  /\ reported = {}
  /\ ackSeen = {}

LoopedBack(m) ==
  \/ <<"loopback", m>> \in reported
  \/ \E i \in DOMAIN recvQueue : recvQueue[i] = <<"loopback", m>>

(* CADetachSendMessage: a unicast message to an endpoint of this device    *)
(* goes straight to the receive queue, any other to the send queue.        *)
Detach(m) ==
  /\ owner = "idle"
  /\ pc # "unborn"
  /\ ~LoopedBack(m)
  /\ \/ /\ Send!AddData(m)
        /\ UNCHANGED recvQueue
     \/ /\ m \notin Send!Known
        /\ recvQueue' = Append(recvQueue, <<"loopback", m>>)
        /\ UNCHANGED sendVars
  /\ UNCHANGED <<rtVars, adaptersUp, netVars, reported, ackSeen>>

(* The steps of the send thread outside CAProcessSendData.                 *)
TakeMessage ==
  /\ \/ Send!TestStop(SendThread)
     \/ Send!EnterWait(SendThread)
     \/ Send!GetWithoutWait(SendThread)
     \/ Send!GetAfterWait(SendThread)
     \/ Send!ExitRoutine(SendThread)
  /\ UNCHANGED <<rtVars, adaptersUp, netVars, upVars, ackSeen>>

(* CAProcessSendData up to the return of CASendUnicastData.                *)
Transmit(m) ==
  /\ Sending(m)
  /\ copies[m] = 0
  /\ wire' = [wire EXCEPT ![m] = 1]
  /\ copies' = [copies EXCEPT ![m] = 1]
  /\ UNCHANGED <<rtVars, sendVars, adaptersUp, acks, upVars, ackSeen>>

(* ... and the rest of it: CARetransmissionSentData.  Its result is only   *)
(* logged.                                                                 *)
Register(m) ==
  /\ Sending(m)
  /\ copies[m] > 0
  /\ Send!RunTask(SendThread)
  /\ IF m \in Supported THEN SentData(m) ELSE UNCHANGED rtVars
  /\ UNCHANGED <<adaptersUp, netVars, upVars, ackSeen>>

(* CASendUnicastData returned an error: CAErrorHandler turns the PDU into  *)
(* an empty RST for the retransmission list and queues an error.           *)
SendFailed(m) ==
  /\ Sending(m)
  /\ copies[m] = 0
  /\ Send!RunTask(SendThread)
  /\ ReceivedData(Key[m])
  /\ recvQueue' = Append(recvQueue, <<"error", m>>)
  /\ UNCHANGED <<adaptersUp, netVars, reported, ackSeen>>

(* Mutant of AdapterError: the entry is freed and no error is queued.      *)
AdapterErrorSilent(m) ==
  /\ adaptersUp
  /\ wire[m] > 0
  /\ wire' = [wire EXCEPT ![m] = @ - 1]
  /\ ReceivedData(Key[m])
  /\ UNCHANGED <<sendVars, adaptersUp, copies, acks, upVars, ackSeen>>

(* The adapter's own send thread could not send a copy: CAErrorHandler.    *)
AdapterError(m) ==
  /\ adaptersUp
  /\ wire[m] > 0
  /\ wire' = [wire EXCEPT ![m] = @ - 1]
  /\ ReceivedData(Key[m])
  /\ recvQueue' = Append(recvQueue, <<"error", m>>)
  /\ UNCHANGED <<sendVars, adaptersUp, copies, acks, reported, ackSeen>>

(* The network: a copy is lost on the way or its ACK is; or the peer's ACK *)
(* is on its way back.                                                     *)
Lose(m) ==
  /\ wire[m] > 0
  /\ wire' = [wire EXCEPT ![m] = @ - 1]
  /\ UNCHANGED <<rtVars, sendVars, adaptersUp, copies, acks, upVars, ackSeen>>

Arrive(m) ==
  /\ m \in Supported
  /\ wire[m] > 0
  /\ wire' = [wire EXCEPT ![m] = @ - 1]
  /\ acks' = [acks EXCEPT ![m] = @ + 1]
  /\ UNCHANGED <<rtVars, sendVars, adaptersUp, copies, upVars, ackSeen>>

(* CAReceivedPacketCallback for an ACK.                                    *)
ReceiveAck(m) ==
  /\ adaptersUp
  /\ acks[m] > 0
  /\ acks' = [acks EXCEPT ![m] = @ - 1]
  /\ ReceivedData(Key[m])
  /\ recvQueue' = Append(recvQueue, <<"response", m>>)
  /\ ackSeen' = ackSeen \cup {m}
  /\ UNCHANGED <<sendVars, adaptersUp, wire, copies, reported>>

(* CAHandleRequestResponseCallbacks, called from OCProcess.                *)
HandleCallbacks ==
  /\ owner = "idle"
  /\ recvQueue # <<>>
  /\ reported' = reported \cup {Head(recvQueue)}
  /\ recvQueue' = Tail(recvQueue)
  /\ UNCHANGED <<rtVars, sendVars, adaptersUp, netVars, ackSeen>>

(* CACheckRetransmissionList with its two callbacks: CASendUnicastData for *)
(* the entries whose time is up, CATimeoutCallback for the exhausted ones. *)
Orders(S) ==
  {s \in [1 .. Cardinality(S) -> S] : \A i, j \in DOMAIN s : s[i] = s[j] => i = j}

(* Mutant of CheckListAndReport: CATimeoutCallback queues nothing.         *)
CheckListSilently ==
  /\ CheckList
  /\ wire' = [m \in Messages |-> wire[m] + (IF m \in Resent THEN 1 ELSE 0)]
  /\ copies' = [m \in Messages |-> copies[m] + (IF m \in Resent THEN 1 ELSE 0)]
  /\ UNCHANGED <<sendVars, adaptersUp, acks, upVars, ackSeen>>

CheckListAndReport ==
  /\ CheckList
  /\ wire' = [m \in Messages |-> wire[m] + (IF m \in Resent THEN 1 ELSE 0)]
  /\ copies' = [m \in Messages |-> copies[m] + (IF m \in Resent THEN 1 ELSE 0)]
  /\ \E s \in Orders(Exhausted) :
       recvQueue' = recvQueue \o [i \in DOMAIN s |-> <<"timeout", s[i]>>]
  /\ UNCHANGED <<sendVars, adaptersUp, acks, reported, ackSeen>>

RetransmissionThread ==
  \/ /\ ReadStop \/ LockAndWait \/ Woken \/ PeriodElapsed \/ TestStop \/ ExitRoutine
     /\ UNCHANGED mhVars
  \/ CheckListAndReport

(* CATerminateMessageHandler: adapters, retransmission, send thread, join, *)
(* and then the data structures.                                           *)
StopAdapters ==
  /\ owner = "idle"
  /\ pc # "unborn"
  /\ adaptersUp
  /\ adaptersUp' = FALSE
  /\ UNCHANGED <<rtVars, sendVars, netVars, upVars, ackSeen>>

StopRetransmission ==
  /\ ~adaptersUp
  /\ Stop
  /\ UNCHANGED mhVars

(* CAQueueingThreadStop of the send thread: set the flag, signal, and wait *)
(* without a limit for the worker's farewell.                              *)
StopSendThread ==
  /\ owner = "stopped"
  /\ Send!StopAndWait
  /\ UNCHANGED <<rtVars, adaptersUp, netVars, upVars, ackSeen>>

StopSendReturns ==
  /\ Send!StopReturns
  /\ UNCHANGED <<rtVars, adaptersUp, netVars, upVars, ackSeen>>

(* ca_thread_pool_free: it joins both threads.                             *)
EnterPoolFree ==
  /\ owner = "stopped"
  /\ Send!Terminate
  /\ UNCHANGED <<rtVars, adaptersUp, netVars, upVars, ackSeen>>

(* Mutant of JoinThreads: the send thread is not waited for.               *)
JoinRetransmissionOnly ==
  /\ JoinPool
  /\ Send!FreePool
  /\ UNCHANGED <<adaptersUp, netVars, upVars, ackSeen>>

JoinThreads ==
  /\ JoinPool
  /\ Send!JoinPool
  /\ UNCHANGED <<adaptersUp, netVars, upVars, ackSeen>>

DestroyRetransmission ==
  /\ Destroy
  /\ UNCHANGED mhVars

DestroyQueues ==
  /\ owner = "gone"
  /\ Send!Destroy
  /\ recvQueue' = <<>>
  /\ UNCHANGED <<rtVars, adaptersUp, netVars, reported, ackSeen>>

Terminate ==
  \/ StopAdapters
  \/ StopRetransmission
  \/ StopReturns /\ UNCHANGED mhVars
  \/ StopSendThread
  \/ StopSendReturns
  \/ EnterPoolFree
  \/ JoinThreads
  \/ DestroyRetransmission
  \/ DestroyQueues

Next ==
  \/ Start /\ UNCHANGED mhVars
  \/ \E m \in Messages :
       \/ Detach(m)
       \/ Transmit(m)
       \/ Register(m)
       \/ SendFailed(m)
       \/ AdapterError(m)
       \/ Lose(m)
       \/ Arrive(m)
       \/ ReceiveAck(m)
  \/ TakeMessage
  \/ HandleCallbacks
  \/ RetransmissionThread
  \/ Terminate
  \/ SpuriousWakeup /\ UNCHANGED mhVars
  \/ /\ Send!SpuriousWakeup
     /\ UNCHANGED <<rtVars, adaptersUp, netVars, upVars, ackSeen>>
  \/ Tick /\ UNCHANGED mhVars

Spec == Init /\ [][Next]_vars

(* The threads run, time passes, the application calls OCProcess, and a    *)
(* termination that has begun goes on.  The network owes nothing.          *)
Fairness ==
  /\ WF_vars(Start /\ UNCHANGED mhVars)
  /\ WF_vars(TakeMessage)
  /\ \A m \in Messages : WF_vars(Transmit(m) \/ SendFailed(m) \/ Register(m))
  /\ WF_vars(RetransmissionThread)
  /\ WF_vars(Tick /\ UNCHANGED mhVars)
  /\ WF_vars(HandleCallbacks)
  /\ WF_vars(StopRetransmission)
  /\ WF_vars(\/ StopReturns /\ UNCHANGED mhVars
             \/ StopSendThread \/ StopSendReturns \/ EnterPoolFree
             \/ JoinThreads \/ DestroyRetransmission \/ DestroyQueues)

FairSpec == Spec /\ Fairness

-----------------------------------------------------------------------------
(* Properties.                                                             *)

Queued == {sendQueue[i] : i \in DOMAIN sendQueue}
Reported(m) == \E kind \in {"response", "timeout", "error"} : <<kind, m>> \in reported
Stopping == ~adaptersUp \/ isStop

(* The copies of a PDU that reach the wire, the first transmission and the *)
(* retransmissions together, are bounded, whatever the interleaving of the *)
(* send, receive, error and retransmission threads; and a PDU that was     *)
(* given up was sent as often as the configuration allows.                 *)
BoundedCopies ==
  \A m \in Messages :
    /\ copies[m] =< MaxCopies
    /\ m \in expired => copies[m] = MaxCopies

(* The retransmission context and the send queue are not used after they   *)
(* were destroyed: the join leaves no message half way in                  *)
(* CAProcessSendData, and neither thread in its routine.                   *)
NoSendAfterDestroy ==
  ~Alive => /\ sendHeld[SendThread] = NoMessage
            /\ sendPc[SendThread] = "done"
            /\ pc = "done"

(* An entry leaves the list because a PDU with its message id and adapter  *)
(* was acknowledged or failed: nobody else's ACK or error removes it, and  *)
(* with distinct ids it is its own PDU.                                    *)
Settled(m) ==
  \/ m \in ackSeen
  \/ <<"error", m>> \in reported
  \/ \E i \in DOMAIN recvQueue : recvQueue[i] = <<"error", m>>

OwnAnswer ==
  ~sendClosed => \A m \in answered : \E n \in Messages : Key[n] = Key[m] /\ Settled(n)

(* A confirmable message that was accepted is reported to the stack in the *)
(* end (response, timeout or error), unless the stack is being terminated. *)
(* The list knows a PDU by its message id and adapter only: when two PDUs  *)
(* share them, the second is refused by CARetransmissionSentData or its    *)
(* ACK removes the first, and the report of either stands for both.        *)
AlwaysReported ==
  \A m \in Supported :
    (m \in Queued) ~>
      (Stopping \/ \E n \in Messages : Key[n] = Key[m] /\ Reported(n))

(* CATerminateMessageHandler ends: it waits, without a limit, first for    *)
(* the farewell of the retransmission thread and then for that of the send *)
(* thread, each on the condition variable the thread itself waits on, and  *)
(* then joins both.                                                        *)
TerminationEnds == (~adaptersUp) ~> sendClosed

(* "if received pdu is ACK data for the retransmission CON data, the       *)
(* specified CON data will remove on retransmission list"                  *)
(* (inc/caretransmission.h): a PDU whose ACK has been received is not sent *)
(* again.                                                                  *)
AckEndsRetransmission ==
  [][\A m \in ackSeen : triedCount'[m] = triedCount[m]]_vars
=============================================================================
