---------------------------- MODULE CARetransmission ----------------------------
(***************************************************************************)
(* The CoAP retransmission context of the connectivity abstraction layer   *)
(* (connectivity/src/caretransmission.c, multi-threaded build): the list   *)
(* of confirmable PDUs that wait for an ACK or a RST, and the thread that  *)
(* resends them with exponential back-off and gives up after tryingCount   *)
(* attempts.                                                               *)
(*                                                                         *)
(* A step is one critical section of threadMutex or one unlocked read of   *)
(* isStop.  The callers, CARetransmissionSentData from the send thread and *)
(* CARetransmissionReceivedData from the receive and error paths, are an   *)
(* open environment here; CAMessageHandler closes it.                      *)
(*                                                                         *)
(* dataList is a set: SentData keeps (messageId, adapter) unique in it, so *)
(* its order decides nothing.  Time is counted in ticks; an entry stores   *)
(* its age, the time since timeStamp.                                      *)
(***************************************************************************)
EXTENDS Naturals

CONSTANTS
  Messages,       \* PDUs; each is handed to SentData at most once
  Supported,      \* the confirmable ones on an adapter of supportType
  Key,            \* (messageId, adapter) of each PDU
  TryingCount,    \* config.tryingCount
  Timeouts,       \* the values CAGetTimeoutValue may draw, in ticks
  MaxTime,        \* ages and lifetimes stop counting here
  Thread,         \* the retransmission thread
  Owner           \* the thread that calls Start, Stop and Destroy

Keys == {Key[m] : m \in Messages}

(* 1 << n.                                                                 *)
Shift[n \in Nat] == IF n = 0 THEN 1 ELSE 2 * Shift[n - 1]

ASSUME SupportedAssumption == Supported \subseteq Messages
ASSUME KeyAssumption == Key \in [Messages -> Keys]
ASSUME CountAssumption == TryingCount \in Nat \ {0}
ASSUME TimeoutAssumption == Timeouts \subseteq Nat \ {0} /\ Timeouts # {}
ASSUME TimeAssumption ==
  /\ MaxTime \in Nat
  /\ \A t \in Timeouts : t * (Shift[TryingCount] - 1) =< MaxTime
ASSUME ThreadAssumption == Thread # Owner

VARIABLES
  isStop,       \* context->isStop
  dataList,     \* context->dataList
  triedCount,   \* retransmissions made, kept after the entry is freed
  timeout,      \* the entry's timeout value
  age,          \* time since the entry's timeStamp (0 once it is freed)
  waiting,      \* threads blocked on context->threadCond
  pc,           \* the thread in CARetransmissionBaseRoutine
  owner,        \* where the owner is
  refused,      \* PDUs SentData rejected as "Duplicate message ID"
  answered,     \* PDUs removed by ReceivedData
  expired,      \* PDUs handed to timeoutCallback
  lifetime      \* time since the PDU was registered

entryVars == <<dataList, triedCount, timeout, age, refused, answered, expired,
               lifetime>>
rtVars == <<isStop, dataList, triedCount, timeout, age, waiting, pc, owner,
            refused, answered, expired, lifetime>>

ThreadStates ==
  {"unborn", "loop", "lock", "wait", "timed", "test", "check", "exit", "done"}
OwnerStates == {"idle", "stopping", "stopped", "joined", "gone"}
Alive == owner # "gone"

Seen == dataList \cup refused \cup answered \cup expired

(* Type invariant; an entry is never tried more than tryingCount times.    *)
RTTypeOK ==
  /\ isStop \in BOOLEAN
  /\ dataList \subseteq Supported
  /\ triedCount \in [Messages -> 0 .. TryingCount]
  /\ timeout \in [Messages -> Nat]
  /\ age \in [Messages -> 0 .. MaxTime]
  /\ waiting \subseteq {Thread, Owner}
  /\ pc \in ThreadStates
  /\ owner \in OwnerStates
  /\ refused \subseteq Messages
  /\ answered \subseteq Supported
  /\ expired \subseteq Supported
  /\ lifetime \in [Messages -> 0 .. MaxTime]

-----------------------------------------------------------------------------
(* oc_cond_signal wakes one waiter, or nobody.                             *)
Signalled(W, W2) ==
  \/ W = {} /\ W2 = {}
  \/ \E t \in W : W2 = W \ {t}

(* CARetransmissionInitialize.                                             *)
RTInit ==
  /\ isStop = FALSE
  /\ dataList = {}
  /\ triedCount = [m \in Messages |-> 0]
  /\ timeout = [m \in Messages |-> 0]
  /\ age = [m \in Messages |-> 0]
  /\ waiting = {}
  /\ pc = "unborn"
  /\ owner = "idle"
  /\ refused = {}
  /\ answered = {}
  /\ expired = {}
  /\ lifetime = [m \in Messages |-> 0]

(* CARetransmissionStart.                                                  *)
Start ==
  /\ pc = "unborn"
  /\ owner = "idle"
  /\ pc' = "loop"
  /\ UNCHANGED <<isStop, waiting, owner, entryVars>>

(* CARetransmissionSentData for a confirmable PDU on a supported adapter.  *)
(* (Any other PDU gets CA_NOT_SUPPORTED and changes nothing.)              *)
Duplicate(m) == \E n \in dataList : Key[n] = Key[m]

(* A new entry: timeStamp is now, triedCount 0, the timeout drawn at       *)
(* random.                                                                 *)
NewEntry(m) ==
  /\ dataList' = dataList \cup {m}
  /\ \E t \in Timeouts : timeout' = [timeout EXCEPT ![m] = t]
  /\ triedCount' = [triedCount EXCEPT ![m] = 0]
  /\ age' = [age EXCEPT ![m] = 0]
  /\ lifetime' = [lifetime EXCEPT ![m] = 0]

(* Mutant of SentData: the thread is not notified.                         *)
SentDataSilently(m) ==
  /\ Alive
  /\ m \in Supported \ Seen
  /\ ~Duplicate(m)
  /\ NewEntry(m)
  /\ UNCHANGED <<isStop, waiting, pc, owner, refused, answered, expired>>

SentData(m) ==
  /\ Alive
  /\ m \in Supported \ Seen
  /\ \/ /\ Duplicate(m)
        /\ refused' = refused \cup {m}
        /\ UNCHANGED <<waiting, dataList, timeout, triedCount, age, lifetime>>
     \/ /\ ~Duplicate(m)
        /\ NewEntry(m)
        /\ Signalled(waiting, waiting')
        /\ UNCHANGED refused
  /\ UNCHANGED <<isStop, pc, owner, answered, expired>>

(* Mutant of ReceivedData: the PDU is copied out and the entry stays.      *)
ReceivedDataKept(k) ==
  /\ Alive
  /\ answered' = answered \cup {m \in dataList : Key[m] = k}
  /\ UNCHANGED <<isStop, dataList, triedCount, timeout, age, waiting, pc, owner,
                 refused, expired, lifetime>>

(* CARetransmissionReceivedData for an ACK, or an empty RST, with key k:   *)
(* the entry with that message id and adapter is freed, whoever sent it.   *)
ReceivedData(k) ==
  /\ Alive
  /\ dataList' = {m \in dataList : Key[m] # k}
  /\ answered' = answered \cup {m \in dataList : Key[m] = k}
  /\ age' = [m \in Messages |-> IF m \in dataList' THEN age[m] ELSE 0]
  /\ UNCHANGED <<isStop, triedCount, timeout, waiting, pc, owner, refused,
                 expired, lifetime>>

-----------------------------------------------------------------------------
(* CARetransmissionBaseRoutine.                                            *)

ReadStop ==
  /\ pc = "loop"
  /\ pc' = IF isStop THEN "exit" ELSE "lock"
  /\ UNCHANGED <<isStop, waiting, owner, entryVars>>

(* The first critical section: wait for data, or for the check period.     *)
LockAndWait ==
  /\ pc = "lock"
  /\ \/ /\ ~isStop
        /\ pc' = IF dataList = {} THEN "wait" ELSE "timed"
        /\ waiting' = waiting \cup {Thread}
     \/ /\ isStop
        /\ pc' = "test"
        /\ UNCHANGED waiting
  /\ UNCHANGED <<isStop, owner, entryVars>>

Woken ==
  /\ pc \in {"wait", "timed"}
  /\ Thread \notin waiting
  /\ pc' = "test"
  /\ UNCHANGED <<isStop, waiting, owner, entryVars>>

(* oc_cond_wait_for returns after RETRANSMISSION_CHECK_PERIOD_SEC.         *)
PeriodElapsed ==
  /\ pc = "timed"
  /\ Thread \in waiting
  /\ waiting' = waiting \ {Thread}
  /\ pc' = "test"
  /\ UNCHANGED <<isStop, owner, entryVars>>

(* The flag is read again, unlocked, before the list is checked.           *)
TestStop ==
  /\ pc = "test"
  /\ pc' = IF isStop THEN "loop" ELSE "check"
  /\ UNCHANGED <<isStop, waiting, owner, entryVars>>

(* Mutant of TimedOut: the timeout is not doubled.                         *)
TimedOutFlat(m) == age[m] >= timeout[m]

(* CACheckTimeout: timeout << triedCount.                                  *)
TimedOut(m) == age[m] >= timeout[m] * Shift[triedCount[m]]

(* CACheckRetransmissionList, one critical section: every entry whose time *)
(* is up is sent again, and an entry that has now been tried tryingCount   *)
(* times is removed in the same pass and handed to timeoutCallback.        *)
Resent == {m \in dataList : TimedOut(m)}

(* Mutant of Exhausted: one attempt too few.                               *)
ExhaustedEarly ==
  {m \in dataList :
     triedCount[m] + (IF TimedOut(m) THEN 1 ELSE 0) + 1 >= TryingCount}

Exhausted ==
  {m \in dataList :
     triedCount[m] + (IF TimedOut(m) THEN 1 ELSE 0) >= TryingCount}

(* Mutant of CheckList: timeoutCallback is not called.                     *)
CheckListForgets ==
  /\ pc = "check"
  /\ pc' = "loop"
  /\ triedCount' = [m \in Messages |->
                      triedCount[m] + (IF m \in Resent THEN 1 ELSE 0)]
  /\ age' = [m \in Messages |-> IF m \in Resent THEN 0 ELSE age[m]]
  /\ dataList' = dataList \ Exhausted
  /\ UNCHANGED <<isStop, waiting, owner, timeout, refused, answered, expired,
                 lifetime>>

CheckList ==
  /\ pc = "check"
  /\ pc' = "loop"
  /\ triedCount' = [m \in Messages |->
                      triedCount[m] + (IF m \in Resent THEN 1 ELSE 0)]
  /\ age' = [m \in Messages |-> IF m \in Resent THEN 0 ELSE age[m]]
  /\ dataList' = dataList \ Exhausted
  /\ expired' = expired \cup Exhausted
  /\ UNCHANGED <<isStop, waiting, owner, timeout, refused, answered, lifetime>>

(* Mutant of ExitRoutine: no farewell signal.                              *)
ExitSilently ==
  /\ pc = "exit"
  /\ pc' = "done"
  /\ UNCHANGED <<isStop, waiting, owner, entryVars>>

(* The farewell signal.                                                    *)
ExitRoutine ==
  /\ pc = "exit"
  /\ Signalled(waiting, waiting')
  /\ pc' = "done"
  /\ UNCHANGED <<isStop, owner, entryVars>>

ThreadStep ==
  \/ ReadStop
  \/ LockAndWait
  \/ Woken
  \/ PeriodElapsed
  \/ TestStop
  \/ CheckList
  \/ ExitRoutine

-----------------------------------------------------------------------------
(* The owner.                                                              *)

(* CARetransmissionStop: set the flag, signal and wait, in one section.    *)
Stop ==
  /\ owner = "idle"
  /\ pc # "unborn"
  /\ isStop' = TRUE
  /\ \E W \in SUBSET waiting :
       /\ Signalled(waiting, W)
       /\ waiting' = W \cup {Owner}
  /\ owner' = "stopping"
  /\ UNCHANGED <<pc, entryVars>>

StopReturns ==
  /\ owner = "stopping"
  /\ Owner \notin waiting
  /\ owner' = "stopped"
  /\ UNCHANGED <<isStop, waiting, pc, entryVars>>

(* ca_thread_pool_free joins the thread before the context is destroyed.   *)
JoinPool ==
  /\ owner = "stopped"
  /\ pc = "done"
  /\ owner' = "joined"
  /\ UNCHANGED <<isStop, waiting, pc, entryVars>>

(* CARetransmissionDestroy frees the entries, the mutex and the list.      *)
Destroy ==
  /\ owner = "joined"
  /\ owner' = "gone"
  /\ dataList' = {}
  /\ age' = [m \in Messages |-> 0]
  /\ UNCHANGED <<isStop, triedCount, timeout, waiting, pc, refused,
                 answered, expired, lifetime>>

(* oc_cond_wait may return without a signal.                               *)
SpuriousWakeup ==
  /\ \E t \in waiting : waiting' = waiting \ {t}
  /\ UNCHANGED <<isStop, pc, owner, entryVars>>

OwnerStep == Start \/ Stop \/ StopReturns \/ JoinPool \/ Destroy

(* Time passes.  Ages beyond MaxTime are not told apart.                   *)
Older(t) == IF t < MaxTime THEN t + 1 ELSE t

Tick ==
  /\ dataList # {}
  /\ age' = [m \in Messages |-> IF m \in dataList THEN Older(age[m]) ELSE age[m]]
  /\ lifetime' = [m \in Messages |->
                    IF m \in dataList THEN Older(lifetime[m]) ELSE lifetime[m]]
  /\ UNCHANGED <<isStop, dataList, triedCount, timeout, waiting, pc, owner,
                 refused, answered, expired>>

RTNext ==
  \/ \E m \in Messages : SentData(m)
  \/ \E k \in Keys : ReceivedData(k)
  \/ ThreadStep
  \/ OwnerStep
  \/ SpuriousWakeup
  \/ Tick

RTSpec == RTInit /\ [][RTNext]_rtVars

(* The thread runs, time passes, and a Stop that has begun goes on to the  *)
(* join and to Destroy.  Nobody has to send, to answer or to call Stop.    *)
RTFairness ==
  /\ WF_rtVars(ThreadStep)
  /\ WF_rtVars(Tick)
  /\ WF_rtVars(Start)
  /\ WF_rtVars(StopReturns \/ JoinPool \/ Destroy)

RTFairSpec == RTSpec /\ RTFairness

-----------------------------------------------------------------------------
(* Properties.                                                             *)

(* SentData's signal is never lost: the thread does not sleep without a    *)
(* time limit while an entry waits to be resent, although Stop waits on    *)
(* the same condition variable.                                            *)
NoEntrySleeps ==
  pc = "wait" /\ Thread \in waiting /\ dataList # {} => isStop

(* An ACK can mean only one entry: no two pending PDUs share the message   *)
(* id and the adapter.                                                     *)
UniqueKey == \A m, n \in dataList : Key[m] = Key[n] => m = n

(* A PDU whose ACK removed its entry, or that was reported as timed out,   *)
(* is finished: it is not sent again and not reported a second time.       *)
FinishedIsFinal ==
  [][\A m \in answered \cup expired :
       /\ triedCount'[m] = triedCount[m]
       /\ m \notin dataList'
       /\ m \in answered => m \notin expired']_rtVars

(* Exponential back-off, end to end: a PDU is reported as timed out only   *)
(* after all its retransmissions and after the whole back-off period       *)
(* t + 2t + 4t + ... = t * (2^tryingCount - 1) has passed.                 *)
FullBackoff ==
  \A m \in expired :
    /\ triedCount[m] = TryingCount
    /\ lifetime[m] >= timeout[m] * (Shift[TryingCount] - 1)

(* Destroy frees the mutex when the thread has left its routine and nobody *)
(* waits on the condition variable.                                        *)
NoUseAfterDestroy == ~Alive => pc = "done" /\ waiting = {}

(* Every registered PDU is answered or reported as timed out, unless the   *)
(* context is stopped.                                                     *)
EntryResolved ==
  \A m \in Supported :
    (m \in dataList) ~> (m \in answered \cup expired \/ isStop)

=============================================================================
