--------------------------- MODULE CAQueueingThread ---------------------------
(***************************************************************************)
(* CAQueueingThread_t of the connectivity abstraction layer                *)
(* (connectivity/src/caqueueingthread.c): a message queue with a worker    *)
(* thread, one mutex and ONE condition variable, threadCond, that the      *)
(* worker waits on for data, that AddData signals, and that Stop waits on  *)
(* for the worker's farewell.                                              *)
(*                                                                         *)
(* A step is one critical section of threadMutex, or one unlocked read of  *)
(* isStop.  oc_cond_wait is the pair "enter `waiting' and release the      *)
(* mutex" / "leave `waiting', then take the mutex again".                  *)
(***************************************************************************)
EXTENDS Naturals, Sequences, FiniteSets

CONSTANTS
  Messages,        \* data handed to AddData; each is added at most once
  Workers,         \* threads CAQueueingThreadStart may create, one per start
  Owner,           \* the thread that starts, stops and destroys the queue
  NoMessage,       \* a worker that holds nothing
  Spurious         \* TRUE: oc_cond_wait may return without a signal

ASSUME OwnerAssumption == Owner \notin Workers
ASSUME NoMessageAssumption == NoMessage \notin Messages
ASSUME SpuriousAssumption == Spurious \in BOOLEAN

VARIABLES
  isStop,      \* thread->isStop
  dataQueue,   \* thread->dataQueue
  waiting,     \* threads blocked in oc_cond_wait(threadCond)
  pc,          \* where each worker is in CAQueueingThreadBaseRoutine
  held,        \* the message each worker has taken from the queue
  owner,       \* where the owner is
  finished,    \* messages processed by threadTask
  discarded    \* messages freed by Destroy

threadVars == <<isStop, waiting, pc, owner>>
dataVars == <<dataQueue, held, finished, discarded>>
vars == <<isStop, dataQueue, waiting, pc, held, owner, finished, discarded>>

Elements(s) == {s[i] : i \in DOMAIN s}
InHand == {held[w] : w \in Workers} \ {NoMessage}
Known == Elements(dataQueue) \cup InHand \cup finished \cup discarded

WorkerStates ==
  {"unborn",   \* no thread yet
   "loop",     \* about to read isStop, unlocked
   "lock",     \* about to take the mutex
   "wait",     \* inside oc_cond_wait
   "task",     \* running threadTask on held
   "exit",     \* left the loop, about to signal
   "done"}     \* the thread has returned

OwnerStates ==
  {"idle",     \* between two calls
   "starting", \* in Start, isStop cleared, thread not yet created
   "stopping", \* in Stop, inside or just after oc_cond_wait
   "joining",  \* in ca_thread_pool_free
   "joined",   \* ca_thread_pool_free has returned
   "gone"}     \* Destroy has returned

Alive == owner # "gone"

(* Type invariant; what AddData queues is a message, what a worker holds   *)
(* one message or none.                                                    *)
TypeOK ==
  /\ isStop \in BOOLEAN
  /\ dataQueue \in Seq(Messages)
  /\ waiting \subseteq Workers \cup {Owner}
  /\ pc \in [Workers -> WorkerStates]
  /\ held \in [Workers -> Messages \cup {NoMessage}]
  /\ owner \in OwnerStates
  /\ finished \subseteq Messages
  /\ discarded \subseteq Messages

-----------------------------------------------------------------------------
(* oc_cond_signal: wakes one waiter, whichever the scheduler picks, and is *)
(* lost when nobody waits.  W is the set of waiters, W2 what is left of it.*)
Signalled(W, W2) ==
  \/ W = {} /\ W2 = {}
  \/ \E t \in W : W2 = W \ {t}

(* CAQueueingThreadInitialize.                                             *)
Init ==
  /\ isStop = TRUE
  /\ dataQueue = <<>>
  /\ waiting = {}
  /\ pc = [w \in Workers |-> "unborn"]
  /\ held = [w \in Workers |-> NoMessage]
  /\ owner = "idle"
  /\ finished = {}
  /\ discarded = {}

(* Mutant of AddData: the signal is forgotten.                             *)
AddDataSilently(m) ==
  /\ Alive
  /\ m \notin Known
  /\ dataQueue' = Append(dataQueue, m)
  /\ UNCHANGED <<isStop, waiting, pc, held, owner, finished, discarded>>

(* CAQueueingThreadAddData, called by any thread, in any state of the      *)
(* queue: running, stopped or not yet started.                             *)
AddData(m) ==
  /\ Alive
  /\ m \notin Known
  /\ dataQueue' = Append(dataQueue, m)
  /\ Signalled(waiting, waiting')
  /\ UNCHANGED <<isStop, pc, held, owner, finished, discarded>>

-----------------------------------------------------------------------------
(* The worker.                                                             *)

Goto(w, s) == pc' = [pc EXCEPT ![w] = s]

(* while (!thread->isStop), read without the mutex.                        *)
TestStop(w) ==
  /\ pc[w] = "loop"
  /\ Goto(w, IF isStop THEN "exit" ELSE "lock")
  /\ UNCHANGED <<isStop, waiting, owner, dataVars>>

(* Mutants of GetElement: the head is read and left in the queue; the      *)
(* newest message is taken instead of the oldest.                          *)
PeekElement(w) ==
  \/ /\ isStop \/ dataQueue = <<>>
     /\ Goto(w, "loop")
     /\ UNCHANGED dataVars
  \/ /\ ~isStop
     /\ dataQueue # <<>>
     /\ held' = [held EXCEPT ![w] = Head(dataQueue)]
     /\ Goto(w, "task")
     /\ UNCHANGED <<dataQueue, finished, discarded>>

GetNewest(w) ==
  \/ /\ isStop \/ dataQueue = <<>>
     /\ Goto(w, "loop")
     /\ UNCHANGED dataVars
  \/ /\ ~isStop
     /\ dataQueue # <<>>
     /\ held' = [held EXCEPT ![w] = dataQueue[Len(dataQueue)]]
     /\ dataQueue' = SubSeq(dataQueue, 1, Len(dataQueue) - 1)
     /\ Goto(w, "task")
     /\ UNCHANGED <<finished, discarded>>

(* The rest of the critical section after the optional wait: leave when    *)
(* stopped, go round again when the queue is empty (a NULL message), else  *)
(* take the head.                                                          *)
GetElement(w) ==
  \/ /\ isStop \/ dataQueue = <<>>
     /\ Goto(w, "loop")
     /\ UNCHANGED dataVars
  \/ /\ ~isStop
     /\ dataQueue # <<>>
     /\ held' = [held EXCEPT ![w] = Head(dataQueue)]
     /\ dataQueue' = Tail(dataQueue)
     /\ Goto(w, "task")
     /\ UNCHANGED <<finished, discarded>>

(* Mutant of EnterWait: it waits without looking at the queue.             *)
EnterWaitAlways(w) ==
  /\ pc[w] = "lock"
  /\ ~isStop
  /\ waiting' = waiting \cup {w}
  /\ Goto(w, "wait")
  /\ UNCHANGED <<isStop, owner, dataVars>>

(* oc_cond_wait, entered only with the queue empty and the flag clear.     *)
EnterWait(w) ==
  /\ pc[w] = "lock"
  /\ ~isStop
  /\ dataQueue = <<>>
  /\ waiting' = waiting \cup {w}
  /\ Goto(w, "wait")
  /\ UNCHANGED <<isStop, owner, dataVars>>

GetWithoutWait(w) ==
  /\ pc[w] = "lock"
  /\ isStop \/ dataQueue # <<>>
  /\ GetElement(w)
  /\ UNCHANGED <<isStop, waiting, owner>>

GetAfterWait(w) ==
  /\ pc[w] = "wait"
  /\ w \notin waiting
  /\ GetElement(w)
  /\ UNCHANGED <<isStop, waiting, owner>>

(* threadTask(message->msg), then the message is freed.                    *)
RunTask(w) ==
  /\ pc[w] = "task"
  /\ finished' = finished \cup {held[w]}
  /\ held' = [held EXCEPT ![w] = NoMessage]
  /\ Goto(w, "loop")
  /\ UNCHANGED <<isStop, waiting, owner, dataQueue, discarded>>

(* Mutant of ExitRoutine: no farewell signal.                              *)
ExitSilently(w) ==
  /\ pc[w] = "exit"
  /\ Goto(w, "done")
  /\ UNCHANGED <<isStop, waiting, owner, dataVars>>

(* The farewell signal after the loop.                                     *)
ExitRoutine(w) ==
  /\ pc[w] = "exit"
  /\ Signalled(waiting, waiting')
  /\ Goto(w, "done")
  /\ UNCHANGED <<isStop, owner, dataVars>>

Worker(w) ==
  \/ TestStop(w)
  \/ EnterWait(w)
  \/ GetWithoutWait(w)
  \/ GetAfterWait(w)
  \/ RunTask(w)
  \/ ExitRoutine(w)

-----------------------------------------------------------------------------
(* The owner.  Start on a running queue and Stop on a stopped one return   *)
(* without doing anything.                                                 *)

StartFlag ==
  /\ owner = "idle"
  /\ isStop
  /\ \E w \in Workers : pc[w] = "unborn"
  /\ isStop' = FALSE
  /\ owner' = "starting"
  /\ UNCHANGED <<waiting, pc, dataVars>>

(* ca_thread_pool_add_task created the thread.                             *)
StartThread(w) ==
  /\ owner = "starting"
  /\ pc[w] = "unborn"
  /\ Goto(w, "loop")
  /\ owner' = "idle"
  /\ UNCHANGED <<isStop, waiting, dataVars>>

(* ca_thread_pool_add_task failed: the flag is put back.                   *)
StartFailed ==
  /\ owner = "starting"
  /\ isStop' = TRUE
  /\ owner' = "idle"
  /\ UNCHANGED <<waiting, pc, dataVars>>

(* Stop: set the flag, signal, and wait, in one critical section.          *)
StopAndWait ==
  /\ owner = "idle"
  /\ ~isStop
  /\ isStop' = TRUE
  /\ \E W \in SUBSET waiting :
       /\ Signalled(waiting, W)
       /\ waiting' = W \cup {Owner}
  /\ owner' = "stopping"
  /\ UNCHANGED <<pc, dataVars>>

StopReturns ==
  /\ owner = "stopping"
  /\ Owner \notin waiting
  /\ owner' = "idle"
  /\ UNCHANGED <<isStop, waiting, pc, dataVars>>

(* The owner's terminate path, taken with the queue stopped: join the      *)
(* threads of the pool, then destroy the queue.                            *)
Terminate ==
  /\ owner = "idle"
  /\ isStop
  /\ owner' = "joining"
  /\ UNCHANGED <<isStop, waiting, pc, dataVars>>

(* Mutant of JoinPool: the pool is freed without waiting for its threads.  *)
FreePool ==
  /\ owner = "joining"
  /\ owner' = "joined"
  /\ UNCHANGED <<isStop, waiting, pc, dataVars>>

(* ca_thread_pool_free: returns once every thread it created has returned. *)
JoinPool ==
  /\ owner = "joining"
  /\ \A w \in Workers : pc[w] \in {"unborn", "done"}
  /\ owner' = "joined"
  /\ UNCHANGED <<isStop, waiting, pc, dataVars>>

(* CAQueueingThreadDestroy: frees what is queued, the mutex and the        *)
(* condition variable.                                                     *)
Destroy ==
  /\ owner = "joined"
  /\ discarded' = discarded \cup Elements(dataQueue)
  /\ dataQueue' = <<>>
  /\ owner' = "gone"
  /\ UNCHANGED <<isStop, waiting, pc, held, finished>>

SpuriousWakeup ==
  /\ Spurious
  /\ \E t \in waiting : waiting' = waiting \ {t}
  /\ UNCHANGED <<isStop, pc, owner, dataVars>>

OwnerStep ==
  \/ StartFlag
  \/ \E w \in Workers : StartThread(w)
  \/ StartFailed
  \/ StopAndWait
  \/ StopReturns
  \/ Terminate
  \/ JoinPool
  \/ Destroy

Next ==
  \/ \E m \in Messages : AddData(m)
  \/ \E w \in Workers : Worker(w)
  \/ OwnerStep
  \/ SpuriousWakeup

Spec == Init /\ [][Next]_vars

(* Threads are scheduled: a worker that can run does, and a call of the    *)
(* owner that has begun (Start, Stop, the join and the Destroy after it)   *)
(* ends when it can.  Nothing forces the owner to begin one, and nobody    *)
(* has to add data or to wake up spuriously.                               *)
Fairness ==
  /\ \A w \in Workers : WF_vars(Worker(w))
  /\ WF_vars(StartFailed \/ \E w \in Workers : StartThread(w))
  /\ WF_vars(StopReturns)
  /\ WF_vars(JoinPool)
  /\ WF_vars(Destroy)

FairSpec == Spec /\ Fairness

-----------------------------------------------------------------------------
(* Properties.                                                             *)

Living(w) == pc[w] \in {"loop", "lock", "wait", "task"}

(* Destroy frees the mutex and the condition variable that the worker      *)
(* uses to the very end of its routine: when it has returned, no worker is *)
(* in the routine any more and nobody waits on the condition variable.     *)
NoUseAfterDestroy ==
  ~Alive => /\ \A w \in Workers : pc[w] \in {"unborn", "done"}
            /\ waiting = {}

(* No lost wake-up.  A running queue that holds a message has a worker     *)
(* that is not asleep, although AddData, Stop and the worker's farewell    *)
(* all signal the same condition variable and a signal wakes any one       *)
(* waiter.                                                                 *)
NoLostWakeup ==
  ~isStop /\ dataQueue # <<>> =>
     \/ owner = "starting"
     \/ \E w \in Workers : Living(w) /\ w \notin waiting

(* A message is in one place: once in the queue, or with one worker, or    *)
(* processed, or discarded.  So it is never processed twice, nor processed *)
(* after it was freed.                                                     *)
NoDoubleUse ==
  /\ \A i, j \in DOMAIN dataQueue : dataQueue[i] = dataQueue[j] => i = j
  /\ \A v, w \in Workers : held[v] = held[w] /\ held[v] # NoMessage => v = w
  /\ Elements(dataQueue) \cap (InHand \cup finished \cup discarded) = {}
  /\ InHand \cap (finished \cup discarded) = {}
  /\ finished \cap discarded = {}

(* The queueing thread implements the abstract work queue.                 *)
WorkQueue == INSTANCE CAWorkQueue
  WITH queue <- dataQueue, inHand <- InHand, closed <- ~Alive

(* The queueing thread implements the abstract work queue: messages are    *)
(* taken in the order CAQueueingThreadAddData queued them, each is         *)
(* processed once or discarded, and nothing happens after Destroy.         *)
ImplementsWorkQueue == WorkQueue!WQSpec

(* A queued message of a queue that is not stopped is processed.           *)
Served ==
  \A m \in Messages :
    (m \in Elements(dataQueue) /\ ~isStop) ~> (m \in finished \/ isStop)

(* The pool's join, and with it the termination of the stack, ends:        *)
(* "Function will return only after joining all threads"                   *)
(* (common/inc/cathreadpool.h) must not mean that it never returns.        *)
JoinTerminates == (owner = "joining") ~> (owner = "gone")
=============================================================================
