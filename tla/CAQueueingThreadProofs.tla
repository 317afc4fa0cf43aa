------------------------ MODULE CAQueueingThreadProofs ------------------------
(***************************************************************************)
(* Theorems about CAQueueingThread, for every set of messages and of       *)
(* workers: type correctness, no lost wake-up, nothing used after Destroy, *)
(* no message used twice, and the implementation of CAWorkQueue.           *)
(***************************************************************************)
EXTENDS CAQueueingThread, TLAPS

(* The inductive invariant, part by part.                                  *)

(* A worker holds a message exactly while it runs the task.                *)
Holding == \A w \in Workers : pc[w] = "task" <=> held[w] # NoMessage

(* Who may be blocked on the condition variable.                           *)
WaitersWait ==
  /\ \A w \in Workers : w \in waiting => pc[w] = "wait"
  /\ Owner \in waiting => owner = "stopping"

(* What the owner's position says about the flag and the workers.          *)
OwnerPhase ==
  /\ owner = "starting" => ~isStop
  /\ owner \in {"stopping", "joining", "joined", "gone"} => isStop
  /\ owner \in {"joined", "gone"} =>
        \A w \in Workers : pc[w] \in {"unborn", "done"}

(* A running queue has a worker, or Start is about to create it.           *)
Staffed == ~isStop => owner = "starting" \/ \E w \in Workers : Living(w)

IndInv == TypeOK /\ Holding /\ WaitersWait /\ OwnerPhase /\ Staffed
          /\ NoLostWakeup

-----------------------------------------------------------------------------
LEMMA IndInit == Init => IndInv
  BY OwnerAssumption
  DEF Init, IndInv, TypeOK, WorkerStates, OwnerStates, Holding, WaitersWait,
      OwnerPhase, Staffed, NoLostWakeup, Living

(* A signal only removes waiters, and removes one when there is one.       *)
LEMMA SignalWakes ==
  ASSUME NEW W, NEW W2, Signalled(W, W2)
  PROVE  /\ W2 \subseteq W
         /\ W # {} => \E t \in W : t \notin W2
  BY DEF Signalled

LEMMA AddDataStep ==
  ASSUME IndInv, NEW m \in Messages, AddData(m) PROVE IndInv'
<1> USE DEF IndInv
<1>0. /\ waiting' \subseteq waiting
      /\ waiting # {} => \E t \in waiting : t \notin waiting'
  BY SignalWakes DEF AddData
<1>1. TypeOK'
  <2>1. dataQueue' \in Seq(Messages)
    BY DEF AddData, TypeOK
  <2> QED
    BY <1>0, <2>1 DEF AddData, TypeOK
<1>2. Holding' /\ WaitersWait' /\ OwnerPhase'
  BY <1>0 DEF AddData, Holding, WaitersWait, OwnerPhase
<1>3. Staffed'
  BY DEF AddData, Staffed, Living
<1>4. NoLostWakeup'
  <2>1. SUFFICES ASSUME ~isStop, owner # "starting"
                 PROVE \E w \in Workers : Living(w)' /\ w \notin waiting'
    BY DEF AddData, NoLostWakeup
  <2>2. PICK w \in Workers : Living(w)
    BY <2>1 DEF Staffed
  <2>3. CASE w \notin waiting
    BY <1>0, <2>2, <2>3 DEF AddData, Living
  <2>4. CASE w \in waiting
    <3>1. PICK t \in waiting : t \notin waiting'
      BY <1>0, <2>4
    <3>2. t \in Workers
      BY <2>1 DEF TypeOK, WaitersWait, OwnerPhase
    <3> QED
      BY <3>1, <3>2 DEF WaitersWait, Living, AddData
  <2> QED
    BY <2>3, <2>4
<1> QED
  BY <1>1, <1>2, <1>3, <1>4

LEMMA GetElementStep ==
  ASSUME IndInv, NEW w \in Workers, w \notin waiting, pc[w] \in {"lock", "wait"},
         GetElement(w), UNCHANGED <<isStop, waiting, owner>>
  PROVE  IndInv'
<1> USE DEF IndInv
<1>1. CASE UNCHANGED dataVars /\ Goto(w, "loop")
  <2>1. TypeOK' /\ Holding' /\ WaitersWait' /\ OwnerPhase'
    BY <1>1 DEF dataVars, Goto, TypeOK, WorkerStates, Holding, WaitersWait, OwnerPhase
  <2>2. Staffed' /\ NoLostWakeup'
    BY <1>1 DEF dataVars, Goto, TypeOK, Staffed, NoLostWakeup, Living
  <2> QED
    BY <2>1, <2>2
<1>2. CASE /\ ~isStop /\ dataQueue # <<>>
           /\ held' = [held EXCEPT ![w] = Head(dataQueue)]
           /\ dataQueue' = Tail(dataQueue) /\ Goto(w, "task")
           /\ UNCHANGED <<finished, discarded>>
  <2>1. Head(dataQueue) \in Messages /\ Tail(dataQueue) \in Seq(Messages)
    BY <1>2 DEF TypeOK
  <2>2. TypeOK' /\ Holding' /\ WaitersWait' /\ OwnerPhase'
    BY <1>2, <2>1, NoMessageAssumption
    DEF Goto, TypeOK, WorkerStates, Holding, WaitersWait, OwnerPhase
  <2>3. Staffed' /\ NoLostWakeup'
    BY <1>2 DEF Goto, TypeOK, Staffed, NoLostWakeup, Living
  <2> QED
    BY <2>2, <2>3
<1> QED
  BY <1>1, <1>2 DEF GetElement

LEMMA WorkerStep ==
  ASSUME IndInv, NEW w \in Workers, Worker(w) PROVE IndInv'
<1> USE DEF IndInv
<1>1. CASE TestStop(w)
  <2>1. TypeOK' /\ Holding' /\ WaitersWait' /\ OwnerPhase'
    BY <1>1 DEF TestStop, Goto, dataVars, TypeOK, WorkerStates, Holding,
                WaitersWait, OwnerPhase
  <2>2. Staffed' /\ NoLostWakeup'
    BY <1>1 DEF TestStop, Goto, dataVars, TypeOK, Staffed, NoLostWakeup, Living
  <2> QED
    BY <2>1, <2>2
<1>2. CASE EnterWait(w)
  <2>1. TypeOK' /\ Holding' /\ WaitersWait' /\ OwnerPhase'
    BY <1>2, OwnerAssumption
    DEF EnterWait, Goto, dataVars, TypeOK, WorkerStates, Holding,
        WaitersWait, OwnerPhase
  <2>2. Staffed' /\ NoLostWakeup'
    BY <1>2 DEF EnterWait, Goto, dataVars, TypeOK, Staffed, NoLostWakeup, Living
  <2> QED
    BY <2>1, <2>2
<1>3. CASE GetWithoutWait(w)
  BY <1>3, GetElementStep DEF GetWithoutWait, WaitersWait
<1>4. CASE GetAfterWait(w)
  BY <1>4, GetElementStep DEF GetAfterWait
<1>5. CASE RunTask(w)
  <2>1. held[w] \in Messages
    BY <1>5 DEF RunTask, Holding, TypeOK
  <2>2. TypeOK' /\ Holding' /\ WaitersWait' /\ OwnerPhase'
    BY <1>5, <2>1 DEF RunTask, Goto, TypeOK, WorkerStates, Holding,
                      WaitersWait, OwnerPhase
  <2>3. Staffed' /\ NoLostWakeup'
    BY <1>5 DEF RunTask, Goto, TypeOK, Staffed, NoLostWakeup, Living, WaitersWait
  <2> QED
    BY <2>2, <2>3
<1>6. CASE ExitRoutine(w)
  <2>1. waiting' \subseteq waiting
    BY <1>6, SignalWakes DEF ExitRoutine
  <2>2. TypeOK' /\ Holding' /\ WaitersWait' /\ OwnerPhase'
    BY <1>6, <2>1 DEF ExitRoutine, Goto, dataVars, TypeOK, WorkerStates, Holding,
                      WaitersWait, OwnerPhase
  <2>3. Staffed' /\ NoLostWakeup'
    BY <1>6, <2>1 DEF ExitRoutine, Goto, dataVars, TypeOK, Staffed, NoLostWakeup,
                      Living
  <2> QED
    BY <2>2, <2>3
<1> QED
  BY <1>1, <1>2, <1>3, <1>4, <1>5, <1>6 DEF Worker

LEMMA OwnerStepStep ==
  ASSUME IndInv, OwnerStep PROVE IndInv'
<1> USE DEF IndInv, TypeOK, OwnerStates, WorkerStates, Holding, WaitersWait,
            OwnerPhase, Staffed, NoLostWakeup, Living, dataVars
<1>1. CASE StartFlag
  BY <1>1 DEF StartFlag
<1>2. ASSUME NEW w \in Workers, StartThread(w) PROVE IndInv'
  BY <1>2 DEF StartThread, Goto
<1>3. CASE StartFailed
  BY <1>3 DEF StartFailed
<1>4. CASE StopAndWait
  <2>1. waiting' \subseteq waiting \cup {Owner}
    BY <1>4 DEF StopAndWait
  <2> QED
    BY <1>4, <2>1, OwnerAssumption DEF StopAndWait
<1>5. CASE StopReturns
  BY <1>5 DEF StopReturns
<1>6. CASE Terminate
  BY <1>6 DEF Terminate
<1>7. CASE JoinPool
  BY <1>7 DEF JoinPool
<1>8. CASE Destroy
  <2>1. Elements(dataQueue) \subseteq Messages
    BY DEF Elements
  <2> QED
    BY <1>8, <2>1 DEF Destroy
<1> QED
  BY <1>1, <1>2, <1>3, <1>4, <1>5, <1>6, <1>7, <1>8 DEF OwnerStep

LEMMA IndStep == IndInv /\ [Next]_vars => IndInv'
<1> SUFFICES ASSUME IndInv, [Next]_vars PROVE IndInv'
  OBVIOUS
<1>1. CASE SpuriousWakeup
  <2>1. waiting' \subseteq waiting
    BY <1>1 DEF SpuriousWakeup
  <2> QED
    BY <1>1, <2>1 DEF SpuriousWakeup, dataVars, IndInv, TypeOK, Holding,
       WaitersWait, OwnerPhase, Staffed, NoLostWakeup, Living
<1>2. CASE UNCHANGED vars
  BY <1>2 DEF vars, IndInv, TypeOK, Holding, WaitersWait, OwnerPhase, Staffed,
     NoLostWakeup, Living
<1> QED
  BY <1>1, <1>2, AddDataStep, WorkerStep, OwnerStepStep DEF Next

(* The inductive invariant holds in every reachable state.                 *)
THEOREM Invariance == Spec => []IndInv
  BY IndInit, IndStep, PTL DEF Spec

(* Type correctness of the queueing thread.                                *)
THEOREM TypeCorrect == Spec => []TypeOK
<1>1. IndInv => TypeOK
  BY DEF IndInv
<1> QED
  BY <1>1, Invariance, PTL

(* AddData's signal is never lost, for any number of workers, restarts and *)
(* spurious wake-ups: a running queue that holds a message has a worker    *)
(* that is awake.                                                          *)
THEOREM WakeupNeverLost == Spec => []NoLostWakeup
<1>1. IndInv => NoLostWakeup
  BY DEF IndInv
<1> QED
  BY <1>1, Invariance, PTL

(* The mutex and the condition variable are not used once Destroy has      *)
(* freed them, although Stop may return early: the pool's join protects    *)
(* them.                                                                   *)
THEOREM DestroySafe == Spec => []NoUseAfterDestroy
<1>1. IndInv => NoUseAfterDestroy
  BY DEF IndInv, NoUseAfterDestroy, Alive, TypeOK, OwnerPhase, WaitersWait
<1> QED
  BY <1>1, Invariance, PTL

-----------------------------------------------------------------------------
(* A message is never in two places.                                       *)

LEMMA UniqueAdd ==
  ASSUME TypeOK, NoDoubleUse, NEW m \in Messages, AddData(m) PROVE NoDoubleUse'
<1>1. /\ dataQueue \in Seq(Messages)
      /\ dataQueue' = Append(dataQueue, m)
      /\ m \notin Elements(dataQueue)
      /\ m \notin InHand \cup finished \cup discarded
      /\ UNCHANGED <<held, finished, discarded, InHand>>
  BY DEF AddData, TypeOK, Known, InHand
<1>2. \A i, j \in DOMAIN dataQueue' : dataQueue'[i] = dataQueue'[j] => i = j
  BY <1>1 DEF NoDoubleUse, Elements
<1>3. Elements(dataQueue)' \subseteq Elements(dataQueue) \cup {m}
  BY <1>1 DEF Elements
<1> QED
  BY <1>1, <1>2, <1>3 DEF NoDoubleUse

(* Taking the head: it leaves the queue and is in one worker's hand.       *)
LEMMA TakeHead ==
  ASSUME TypeOK, Holding, NoDoubleUse, NEW w \in Workers, pc[w] # "task",
         dataQueue # <<>>,
         held' = [held EXCEPT ![w] = Head(dataQueue)],
         dataQueue' = Tail(dataQueue)
  PROVE  /\ Elements(dataQueue)' = Elements(dataQueue) \ {Head(dataQueue)}
         /\ Head(dataQueue) \in Elements(dataQueue)
         /\ InHand' = InHand \cup {Head(dataQueue)}
         /\ \A i, j \in DOMAIN dataQueue' : dataQueue'[i] = dataQueue'[j] => i = j
<1>1. dataQueue \in Seq(Messages) /\ Len(dataQueue) > 0
  BY DEF TypeOK
<1>2. /\ Head(dataQueue) = dataQueue[1]
      /\ DOMAIN dataQueue = 1 .. Len(dataQueue)
      /\ DOMAIN dataQueue' = 1 .. (Len(dataQueue) - 1)
      /\ \A i \in DOMAIN dataQueue' : dataQueue'[i] = dataQueue[i + 1]
  BY <1>1
<1>3. \A i, j \in DOMAIN dataQueue' : dataQueue'[i] = dataQueue'[j] => i = j
  BY <1>1, <1>2 DEF NoDoubleUse
<1>4. Elements(dataQueue)' = Elements(dataQueue) \ {Head(dataQueue)}
  <2>1. ASSUME NEW i \in DOMAIN dataQueue'
        PROVE dataQueue'[i] \in Elements(dataQueue) \ {Head(dataQueue)}
    BY <1>1, <1>2 DEF NoDoubleUse, Elements
  <2>2. ASSUME NEW i \in DOMAIN dataQueue, i # 1
        PROVE dataQueue[i] \in Elements(dataQueue)'
    <3>1. i - 1 \in DOMAIN dataQueue' /\ dataQueue'[i - 1] = dataQueue[i]
      BY <1>1, <1>2, <2>2
    <3> QED
      BY <3>1 DEF Elements
  <2> QED
    BY <1>2, <2>1, <2>2 DEF Elements
<1>5. Head(dataQueue) \in Elements(dataQueue) /\ Head(dataQueue) \in Messages
  BY <1>1, <1>2 DEF Elements
<1>6. held[w] = NoMessage /\ Head(dataQueue) # NoMessage
  BY <1>5, NoMessageAssumption DEF Holding
<1>7. InHand' = InHand \cup {Head(dataQueue)}
  BY <1>6 DEF InHand, TypeOK
<1> QED
  BY <1>3, <1>4, <1>5, <1>7

LEMMA UniqueGet ==
  ASSUME TypeOK, Holding, NoDoubleUse, NEW w \in Workers, pc[w] # "task",
         GetElement(w)
  PROVE  NoDoubleUse'
<1>1. CASE UNCHANGED dataVars
  BY <1>1 DEF dataVars, NoDoubleUse, InHand, Elements
<1>2. CASE /\ dataQueue # <<>>
           /\ held' = [held EXCEPT ![w] = Head(dataQueue)]
           /\ dataQueue' = Tail(dataQueue)
           /\ UNCHANGED <<finished, discarded>>
  <2>1. /\ Elements(dataQueue)' = Elements(dataQueue) \ {Head(dataQueue)}
        /\ Head(dataQueue) \in Elements(dataQueue)
        /\ InHand' = InHand \cup {Head(dataQueue)}
        /\ \A i, j \in DOMAIN dataQueue' : dataQueue'[i] = dataQueue'[j] => i = j
    BY <1>2, TakeHead
  <2>2. \A u, v \in Workers :
          held'[u] = held'[v] /\ held'[u] # NoMessage => u = v
    BY <1>2, <2>1 DEF NoDoubleUse, TypeOK, InHand
  <2> QED
    BY <1>2, <2>1, <2>2 DEF NoDoubleUse
<1> QED
  BY <1>1, <1>2 DEF GetElement

(* Finishing a task: the message leaves the one hand that held it.         *)
LEMMA FinishTask ==
  ASSUME TypeOK, Holding, NoDoubleUse, NEW w \in Workers, RunTask(w)
  PROVE  /\ held[w] \in InHand /\ held[w] \in Messages
         /\ InHand' = InHand \ {held[w]}
         /\ \A u, v \in Workers :
               held'[u] = held'[v] /\ held'[u] # NoMessage => u = v
<1>1. held[w] # NoMessage /\ held[w] \in Messages
  BY DEF RunTask, Holding, TypeOK
<1>2. held' = [held EXCEPT ![w] = NoMessage]
  BY DEF RunTask
<1>3. \A v \in Workers : held[v] = held[w] => v = w
  BY <1>1 DEF NoDoubleUse
<1> QED
  BY <1>1, <1>2, <1>3 DEF NoDoubleUse, InHand, TypeOK

LEMMA UniqueStep == IndInv /\ NoDoubleUse /\ [Next]_vars => NoDoubleUse'
<1> SUFFICES ASSUME IndInv, NoDoubleUse, [Next]_vars PROVE NoDoubleUse'
  OBVIOUS
<1> USE DEF IndInv
<1>0. ASSUME UNCHANGED dataVars PROVE NoDoubleUse'
  BY <1>0 DEF dataVars, NoDoubleUse, InHand, Elements
<1>1. ASSUME NEW w \in Workers, Worker(w) PROVE NoDoubleUse'
  <2>1. CASE GetWithoutWait(w)
    BY <2>1, UniqueGet DEF GetWithoutWait
  <2>2. CASE GetAfterWait(w)
    BY <2>2, UniqueGet DEF GetAfterWait
  <2>3. CASE RunTask(w)
    BY <2>3, FinishTask, ZenonT(60) DEF RunTask, NoDoubleUse
  <2>4. CASE TestStop(w) \/ EnterWait(w) \/ ExitRoutine(w)
    BY <2>4, <1>0 DEF TestStop, EnterWait, ExitRoutine
  <2> QED
    BY <1>1, <2>1, <2>2, <2>3, <2>4 DEF Worker
<1>2. CASE OwnerStep
  <2>1. CASE Destroy
    <3>1. Elements(dataQueue)' = {} /\ dataQueue' = <<>> /\ InHand' = InHand
      BY <2>1 DEF Destroy, Elements, InHand
    <3> QED
      BY <2>1, <3>1 DEF Destroy, NoDoubleUse
  <2>2. CASE ~Destroy
    BY <1>2, <2>2, <1>0 DEF OwnerStep, StartFlag, StartThread, StartFailed,
       StopAndWait, StopReturns, Terminate, JoinPool
  <2> QED
    BY <2>1, <2>2
<1>3. CASE SpuriousWakeup \/ UNCHANGED vars
  BY <1>3, <1>0 DEF SpuriousWakeup, vars, dataVars
<1> QED
  BY <1>1, <1>2, <1>3, UniqueAdd DEF Next

(* No message is processed twice, freed twice, or processed after it was   *)
(* freed.                                                                  *)
THEOREM MessageUsedOnce == Spec => []NoDoubleUse
<1>1. Init => NoDoubleUse
  BY DEF Init, NoDoubleUse, InHand, Elements
<1> QED
  BY <1>1, Invariance, UniqueStep, PTL DEF Spec

-----------------------------------------------------------------------------
(* Every behaviour of the queueing thread is one of the abstract work      *)
(* queue: taken in FIFO order, processed once, discarded only after the    *)
(* workers have gone.                                                      *)
THEOREM Implementation == Spec => ImplementsWorkQueue
<1> USE DEF WorkQueue!Elements, WorkQueue!Known, Elements
<1>1. Init => WorkQueue!WQInit
  BY DEF Init, WorkQueue!WQInit, InHand, Alive
<1>2. IndInv /\ NoDoubleUse /\ [Next]_vars =>
        [WorkQueue!WQNext]_(WorkQueue!workVars)
  <2> SUFFICES ASSUME IndInv, NoDoubleUse, [Next]_vars
               PROVE [WorkQueue!WQNext]_(WorkQueue!workVars)
    OBVIOUS
  <2> USE DEF IndInv, WorkQueue!workVars
  <2>0. ASSUME UNCHANGED dataVars, UNCHANGED Alive
        PROVE UNCHANGED WorkQueue!workVars
    BY <2>0 DEF dataVars, InHand
  <2>1. ASSUME NEW m \in Messages, AddData(m) PROVE WorkQueue!WQNext
    BY <2>1 DEF AddData, Alive, Known, InHand, WorkQueue!WQNext, WorkQueue!Put
  <2>2. ASSUME NEW w \in Workers, Worker(w)
        PROVE [WorkQueue!WQNext]_(WorkQueue!workVars)
    <3>0. ASSUME GetElement(w), pc[w] \in {"lock", "wait"}, UNCHANGED owner
          PROVE [WorkQueue!WQNext]_(WorkQueue!workVars)
      <4>1. CASE UNCHANGED dataVars
        BY <3>0, <4>1, <2>0 DEF Alive
      <4>2. CASE /\ dataQueue # <<>>
                 /\ held' = [held EXCEPT ![w] = Head(dataQueue)]
                 /\ dataQueue' = Tail(dataQueue)
                 /\ UNCHANGED <<finished, discarded>>
        <5>1. InHand' = InHand \cup {Head(dataQueue)}
          BY <3>0, <4>2, TakeHead
        <5>2. Alive /\ UNCHANGED Alive
          BY <3>0 DEF Alive, OwnerPhase
        <5> QED
          BY <4>2, <5>1, <5>2 DEF WorkQueue!WQNext, WorkQueue!Take
      <4> QED
        BY <3>0, <4>1, <4>2 DEF GetElement
    <3>1. CASE GetWithoutWait(w) \/ GetAfterWait(w)
      BY <3>0, <3>1 DEF GetWithoutWait, GetAfterWait
    <3>2. CASE RunTask(w)
      <4>1. /\ held[w] \in InHand /\ held[w] \in Messages
            /\ InHand' = InHand \ {held[w]}
        BY <3>2, FinishTask
      <4> QED
        BY <3>2, <4>1 DEF RunTask, Alive, WorkQueue!WQNext, WorkQueue!Finish
    <3>3. CASE TestStop(w) \/ EnterWait(w) \/ ExitRoutine(w)
      BY <3>3, <2>0 DEF TestStop, EnterWait, ExitRoutine, Alive
    <3> QED
      BY <2>2, <3>1, <3>2, <3>3 DEF Worker
  <2>3. CASE OwnerStep
    <3>1. CASE Destroy
      <4>1. InHand = {} /\ InHand' = {}
        BY <3>1 DEF Destroy, OwnerPhase, Holding, InHand
      <4> QED
        BY <3>1, <4>1 DEF Destroy, Alive, WorkQueue!WQNext, WorkQueue!Close
    <3>2. CASE ~Destroy
      BY <2>3, <3>2, <2>0 DEF OwnerStep, StartFlag, StartThread, StartFailed,
         StopAndWait, StopReturns, Terminate, JoinPool, Alive
    <3> QED
      BY <3>1, <3>2
  <2>4. CASE SpuriousWakeup \/ UNCHANGED vars
    BY <2>4, <2>0 DEF SpuriousWakeup, vars, dataVars, Alive
  <2> QED
    BY <2>1, <2>2, <2>3, <2>4 DEF Next
<1> QED
  BY <1>1, <1>2, Invariance, MessageUsedOnce, PTL
  DEF Spec, WorkQueue!WQSpec, ImplementsWorkQueue
=============================================================================
