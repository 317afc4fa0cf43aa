------------------------ MODULE CAMessageHandlerProofs ------------------------
(***************************************************************************)
(* Theorems about the path of a message through camessagehandler.c, in     *)
(* three parts: the retransmission context (CARetransmission), for every   *)
(* set of PDUs, every assignment of message ids, every tryingCount and     *)
(* every set of timeout values; the message handler that uses it           *)
(* (CAMessageHandler), which uses the context and the send queue as their  *)
(* specifications allow, so that what holds of the context holds in the    *)
(* composition too, and bounds the copies of a PDU; and the history of     *)
(* received requests (CAHistory), for any requests and any size of the     *)
(* ring.                                                                   *)
(***************************************************************************)
EXTENDS CAMessageHandler, CAHistory, FiniteSetTheorems, SequenceTheorems,
        WellFoundedInduction, TLAPS

(***************************************************************************)
(* The retransmission context.                                             *)
(***************************************************************************)

(* The inductive invariant, part by part.                                  *)

(* An entry still in the list has attempts left.                           *)
AttemptsLeft == \A m \in dataList : triedCount[m] < TryingCount

(* The list, the answered, the expired and the refused PDUs are apart.     *)
Apart ==
  /\ dataList \cap (answered \cup expired \cup refused) = {}
  /\ answered \cap expired = {}

(* Who may be blocked on the condition variable, and what the owner's      *)
(* position says about the flag and the thread.                            *)
ThreadPhase ==
  /\ Thread \in waiting => pc \in {"wait", "timed"}
  /\ Owner \in waiting => owner = "stopping"
  /\ owner # "idle" => isStop
  /\ owner \in {"joined", "gone"} => pc = "done"

RTInv ==
  RTTypeOK /\ AttemptsLeft /\ UniqueKey /\ Apart /\ ThreadPhase /\ NoEntrySleeps

-----------------------------------------------------------------------------
LEMMA RTInvInit == RTInit => RTInv
<1> SUFFICES ASSUME RTInit PROVE RTInv
  OBVIOUS
<1> USE DEF RTInit
<1>1. 0 \in 0 .. TryingCount /\ 0 \in 0 .. MaxTime
  BY CountAssumption, TimeAssumption
<1>2. RTTypeOK
  BY <1>1 DEF RTTypeOK, ThreadStates, OwnerStates
<1> QED
  BY <1>2 DEF RTInv, AttemptsLeft, UniqueKey, Apart, ThreadPhase, NoEntrySleeps

(* Steps that leave the entries alone preserve what is said about them.    *)
LEMMA EntriesKept ==
  ASSUME RTInv, UNCHANGED entryVars PROVE AttemptsLeft' /\ UniqueKey' /\ Apart'
  BY DEF RTInv, entryVars, AttemptsLeft, UniqueKey, Apart

LEMMA SentDataInv ==
  ASSUME RTInv, NEW m \in Messages, SentData(m) PROVE RTInv'
<1> USE DEF RTInv
<1>0. /\ Alive /\ m \in Supported \ Seen
      /\ UNCHANGED <<isStop, pc, owner, answered, expired>>
  BY DEF SentData
<1>1. CASE Duplicate(m) /\ refused' = refused \cup {m}
           /\ UNCHANGED <<waiting, dataList, timeout, triedCount, age, lifetime>>
  BY <1>0, <1>1 DEF RTTypeOK, AttemptsLeft, UniqueKey, Apart, ThreadPhase,
     NoEntrySleeps, Seen
<1>2. CASE ~Duplicate(m) /\ NewEntry(m) /\ Signalled(waiting, waiting')
           /\ UNCHANGED refused
  <2>0. /\ waiting' \subseteq waiting
        /\ waiting # {} => \E t \in waiting : t \notin waiting'
    BY <1>2 DEF Signalled
  <2>1. RTTypeOK'
    <3>1. timeout' \in [Messages -> Nat]
      BY <1>2, TimeoutAssumption DEF RTTypeOK, NewEntry
    <3>2. 0 \in 0 .. TryingCount /\ 0 \in 0 .. MaxTime
      BY CountAssumption, TimeAssumption
    <3> QED
      BY <1>0, <1>2, <2>0, <3>1, <3>2 DEF RTTypeOK, NewEntry
  <2>2. AttemptsLeft'
    BY <1>0, <1>2, CountAssumption DEF AttemptsLeft, NewEntry, RTTypeOK
  <2>3. UniqueKey' /\ Apart'
    BY <1>0, <1>2 DEF UniqueKey, Apart, Duplicate, Seen, NewEntry
  <2>4. ThreadPhase' /\ NoEntrySleeps'
    BY <1>0, <1>2, <2>0, ThreadAssumption DEF ThreadPhase, NoEntrySleeps, RTTypeOK
  <2> QED
    BY <2>1, <2>2, <2>3, <2>4
<1> QED
  BY <1>1, <1>2 DEF SentData

LEMMA ReceivedDataInv ==
  ASSUME RTInv, NEW k \in Keys, ReceivedData(k) PROVE RTInv'
<1> USE DEF RTInv, ReceivedData
<1>1. RTTypeOK'
  <2>1. 0 \in 0 .. MaxTime
    BY TimeAssumption
  <2> QED
    BY <2>1 DEF RTTypeOK
<1>2. AttemptsLeft' /\ UniqueKey' /\ Apart'
  BY DEF AttemptsLeft, UniqueKey, Apart
<1>3. ThreadPhase' /\ NoEntrySleeps'
  BY DEF ThreadPhase, NoEntrySleeps
<1> QED
  BY <1>1, <1>2, <1>3

(* The pass over the list: whoever is resent had attempts left, and whoever*)
(* stays has attempts left.                                                *)
LEMMA CheckListInv ==
  ASSUME RTInv, CheckList PROVE RTInv'
<1> USE DEF RTInv, CheckList
<1>1. \A m \in Messages : triedCount'[m] \in 0 .. TryingCount
  <2> SUFFICES ASSUME NEW m \in Messages PROVE triedCount'[m] \in 0 .. TryingCount
    OBVIOUS
  <2>1. triedCount[m] \in 0 .. TryingCount
    BY DEF RTTypeOK
  <2>2. CASE m \in Resent
    <3>1. triedCount[m] < TryingCount
      BY <2>2 DEF Resent, AttemptsLeft
    <3> QED
      BY <2>1, <2>2, <3>1, CountAssumption
  <2>3. CASE m \notin Resent
    BY <2>1, <2>3, CountAssumption
  <2> QED
    BY <2>2, <2>3
<1>2. Exhausted \subseteq dataList
  BY DEF Exhausted
<1>3. RTTypeOK'
  <2>1. 0 \in 0 .. MaxTime
    BY TimeAssumption
  <2>2. age' \in [Messages -> 0 .. MaxTime]
    BY <2>1 DEF RTTypeOK
  <2>3. triedCount' \in [Messages -> 0 .. TryingCount]
    BY <1>1
  <2> QED
    BY <1>2, <2>2, <2>3 DEF RTTypeOK, ThreadStates
<1>4. AttemptsLeft'
  <2> SUFFICES ASSUME NEW m \in dataList' PROVE triedCount'[m] < TryingCount
    BY DEF AttemptsLeft
  <2>1. m \in Messages /\ triedCount[m] \in 0 .. TryingCount
    BY SupportedAssumption DEF RTTypeOK
  <2>2. m \in Resent <=> TimedOut(m)
    BY DEF Resent
  <2>3. ~(triedCount[m] + (IF TimedOut(m) THEN 1 ELSE 0) >= TryingCount)
    BY DEF Exhausted
  <2> QED
    BY <2>1, <2>2, <2>3, CountAssumption
<1>5. UniqueKey' /\ Apart'
  BY <1>2 DEF UniqueKey, Apart
<1>6. ThreadPhase' /\ NoEntrySleeps'
  BY DEF ThreadPhase, NoEntrySleeps
<1> QED
  BY <1>3, <1>4, <1>5, <1>6

LEMMA ThreadStepInv ==
  ASSUME RTInv, ThreadStep PROVE RTInv'
<1>1. CASE CheckList
  BY <1>1, CheckListInv
<1>2. CASE ~CheckList
  <2>1. UNCHANGED entryVars
    BY <1>2 DEF ThreadStep, ReadStop, LockAndWait, Woken, PeriodElapsed, TestStop,
       ExitRoutine
  <2>2. waiting' \subseteq waiting \cup {Thread} /\ UNCHANGED <<isStop, owner>>
    BY <1>2 DEF ThreadStep, ReadStop, LockAndWait, Woken, PeriodElapsed, TestStop,
       ExitRoutine, Signalled
  <2>3. RTTypeOK'
    BY <1>2, <2>1, <2>2 DEF ThreadStep, ReadStop, LockAndWait, Woken,
       PeriodElapsed, TestStop, ExitRoutine, RTInv, RTTypeOK, entryVars, ThreadStates
  <2>4. ThreadPhase' /\ NoEntrySleeps'
    BY <1>2, <2>1, <2>2, ThreadAssumption DEF ThreadStep, ReadStop, LockAndWait,
       Woken, PeriodElapsed, TestStop, ExitRoutine, Signalled, RTInv, ThreadPhase,
       NoEntrySleeps, entryVars
  <2> QED
    BY <2>1, <2>3, <2>4, EntriesKept DEF RTInv
<1> QED
  BY <1>1, <1>2

LEMMA OwnerStepInv ==
  ASSUME RTInv, OwnerStep PROVE RTInv'
<1> USE DEF RTInv
<1>1. CASE Destroy
  <2>1. 0 \in 0 .. MaxTime
    BY TimeAssumption
  <2> QED
    BY <1>1, <2>1 DEF Destroy, RTTypeOK, OwnerStates, AttemptsLeft, UniqueKey,
       Apart, ThreadPhase, NoEntrySleeps
<1>2. CASE ~Destroy
  <2>1. UNCHANGED entryVars
    BY <1>2 DEF OwnerStep, Start, Stop, StopReturns, JoinPool
  <2>2. RTTypeOK'
    BY <1>2, <2>1 DEF OwnerStep, Start, Stop, StopReturns, JoinPool, RTTypeOK,
       entryVars, ThreadStates, OwnerStates
  <2>3. ThreadPhase' /\ NoEntrySleeps'
    BY <1>2, <2>1, ThreadAssumption DEF OwnerStep, Start, Stop, StopReturns,
       JoinPool, entryVars, ThreadPhase, NoEntrySleeps
  <2> QED
    BY <2>1, <2>2, <2>3, EntriesKept
<1> QED
  BY <1>1, <1>2

LEMMA TickInv ==
  ASSUME RTInv, Tick PROVE RTInv'
<1> USE DEF RTInv, Tick
<1>1. \A t \in 0 .. MaxTime : Older(t) \in 0 .. MaxTime
  BY TimeAssumption DEF Older
<1>2. RTTypeOK'
  BY <1>1 DEF RTTypeOK
<1> QED
  BY <1>2 DEF AttemptsLeft, UniqueKey, Apart, ThreadPhase, NoEntrySleeps

LEMMA RTInvStep == RTInv /\ [RTNext]_rtVars => RTInv'
<1> SUFFICES ASSUME RTInv, [RTNext]_rtVars PROVE RTInv'
  OBVIOUS
<1>1. CASE SpuriousWakeup
  <2>1. RTTypeOK' /\ ThreadPhase' /\ NoEntrySleeps'
    BY <1>1 DEF SpuriousWakeup, RTInv, RTTypeOK, entryVars, ThreadPhase, NoEntrySleeps
  <2> QED
    BY <1>1, <2>1, EntriesKept DEF SpuriousWakeup, RTInv
<1>2. CASE UNCHANGED rtVars
  BY <1>2 DEF rtVars, RTInv, RTTypeOK, AttemptsLeft, UniqueKey, Apart,
     ThreadPhase, NoEntrySleeps
<1> QED
  BY <1>1, <1>2, SentDataInv, ReceivedDataInv, ThreadStepInv, OwnerStepInv, TickInv
  DEF RTNext

(* The inductive invariant holds in every reachable state.                 *)
THEOREM RTInvariance == RTSpec => []RTInv
  BY RTInvInit, RTInvStep, PTL DEF RTSpec

(* Type correctness; in particular no PDU is resent more than tryingCount  *)
(* times.                                                                  *)
THEOREM RTTypeCorrect == RTSpec => []RTTypeOK
<1>1. RTInv => RTTypeOK
  BY DEF RTInv
<1> QED
  BY <1>1, RTInvariance, PTL

(* SentData's signal is never lost.                                        *)
THEOREM EntryNeverSleeps == RTSpec => []NoEntrySleeps
<1>1. RTInv => NoEntrySleeps
  BY DEF RTInv
<1> QED
  BY <1>1, RTInvariance, PTL

(* An ACK matches at most one pending PDU.                                 *)
THEOREM KeysUnique == RTSpec => []UniqueKey
<1>1. RTInv => UniqueKey
  BY DEF RTInv
<1> QED
  BY <1>1, RTInvariance, PTL

(* The context is destroyed only when nobody uses it.                      *)
THEOREM RTDestroySafe == RTSpec => []NoUseAfterDestroy
<1>1. RTInv => NoUseAfterDestroy
  BY DEF RTInv, NoUseAfterDestroy, Alive, ThreadPhase, RTTypeOK
<1> QED
  BY <1>1, RTInvariance, PTL

(* A PDU that was answered or reported is never sent or reported again.    *)
THEOREM FinishedForGood == RTSpec => FinishedIsFinal
<1> DEFINE Step == \A m \in answered \cup expired :
                     /\ triedCount'[m] = triedCount[m]
                     /\ m \notin dataList'
                     /\ m \in answered => m \notin expired'
<1>1. RTInv /\ [RTNext]_rtVars => [Step]_rtVars
  <2> SUFFICES ASSUME RTInv, RTNext, NEW m \in answered \cup expired
               PROVE /\ triedCount'[m] = triedCount[m]
                     /\ m \notin dataList'
                     /\ m \in answered => m \notin expired'
    OBVIOUS
  <2>0. /\ m \notin dataList /\ m \in Messages /\ m \in Seen
        /\ m \in answered => m \notin expired
        /\ triedCount \in [Messages -> Nat]
    BY SupportedAssumption, CountAssumption DEF RTInv, Apart, RTTypeOK, Seen
  <2>1. ASSUME NEW n \in Messages, SentData(n)
        PROVE /\ triedCount'[m] = triedCount[m]
              /\ m \notin dataList'
              /\ m \in answered => m \notin expired'
    <3>1. n # m
      BY <2>0, <2>1 DEF SentData
    <3> QED
      BY <2>0, <2>1, <3>1 DEF SentData, NewEntry
  <2>2. ASSUME NEW k \in Keys, ReceivedData(k)
        PROVE /\ triedCount'[m] = triedCount[m]
              /\ m \notin dataList'
              /\ m \in answered => m \notin expired'
    BY <2>0, <2>2 DEF ReceivedData
  <2>3. CASE CheckList
    <3>1. m \notin Resent /\ m \notin Exhausted
      BY <2>0 DEF Resent, Exhausted
    <3> QED
      BY <2>0, <2>3, <3>1 DEF CheckList
  <2>4. CASE Destroy \/ Tick
    BY <2>0, <2>4 DEF Destroy, Tick
  <2>5. CASE UNCHANGED entryVars
    BY <2>0, <2>5 DEF entryVars
  <2>6. CASE ThreadStep /\ ~CheckList
    <3>1. UNCHANGED entryVars
      BY <2>6 DEF ThreadStep, ReadStop, LockAndWait, Woken, PeriodElapsed,
         TestStop, ExitRoutine
    <3> QED
      BY <3>1, <2>5
  <2>7. CASE OwnerStep /\ ~Destroy
    <3>1. UNCHANGED entryVars
      BY <2>7 DEF OwnerStep, Start, Stop, StopReturns, JoinPool
    <3> QED
      BY <3>1, <2>5
  <2>8. CASE SpuriousWakeup
    BY <2>8, <2>5 DEF SpuriousWakeup
  <2> QED
    BY <2>1, <2>2, <2>3, <2>4, <2>6, <2>7, <2>8 DEF RTNext
<1> QED
  BY <1>1, RTInvariance, PTL DEF RTSpec, FinishedIsFinal

-----------------------------------------------------------------------------
(* The back-off.                                                           *)

(* Induction over the natural numbers, for a set.                          *)
LEMMA Induction ==
  ASSUME NEW S, 0 \in S, \A n \in Nat : n \in S => n + 1 \in S
  PROVE  \A n \in Nat : n \in S
<1> DEFINE T == Nat \ S
           R == OpToRel(<, Nat)
<1> SUFFICES ASSUME T # {} PROVE FALSE
  OBVIOUS
<1>1. IsWellFoundedOn(R, Nat) /\ \A x, y \in Nat : y < x => <<y, x>> \in R
  BY NatLessThanWellFounded DEF OpToRel
<1> HIDE DEF R
<1>2. PICK x \in T : \A y \in T : ~ (<<y, x>> \in R)
  BY <1>1, WFMin
<1>3. x \in Nat /\ x \notin S /\ x # 0
  BY <1>2
<1>4. x - 1 \in Nat /\ x - 1 < x /\ (x - 1) + 1 = x
  BY <1>3
<1>5. x - 1 \in S
  BY <1>1, <1>2, <1>3, <1>4
<1> QED
  BY <1>3, <1>4, <1>5

(* f holds 1 << i for i up to n.                                           *)
UpTo(n, f) ==
  /\ f \in [0 .. n -> Nat]
  /\ f[0] = 1
  /\ \A i \in Nat : i < n => f[i + 1] = 2 * f[i]

LEMMA UpToExists == \A n \in Nat : \E f : UpTo(n, f)
<1> DEFINE S == {n \in Nat : \E f : UpTo(n, f)}
<1>1. 0 \in S
  <2>1. UpTo(0, [i \in 0 .. 0 |-> 1])
    BY DEF UpTo
  <2> QED
    BY <2>1
<1>2. ASSUME NEW n \in S PROVE n + 1 \in S
  <2>1. PICK f : UpTo(n, f)
    BY <1>2
  <2> DEFINE g == [i \in 0 .. n + 1 |-> IF i = n + 1 THEN 2 * f[n] ELSE f[i]]
  <2>2. n \in Nat /\ f[n] \in Nat
    BY <2>1 DEF UpTo
  <2>3. g \in [0 .. n + 1 -> Nat]
    BY <2>1, <2>2 DEF UpTo
  <2>4. g[0] = 1
    BY <2>1, <2>2 DEF UpTo
  <2>5. ASSUME NEW i \in Nat, i < n + 1 PROVE g[i + 1] = 2 * g[i]
    BY <2>1, <2>2, <2>5 DEF UpTo
  <2>6. UpTo(n + 1, g)
    BY <2>3, <2>4, <2>5 DEF UpTo
  <2> QED
    BY <2>2, <2>6
<1> HIDE DEF S
<1>3. \A n \in Nat : n \in S
  BY <1>1, <1>2, Induction
<1> QED
  BY <1>3 DEF S

LEMMA UpToAgree ==
  ASSUME NEW n \in Nat, NEW m \in Nat, NEW f, NEW g, UpTo(n, f), UpTo(m, g)
  PROVE  \A i \in Nat : i <= n /\ i <= m => f[i] = g[i]
<1> DEFINE S == {i \in Nat : i <= n /\ i <= m => f[i] = g[i]}
<1>1. 0 \in S
  BY DEF UpTo
<1>2. ASSUME NEW i \in Nat, i \in S PROVE i + 1 \in S
  BY <1>2 DEF UpTo
<1> HIDE DEF S
<1>3. \A i \in Nat : i \in S
  BY <1>1, <1>2, Induction
<1> QED
  BY <1>3 DEF S

(* What Shift computes.                                                    *)
LEMMA ShiftFacts ==
  /\ Shift \in [Nat -> Nat]
  /\ Shift[0] = 1
  /\ \A n \in Nat : Shift[n + 1] = 2 * Shift[n]
<1> DEFINE F(n) == CHOOSE f : UpTo(n, f)
           g == [n \in Nat |-> F(n)[n]]
<1>1. \A n \in Nat : UpTo(n, F(n))
  BY UpToExists
<1> HIDE DEF F
<1>2. \A n \in Nat : F(n)[n] \in Nat
  BY <1>1 DEF UpTo
<1>3. g[0] = 1
  BY <1>1 DEF UpTo
<1>4. ASSUME NEW n \in Nat PROVE g[n + 1] = 2 * g[n]
  <2>1. UpTo(n, F(n)) /\ UpTo(n + 1, F(n + 1))
    BY <1>1
  <2>2. F(n + 1)[n + 1] = 2 * F(n + 1)[n]
    BY <2>1 DEF UpTo
  <2>3. F(n + 1)[n] = F(n)[n]
    BY <2>1, UpToAgree
  <2> QED
    BY <2>2, <2>3
<1>5. g \in [Nat -> Nat]
  BY <1>2
<1> HIDE DEF g
<1> DEFINE D(f) == [n \in Nat |-> IF n = 0 THEN 1 ELSE 2 * f[n - 1]]
<1>6. g = D(g)
  <2>1. ASSUME NEW n \in Nat PROVE g[n] = D(g)[n]
    <3>1. CASE n = 0
      BY <1>3, <3>1
    <3>2. CASE n # 0
      <4>1. n - 1 \in Nat /\ (n - 1) + 1 = n
        BY <3>2
      <4> QED
        BY <1>4, <3>2, <4>1
    <3> QED
      BY <3>1, <3>2
  <2> QED
    BY <1>5, <2>1
<1>7. Shift = CHOOSE f : f = D(f)
  BY DEF Shift
<1> HIDE DEF D
<1>8. Shift = D(Shift)
  BY <1>6, <1>7
<1>9. Shift = [n \in Nat |-> IF n = 0 THEN 1 ELSE 2 * Shift[n - 1]]
  BY <1>8 DEF D
<1>10. Shift[0] = 1 /\ \A n \in Nat : Shift[n + 1] = 2 * Shift[n]
  <2>1. \A n \in Nat : Shift[n] = IF n = 0 THEN 1 ELSE 2 * Shift[n - 1]
    BY <1>9, Zenon
  <2> QED
    BY <2>1
<1>11. \A n \in Nat : Shift[n] \in Nat
  <2> DEFINE S == {n \in Nat : Shift[n] \in Nat}
  <2>1. 0 \in S
    BY <1>10
  <2>2. ASSUME NEW n \in Nat, n \in S PROVE n + 1 \in S
    BY <1>10, <2>2
  <2> HIDE DEF S
  <2>3. \A n \in Nat : n \in S
    BY <2>1, <2>2, Induction
  <2> QED
    BY <2>3 DEF S
<1>12. Shift \in [Nat -> Nat]
  BY <1>9, <1>11
<1> QED
  BY <1>10, <1>12

(* A pending entry has lived through the periods of its retransmissions,   *)
(* and through its age since the last one (or the clock has run out).      *)
BackedOff ==
  \A m \in dataList :
    \/ lifetime[m] = MaxTime
    \/ lifetime[m] >= timeout[m] * (Shift[triedCount[m]] - 1) + age[m]

Drawn == \A m \in dataList : timeout[m] \in Timeouts

BackoffInv == Drawn /\ BackedOff /\ FullBackoff

LEMMA Doubling ==
  ASSUME NEW t \in Nat, NEW p \in Nat, NEW a \in Nat, NEW l \in Nat,
         l >= t * (p - 1) + a, a >= t * p
  PROVE  l >= t * (2 * p - 1)
<1>1. t * (2 * p - 1) = t * (p - 1) + t * p
  OBVIOUS
<1>2. t * p \in Int /\ t * (p - 1) \in Int
  OBVIOUS
<1> QED
  BY <1>1, <1>2

LEMMA EntryFacts ==
  ASSUME RTInv, NEW m \in Messages
  PROVE  /\ triedCount[m] \in Nat /\ triedCount[m] <= TryingCount
         /\ timeout[m] \in Nat
         /\ age[m] \in Nat /\ age[m] <= MaxTime
         /\ lifetime[m] \in Nat /\ lifetime[m] <= MaxTime
         /\ MaxTime \in Nat /\ TryingCount \in Nat
  BY CountAssumption, TimeAssumption DEF RTInv, RTTypeOK

LEMMA InMessages ==
  ASSUME RTInv PROVE dataList \subseteq Messages /\ expired \subseteq Messages
  BY SupportedAssumption DEF RTInv, RTTypeOK

(* The whole period fits below MaxTime.                                    *)
LEMMA PeriodFits ==
  ASSUME NEW t \in Timeouts
  PROVE  t * (Shift[TryingCount] - 1) =< MaxTime
  BY TimeAssumption

LEMMA SentDataBackoff ==
  ASSUME RTInv, BackoffInv, NEW m \in Messages, SentData(m) PROVE BackoffInv'
<1>1. CASE UNCHANGED <<dataList, timeout, triedCount, age, lifetime, expired>>
  BY <1>1 DEF BackoffInv, Drawn, BackedOff, FullBackoff
<1>2. CASE NewEntry(m) /\ expired' = expired /\ m \notin Seen
  <2>1. PICK t \in Timeouts : timeout' = [timeout EXCEPT ![m] = t]
    BY <1>2 DEF NewEntry
  <2>2. /\ timeout'[m] = t /\ triedCount'[m] = 0 /\ age'[m] = 0 /\ lifetime'[m] = 0
        /\ dataList' = dataList \cup {m}
    BY <1>2, <2>1 DEF NewEntry, RTInv, RTTypeOK
  <2>3. \A n \in Messages \ {m} :
          /\ timeout'[n] = timeout[n] /\ triedCount'[n] = triedCount[n]
          /\ age'[n] = age[n] /\ lifetime'[n] = lifetime[n]
    BY <1>2, <2>1 DEF NewEntry, RTInv, RTTypeOK
  <2>4. dataList \subseteq Messages \ {m} /\ expired \subseteq Messages \ {m}
    BY <1>2, InMessages DEF Seen
  <2>5. Drawn'
    BY <2>1, <2>2, <2>3, <2>4 DEF BackoffInv, Drawn
  <2>6. t \in Nat /\ t * (1 - 1) + 0 = 0
    BY TimeoutAssumption
  <2>7. timeout'[m] * (Shift[triedCount'[m]] - 1) + age'[m] = 0
    BY <2>2, <2>6, ShiftFacts
  <2>8. BackedOff'
    <3> SUFFICES ASSUME NEW n \in dataList'
                 PROVE  \/ lifetime'[n] = MaxTime
                        \/ lifetime'[n] >= timeout'[n] * (Shift[triedCount'[n]] - 1) + age'[n]
      BY DEF BackedOff
    <3>1. CASE n = m
      BY <2>2, <2>7, <3>1
    <3>2. CASE n # m
      BY <2>2, <2>3, <2>4, <3>2 DEF BackoffInv, BackedOff
    <3> QED
      BY <3>1, <3>2
  <2>9. FullBackoff'
    BY <1>2, <2>3, <2>4 DEF BackoffInv, FullBackoff
  <2> QED
    BY <2>5, <2>8, <2>9 DEF BackoffInv
<1> QED
  BY <1>1, <1>2 DEF SentData

(* ReceivedData and Destroy only take entries out.                         *)
LEMMA FewerBackoff ==
  ASSUME BackoffInv, dataList' \subseteq dataList, \A m \in dataList' : age'[m] = age[m],
         UNCHANGED <<timeout, triedCount, lifetime, expired>>
  PROVE  BackoffInv'
  BY DEF BackoffInv, Drawn, BackedOff, FullBackoff

LEMMA CheckListBackoff ==
  ASSUME RTInv, BackoffInv, CheckList PROVE BackoffInv'
<1>0. /\ UNCHANGED <<timeout, lifetime>>
      /\ dataList' = dataList \ Exhausted
      /\ expired' = expired \cup Exhausted
      /\ Resent \subseteq dataList
      /\ Exhausted \subseteq dataList
  BY DEF CheckList, Resent, Exhausted
<1>1. \A m \in Messages : m \notin Resent => triedCount'[m] = triedCount[m] /\ age'[m] = age[m]
  <2> SUFFICES ASSUME NEW m \in Messages, m \notin Resent
               PROVE  triedCount'[m] = triedCount[m] /\ age'[m] = age[m]
    OBVIOUS
  <2>1. triedCount'[m] = triedCount[m] + 0 /\ age'[m] = age[m]
    BY DEF CheckList
  <2> QED
    BY <2>1, EntryFacts
<1>2. ASSUME NEW m \in Resent
      PROVE  /\ triedCount'[m] = triedCount[m] + 1 /\ age'[m] = 0
             /\ \/ lifetime[m] = MaxTime
                \/ lifetime[m] >= timeout[m] * (Shift[triedCount[m] + 1] - 1)
  <2>1. m \in Messages /\ m \in dataList /\ TimedOut(m)
    BY <1>0, InMessages DEF Resent
  <2>2. triedCount'[m] = triedCount[m] + 1 /\ age'[m] = 0
    BY <2>1 DEF CheckList
  <2> DEFINE p == Shift[triedCount[m]]
  <2>3. p \in Nat /\ Shift[triedCount[m] + 1] = 2 * p
    BY <2>1, EntryFacts, ShiftFacts
  <2>4. /\ timeout[m] \in Nat /\ age[m] \in Nat /\ lifetime[m] \in Nat
        /\ age[m] >= timeout[m] * p
    BY <2>1, EntryFacts DEF TimedOut
  <2>5. lifetime[m] = MaxTime \/ lifetime[m] >= timeout[m] * (p - 1) + age[m]
    BY <2>1 DEF BackoffInv, BackedOff
  <2> HIDE DEF p
  <2>6. lifetime[m] = MaxTime \/ lifetime[m] >= timeout[m] * (2 * p - 1)
    BY <2>3, <2>4, <2>5, Doubling
  <2> QED
    BY <2>2, <2>3, <2>6
<1>3. Drawn'
  BY <1>0 DEF BackoffInv, Drawn
<1>4. BackedOff'
  <2> SUFFICES ASSUME NEW m \in dataList'
               PROVE  \/ lifetime'[m] = MaxTime
                      \/ lifetime'[m] >= timeout'[m] * (Shift[triedCount'[m]] - 1) + age'[m]
    BY DEF BackedOff
  <2>1. m \in dataList /\ m \in Messages
    BY <1>0, InMessages
  <2>2. CASE m \in Resent
    <3>1. /\ timeout'[m] = timeout[m] /\ lifetime'[m] = lifetime[m]
          /\ triedCount'[m] = triedCount[m] + 1 /\ age'[m] = 0
      BY <1>0, <1>2, <2>2
    <3> DEFINE x == timeout[m] * (Shift[triedCount[m] + 1] - 1)
    <3>2. x \in Int /\ (lifetime[m] = MaxTime \/ lifetime[m] >= x)
      BY <1>2, <2>1, <2>2, EntryFacts, ShiftFacts
    <3>3. timeout'[m] * (Shift[triedCount'[m]] - 1) + age'[m] = x + 0
      BY <3>1
    <3> HIDE DEF x
    <3>4. x + 0 = x
      BY <3>2
    <3> QED
      BY <3>1, <3>2, <3>3, <3>4
  <2>3. CASE m \notin Resent
    BY <1>0, <1>1, <2>1, <2>3 DEF BackoffInv, BackedOff
  <2> QED
    BY <2>2, <2>3
<1>5. FullBackoff'
  <2> SUFFICES ASSUME NEW m \in expired'
               PROVE  /\ triedCount'[m] = TryingCount
                      /\ lifetime'[m] >= timeout'[m] * (Shift[TryingCount] - 1)
    BY DEF FullBackoff
  <2>1. m \in Messages
    BY <1>0, InMessages
  <2>2. CASE m \in Exhausted
    <3>1. m \in dataList /\ triedCount[m] < TryingCount
      BY <1>0, <2>2 DEF RTInv, AttemptsLeft
    <3>2. TimedOut(m) /\ triedCount[m] + 1 = TryingCount
      BY <2>1, <2>2, <3>1, EntryFacts DEF Exhausted
    <3>3. m \in Resent
      BY <3>1, <3>2 DEF Resent
    <3>4. /\ triedCount'[m] = TryingCount
          /\ \/ lifetime[m] = MaxTime
             \/ lifetime[m] >= timeout[m] * (Shift[TryingCount] - 1)
      BY <1>2, <3>2, <3>3
    <3>5. timeout[m] * (Shift[TryingCount] - 1) =< MaxTime
      BY <3>1, PeriodFits DEF BackoffInv, Drawn
    <3> QED
      BY <1>0, <3>4, <3>5
  <2>3. CASE m \in expired
    <3>1. m \notin Resent
      BY <1>0, <2>3 DEF RTInv, Apart
    <3> QED
      BY <1>0, <1>1, <2>1, <2>3, <3>1 DEF BackoffInv, FullBackoff
  <2> QED
    BY <1>0, <2>2, <2>3
<1> QED
  BY <1>3, <1>4, <1>5 DEF BackoffInv

LEMMA TickBackoff ==
  ASSUME RTInv, BackoffInv, Tick PROVE BackoffInv'
<1>0. UNCHANGED <<dataList, triedCount, timeout, expired>>
  BY DEF Tick
<1>1. \A m \in Messages : m \in dataList =>
        age'[m] = Older(age[m]) /\ lifetime'[m] = Older(lifetime[m])
  BY DEF Tick
<1>2. \A m \in Messages : m \notin dataList => lifetime'[m] = lifetime[m]
  BY DEF Tick
<1>3. BackedOff'
  <2> SUFFICES ASSUME NEW m \in dataList
               PROVE  \/ lifetime'[m] = MaxTime
                      \/ lifetime'[m] >= timeout[m] * (Shift[triedCount[m]] - 1) + age'[m]
    BY <1>0 DEF BackedOff
  <2> DEFINE x == timeout[m] * (Shift[triedCount[m]] - 1)
  <2>1. m \in Messages
    BY InMessages
  <2>2. x \in Int /\ (lifetime[m] = MaxTime \/ lifetime[m] >= x + age[m])
    BY <2>1, EntryFacts, ShiftFacts DEF BackoffInv, BackedOff
  <2> HIDE DEF x
  <2>3. lifetime'[m] = MaxTime \/ lifetime'[m] >= x + age'[m]
    BY <1>1, <2>1, <2>2, EntryFacts DEF Older
  <2> QED
    BY <2>3 DEF x
<1>4. FullBackoff'
  <2>1. \A m \in expired : m \in Messages /\ m \notin dataList
    BY InMessages DEF RTInv, Apart
  <2> QED
    BY <1>0, <1>2, <2>1 DEF BackoffInv, FullBackoff
<1>5. Drawn'
  BY <1>0 DEF BackoffInv, Drawn
<1> QED
  BY <1>3, <1>4, <1>5 DEF BackoffInv

LEMMA BackoffStep == RTInv /\ BackoffInv /\ [RTNext]_rtVars => BackoffInv'
<1> SUFFICES ASSUME RTInv, BackoffInv, [RTNext]_rtVars PROVE BackoffInv'
  OBVIOUS
<1>1. ASSUME NEW k \in Keys, ReceivedData(k) PROVE BackoffInv'
  <2>1. \A m \in dataList' : m \in Messages /\ age'[m] = age[m]
    BY <1>1, InMessages DEF ReceivedData
  <2> QED
    BY <1>1, <2>1, FewerBackoff DEF ReceivedData
<1>2. CASE Destroy
  BY <1>2, FewerBackoff DEF Destroy
<1>3. CASE UNCHANGED entryVars
  BY <1>3, FewerBackoff DEF entryVars
<1>4. CASE ThreadStep /\ ~CheckList
  BY <1>3, <1>4 DEF ThreadStep, ReadStop, LockAndWait, Woken, PeriodElapsed, TestStop, ExitRoutine
<1>5. CASE OwnerStep /\ ~Destroy
  BY <1>3, <1>5 DEF OwnerStep, Start, Stop, StopReturns, JoinPool
<1>6. CASE SpuriousWakeup
  BY <1>3, <1>6 DEF SpuriousWakeup
<1>7. CASE UNCHANGED rtVars
  BY <1>3, <1>7 DEF rtVars, entryVars
<1> QED
  BY <1>1, <1>2, <1>4, <1>5, <1>6, <1>7, SentDataBackoff, CheckListBackoff, TickBackoff
  DEF RTNext, ThreadStep

(* The exponential back-off is served in full, for every tryingCount and   *)
(* every timeout drawn: a PDU is reported as timed out only after          *)
(* tryingCount retransmissions and t + 2t + 4t + ... ticks.                *)
THEOREM BackoffIsFull == RTSpec => []FullBackoff
<1>1. RTInit => BackoffInv
  BY DEF RTInit, BackoffInv, Drawn, BackedOff, FullBackoff
<1>2. BackoffInv => FullBackoff
  BY DEF BackoffInv
<1> QED
  BY <1>1, <1>2, BackoffStep, RTInvariance, PTL DEF RTSpec

(***************************************************************************)
(* The message handler.                                                    *)
(***************************************************************************)

(* One step of the composition is one step of the context, or leaves it    *)
(* alone.                                                                  *)
LEMMA StepOfContext == [Next]_vars => [RTNext]_rtVars
<1> SUFFICES ASSUME [Next]_vars PROVE [RTNext]_rtVars
  OBVIOUS
<1>1. CASE Start \/ SpuriousWakeup \/ Tick \/ Stop \/ StopReturns \/ JoinPool
           \/ Destroy \/ ThreadStep
  BY <1>1 DEF RTNext, OwnerStep
<1>2. ASSUME NEW m \in Messages, SentData(m) \/ ReceivedData(Key[m])
      PROVE RTNext
  BY <1>2 DEF RTNext, Keys
<1>3. CASE UNCHANGED rtVars
  BY <1>3
<1>4. ASSUME NEW m \in Messages,
             \/ Detach(m) \/ Transmit(m) \/ Register(m) \/ SendFailed(m)
             \/ AdapterError(m) \/ Lose(m) \/ Arrive(m) \/ ReceiveAck(m)
      PROVE [RTNext]_rtVars
  BY <1>4, <1>2, <1>3 DEF Detach, Transmit, Register, SendFailed, AdapterError,
     Lose, Arrive, ReceiveAck
<1>5. CASE TakeMessage \/ HandleCallbacks
  BY <1>5, <1>3 DEF TakeMessage, HandleCallbacks
<1>6. CASE RetransmissionThread
  BY <1>6, <1>1 DEF RetransmissionThread, CheckListAndReport, ThreadStep
<1>7. CASE Terminate
  BY <1>7, <1>1, <1>3 DEF Terminate, StopAdapters, StopRetransmission,
     StopSendThread, StopSendReturns, EnterPoolFree, JoinThreads,
     DestroyRetransmission, DestroyQueues
<1>8. CASE UNCHANGED vars
  BY <1>8, <1>3 DEF vars
<1> QED
  BY <1>1, <1>3, <1>4, <1>5, <1>6, <1>7, <1>8 DEF Next

-----------------------------------------------------------------------------
(* The inductive invariant of the composition.                             *)

(* The send thread holds a message only inside CAProcessSendData, and the  *)
(* join is behind its end: no message is left half way.                    *)
SendPhase ==
  /\ sendPc[SendThread] # "unborn"
  /\ sendPc[SendThread] # "task" => sendHeld[SendThread] = NoMessage
  /\ owner \in {"joined", "gone"} =>
       sendPc[SendThread] = "done" /\ sendOwner \in {"joined", "gone"}
  /\ sendClosed => owner = "gone"

SendTypes ==
  /\ sendStop \in BOOLEAN
  /\ sendQueue \in Seq(Messages)
  /\ sendWaiting \subseteq {SendThread} \cup {Owner}
  /\ sendPc \in [{SendThread} -> Send!WorkerStates]
  /\ sendHeld \in [{SendThread} -> Messages \cup {NoMessage}]
  /\ sendOwner \in Send!OwnerStates
  /\ processed \subseteq Messages
  /\ dropped \subseteq Messages

SendInv == SendTypes /\ SendPhase

(* The counters agree: what was handed to the adapter is the first         *)
(* transmission and the retransmissions.                                   *)
Counted ==
  \A m \in Messages :
    /\ copies[m] = 0 => triedCount[m] = 0 /\ m \notin Seen
    /\ copies[m] > 0 => copies[m] = triedCount[m] + 1
    /\ Alive /\ m \notin Seen => triedCount[m] = 0
    /\ m \in expired => triedCount[m] = TryingCount

CopyTypes == copies \in [Messages -> Nat]

MHInv == RTInv /\ CopyTypes /\ SendInv /\ Counted

(* The steps of the worker that take no message; a step that takes one.    *)
LEMMA WorkerFacts ==
  ASSUME SendInv, TakeMessage
  PROVE  /\ SendTypes'
         /\ sendPc[SendThread] # "done" /\ sendPc'[SendThread] # "unborn"
         /\ sendPc'[SendThread] # "task" => sendHeld'[SendThread] = NoMessage
         /\ UNCHANGED <<sendStop, sendOwner, processed, dropped>>
<1> USE DEF SendInv, SendTypes, SendPhase, Send!WorkerStates
<1>1. CASE Send!TestStop(SendThread)
  BY <1>1 DEF Send!TestStop, Send!Goto, Send!dataVars
<1>2. CASE Send!EnterWait(SendThread)
  BY <1>2 DEF Send!EnterWait, Send!Goto, Send!dataVars
<1>3. CASE Send!ExitRoutine(SendThread)
  BY <1>3 DEF Send!ExitRoutine, Send!Signalled, Send!Goto, Send!dataVars
<1>4. CASE Send!GetWithoutWait(SendThread) \/ Send!GetAfterWait(SendThread)
  <2>1. /\ Send!GetElement(SendThread)
        /\ UNCHANGED <<sendStop, sendWaiting, sendOwner>>
        /\ sendPc[SendThread] \in {"lock", "wait"}
    BY <1>4 DEF Send!GetWithoutWait, Send!GetAfterWait
  <2>2. sendQueue # <<>> => Head(sendQueue) \in Messages /\ Tail(sendQueue) \in Seq(Messages)
    BY HeadTailProperties
  <2> QED
    BY <2>1, <2>2 DEF Send!GetElement, Send!Goto, Send!dataVars
<1> QED
  BY <1>1, <1>2, <1>3, <1>4 DEF TakeMessage

(* Every step leaves the send thread in its phases.                        *)
LEMMA SendInvStep ==
  ASSUME SendInv, [Next]_vars PROVE SendInv'
<1>0. \A m \in Messages : Append(sendQueue, m) \in Seq(Messages)
  BY AppendProperties DEF SendInv, SendTypes
<1>1. CASE UNCHANGED <<sendVars, owner>>
  BY <1>1 DEF SendInv, SendTypes, SendPhase, sendVars, sendClosed
<1>2. CASE UNCHANGED sendVars /\ (owner' \in {"joined", "gone"} <=> owner \in {"joined", "gone"})
           /\ (owner = "gone" => owner' = "gone")
  BY <1>2 DEF SendInv, SendTypes, SendPhase, sendVars, sendClosed
<1>3. ASSUME NEW m \in Messages, Detach(m) PROVE SendInv'
  BY <1>3, <1>1, <1>0 DEF Detach, Send!AddData, Send!Signalled, SendInv, SendTypes, SendPhase,
     rtVars, sendClosed
<1>4. ASSUME NEW m \in Messages, Transmit(m) \/ Lose(m) \/ Arrive(m) \/ AdapterError(m) \/ ReceiveAck(m)
      PROVE SendInv'
  BY <1>4, <1>1 DEF Transmit, Lose, Arrive, AdapterError, ReceiveAck, ReceivedData, rtVars
<1>5. ASSUME NEW m \in Messages, Register(m) \/ SendFailed(m) PROVE SendInv'
  <2>1. Send!RunTask(SendThread) /\ owner' = owner /\ sendHeld[SendThread] = m
    BY <1>5 DEF Register, SendFailed, Sending, SentData, ReceivedData, rtVars
  <2> QED
    BY <2>1 DEF Send!RunTask, Send!Goto, Send!WorkerStates, SendInv, SendTypes,
       SendPhase, sendClosed
<1>6. CASE TakeMessage
  <2>1. UNCHANGED owner
    BY <1>6 DEF TakeMessage, rtVars
  <2> QED
    BY <1>6, <2>1, WorkerFacts DEF SendInv, SendPhase, sendClosed
<1>7. CASE HandleCallbacks \/ RetransmissionThread
  BY <1>7, <1>1 DEF HandleCallbacks, RetransmissionThread, CheckListAndReport, CheckList,
     ReadStop, LockAndWait, Woken, PeriodElapsed, TestStop, ExitRoutine, mhVars, rtVars
<1>8. CASE StopAdapters \/ StopRetransmission \/ (StopReturns /\ UNCHANGED mhVars)
           \/ DestroyRetransmission
  BY <1>8, <1>1, <1>2 DEF StopAdapters, StopRetransmission, Stop, StopReturns,
     DestroyRetransmission, Destroy, rtVars, mhVars
<1>9. CASE StopSendThread \/ StopSendReturns \/ EnterPoolFree
  BY <1>9 DEF StopSendThread, StopSendReturns, EnterPoolFree, Send!StopAndWait,
     Send!Signalled, Send!StopReturns, Send!Terminate, Send!OwnerStates, Send!dataVars, rtVars,
     SendInv, SendTypes, SendPhase, sendClosed
<1>10. CASE JoinThreads
  BY <1>10 DEF JoinThreads, JoinPool, Send!JoinPool, Send!OwnerStates, Send!WorkerStates,
     Send!dataVars, SendInv, SendTypes, SendPhase, sendClosed
<1>11. CASE DestroyQueues
  <2>1. Send!Elements(sendQueue) \subseteq Messages /\ <<>> \in Seq(Messages)
    BY DEF SendInv, SendTypes, Send!Elements
  <2> QED
    BY <1>11, <2>1 DEF DestroyQueues, Send!Destroy, Send!OwnerStates, rtVars,
       SendInv, SendTypes, SendPhase, sendClosed
<1>12. CASE Terminate
  BY <1>8, <1>9, <1>10, <1>11, <1>12 DEF Terminate
<1>13. CASE (Start \/ SpuriousWakeup \/ Tick) /\ UNCHANGED mhVars
  BY <1>13, <1>1 DEF Start, SpuriousWakeup, Tick, mhVars
<1>14. CASE Send!SpuriousWakeup /\ UNCHANGED rtVars
  BY <1>14 DEF Send!SpuriousWakeup, Send!dataVars, rtVars, SendInv, SendTypes, SendPhase,
     sendClosed
<1>15. CASE UNCHANGED vars
  BY <1>15, <1>1 DEF vars, mhVars, rtVars
<1> QED
  BY <1>3, <1>4, <1>5, <1>6, <1>7, <1>12, <1>13, <1>14, <1>15 DEF Next

LEMMA SendInvInit == Init => SendInv
<1> SUFFICES ASSUME Init PROVE SendInv
  OBVIOUS
<1>1. "loop" \in Send!WorkerStates /\ "idle" \in Send!OwnerStates /\ <<>> \in Seq(Messages)
  BY DEF Send!WorkerStates, Send!OwnerStates
<1>2. SendTypes
  BY <1>1 DEF Init, SendTypes
<1>3. SendPhase
  BY DEF Init, RTInit, SendPhase, sendClosed
<1> QED
  BY <1>2, <1>3 DEF SendInv

LEMMA MHInvInit == Init => MHInv
<1> SUFFICES ASSUME Init PROVE MHInv
  OBVIOUS
<1>1. RTInv
  BY RTInvInit DEF Init
<1>2. CopyTypes /\ Counted
  BY DEF Init, RTInit, CopyTypes, Counted, Seen
<1> QED
  BY <1>1, <1>2, SendInvInit DEF MHInv

(* Steps that touch neither the counters nor the owner.                    *)
LEMMA CountersKept ==
  ASSUME MHInv, UNCHANGED <<copies, dataList, triedCount, refused, answered,
                            expired, owner>>
  PROVE Counted'
  BY DEF MHInv, Counted, Seen, Alive

LEMMA ReceivedDataCounted ==
  ASSUME MHInv, NEW k \in Keys, ReceivedData(k), UNCHANGED copies
  PROVE Counted'
<1>1. Seen' = Seen
  BY DEF ReceivedData, Seen
<1> QED
  BY <1>1 DEF MHInv, Counted, ReceivedData, Alive

LEMMA RegisterCounted ==
  ASSUME MHInv, NEW m \in Messages, copies[m] > 0, SentData(m), UNCHANGED copies
  PROVE Counted'
<1>1. /\ Seen' = Seen \cup {m}
      /\ m \notin Seen /\ UNCHANGED <<expired, owner>> /\ Alive
  BY DEF SentData, NewEntry, Seen
<1>2. triedCount[m] = 0
  BY <1>1 DEF MHInv, Counted
<1>3. triedCount' = triedCount
  BY <1>2 DEF SentData, NewEntry, MHInv, RTInv, RTTypeOK
<1> QED
  BY <1>1, <1>3 DEF MHInv, Counted, Alive

LEMMA CheckListCounted ==
  ASSUME MHInv, CheckListAndReport
  PROVE Counted'
<1> SUFFICES ASSUME NEW m \in Messages
             PROVE /\ copies'[m] = 0 => triedCount'[m] = 0 /\ m \notin Seen'
                   /\ copies'[m] > 0 => copies'[m] = triedCount'[m] + 1
                   /\ Alive' /\ m \notin Seen' => triedCount'[m] = 0
                   /\ m \in expired' => triedCount'[m] = TryingCount
  BY DEF Counted
<1>1. /\ copies'[m] = copies[m] + (IF m \in Resent THEN 1 ELSE 0)
      /\ triedCount'[m] = triedCount[m] + (IF m \in Resent THEN 1 ELSE 0)
      /\ UNCHANGED <<owner, refused, answered>>
      /\ dataList' = dataList \ Exhausted
      /\ expired' = expired \cup Exhausted
  BY DEF CheckListAndReport, CheckList
<1>2. Exhausted \subseteq dataList /\ Resent \subseteq dataList
  BY DEF Exhausted, Resent
<1>3. Seen' = Seen
  BY <1>1, <1>2 DEF Seen
<1>4. /\ copies[m] \in Nat /\ triedCount[m] \in Nat
      /\ m \in dataList => triedCount[m] < TryingCount /\ m \in Seen
                           /\ m \notin expired
  BY CountAssumption DEF MHInv, CopyTypes, RTInv, RTTypeOK, AttemptsLeft, Seen, Apart
<1>5. m \in Exhausted => triedCount'[m] >= TryingCount
  BY <1>1, <1>4 DEF Exhausted, Resent
<1>6. m \in expired' => triedCount'[m] = TryingCount
  BY <1>1, <1>2, <1>4, <1>5, CountAssumption DEF MHInv, Counted
<1>7. (copies'[m] = 0 => triedCount'[m] = 0 /\ m \notin Seen')
      /\ (copies'[m] > 0 => copies'[m] = triedCount'[m] + 1)
  BY <1>1, <1>2, <1>3, <1>4 DEF MHInv, Counted
<1>8. Alive' /\ m \notin Seen' => triedCount'[m] = 0
  BY <1>1, <1>2, <1>3, <1>4 DEF MHInv, Counted, Alive
<1> QED
  BY <1>6, <1>7, <1>8

LEMMA MHInvStep == MHInv /\ [Next]_vars => MHInv'
<1> SUFFICES ASSUME MHInv, [Next]_vars PROVE MHInv'
  OBVIOUS
<1>0. RTInv' /\ SendInv'
  BY StepOfContext, RTInvStep, SendInvStep DEF MHInv
<1>1. CASE UNCHANGED <<copies, dataList, triedCount, refused, answered, expired, owner>>
  BY <1>0, <1>1, CountersKept DEF MHInv, CopyTypes
<1>2. ASSUME NEW m \in Messages, Detach(m) \/ Lose(m) \/ Arrive(m) PROVE MHInv'
  BY <1>1, <1>2 DEF Detach, Lose, Arrive, rtVars, netVars
<1>3. ASSUME NEW m \in Messages, Transmit(m) PROVE MHInv'
  <2>1. UNCHANGED rtVars /\ copies[m] = 0 /\ copies' = [copies EXCEPT ![m] = 1]
        /\ sendPc[SendThread] = "task"
    BY <1>3 DEF Transmit, Sending
  <2>2. owner \notin {"joined", "gone"}
    BY <2>1 DEF MHInv, SendInv, SendPhase
  <2>3. Counted' /\ CopyTypes'
    BY <2>1, <2>2 DEF MHInv, Counted, CopyTypes, rtVars, Seen, Alive
  <2> QED
    BY <1>0, <2>3 DEF MHInv
<1>4. ASSUME NEW m \in Messages, Register(m) PROVE MHInv'
  <2>1. Counted'
    <3>1. CASE m \in Supported
      BY <1>4, <3>1, RegisterCounted DEF Register, netVars
    <3>2. CASE m \notin Supported
      BY <1>4, <3>2, CountersKept DEF Register, rtVars, netVars
    <3> QED
      BY <3>1, <3>2
  <2>2. CopyTypes'
    BY <1>4 DEF Register, netVars, MHInv, CopyTypes
  <2> QED
    BY <1>0, <2>1, <2>2 DEF MHInv
<1>5. ASSUME NEW m \in Messages, SendFailed(m) \/ AdapterError(m) \/ ReceiveAck(m)
      PROVE MHInv'
  <2>1. ReceivedData(Key[m]) /\ UNCHANGED copies
    BY <1>5 DEF SendFailed, AdapterError, ReceiveAck, netVars
  <2>2. Counted'
    BY <2>1, ReceivedDataCounted DEF Keys
  <2> QED
    BY <1>0, <2>1, <2>2 DEF MHInv, CopyTypes
<1>6. CASE TakeMessage \/ HandleCallbacks
  BY <1>1, <1>6 DEF TakeMessage, HandleCallbacks, rtVars, netVars
<1>7. CASE CheckListAndReport
  <2>1. copies' \in [Messages -> Nat]
    BY <1>7 DEF CheckListAndReport, MHInv, CopyTypes
  <2> QED
    BY <1>0, <1>7, <2>1, CheckListCounted DEF MHInv, CopyTypes
<1>8. CASE UNCHANGED entryVars /\ UNCHANGED mhVars /\ UNCHANGED owner
  BY <1>1, <1>8 DEF entryVars, mhVars, netVars
<1>9. CASE RetransmissionThread
  <2>1. CASE CheckListAndReport
    BY <2>1, <1>7
  <2>2. CASE ~CheckListAndReport
    BY <1>8, <1>9, <2>2 DEF RetransmissionThread, ReadStop, LockAndWait, Woken,
       PeriodElapsed, TestStop, ExitRoutine
  <2> QED
    BY <2>1, <2>2
<1>10. CASE Terminate
  <2>1. CASE StopAdapters \/ StopSendThread \/ StopSendReturns \/ EnterPoolFree \/ DestroyQueues
    BY <1>1, <2>1 DEF StopAdapters, StopSendThread, StopSendReturns, EnterPoolFree,
       DestroyQueues, rtVars, netVars
  <2>2. CASE StopRetransmission \/ (StopReturns /\ UNCHANGED mhVars) \/ JoinThreads
    <3>1. UNCHANGED entryVars /\ UNCHANGED copies /\ owner # "gone" /\ owner' # "gone"
      BY <2>2 DEF StopRetransmission, Stop, StopReturns, JoinThreads, JoinPool, mhVars, netVars
    <3>2. Counted' /\ CopyTypes'
      BY <3>1 DEF MHInv, CopyTypes, Counted, Seen, Alive, entryVars
    <3> QED
      BY <1>0, <3>2 DEF MHInv
  <2>3. CASE DestroyRetransmission
    <3>1. Seen' \subseteq Seen /\ UNCHANGED <<copies, triedCount, expired>>
          /\ owner = "joined" /\ owner' = "gone"
      BY <2>3 DEF DestroyRetransmission, Destroy, Seen, mhVars, netVars
    <3>2. Counted' /\ CopyTypes'
      BY <3>1 DEF MHInv, CopyTypes, Counted, Alive
    <3> QED
      BY <1>0, <3>2 DEF MHInv
  <2> QED
    BY <1>10, <2>1, <2>2, <2>3 DEF Terminate
<1>11. CASE (Start \/ SpuriousWakeup) /\ UNCHANGED mhVars
  BY <1>8, <1>11 DEF Start, SpuriousWakeup
<1>12. CASE Tick /\ UNCHANGED mhVars
  BY <1>1, <1>12 DEF Tick, mhVars, netVars
<1>13. CASE UNCHANGED <<rtVars, netVars>>
  BY <1>1, <1>13 DEF rtVars, netVars
<1>14. CASE UNCHANGED vars
  BY <1>13, <1>14 DEF vars, mhVars
<1> QED
  BY <1>2, <1>3, <1>4, <1>5, <1>6, <1>9, <1>10, <1>11, <1>12, <1>13, <1>14 DEF Next

(* MHInv holds in every reachable state of the message handler: the phase  *)
(* of the send thread and the number of copies sent agree with the list.   *)
THEOREM MHInvariance == Spec => []MHInv
  BY MHInvInit, MHInvStep, PTL DEF Spec

(* However the send, receive, error and retransmission threads interleave, *)
(* a PDU is handed to the adapter at most tryingCount + 1 times, and one   *)
(* that was given up exactly that often.                                   *)
THEOREM CopiesBounded == Spec => []BoundedCopies
<1>1. MHInv => BoundedCopies
  <2> SUFFICES ASSUME MHInv, NEW m \in Messages
               PROVE copies[m] =< MaxCopies
                     /\ (m \in expired => copies[m] = MaxCopies)
    BY DEF BoundedCopies
  <2>1. copies[m] \in Nat /\ triedCount[m] \in Nat /\ triedCount[m] =< TryingCount
    BY CountAssumption DEF MHInv, CopyTypes, RTInv, RTTypeOK
  <2>2. m \in expired => copies[m] # 0
    BY DEF MHInv, Counted, Seen
  <2> QED
    BY <2>1, <2>2, CountAssumption DEF MHInv, Counted, MaxCopies
<1> QED
  BY <1>1, MHInvariance, PTL

(* CATerminateMessageHandler destroys the context when no message is half  *)
(* way in CAProcessSendData and the retransmission thread has ended.       *)
THEOREM SendNeverAfterDestroy == Spec => []NoSendAfterDestroy
<1>1. MHInv => NoSendAfterDestroy
  BY DEF MHInv, RTInv, ThreadPhase, SendInv, SendPhase, NoSendAfterDestroy, Alive
<1> QED
  BY <1>1, MHInvariance, PTL

-----------------------------------------------------------------------------
(* Types, and the reason of every answer.                                  *)

(* The list is finite: entries come one at a time, so that the pass over   *)
(* it queues finitely many reports.                                        *)
UpTypes ==
  /\ recvQueue \in Seq(Events)
  /\ reported \subseteq Events
  /\ ackSeen \subseteq Messages

NetTypes ==
  /\ adaptersUp \in BOOLEAN
  /\ wire \in [Messages -> Nat]
  /\ copies \in [Messages -> Nat]
  /\ acks \in [Messages -> Nat]

MHTypeInv == RTTypeOK /\ IsFiniteSet(dataList) /\ UpTypes /\ NetTypes

LEMMA OrdersAreFinite ==
  ASSUME NEW S, S \subseteq Messages, IsFiniteSet(S), NEW s \in Orders(S)
  PROVE  [i \in DOMAIN s |-> <<"timeout", s[i]>>] \in Seq(Events)
<1>1. Cardinality(S) \in Nat
  BY FS_CardinalityType
<1>2. s \in [1 .. Cardinality(S) -> S]
  BY DEF Orders
<1>3. \A i \in 1 .. Cardinality(S) : <<"timeout", s[i]>> \in Events
  BY <1>2 DEF Events
<1>4. [i \in 1 .. Cardinality(S) |-> <<"timeout", s[i]>>] \in [1 .. Cardinality(S) -> Events]
  BY <1>3
<1> QED
  BY <1>1, <1>2, <1>4, IsASeq

LEMMA ListStaysFinite ==
  ASSUME MHTypeInv, [Next]_vars PROVE IsFiniteSet(dataList')
<1>1. IsFiniteSet(dataList)
  BY DEF MHTypeInv
<1>2. dataList' \subseteq dataList \/ \E m \in Messages : dataList' = dataList \cup {m}
  <2>1. [RTNext]_rtVars
    BY StepOfContext
  <2>2. ASSUME NEW m \in Messages, SentData(m)
        PROVE  dataList' = dataList \/ dataList' = dataList \cup {m}
    BY <2>2 DEF SentData, NewEntry
  <2>3. CASE UNCHANGED dataList
    BY <2>3
  <2>4. CASE ThreadStep
    BY <2>4 DEF ThreadStep, ReadStop, LockAndWait, Woken, PeriodElapsed, TestStop,
       CheckList, ExitRoutine, entryVars
  <2>5. CASE OwnerStep
    BY <2>5 DEF OwnerStep, Start, Stop, StopReturns, JoinPool, Destroy, entryVars
  <2>6. ASSUME NEW k \in Keys, ReceivedData(k) PROVE dataList' \subseteq dataList
    BY <2>6 DEF ReceivedData
  <2> QED
    BY <2>1, <2>2, <2>3, <2>4, <2>5, <2>6 DEF RTNext, SpuriousWakeup, Tick, rtVars, entryVars
<1> QED
  BY <1>1, <1>2, FS_AddElement, FS_Subset

(* What a step does to the receive queue, and to the record of answers.    *)
Quiet ==
  /\ UNCHANGED <<recvQueue, reported, ackSeen>> /\ sendClosed' = sendClosed
  /\ answered' = answered

Failing(m) ==
  /\ answered' = answered \cup {n \in dataList : Key[n] = Key[m]}
  /\ recvQueue' = Append(recvQueue, <<"error", m>>)
  /\ UNCHANGED <<reported, ackSeen>> /\ sendClosed' = sendClosed

Acknowledging(m) ==
  /\ answered' = answered \cup {n \in dataList : Key[n] = Key[m]}
  /\ recvQueue' = Append(recvQueue, <<"response", m>>)
  /\ ackSeen' = ackSeen \cup {m}
  /\ UNCHANGED reported /\ sendClosed' = sendClosed

Expiring ==
  /\ \E s \in Orders(Exhausted) :
       recvQueue' = recvQueue \o [i \in DOMAIN s |-> <<"timeout", s[i]>>]
  /\ UNCHANGED <<reported, ackSeen, answered>> /\ sendClosed' = sendClosed

Delivering ==
  /\ recvQueue # <<>>
  /\ reported' = reported \cup {Head(recvQueue)}
  /\ recvQueue' = Tail(recvQueue)
  /\ UNCHANGED <<ackSeen, answered>> /\ sendClosed' = sendClosed

Looping(m) ==
  /\ recvQueue' = Append(recvQueue, <<"loopback", m>>)
  /\ UNCHANGED <<reported, ackSeen, answered>> /\ sendClosed' = sendClosed

Closing ==
  /\ recvQueue' = <<>>
  /\ sendClosed' = TRUE
  /\ UNCHANGED <<reported, ackSeen>>

LEMMA UpwardSteps ==
  ASSUME [Next]_vars
  PROVE  \/ Quiet
         \/ \E m \in Messages : Failing(m) \/ Acknowledging(m) \/ Looping(m)
         \/ Expiring
         \/ Delivering
         \/ Closing
<1> USE DEF sendClosed
<1>1. CASE UNCHANGED mhVars /\ answered' = answered
  BY <1>1 DEF Quiet, mhVars, upVars, sendVars
<1>2. CASE UNCHANGED <<rtVars, upVars, ackSeen, sendClosed>>
  BY <1>2 DEF Quiet, upVars, rtVars
<1>3. ASSUME NEW m \in Messages, Transmit(m) \/ Lose(m) \/ Arrive(m)
      PROVE  Quiet
  BY <1>3 DEF Transmit, Lose, Arrive, Quiet, rtVars, upVars, sendVars
<1>4. ASSUME NEW m \in Messages, Detach(m) PROVE Quiet \/ Looping(m)
  BY <1>4 DEF Detach, Send!AddData, Quiet, Looping, rtVars, sendVars
<1>5. ASSUME NEW m \in Messages, Register(m) PROVE Quiet
  BY <1>5 DEF Register, SentData, Send!RunTask, Quiet, rtVars, upVars
<1>6. ASSUME NEW m \in Messages, SendFailed(m) \/ AdapterError(m) PROVE Failing(m)
  BY <1>6 DEF SendFailed, AdapterError, ReceivedData, Send!RunTask, Failing, sendVars
<1>7. ASSUME NEW m \in Messages, ReceiveAck(m) PROVE Acknowledging(m)
  BY <1>7 DEF ReceiveAck, ReceivedData, Acknowledging, sendVars
<1>8. CASE TakeMessage
  BY <1>8, <1>2 DEF TakeMessage, Send!TestStop, Send!EnterWait, Send!GetWithoutWait,
     Send!GetAfterWait, Send!ExitRoutine
<1>9. CASE HandleCallbacks
  BY <1>9 DEF HandleCallbacks, Delivering, rtVars, sendVars
<1>10. CASE RetransmissionThread
  <2>1. CASE CheckListAndReport
    BY <2>1 DEF CheckListAndReport, CheckList, Expiring, sendVars
  <2>2. CASE ~CheckListAndReport
    BY <1>1, <1>10, <2>2 DEF RetransmissionThread, ReadStop, LockAndWait, Woken,
       PeriodElapsed, TestStop, ExitRoutine, entryVars
  <2> QED
    BY <2>1, <2>2
<1>11. CASE Terminate
  <2>1. CASE StopAdapters \/ StopSendThread \/ StopSendReturns \/ EnterPoolFree
    BY <2>1, <1>2 DEF StopAdapters, StopSendThread, StopSendReturns, EnterPoolFree,
       Send!StopAndWait, Send!StopReturns, Send!Terminate, sendVars
  <2>2. CASE DestroyQueues
    BY <2>2 DEF DestroyQueues, Send!Destroy, Closing
  <2>3. CASE StopRetransmission \/ (StopReturns /\ UNCHANGED mhVars) \/ DestroyRetransmission
    BY <1>1, <2>3 DEF StopRetransmission, Stop, StopReturns, DestroyRetransmission, Destroy,
       entryVars
  <2>4. CASE JoinThreads
    BY <2>4 DEF JoinThreads, JoinPool, Send!JoinPool, Quiet, upVars, entryVars
  <2> QED
    BY <1>11, <2>1, <2>2, <2>3, <2>4 DEF Terminate
<1>12. CASE (Start \/ SpuriousWakeup \/ Tick) /\ UNCHANGED mhVars
  BY <1>1, <1>12 DEF Start, SpuriousWakeup, Tick, entryVars
<1>13. CASE Send!SpuriousWakeup /\ UNCHANGED <<rtVars, adaptersUp, netVars, upVars, ackSeen>>
  BY <1>13, <1>2 DEF Send!SpuriousWakeup
<1>14. CASE UNCHANGED vars
  BY <1>1, <1>14 DEF vars, rtVars
<1> QED
  BY <1>3, <1>4, <1>5, <1>6, <1>7, <1>8, <1>9, <1>10, <1>11, <1>12, <1>13, <1>14 DEF Next

LEMMA UpStaysTyped ==
  ASSUME MHTypeInv, [Next]_vars PROVE UpTypes'
<1>0. UpTypes
  BY DEF MHTypeInv
<1>1. CASE Quiet
  BY <1>0, <1>1 DEF Quiet, UpTypes
<1>2. ASSUME NEW m \in Messages, Failing(m) \/ Acknowledging(m) \/ Looping(m)
      PROVE  UpTypes'
  <2>1. <<"error", m>> \in Events /\ <<"response", m>> \in Events /\ <<"loopback", m>> \in Events
    BY DEF Events
  <2>2. recvQueue \in Seq(Events)
    BY <1>0 DEF UpTypes
  <2>3. /\ Append(recvQueue, <<"error", m>>) \in Seq(Events)
        /\ Append(recvQueue, <<"response", m>>) \in Seq(Events)
        /\ Append(recvQueue, <<"loopback", m>>) \in Seq(Events)
    BY <2>1, <2>2, AppendProperties
  <2>4. CASE Failing(m)
    BY <1>0, <2>3, <2>4 DEF Failing, UpTypes
  <2>5. CASE Acknowledging(m)
    BY <1>0, <2>3, <2>5 DEF Acknowledging, UpTypes
  <2>6. CASE Looping(m)
    BY <1>0, <2>3, <2>6 DEF Looping, UpTypes
  <2> QED
    BY <1>2, <2>4, <2>5, <2>6
<1>3. CASE Expiring
  <2>1. PICK s \in Orders(Exhausted) :
          recvQueue' = recvQueue \o [i \in DOMAIN s |-> <<"timeout", s[i]>>]
    BY <1>3 DEF Expiring
  <2>2. Exhausted \subseteq Messages /\ IsFiniteSet(Exhausted)
    BY FS_Subset, SupportedAssumption DEF Exhausted, MHTypeInv, RTTypeOK
  <2>3. [i \in DOMAIN s |-> <<"timeout", s[i]>>] \in Seq(Events)
    BY <2>2, OrdersAreFinite
  <2> QED
    BY <1>0, <1>3, <2>1, <2>3, ConcatProperties DEF Expiring, UpTypes
<1>4. CASE Delivering
  BY <1>0, <1>4, HeadTailProperties DEF Delivering, UpTypes
<1>5. CASE Closing
  BY <1>0, <1>5 DEF Closing, UpTypes
<1> QED
  BY <1>1, <1>2, <1>3, <1>4, <1>5, UpwardSteps

LEMMA NetStaysTyped ==
  ASSUME NetTypes, [Next]_vars PROVE NetTypes'
<1>1. CASE UNCHANGED netVars /\ adaptersUp' \in {adaptersUp, FALSE}
  BY <1>1 DEF NetTypes, netVars
<1>2. ASSUME NEW m \in Messages,
             \/ Transmit(m) \/ AdapterError(m) \/ Lose(m) \/ Arrive(m) \/ ReceiveAck(m)
      PROVE  NetTypes'
  <2>1. wire[m] \in Nat /\ acks[m] \in Nat
    BY DEF NetTypes
  <2>2. wire[m] > 0 => wire[m] - 1 \in Nat
    BY <2>1
  <2>3. acks[m] > 0 => acks[m] - 1 \in Nat
    BY <2>1
  <2>4. acks[m] + 1 \in Nat
    BY <2>1
  <2>5. CASE Transmit(m)
    BY <2>5 DEF NetTypes, Transmit
  <2>6. CASE AdapterError(m) \/ Lose(m)
    BY <2>2, <2>6 DEF NetTypes, AdapterError, Lose
  <2>7. CASE Arrive(m)
    BY <2>2, <2>4, <2>7 DEF NetTypes, Arrive
  <2>8. CASE ReceiveAck(m)
    BY <2>3, <2>8 DEF NetTypes, ReceiveAck
  <2> QED
    BY <1>2, <2>5, <2>6, <2>7, <2>8
<1>3. CASE CheckListAndReport
  BY <1>3 DEF NetTypes, CheckListAndReport
<1>4. CASE UNCHANGED mhVars
  BY <1>1, <1>4 DEF mhVars, netVars
<1>5. ASSUME NEW m \in Messages, Detach(m) \/ Register(m) \/ SendFailed(m)
      PROVE  NetTypes'
  BY <1>1, <1>5 DEF Detach, Register, SendFailed
<1>6. CASE TakeMessage \/ HandleCallbacks \/ Terminate
  BY <1>1, <1>4, <1>6 DEF TakeMessage, HandleCallbacks, Terminate, StopAdapters,
     StopRetransmission, StopSendThread, StopSendReturns, EnterPoolFree, JoinThreads,
     DestroyRetransmission, DestroyQueues
<1> QED
  BY <1>1, <1>2, <1>3, <1>4, <1>5, <1>6 DEF Next, RetransmissionThread, vars

LEMMA MHTypeStep == RTInv /\ MHTypeInv /\ [Next]_vars => MHTypeInv'
<1> SUFFICES ASSUME RTInv, MHTypeInv, [Next]_vars PROVE MHTypeInv'
  OBVIOUS
<1>1. RTTypeOK'
  BY StepOfContext, RTInvStep DEF RTInv
<1> QED
  BY <1>1, ListStaysFinite, UpStaysTyped, NetStaysTyped DEF MHTypeInv

(* MHTypeInv holds in every reachable state: the retransmission list is    *)
(* finite and every queue holds messages of the model.                     *)
THEOREM MHTypeInvariance == Spec => []MHTypeInv
<1>1. Init => MHTypeInv
  <2> SUFFICES ASSUME Init PROVE MHTypeInv
    OBVIOUS
  <2>1. RTTypeOK
    BY RTInvInit DEF Init, RTInv
  <2>2. IsFiniteSet(dataList)
    BY FS_EmptySet DEF Init, RTInit
  <2>3. <<>> \in Seq(Events) /\ <<>> \in Seq(Messages)
    OBVIOUS
  <2>4. UpTypes /\ NetTypes
    BY <2>3 DEF Init, UpTypes, NetTypes
  <2> QED
    BY <2>1, <2>2, <2>4 DEF MHTypeInv
<1>2. MHInv => RTInv
  BY DEF MHInv
<1> QED
  BY <1>1, <1>2, MHTypeStep, MHInvariance, PTL DEF Spec

(* Type correctness; the send thread has at most one message in            *)
(* CAProcessSendData.                                                      *)
THEOREM MHTypeCorrect == Spec => []TypeOK
<1>1. MHInv /\ MHTypeInv => TypeOK
  BY DEF MHInv, SendInv, SendTypes, Send!TypeOK, MHTypeInv, UpTypes, NetTypes, TypeOK
<1> QED
  BY <1>1, MHInvariance, MHTypeInvariance, PTL

LEMMA OwnAnswerStep == MHTypeInv /\ OwnAnswer /\ [Next]_vars => OwnAnswer'
<1> SUFFICES ASSUME MHTypeInv, OwnAnswer, [Next]_vars PROVE OwnAnswer'
  OBVIOUS
<1>0. recvQueue \in Seq(Events)
  BY DEF MHTypeInv, UpTypes
<1>1. CASE Quiet
  <2>1. \A n : Settled(n)' = Settled(n)
    BY <1>1 DEF Quiet, Settled
  <2> QED
    BY <1>1, <2>1 DEF Quiet, OwnAnswer
<1>6. ASSUME NEW m \in Messages, Looping(m) PROVE OwnAnswer'
  <2>1. <<"loopback", m>> \in Events
    BY DEF Events
  <2>2. /\ DOMAIN recvQueue \subseteq DOMAIN recvQueue'
        /\ \A i \in DOMAIN recvQueue : recvQueue'[i] = recvQueue[i]
    BY <1>0, <1>6, <2>1, AppendProperties DEF Looping
  <2>3. \A n : Settled(n) => Settled(n)'
    BY <1>6, <2>2 DEF Settled, Looping
  <2> QED
    BY <1>6, <2>3 DEF OwnAnswer, Looping
<1>2. ASSUME NEW m \in Messages, Failing(m) \/ Acknowledging(m) PROVE OwnAnswer'
  <2> DEFINE e == IF Failing(m) THEN <<"error", m>> ELSE <<"response", m>>
  <2>1. recvQueue' = Append(recvQueue, e) /\ e \in Events
    BY <1>2 DEF Failing, Acknowledging, Events
  <2> HIDE DEF e
  <2>2. /\ DOMAIN recvQueue \subseteq DOMAIN recvQueue'
        /\ \A i \in DOMAIN recvQueue : recvQueue'[i] = recvQueue[i]
        /\ Len(recvQueue) + 1 \in DOMAIN recvQueue'
        /\ recvQueue'[Len(recvQueue) + 1] = e
    BY <1>0, <2>1, AppendProperties
  <2>3. \A n : Settled(n) => Settled(n)'
    BY <1>2, <2>2 DEF Settled, Failing, Acknowledging
  <2>4. Settled(m)'
    BY <1>2, <2>2 DEF Settled, Failing, Acknowledging, e
  <2> QED
    BY <1>2, <2>3, <2>4 DEF OwnAnswer, Failing, Acknowledging
<1>3. CASE Expiring
  <2>1. PICK s \in Orders(Exhausted) :
          recvQueue' = recvQueue \o [i \in DOMAIN s |-> <<"timeout", s[i]>>]
    BY <1>3 DEF Expiring
  <2>2. Exhausted \subseteq Messages /\ IsFiniteSet(Exhausted)
    BY FS_Subset, SupportedAssumption DEF Exhausted, MHTypeInv, RTTypeOK
  <2> DEFINE t == [i \in DOMAIN s |-> <<"timeout", s[i]>>]
  <2>3. t \in Seq(Events)
    BY <2>2, OrdersAreFinite
  <2> HIDE DEF t
  <2>4. /\ DOMAIN recvQueue \subseteq DOMAIN (recvQueue \o t)
        /\ \A i \in DOMAIN recvQueue : (recvQueue \o t)[i] = recvQueue[i]
    BY <1>0, <2>3, ConcatProperties
  <2>5. recvQueue' = recvQueue \o t
    BY <2>1 DEF t
  <2>6. \A n : Settled(n) => Settled(n)'
    BY <1>3, <2>4, <2>5 DEF Settled, Expiring
  <2> QED
    BY <1>3, <2>6 DEF OwnAnswer, Expiring
<1>4. CASE Delivering
  <2>1. /\ \A i \in DOMAIN recvQueue :
             i = 1 \/ (i - 1 \in DOMAIN recvQueue' /\ recvQueue'[i - 1] = recvQueue[i])
        /\ reported' = reported \cup {recvQueue[1]}
    BY <1>0, <1>4, HeadTailProperties DEF Delivering
  <2>2. \A n : Settled(n) => Settled(n)'
    BY <1>4, <2>1 DEF Settled, Delivering
  <2> QED
    BY <1>4, <2>2 DEF OwnAnswer, Delivering
<1>5. CASE Closing
  BY <1>5 DEF OwnAnswer, Closing
<1> QED
  BY <1>1, <1>2, <1>3, <1>4, <1>5, <1>6, UpwardSteps

(* An entry leaves the retransmission list only because a PDU with its     *)
(* message id and adapter was acknowledged, or failed and the stack is     *)
(* told (CAErrorHandler), whatever the interleaving of the send, receive,  *)
(* error and retransmission threads.                                       *)
THEOREM AnswersAreOwn == Spec => []OwnAnswer
<1>1. Init => OwnAnswer
  BY DEF Init, RTInit, OwnAnswer
<1> QED
  BY <1>1, OwnAnswerStep, MHTypeInvariance, PTL DEF Spec

(***************************************************************************)
(* The history of received requests.                                       *)
(***************************************************************************)

(* The inductive invariant.                                                *)

HistoryTypes ==
  /\ items \in [Slots -> Items]
  /\ nextIndex \in Slots
  /\ travelling \subseteq Requests \X Families
  /\ delivered \in [Requests -> Nat]
  /\ arrivals \in Seq(Requests \ Unchecked)

(* What the stack was given and what still travels are two copies.         *)
TwoCopies ==
  \A m \in Requests :
    /\ delivered[m] <= 2
    /\ \A f \in Families : <<m, f>> \in travelling => delivered[m] <= 1
    /\ (\A f \in Families : <<m, f>> \in travelling) => delivered[m] = 0

(* The slot written `back' requests ago, when next is written next.        *)
SlotOf(next, back) ==
  IF back < next THEN next - 1 - back ELSE next - 1 - back + HISTORYSIZE

(* The ring holds the last HISTORYSIZE requests, each in its slot.         *)
Ring ==
  \A j \in DOMAIN arrivals : Len(arrivals) - j < HISTORYSIZE =>
    LET i == SlotOf(nextIndex, Len(arrivals) - j)
    IN  /\ items[i].id = Id[arrivals[j]] /\ items[i].ifindex = IfIndex
        /\ Token[arrivals[j]] # NoToken => items[i].token = Token[arrivals[j]]

(* What is in a slot comes from a request that arrived, and its token from *)
(* the same or, if that has none, from an earlier one.                     *)
From(item, seq, j) ==
  /\ item.id = Id[seq[j]]
  /\ Token[seq[j]] # NoToken => item.token = Token[seq[j]]
  /\ Token[seq[j]] = NoToken =>
       \/ item.token = NoToken
       \/ \E i \in DOMAIN seq : i < j /\ Token[seq[i]] = item.token

Sourced ==
  \A s \in Slots :
    \/ items[s].token = NoToken /\ items[s].ifindex # IfIndex
    \/ \E j \in DOMAIN arrivals : From(items[s], arrivals, j)

(* Mixed, of any sequence of arrivals.                                     *)
MixedIn(seq, m) ==
  \E i, j \in DOMAIN seq :
    /\ i < j /\ seq[i] # m
    /\ Token[m] # NoToken /\ Token[seq[i]] = Token[m]
    /\ Token[seq[j]] = NoToken /\ Id[seq[j]] = Id[m]

(* Twin, of any sequence of arrivals.                                      *)
TwinIn(seq, i) ==
  \E j \in DOMAIN seq :
    /\ j < i /\ seq[j] # seq[i]
    /\ Id[seq[j]] = Id[seq[i]] /\ Token[seq[j]] = Token[seq[i]]

HistoryInv == HistoryTypes /\ TwoCopies /\ Ring /\ Sourced /\ FirstDelivered

-----------------------------------------------------------------------------

LEMMA HistoryConstants ==
  /\ HISTORYSIZE \in Nat /\ HISTORYSIZE > 0
  /\ \A s \in Slots : s \in Nat /\ s < HISTORYSIZE
  /\ \A s \in Nat : s < HISTORYSIZE => s \in Slots
  BY HistoryAssumption DEF Slots

LEMMA HistoryInvInit == HistoryInit => HistoryInv
<1> SUFFICES ASSUME HistoryInit PROVE HistoryInv
  OBVIOUS
<1> USE DEF HistoryInit
<1>1. HistoryTypes
  <2>1. [id |-> 0, token |-> NoToken, ifindex |-> 0] \in Items
    BY DEF Items, Tokens
  <2>2. items \in [Slots -> Items] /\ 0 \in Slots
    BY <2>1, HistoryConstants
  <2> QED
    BY <2>2 DEF HistoryTypes
<1>2. TwoCopies
  BY DEF TwoCopies, Families
<1>3. Ring /\ FirstDelivered
  BY DEF Ring, FirstDelivered
<1>4. Sourced
  BY DEF Sourced, IfIndex
<1> QED
  BY <1>1, <1>2, <1>3, <1>4 DEF HistoryInv

(* Receiving a copy takes it off the network; the stack is given at most   *)
(* one more.                                                               *)
LEMMA TwoCopiesStep ==
  ASSUME HistoryTypes, TwoCopies, NEW m \in Requests, NEW f \in Families,
         <<m, f>> \in travelling, travelling' = travelling \ {<<m, f>>},
         delivered' = delivered \/ delivered' = [delivered EXCEPT ![m] = @ + 1]
  PROVE  TwoCopies' /\ delivered' \in [Requests -> Nat]
<1>1. delivered' \in [Requests -> Nat]
  BY SMTT(60) DEF HistoryTypes
<1>2. /\ \A n \in Requests : delivered[n] \in Nat
      /\ \A n \in Requests \ {m} : delivered'[n] = delivered[n]
      /\ delivered'[m] <= delivered[m] + 1
  BY DEF HistoryTypes
<1> SUFFICES ASSUME NEW n \in Requests
             PROVE  /\ delivered'[n] <= 2
                    /\ \A g \in Families : <<n, g>> \in travelling' => delivered'[n] <= 1
                    /\ (\A g \in Families : <<n, g>> \in travelling') => delivered'[n] = 0
  BY <1>1 DEF TwoCopies
<1>3. CASE n # m
  BY <1>2, <1>3 DEF TwoCopies
<1>4. CASE n = m
  <2>1. delivered[m] <= 1 /\ delivered'[m] <= 2 /\ <<m, f>> \notin travelling'
    BY <1>1, <1>2 DEF TwoCopies
  <2>2. ASSUME NEW g \in Families, <<m, g>> \in travelling' PROVE delivered'[m] <= 1
    <3>1. g # f /\ <<m, g>> \in travelling
      BY <2>2
    <3>2. \A h \in Families : <<m, h>> \in travelling
      BY <3>1 DEF Families
    <3>3. delivered[m] = 0
      BY <3>2 DEF TwoCopies
    <3> QED
      BY <1>1, <1>2, <3>3
  <2> QED
    BY <1>4, <2>1, <2>2
<1> QED
  BY <1>3, <1>4

(* One more request in the ring: every other one is a slot further back,   *)
(* and the one written is the oldest.                                      *)
LEMMA SlotAdvances ==
  ASSUME nextIndex \in Slots, nextIndex' = Advance,
         NEW back \in Nat, back + 1 < HISTORYSIZE
  PROVE  /\ nextIndex' \in Slots
         /\ SlotOf(nextIndex, back) \in Slots \ {nextIndex}
         /\ SlotOf(nextIndex', back + 1) = SlotOf(nextIndex, back)
  BY HistoryConstants DEF SlotOf, Advance

LEMMA SlotOfNewest ==
  ASSUME nextIndex \in Slots, nextIndex' = Advance
  PROVE  SlotOf(nextIndex', 0) = nextIndex /\ nextIndex' \in Slots
  BY HistoryConstants DEF SlotOf, Advance

LEMMA CheckedInv ==
  ASSUME HistoryInv, NEW m \in Requests, NEW f \in Families, Checked(m, f)
  PROVE  HistoryInv'
<1> DEFINE n == Len(arrivals)
<1>0. HistoryTypes /\ TwoCopies /\ Ring /\ Sourced /\ FirstDelivered
  BY DEF HistoryInv
<1>1. /\ m \notin Unchecked /\ arrivals' = Append(arrivals, m) /\ nextIndex' = Advance
      /\ items' = [items EXCEPT ![nextIndex] = NewItem(m)]
      /\ delivered' = (IF Recorded(m) THEN delivered ELSE [delivered EXCEPT ![m] = @ + 1])
      /\ <<m, f>> \in travelling /\ travelling' = travelling \ {<<m, f>>}
  BY DEF Checked
<1>2. /\ n \in Nat /\ DOMAIN arrivals = 1..n
      /\ arrivals' \in Seq(Requests \ Unchecked) /\ Len(arrivals') = n + 1
      /\ DOMAIN arrivals' = 1..(n + 1) /\ arrivals'[n + 1] = m
      /\ \A j \in 1..n : arrivals'[j] = arrivals[j]
  BY <1>0, <1>1, AppendProperties, LenProperties DEF HistoryTypes
<1>3. nextIndex \in Slots /\ nextIndex' \in Slots
  BY <1>0, <1>1, SlotOfNewest DEF HistoryTypes
<1>4. TwoCopies' /\ delivered' \in [Requests -> Nat]
  BY <1>0, <1>1, TwoCopiesStep
<1>5. /\ NewItem(m) \in Items /\ NewItem(m).id = Id[m] /\ NewItem(m).ifindex = IfIndex
      /\ Token[m] # NoToken => NewItem(m).token = Token[m]
      /\ Token[m] = NoToken => NewItem(m).token = items[nextIndex].token
  <2>1. items[nextIndex].token \in Tokens
    BY <1>0, <1>3 DEF HistoryTypes, Items
  <2>2. NewItem(m).token \in Tokens
    BY <2>1 DEF NewItem, Tokens
  <2> QED
    BY <2>2 DEF NewItem, Items
<1>6. /\ items' \in [Slots -> Items] /\ items'[nextIndex] = NewItem(m)
      /\ \A s \in Slots \ {nextIndex} : items'[s] = items[s]
  BY <1>0, <1>1, <1>3, <1>5 DEF HistoryTypes
<1> HIDE DEF n
<1>7. HistoryTypes'
  BY <1>0, <1>1, <1>2, <1>3, <1>4, <1>6 DEF HistoryTypes
<1>8. Ring'
  <2> SUFFICES ASSUME NEW j \in 1..(n + 1), n + 1 - j < HISTORYSIZE
               PROVE  LET i == SlotOf(nextIndex', n + 1 - j)
                      IN  /\ items'[i].id = Id[arrivals'[j]]
                          /\ items'[i].ifindex = IfIndex
                          /\ Token[arrivals'[j]] # NoToken =>
                               items'[i].token = Token[arrivals'[j]]
    BY <1>2 DEF Ring
  <2>1. CASE j = n + 1
    <3>1. n + 1 - j = 0
      BY <1>2, <2>1
    <3>2. SlotOf(nextIndex', n + 1 - j) = nextIndex
      BY <1>1, <1>3, <3>1, SlotOfNewest
    <3> QED
      BY <1>2, <1>5, <1>6, <2>1, <3>2
  <2>2. CASE j # n + 1
    <3> DEFINE back == n - j
    <3>1. back \in Nat /\ back + 1 < HISTORYSIZE /\ back < HISTORYSIZE /\ j \in 1..n
          /\ n + 1 - j = back + 1
      BY <1>2, <2>2, HistoryConstants
    <3> HIDE DEF back
    <3>2. /\ SlotOf(nextIndex', back + 1) = SlotOf(nextIndex, back)
          /\ SlotOf(nextIndex, back) \in Slots \ {nextIndex}
      BY <1>1, <1>3, <3>1, SlotAdvances
    <3>3. LET i == SlotOf(nextIndex, back)
          IN  /\ items[i].id = Id[arrivals[j]] /\ items[i].ifindex = IfIndex
              /\ Token[arrivals[j]] # NoToken => items[i].token = Token[arrivals[j]]
      BY <1>0, <1>2, <3>1 DEF Ring, n, back
    <3>4. SlotOf(nextIndex', n + 1 - j) = SlotOf(nextIndex, back)
      BY <3>1, <3>2
    <3> QED
      BY <1>2, <1>6, <3>1, <3>2, <3>3, <3>4
  <2> QED
    BY <2>1, <2>2
<1>9. Sourced'
  <2>1. ASSUME NEW j \in 1..n, NEW item, From(item, arrivals, j)
        PROVE  From(item, arrivals', j)
    <3>1. \A i \in DOMAIN arrivals : i \in DOMAIN arrivals' /\ arrivals'[i] = arrivals[i]
      BY <1>2
    <3> QED
      BY <1>2, <2>1, <3>1 DEF From
  <2>2. ASSUME NEW s \in Slots \ {nextIndex}
        PROVE  \/ items'[s].token = NoToken /\ items'[s].ifindex # IfIndex
               \/ \E j \in 1..(n + 1) : From(items'[s], arrivals', j)
    <3>1. CASE items[s].token = NoToken /\ items[s].ifindex # IfIndex
      BY <1>6, <3>1
    <3>2. ASSUME NEW j \in 1..n, From(items[s], arrivals, j)
          PROVE  \E k \in 1..(n + 1) : From(items'[s], arrivals', k)
      <4>1. From(items[s], arrivals', j)
        BY <2>1, <3>2
      <4>2. items'[s] = items[s] /\ j \in 1..(n + 1)
        BY <1>2, <1>6
      <4> QED
        BY <4>1, <4>2
    <3> QED
      BY <1>0, <1>2, <3>1, <3>2 DEF Sourced
  <2>3. From(NewItem(m), arrivals', n + 1)
    <3>1. CASE Token[m] # NoToken
      BY <1>2, <1>5, <3>1 DEF From
    <3>2. CASE Token[m] = NoToken
      <4> DEFINE old == items[nextIndex]
      <4>1. CASE old.token = NoToken
        BY <1>2, <1>5, <3>2, <4>1 DEF From
      <4>2. CASE old.token # NoToken
        <5>1. PICK j \in 1..n : From(old, arrivals, j)
          BY <1>0, <1>2, <1>3, <4>2 DEF Sourced
        <5>2. \E i \in 1..n : Token[arrivals[i]] = old.token
          BY <1>2, <4>2, <5>1 DEF From
        <5>3. \E i \in DOMAIN arrivals' : i < n + 1 /\ Token[arrivals'[i]] = old.token
          BY <1>2, <5>2
        <5> QED
          BY <1>2, <1>5, <3>2, <5>3 DEF From
      <4> QED
        BY <4>1, <4>2
    <3> QED
      BY <3>1, <3>2
  <2> QED
    BY <1>2, <1>6, <2>2, <2>3 DEF Sourced
<1>10. FirstDelivered'
  <2>1. \A k \in Requests : delivered[k] > 0 => delivered'[k] > 0
    BY <1>0, <1>1 DEF HistoryTypes
  <2>2. ASSUME NEW k \in Requests, MixedIn(arrivals, k) PROVE MixedIn(arrivals', k)
    <3>1. PICK i, j \in DOMAIN arrivals :
            /\ i < j /\ arrivals[i] # k
            /\ Token[k] # NoToken /\ Token[arrivals[i]] = Token[k]
            /\ Token[arrivals[j]] = NoToken /\ Id[arrivals[j]] = Id[k]
      BY <2>2 DEF MixedIn
    <3>2. /\ i \in DOMAIN arrivals' /\ j \in DOMAIN arrivals'
          /\ arrivals'[i] = arrivals[i] /\ arrivals'[j] = arrivals[j]
      BY <1>2
    <3> QED
      BY <3>1, <3>2 DEF MixedIn
  <2>3. \A j \in 1..n : arrivals[j] \in Requests
    BY <1>0, <1>2 DEF HistoryTypes
  <2>7. ASSUME NEW j \in 1..n, TwinIn(arrivals, j)
        PROVE  TwinIn(arrivals', j) /\ (arrivals[j] = m => TwinIn(arrivals', n + 1))
    <3>1. PICK i \in DOMAIN arrivals :
            /\ i < j /\ arrivals[i] # arrivals[j]
            /\ Id[arrivals[i]] = Id[arrivals[j]] /\ Token[arrivals[i]] = Token[arrivals[j]]
      BY <2>7 DEF TwinIn
    <3>2. /\ i \in DOMAIN arrivals' /\ arrivals'[i] = arrivals[i] /\ i < n + 1
          /\ arrivals'[j] = arrivals[j] /\ arrivals'[n + 1] = m
      BY <1>2
    <3> QED
      BY <3>1, <3>2 DEF TwinIn
  <2>4. ASSUME NEW j \in 1..n
        PROVE  \/ delivered'[arrivals[j]] > 0
               \/ MixedIn(arrivals', arrivals[j])
               \/ TwinIn(arrivals', j) /\ (arrivals[j] = m => TwinIn(arrivals', n + 1))
    <3>1. delivered[arrivals[j]] > 0 \/ MixedIn(arrivals, arrivals[j]) \/ TwinIn(arrivals, j)
      BY <1>0, <1>2 DEF FirstDelivered, Mixed, MixedIn, Twin, TwinIn
    <3> QED
      BY <2>1, <2>2, <2>3, <2>7, <3>1
  <2>5. delivered'[m] > 0 \/ MixedIn(arrivals', m) \/ TwinIn(arrivals', n + 1)
    <3>1. CASE ~Recorded(m)
      BY <1>0, <1>1, <3>1 DEF HistoryTypes
    <3>2. CASE \E j \in 1..n : arrivals[j] = m
      BY <2>4, <3>2
    <3>3. CASE Recorded(m) /\ \A j \in 1..n : arrivals[j] # m
      <4>1. PICK s \in Slots : /\ items[s].id = Id[m] /\ items[s].ifindex = IfIndex
                              /\ items[s].token = Token[m]
        BY <3>3 DEF Recorded
      <4>2. PICK j \in 1..n : From(items[s], arrivals, j)
        BY <1>0, <1>2, <4>1 DEF Sourced
      <4>3. Id[arrivals[j]] = Id[m] /\ arrivals[j] \in Requests /\ arrivals[j] # m
        BY <2>3, <3>3, <4>1, <4>2 DEF From
      <4>4. CASE Token[arrivals[j]] = Token[m]
        <5>1. /\ j \in DOMAIN arrivals' /\ j < n + 1 /\ arrivals'[j] = arrivals[j]
              /\ arrivals'[n + 1] = m
          BY <1>2
        <5> QED
          BY <4>3, <4>4, <5>1 DEF TwinIn
      <4>5. CASE Token[arrivals[j]] # Token[m]
        <5>1. Token[arrivals[j]] = NoToken /\ Token[m] # NoToken
          BY <4>1, <4>2, <4>5 DEF From
        <5>2. PICK i \in DOMAIN arrivals : i < j /\ Token[arrivals[i]] = Token[m]
          BY <4>1, <4>2, <5>1 DEF From
        <5>3. arrivals[i] # m
          BY <1>2, <3>3
        <5>4. MixedIn(arrivals, m)
          BY <1>2, <4>3, <5>1, <5>2, <5>3 DEF MixedIn
        <5> QED
          BY <2>2, <5>4
      <4> QED
        BY <4>4, <4>5
    <3> QED
      BY <3>1, <3>2, <3>3
  <2>6. \A j \in 1..(n + 1) : \/ delivered'[arrivals'[j]] > 0
                              \/ MixedIn(arrivals', arrivals'[j])
                              \/ TwinIn(arrivals', j)
    BY <1>2, <2>4, <2>5
  <2> QED
    BY <1>2, <2>6 DEF FirstDelivered, Mixed, MixedIn, Twin, TwinIn
<1> QED
  BY <1>4, <1>7, <1>8, <1>9, <1>10 DEF HistoryInv

(* A copy that is not checked, and a copy that is lost, leave the ring     *)
(* alone.                                                                  *)
LEMMA UncheckedInv ==
  ASSUME HistoryInv, NEW m \in Requests, NEW f \in Families,
         NotChecked(m, f) \/ LoseCopy(m, f)
  PROVE  HistoryInv'
<1>0. HistoryTypes /\ TwoCopies /\ Ring /\ Sourced /\ FirstDelivered
  BY DEF HistoryInv
<1>1. /\ UNCHANGED <<items, nextIndex, arrivals>>
      /\ <<m, f>> \in travelling /\ travelling' = travelling \ {<<m, f>>}
      /\ delivered' = delivered \/ delivered' = [delivered EXCEPT ![m] = @ + 1]
  BY DEF NotChecked, LoseCopy
<1>2. TwoCopies' /\ delivered' \in [Requests -> Nat]
  BY <1>0, <1>1, TwoCopiesStep
<1>3. HistoryTypes'
  BY <1>0, <1>1, <1>2 DEF HistoryTypes
<1>4. Ring' /\ Sourced'
  BY <1>0, <1>1 DEF Ring, Sourced
<1>5. FirstDelivered'
  <2>1. \A k \in Requests : delivered[k] > 0 => delivered'[k] > 0
    BY <1>0, <1>1 DEF HistoryTypes
  <2>2. \A j \in DOMAIN arrivals : arrivals[j] \in Requests
    BY <1>0 DEF HistoryTypes
  <2> QED
    BY <1>0, <1>1, <2>1, <2>2 DEF FirstDelivered, Mixed, Twin
<1> QED
  BY <1>2, <1>3, <1>4, <1>5 DEF HistoryInv

LEMMA HistoryInvStep == HistoryInv /\ [HistoryNext]_historyVars => HistoryInv'
<1> SUFFICES ASSUME HistoryInv, [HistoryNext]_historyVars PROVE HistoryInv'
  OBVIOUS
<1>1. CASE UNCHANGED historyVars
  BY <1>1 DEF historyVars, HistoryInv, HistoryTypes, TwoCopies, Ring, Sourced, FirstDelivered,
     Mixed, Twin
<1>2. CASE HistoryNext
  BY <1>2, CheckedInv, UncheckedInv DEF HistoryNext
<1> QED
  BY <1>1, <1>2

(* HistoryInv holds of every behaviour.                                    *)
THEOREM HistoryInvariance == HistorySpec => []HistoryInv
  BY HistoryInvInit, HistoryInvStep, PTL DEF HistorySpec

(* Type correctness: nextIndex never leaves the ring, and no request is    *)
(* passed on more often than it has copies.                                *)
THEOREM HistoryTypeCorrect == HistorySpec => []HistoryTypeOK
<1>1. HistoryInv => HistoryTypeOK
  <2> SUFFICES ASSUME HistoryInv PROVE HistoryTypeOK
    OBVIOUS
  <2>1. HistoryTypes /\ TwoCopies
    BY DEF HistoryInv
  <2>2. delivered \in [Requests -> 0 .. 2]
    BY <2>1 DEF HistoryTypes, TwoCopies
  <2>3. arrivals \in Seq(Requests)
    <3>1. Len(arrivals) \in Nat /\ DOMAIN arrivals = 1..Len(arrivals)
      BY <2>1, LenProperties DEF HistoryTypes
    <3>2. \A j \in DOMAIN arrivals : arrivals[j] \in Requests
      BY <2>1 DEF HistoryTypes
    <3>3. arrivals = [j \in 1..Len(arrivals) |-> arrivals[j]]
      BY <2>1, <3>1 DEF HistoryTypes
    <3> QED
      BY <3>1, <3>2, <3>3, SeqDef
  <2> QED
    BY <2>1, <2>2, <2>3 DEF HistoryTypes, HistoryTypeOK
<1> QED
  BY <1>1, HistoryInvariance, PTL

(* CADropSecondMessage drops a second message: the first copy of a request *)
(* reaches the stack, unless an earlier request has its id and token, or   *)
(* a request without token has mixed its id with another request's token.  *)
THEOREM FirstReaches == HistorySpec => []FirstDelivered
<1>1. HistoryInv => FirstDelivered
  BY DEF HistoryInv
<1> QED
  BY <1>1, HistoryInvariance, PTL

(* A request of the window that has a token is found by the search.        *)
LEMMA WindowRecorded ==
  ASSUME HistoryInv, NEW m \in Window, Token[m] # NoToken
  PROVE  Recorded(m) /\ m \in Requests \ Unchecked
<1>0. HistoryTypes /\ Ring
  BY DEF HistoryInv
<1>1. Len(arrivals) \in Nat /\ DOMAIN arrivals = 1..Len(arrivals)
  BY <1>0, LenProperties DEF HistoryTypes
<1>2. PICK j \in DOMAIN arrivals : j + HISTORYSIZE > Len(arrivals) /\ arrivals[j] = m
  BY DEF Window
<1> DEFINE back == Len(arrivals) - j
<1>3. back \in Nat /\ back < HISTORYSIZE
  BY <1>1, <1>2, HistoryConstants
<1>4. SlotOf(nextIndex, back) \in Slots
  <2> HIDE DEF back
  <2>1. nextIndex \in Slots
    BY <1>0 DEF HistoryTypes
  <2> QED
    BY <1>3, <2>1, HistoryConstants DEF SlotOf
<1>5. Recorded(m)
  BY <1>0, <1>2, <1>3, <1>4 DEF Ring, Recorded
<1> QED
  BY <1>0, <1>2, <1>5 DEF HistoryTypes

(* The second copy of a request with a token is dropped as long as the     *)
(* first is among the last HISTORYSIZE requests: neither the order of the  *)
(* others nor the copies of them that were dropped push it out of the ring *)
(* earlier.                                                                *)
THEOREM SecondIsDropped == HistorySpec => SecondDropped
<1>1. ASSUME HistoryInv, [HistoryNext]_historyVars, NEW m \in Window, Token[m] # NoToken
      PROVE  delivered'[m] = delivered[m]
  <2>1. Recorded(m) /\ m \in Requests \ Unchecked
    BY <1>1, WindowRecorded
  <2>2. delivered \in [Requests -> Nat]
    BY <1>1 DEF HistoryInv, HistoryTypes
  <2>3. ASSUME NEW k \in Requests, NEW f \in Families,
               Checked(k, f) \/ NotChecked(k, f) \/ LoseCopy(k, f)
        PROVE  delivered'[m] = delivered[m]
    <3>1. CASE k = m
      BY <2>1, <2>3, <3>1 DEF Checked, NotChecked, LoseCopy
    <3>2. CASE k # m
      BY <2>1, <2>2, <2>3, <3>2 DEF Checked, NotChecked, LoseCopy
    <3> QED
      BY <3>1, <3>2
  <2>4. CASE UNCHANGED historyVars
    BY <2>4 DEF historyVars
  <2> QED
    BY <1>1, <2>3, <2>4 DEF HistoryNext
<1>2. HistoryInv /\ [HistoryNext]_historyVars =>
        [\A m \in Window : Token[m] # NoToken => delivered'[m] = delivered[m]]_historyVars
  BY <1>1
<1> QED
  BY <1>2, HistoryInvariance, PTL DEF HistorySpec, SecondDropped

===============================================================================
