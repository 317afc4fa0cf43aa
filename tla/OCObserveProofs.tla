---------------------------- MODULE OCObserveProofs ----------------------------
(***************************************************************************)
(* Proofs about OCObserve, for every set of registrations, every set of    *)
(* observation ids and every limit.  Nothing is assumed of Ids: when it is *)
(* exhausted the server is stuck in GenerateObserverId and nothing moves.  *)
(***************************************************************************)
EXTENDS OCObserve, SequenceTheorems, TLAPS

-----------------------------------------------------------------------------
(* The inductive invariant.                                                *)

ServerTypes ==
  /\ observers \in Seq(Tokens)
  /\ obsId \in [Tokens -> Ids \cup {0}]
  /\ failedComm \in [Tokens -> 0 .. MaxFailed]
  /\ lowQos \in [Tokens -> 0 .. MaxNon]
  /\ forceHigh \subseteq Tokens
  /\ due \subseteq Tokens
  /\ seqNum \in Numbers
  /\ handlerView \subseteq Ids
  /\ stuck \in BOOLEAN

ClientTypes ==
  /\ cb \in [Tokens -> {"none", "active", "gone"}]
  /\ cbSeq \in [Tokens -> Numbers]
  /\ cbTtl \subseteq Tokens
  /\ cancelled \subseteq Tokens
  /\ ended \subseteq Tokens

(* An observer is there because its client registered.                     *)
Began == \A t \in Obs : cb[t] # "none"

(* So is every confirmable notification; every deregistration comes from   *)
(* OCCancel.                                                               *)
PendingOK ==
  /\ conPending \subseteq Tokens \X Numbers
  /\ \A p \in conPending : cb[p[1]] # "none"

RequestsOK ==
  /\ requests \subseteq Requests \X Tokens
  /\ \A r \in requests : cb[r[2]] # "none" /\ (r[1] = "dereg" => r[2] \in cancelled)

(* What travels was caused: a deregistration by OCCancel, a RST by a       *)
(* callback that is gone and does not come back.                           *)
MessagesOK ==
  /\ net \subseteq Kinds \X Tokens \X Numbers
  /\ \A m \in net :
       /\ cb[m[2]] # "none"
       /\ m[1] = "dereg" => m[2] \in cancelled
       /\ m[1] = "rst" => cb[m[2]] = "gone"

ObserveInv ==
  /\ ServerTypes
  /\ ClientTypes
  /\ NoDuplicateObserver
  /\ HandlerAgrees
  /\ Began
  /\ PendingOK
  /\ RequestsOK
  /\ MessagesOK

-----------------------------------------------------------------------------
(* The observer list.                                                      *)

Elems(s) == {s[i] : i \in DOMAIN s}
Distinct(s) == \A i, j \in DOMAIN s : s[i] = s[j] => i = j

(* LL_DELETE takes the observer out of a list that holds it once, and      *)
(* nobody else.                                                            *)
LEMMA WithoutSpec ==
  ASSUME NEW S, NEW s \in Seq(S), NEW t \in Elems(s), Distinct(s)
  PROVE  /\ Without(s, t) \in Seq(S)
         /\ Distinct(Without(s, t))
         /\ Elems(Without(s, t)) = Elems(s) \ {t}
<1> DEFINE k == CHOOSE i \in DOMAIN s : s[i] = t
           w == [j \in 1 .. Len(s) - 1 |-> IF j < k THEN s[j] ELSE s[j + 1]]
<1>1. \E i \in DOMAIN s : s[i] = t
  BY DEF Elems
<1>2. k \in 1 .. Len(s) /\ s[k] = t
  BY <1>1
<1>3. Without(s, t) = w
  BY <1>1 DEF Without
<1>4. Len(s) \in Nat /\ DOMAIN s = 1 .. Len(s)
  OBVIOUS
<1> HIDE DEF k
<1>5. Len(s) - 1 \in Nat
  BY <1>2, <1>4
<1>6. \A j \in 1 .. Len(s) - 1 : w[j] = IF j < k THEN s[j] ELSE s[j + 1]
  OBVIOUS
<1>7. w \in [1 .. Len(s) - 1 -> S]
  BY <1>2, <1>4
<1>8. w \in Seq(S) /\ DOMAIN w = 1 .. Len(s) - 1
  BY <1>5, <1>7, IsASeq
<1> HIDE DEF w
<1>9. Distinct(w)
  <2> SUFFICES ASSUME NEW i \in 1 .. Len(s) - 1, NEW j \in 1 .. Len(s) - 1, w[i] = w[j]
               PROVE  i = j
    BY <1>8 DEF Distinct
  <2> DEFINE a == IF i < k THEN i ELSE i + 1
             b == IF j < k THEN j ELSE j + 1
  <2>1. a \in DOMAIN s /\ b \in DOMAIN s /\ w[i] = s[a] /\ w[j] = s[b]
    BY <1>2, <1>4, <1>5, <1>6
  <2>2. a = b
    BY <2>1 DEF Distinct
  <2> QED
    BY <1>2, <1>4, <2>2
<1>10. Elems(w) \subseteq Elems(s) \ {t}
  <2> SUFFICES ASSUME NEW i \in 1 .. Len(s) - 1
               PROVE  w[i] \in Elems(s) \ {t}
    BY <1>8 DEF Elems
  <2> DEFINE a == IF i < k THEN i ELSE i + 1
  <2>1. a \in DOMAIN s /\ w[i] = s[a] /\ a # k
    BY <1>2, <1>4, <1>5, <1>6
  <2> QED
    BY <1>2, <1>4, <2>1 DEF Distinct, Elems
<1>11. Elems(s) \ {t} \subseteq Elems(w)
  <2> SUFFICES ASSUME NEW a \in 1 .. Len(s), s[a] # t
               PROVE  s[a] \in Elems(w)
    BY <1>4 DEF Elems
  <2> DEFINE i == IF a < k THEN a ELSE a - 1
  <2>1. a # k
    BY <1>2
  <2>2. i \in 1 .. Len(s) - 1 /\ w[i] = s[a]
    BY <1>2, <1>4, <1>5, <1>6, <2>1
  <2> QED
    BY <1>8, <2>2 DEF Elems
<1> QED
  BY <1>3, <1>8, <1>9, <1>10, <1>11

LEMMA AppendSpec ==
  ASSUME NEW S, NEW s \in Seq(S), NEW t \in S, t \notin Elems(s), Distinct(s)
  PROVE  /\ Append(s, t) \in Seq(S)
         /\ Distinct(Append(s, t))
         /\ Elems(Append(s, t)) = Elems(s) \cup {t}
<1> DEFINE w == Append(s, t)
<1>1. /\ w \in Seq(S)
      /\ Len(w) = Len(s) + 1
      /\ w[Len(s) + 1] = t
      /\ \A i \in 1 .. Len(s) : w[i] = s[i]
  BY AppendProperties
<1>2. Len(s) \in Nat /\ DOMAIN s = 1 .. Len(s) /\ DOMAIN w = 1 .. Len(s) + 1
  BY <1>1
<1> HIDE DEF w
<1>3. \A i \in DOMAIN w : i \in DOMAIN s \/ i = Len(s) + 1
  BY <1>2
<1>4. \A i \in DOMAIN s : i \in DOMAIN w /\ w[i] = s[i] /\ w[i] # t
  BY <1>1, <1>2 DEF Elems
<1>5. Len(s) + 1 \in DOMAIN w /\ w[Len(s) + 1] = t
  BY <1>1, <1>2
<1>6. Distinct(w)
  BY <1>3, <1>4, <1>5 DEF Distinct
<1>7. Elems(w) = Elems(s) \cup {t}
  BY <1>3, <1>4, <1>5 DEF Elems
<1> QED
  BY <1>1, <1>6, <1>7 DEF w

(* The list part of the invariant, and the two ways the list changes.      *)
ListOK == ServerTypes /\ NoDuplicateObserver /\ HandlerAgrees

LEMMA ObsIsElems == Obs = Elems(observers)
  BY DEF Obs, Elems

LEMMA OverdueObserve ==
  ASSUME NEW t \in Tokens, ServerTypes
  PROVE  /\ Overdue(t) \subseteq Obs
         /\ Obs \subseteq Tokens
  BY DEF Overdue, Passed, Obs, ServerTypes

LEMMA RemovedObserver ==
  ASSUME ListOK, NEW t \in Obs, RemoveObserver(t), UNCHANGED <<seqNum, stuck>>
  PROVE  ListOK' /\ Obs' = Obs \ {t}
<1> USE DEF ListOK
<1>1. Distinct(observers) /\ observers \in Seq(Tokens) /\ t \in Elems(observers)
  BY ObsIsElems DEF NoDuplicateObserver, Distinct, ServerTypes
<1>2. /\ observers' \in Seq(Tokens)
      /\ Distinct(observers')
      /\ Elems(observers') = Obs \ {t}
  BY <1>1, WithoutSpec, ObsIsElems DEF RemoveObserver
<1>3. Obs' = Obs \ {t}
  BY <1>2 DEF Obs, Elems
<1>4. t \in Tokens /\ Obs \subseteq Tokens
  BY DEF Obs, ServerTypes
<1>5. NoDuplicateObserver'
  BY <1>2 DEF NoDuplicateObserver, Distinct
<1>6. obsId' = [obsId EXCEPT ![t] = 0] /\ handlerView' = handlerView \ {obsId[t]}
  BY DEF RemoveObserver
<1>7. \A u \in Obs' : u \in Obs /\ u # t /\ obsId'[u] = obsId[u]
  BY <1>3, <1>4, <1>6 DEF ServerTypes
<1>8. handlerView' = {obsId'[u] : u \in Obs'}
  BY <1>3, <1>6, <1>7 DEF HandlerAgrees
<1>9. \A u, v \in Obs' : obsId'[u] = obsId'[v] => u = v
  BY <1>7 DEF HandlerAgrees
<1>10. HandlerAgrees'
  BY <1>8, <1>9 DEF HandlerAgrees
<1>11. ServerTypes'
  BY <1>2, <1>4, <1>6, LimitAssumption DEF ServerTypes, RemoveObserver, Overdue
<1> QED
  BY <1>3, <1>5, <1>10, <1>11

LEMMA AddedObserver ==
  ASSUME ListOK, NEW t \in Tokens \ Obs, NEW id \in FreeIds, AddObserver(t, id),
         handlerView' = handlerView \cup {id}, due' = due \ Overdue(t),
         UNCHANGED <<seqNum, stuck>>
  PROVE  ListOK' /\ Obs' = Obs \cup {t}
<1> USE DEF ListOK
<1>1. Distinct(observers) /\ observers \in Seq(Tokens) /\ t \notin Elems(observers)
  BY ObsIsElems DEF NoDuplicateObserver, Distinct, ServerTypes
<1>2. /\ observers' \in Seq(Tokens)
      /\ Distinct(observers')
      /\ Elems(observers') = Obs \cup {t}
  BY <1>1, AppendSpec, ObsIsElems DEF AddObserver
<1>3. Obs' = Obs \cup {t}
  BY <1>2 DEF Obs, Elems
<1>4. Obs \subseteq Tokens
  BY DEF Obs, ServerTypes
<1>5. NoDuplicateObserver'
  BY <1>2 DEF NoDuplicateObserver, Distinct
<1>6. id \in Ids /\ \A u \in Obs : obsId[u] # id
  BY DEF FreeIds
<1>7. obsId' = [obsId EXCEPT ![t] = id]
  BY DEF AddObserver
<1>8. obsId'[t] = id /\ \A u \in Obs : u # t /\ obsId'[u] = obsId[u]
  BY <1>4, <1>7 DEF ServerTypes
<1>9. handlerView' = {obsId'[u] : u \in Obs'}
  BY <1>3, <1>8 DEF HandlerAgrees
<1>10. \A u, v \in Obs' : obsId'[u] = obsId'[v] => u = v
  BY <1>3, <1>6, <1>8 DEF HandlerAgrees
<1>11. HandlerAgrees'
  BY <1>9, <1>10 DEF HandlerAgrees
<1>12. ServerTypes'
  BY <1>2, <1>6, <1>7, LimitAssumption DEF ServerTypes, AddObserver
<1> QED
  BY <1>3, <1>5, <1>11, <1>12

-----------------------------------------------------------------------------
(* What the steps of one side leave of the other side's invariant.         *)

(* Exchanges and messages the server may add: notifications and answers    *)
(* for tokens that were registered.                                        *)
Exchanges(P) ==
  /\ P \subseteq Tokens \X Numbers
  /\ \A p \in P : cb[p[1]] # "none"

Answers(M) ==
  /\ M \subseteq Kinds \X Tokens \X Numbers
  /\ \A m \in M : cb[m[2]] # "none" /\ m[1] # "dereg" /\ m[1] # "rst"

LEMMA NumberFacts == 0 \in Numbers /\ (ServerTypes => NextSeq \in Numbers)
  BY LimitAssumption DEF Numbers, NextSeq, ServerTypes

LEMMA ReminderFacts ==
  ASSUME ObserveInv, NEW t \in Tokens
  PROVE  Exchanges(Reminders(t)) /\ Answers(ReminderMessages(t))
<1>1. \A u \in Overdue(t) : u \in Tokens /\ cb[u] # "none"
  BY OverdueObserve DEF ObserveInv, Began
<1>2. seqNum \in Numbers
  BY DEF ObserveInv, ServerTypes
<1>3. Exchanges(Reminders(t))
  BY <1>1, <1>2 DEF Exchanges, Reminders
<1>4. Answers(ReminderMessages(t))
  BY <1>1, <1>2 DEF Answers, ReminderMessages, Kinds
<1> QED
  BY <1>3, <1>4

LEMMA ServerStep ==
  ASSUME ObserveInv, UNCHANGED clientVars, ListOK',
         \A t \in Obs' : cb[t] # "none",
         NEW P, Exchanges(P), conPending' \subseteq conPending \cup P,
         NEW M, Answers(M), net' \subseteq net \cup M
  PROVE  ObserveInv'
<1>1. ClientTypes' /\ RequestsOK' /\ cb' = cb /\ cancelled' = cancelled
  BY DEF ObserveInv, ClientTypes, RequestsOK, clientVars
<1>2. Began'
  BY <1>1 DEF Began
<1>3. PendingOK'
  BY <1>1 DEF ObserveInv, PendingOK, Exchanges
<1>4. MessagesOK'
  BY <1>1 DEF ObserveInv, MessagesOK, Answers
<1> QED
  BY <1>1, <1>2, <1>3, <1>4 DEF ObserveInv, ListOK

(* A callback is created once and deleted once.                            *)
Moved ==
  /\ cb' \in [Tokens -> {"none", "active", "gone"}]
  /\ \A t \in Tokens : /\ cb[t] # "none" => cb'[t] # "none"
                       /\ cb[t] = "gone" => cb'[t] = "gone"
  /\ cancelled \subseteq cancelled'

LEMMA ClientStep ==
  ASSUME ObserveInv, UNCHANGED serverVars, Moved, ClientTypes'
  PROVE  /\ ServerTypes' /\ NoDuplicateObserver' /\ HandlerAgrees' /\ Began' /\ PendingOK'
         /\ \A r \in requests :
              /\ r \in Requests \X Tokens
              /\ cb'[r[2]] # "none"
              /\ r[1] = "dereg" => r[2] \in cancelled'
         /\ \A m \in net :
              /\ m \in Kinds \X Tokens \X Numbers
              /\ cb'[m[2]] # "none"
              /\ m[1] = "dereg" => m[2] \in cancelled'
              /\ m[1] = "rst" => cb'[m[2]] = "gone"
<1>1. ServerTypes'
  BY DEF ObserveInv, ServerTypes, serverVars
<1>2. Obs' = Obs
  BY DEF Obs, serverVars
<1>3. Obs \subseteq Tokens
  BY DEF Obs, ObserveInv, ServerTypes
<1>4. NoDuplicateObserver' /\ HandlerAgrees'
  BY <1>2 DEF ObserveInv, NoDuplicateObserver, HandlerAgrees, serverVars
<1>5. Began'
  BY <1>2, <1>3 DEF ObserveInv, Began, Moved
<1>6. PendingOK'
  <2>1. conPending' = conPending
    BY DEF serverVars
  <2>2. \A p \in conPending : p[1] \in Tokens /\ cb[p[1]] # "none"
    BY DEF ObserveInv, PendingOK
  <2> QED
    BY <2>1, <2>2 DEF ObserveInv, PendingOK, Moved
<1>7. \A r \in requests :
        /\ r \in Requests \X Tokens
        /\ cb'[r[2]] # "none"
        /\ r[1] = "dereg" => r[2] \in cancelled'
  <2>1. \A r \in requests : r \in Requests \X Tokens /\ r[2] \in Tokens
    BY DEF ObserveInv, RequestsOK
  <2> QED
    BY <2>1 DEF ObserveInv, RequestsOK, Moved
<1>8. \A m \in net :
        /\ m \in Kinds \X Tokens \X Numbers
        /\ cb'[m[2]] # "none"
        /\ m[1] = "dereg" => m[2] \in cancelled'
        /\ m[1] = "rst" => cb'[m[2]] = "gone"
  <2>1. \A m \in net : m \in Kinds \X Tokens \X Numbers /\ m[2] \in Tokens
    BY DEF ObserveInv, MessagesOK
  <2> QED
    BY <2>1 DEF ObserveInv, MessagesOK, Moved
<1> QED
  BY <1>1, <1>4, <1>5, <1>6, <1>7, <1>8

-----------------------------------------------------------------------------
(* The server's actions.                                                   *)

LEMMA NotifiedOK ==
  ASSUME ObserveInv, NEW list \in Seq(Tokens), Elems(list) \subseteq Obs, NEW q,
         NEW n \in Numbers, NEW overdue, overdue \subseteq Obs,
         SendNotifications(list, q, n, overdue), seqNum' = n,
         UNCHANGED <<observers, obsId, failedComm, forceHigh, handlerView, stuck, clientVars>>
  PROVE  ObserveInv'
<1>0. ServerTypes /\ Began
  BY DEF ObserveInv
<1>1. \A t \in Obs : t \in Tokens /\ cb[t] # "none"
  BY <1>0 DEF ServerTypes, Obs, Began
<1>2. \A i \in DOMAIN list : list[i] \in Obs
  BY DEF Elems
<1>3. \A t \in Tokens : \A x : CountAfter(t, x) \in 0 .. MaxNon
  BY <1>0, LimitAssumption DEF ServerTypes, CountAfter, ForcedHigh
<1>4. lowQos' \in [Tokens -> 0 .. MaxNon]
  BY <1>0, <1>3 DEF SendNotifications, ServerTypes
<1>5. due' \subseteq Tokens
  BY <1>0 DEF SendNotifications, ServerTypes
<1>6. ServerTypes'
  BY <1>0, <1>4, <1>5 DEF ServerTypes
<1>7. Obs' = Obs
  BY DEF Obs
<1>8. NoDuplicateObserver' /\ HandlerAgrees'
  BY <1>7 DEF ObserveInv, NoDuplicateObserver, HandlerAgrees
<1> DEFINE P == Obs \X {n}
           M == {"con", "non"} \X Obs \X {n}
<1>9. Exchanges(P)
  BY <1>1 DEF Exchanges
<1>10. Answers(M)
  BY <1>1 DEF Answers, Kinds
<1>11. conPending' \subseteq conPending \cup P
  BY <1>2 DEF SendNotifications
<1>12. net' \subseteq net \cup M
  BY <1>2 DEF SendNotifications
<1> HIDE DEF P, M
<1> QED
  BY <1>1, <1>6, <1>7, <1>8, <1>9, <1>10, <1>11, <1>12, ServerStep DEF ListOK

LEMMA NotifyAllOK ==
  ASSUME ObserveInv, NEW q, NotifyAll(q)
  PROVE  ObserveInv'
<1>1. NextSeq \in Numbers /\ observers \in Seq(Tokens) /\ Elems(observers) \subseteq Obs
  BY NumberFacts, ObsIsElems DEF ObserveInv, ServerTypes
<1>2. {} \subseteq Obs
  OBVIOUS
<1>3. /\ SendNotifications(observers, q, NextSeq, {})
      /\ seqNum' = NextSeq
      /\ UNCHANGED <<observers, obsId, failedComm, forceHigh, handlerView, stuck, clientVars>>
  BY DEF NotifyAll
<1> QED
  BY <1>1, <1>2, <1>3, NotifiedOK

LEMMA NotifyOneOK ==
  ASSUME ObserveInv, NEW t \in Tokens, NEW q, NotifyOne(t, q)
  PROVE  ObserveInv'
<1>1. NextSeq \in Numbers /\ Overdue(t) \subseteq Obs
  BY NumberFacts, OverdueObserve DEF ObserveInv
<1>2. <<t>> \in Seq(Tokens) /\ Elems(<<t>>) \subseteq Obs
  BY DEF NotifyOne, Elems
<1>3. /\ SendNotifications(<<t>>, q, NextSeq, Overdue(t))
      /\ seqNum' = NextSeq
      /\ UNCHANGED <<observers, obsId, failedComm, forceHigh, handlerView, stuck, clientVars>>
  BY DEF NotifyOne
<1> QED
  BY <1>1, <1>2, <1>3, NotifiedOK

LEMMA ListKept ==
  ASSUME ListOK, ServerTypes', UNCHANGED <<observers, obsId, handlerView>>
  PROVE  ListOK' /\ Obs' = Obs
<1>1. Obs' = Obs
  BY DEF Obs
<1> QED
  BY <1>1 DEF ListOK, NoDuplicateObserver, HandlerAgrees

(* A handler that ends with ListOK, and sends reminders and one answer.    *)
LEMMA HandlerStep ==
  ASSUME ObserveInv, NEW t \in Tokens, UNCHANGED clientVars, ListOK', Obs' \subseteq Obs \cup {t},
         cb[t] # "none",
         conPending' \subseteq conPending \cup Reminders(t),
         NEW k \in Kinds \ {"dereg", "rst"},
         net' \subseteq net \cup ReminderMessages(t) \cup {<<k, t, 0>>}
  PROVE  ObserveInv'
<1>1. \A u \in Obs' : cb[u] # "none"
  BY DEF ObserveInv, Began
<1>2. Exchanges(Reminders(t)) /\ Answers(ReminderMessages(t))
  BY ReminderFacts
<1> DEFINE M == ReminderMessages(t) \cup {<<k, t, 0>>}
<1>3. Answers(M)
  BY <1>2, NumberFacts DEF Answers
<1>4. net' \subseteq net \cup M
  OBVIOUS
<1> HIDE DEF M
<1> QED
  BY <1>1, <1>2, <1>3, <1>4, ServerStep

LEMMA BecomesDueOK ==
  ASSUME ObserveInv, NEW t \in Tokens, BecomesDue(t)
  PROVE  ObserveInv'
<1>1. ListOK /\ ServerTypes
  BY DEF ObserveInv, ListOK
<1>2. ServerTypes'
  BY <1>1 DEF ServerTypes, BecomesDue
<1>3. ListOK' /\ Obs' = Obs
  BY <1>1, <1>2, ListKept DEF BecomesDue
<1>4. cb[t] # "none"
  BY DEF BecomesDue, ObserveInv, Began
<1>5. UNCHANGED clientVars /\ conPending' = conPending /\ net' = net
  BY DEF BecomesDue
<1>6. "ack" \in Kinds \ {"dereg", "rst"}
  BY DEF Kinds
<1> QED
  BY <1>3, <1>4, <1>5, <1>6, HandlerStep

LEMMA HandleRegisterOK ==
  ASSUME ObserveInv, NEW t \in Tokens, HandleRegister(t)
  PROVE  ObserveInv'
<1> DEFINE m == <<"reg", t, 0>>
<1>1. ListOK /\ ServerTypes
  BY DEF ObserveInv, ListOK
<1>2. cb[t] # "none"
  BY DEF HandleRegister, ObserveInv, MessagesOK
<1>3. /\ UNCHANGED clientVars
      /\ conPending' = conPending \cup Reminders(t)
      /\ due' = due \ Overdue(t)
      /\ seqNum' = seqNum
  BY DEF HandleRegister
<1>4. "regAck" \in Kinds \ {"dereg", "rst"}
  BY DEF Kinds
<1>5. net' \subseteq net \cup ReminderMessages(t) \cup {<<"regAck", t, 0>>}
  BY DEF HandleRegister
<1>6. ListOK' /\ Obs' \subseteq Obs \cup {t}
  <2>1. CASE UNCHANGED <<observers, obsId, failedComm, lowQos, forceHigh, handlerView>>
             /\ stuck' \in BOOLEAN
    <3>1. ServerTypes'
      BY <1>1, <1>3, <2>1 DEF ServerTypes
    <3> QED
      BY <1>1, <2>1, <3>1, ListKept
  <2>2. CASE t \notin Obs /\ UNCHANGED stuck
             /\ \E id \in FreeIds : /\ AddObserver(t, id)
                                    /\ handlerView' = handlerView \cup {id}
    BY <1>1, <1>3, <2>2, AddedObserver
  <2>3. stuck \in BOOLEAN
    BY <1>1 DEF ServerTypes
  <2> QED
    BY <2>1, <2>2, <2>3 DEF HandleRegister
<1> QED
  BY <1>2, <1>3, <1>4, <1>5, <1>6, HandlerStep

LEMMA HandleDeregisterOK ==
  ASSUME ObserveInv, NEW t \in Tokens, HandleDeregister(t)
  PROVE  ObserveInv'
<1>1. ListOK /\ ServerTypes
  BY DEF ObserveInv, ListOK
<1>2. cb[t] # "none"
  BY DEF HandleDeregister, ObserveInv, MessagesOK
<1>3. /\ UNCHANGED clientVars
      /\ conPending' = conPending \cup Reminders(t)
      /\ UNCHANGED <<seqNum, stuck>>
  BY DEF HandleDeregister
<1>4. CASE /\ t \in Obs /\ RemoveObserver(t)
           /\ net' \subseteq net \cup ReminderMessages(t) \cup {<<"deregAck", t, 0>>}
  <2>1. ListOK' /\ Obs' \subseteq Obs \cup {t}
    BY <1>1, <1>3, <1>4, RemovedObserver
  <2>2. "deregAck" \in Kinds \ {"dereg", "rst"}
    BY DEF Kinds
  <2> QED
    BY <1>2, <1>3, <1>4, <2>1, <2>2, HandlerStep
<1>5. CASE /\ due' = due \ Overdue(t)
           /\ net' \subseteq net \cup ReminderMessages(t) \cup {<<"error", t, 0>>}
           /\ UNCHANGED <<observers, obsId, failedComm, lowQos, forceHigh, handlerView>>
  <2>1. ServerTypes'
    BY <1>1, <1>3, <1>5 DEF ServerTypes
  <2>2. ListOK' /\ Obs' \subseteq Obs \cup {t}
    BY <1>1, <1>5, <2>1, ListKept
  <2>3. "error" \in Kinds \ {"dereg", "rst"}
    BY DEF Kinds
  <2> QED
    BY <1>2, <1>3, <1>5, <2>2, <2>3, HandlerStep
<1> QED
  BY <1>4, <1>5 DEF HandleDeregister, DirectResponse

(* What the end of an exchange does to the list.                           *)
LEMMA FeedBackOK ==
  ASSUME ListOK, NEW t \in Tokens, UNCHANGED <<seqNum, stuck>>,
         \/ t \in Obs /\ RemoveObserver(t)
         \/ StillInterested(t)
         \/ t \in Obs /\ FailedComm(t)
         \/ due' = due \ Overdue(t)
            /\ UNCHANGED <<observers, obsId, failedComm, lowQos, forceHigh, handlerView>>
         \/ UNCHANGED <<observers, obsId, failedComm, lowQos, forceHigh, handlerView, due>>
  PROVE  ListOK' /\ Obs' \subseteq Obs
<1>1. CASE t \in Obs /\ RemoveObserver(t)
  BY <1>1, RemovedObserver
<1>2. CASE /\ failedComm' \in [Tokens -> 0 .. MaxFailed]
           /\ forceHigh' \subseteq Tokens
           /\ due' \subseteq due
           /\ UNCHANGED <<observers, obsId, lowQos, handlerView>>
  <2>1. ServerTypes'
    BY <1>2 DEF ListOK, ServerTypes
  <2> QED
    BY <1>2, <2>1, ListKept
<1>3. CASE StillInterested(t)
  <2>1. /\ failedComm' \in [Tokens -> 0 .. MaxFailed]
        /\ forceHigh' \subseteq Tokens
    BY <1>3, LimitAssumption DEF ListOK, ServerTypes, StillInterested
  <2> QED
    BY <1>2, <1>3, <2>1 DEF StillInterested
<1>4. CASE t \in Obs /\ FailedComm(t)
  <2>1. CASE RemoveObserver(t)
    BY <1>1, <1>4, <2>1
  <2>2. CASE /\ failedComm[t] < MaxFailed
             /\ failedComm' = [failedComm EXCEPT ![t] = @ + 1]
             /\ forceHigh' = forceHigh \cup {t}
             /\ due' = due \ Overdue(t)
             /\ UNCHANGED <<observers, obsId, lowQos, handlerView>>
    <3>1. /\ failedComm' \in [Tokens -> 0 .. MaxFailed]
          /\ forceHigh' \subseteq Tokens
      BY <2>2, LimitAssumption DEF ListOK, ServerTypes
    <3> QED
      BY <1>2, <2>2, <3>1
  <2> QED
    BY <1>4, <2>1, <2>2 DEF FailedComm
<1>5. CASE /\ due' \subseteq due
           /\ UNCHANGED <<observers, obsId, failedComm, lowQos, forceHigh, handlerView>>
  BY <1>2, <1>5 DEF ListOK, ServerTypes
<1> QED
  BY <1>1, <1>3, <1>4, <1>5

LEMMA HandleReplyOK ==
  ASSUME ObserveInv, NEW kind \in {"ack", "rst"}, NEW t \in Tokens, NEW n \in Numbers,
         HandleReply(kind, t, n)
  PROVE  ObserveInv'
<1>1. ListOK
  BY DEF ObserveInv, ListOK
<1>2. cb[t] # "none"
  BY DEF HandleReply, ObserveInv, MessagesOK
<1>3. ListOK' /\ Obs' \subseteq Obs
  BY <1>1, FeedBackOK DEF HandleReply
<1>4. /\ UNCHANGED clientVars
      /\ conPending' \subseteq conPending \cup Reminders(t)
      /\ net' \subseteq net \cup ReminderMessages(t)
  BY DEF HandleReply
<1>5. "ack" \in Kinds \ {"dereg", "rst"}
  BY DEF Kinds
<1> QED
  BY <1>2, <1>3, <1>4, <1>5, HandlerStep

LEMMA NotificationTimeoutOK ==
  ASSUME ObserveInv, NEW t \in Tokens, NEW n \in Numbers, NotificationTimeout(t, n)
  PROVE  ObserveInv'
<1>1. ListOK
  BY DEF ObserveInv, ListOK
<1>2. cb[t] # "none"
  BY DEF NotificationTimeout, ObserveInv, PendingOK
<1>3. ListOK' /\ Obs' \subseteq Obs
  BY <1>1, FeedBackOK DEF NotificationTimeout
<1>4. /\ UNCHANGED clientVars
      /\ conPending' \subseteq conPending \cup Reminders(t)
      /\ net' \subseteq net \cup ReminderMessages(t)
  BY DEF NotificationTimeout
<1>5. "ack" \in Kinds \ {"dereg", "rst"}
  BY DEF Kinds
<1> QED
  BY <1>2, <1>3, <1>4, <1>5, HandlerStep

-----------------------------------------------------------------------------
(* The clients' actions and the network: each adds at most one request and *)
(* one message, for a token that is registered.                            *)

LEMMA ClientSends ==
  ASSUME ObserveInv, UNCHANGED serverVars, Moved, ClientTypes',
         NEW t \in Tokens, NEW n \in Numbers, NEW k \in Kinds,
         cb'[t] # "none", k = "dereg" => t \in cancelled', k = "rst" => cb'[t] = "gone",
         requests' \subseteq requests \cup (({k} \cap Requests) \X {t}),
         net' \subseteq net \cup {<<k, t, n>>}
  PROVE  ObserveInv'
<1>1. RequestsOK'
  BY ClientStep DEF RequestsOK
<1>2. MessagesOK'
  BY ClientStep DEF MessagesOK
<1> QED
  BY <1>1, <1>2, ClientStep DEF ObserveInv

LEMMA CbTypes ==
  ASSUME ObserveInv
  PROVE  /\ cb \in [Tokens -> {"none", "active", "gone"}]
         /\ ClientTypes
  BY DEF ObserveInv, ClientTypes

LEMMA KindFacts ==
  /\ {"reg", "dereg", "con", "ack", "rst"} \subseteq Kinds
  /\ Requests \subseteq Kinds
  BY DEF Kinds, Requests

LEMMA ObserveOK ==
  ASSUME ObserveInv, NEW t \in Tokens, Observe(t)
  PROVE  ObserveInv'
<1>1. Moved /\ ClientTypes' /\ cb'[t] # "none"
  BY CbTypes DEF Observe, AddClientCB, Moved, ClientTypes
<1>2. requests' \subseteq requests \cup (({"reg"} \cap Requests) \X {t})
  BY DEF Observe, Requests
<1> QED
  BY <1>1, <1>2, KindFacts, NumberFacts, ClientSends DEF Observe

LEMMA CancelLowOK ==
  ASSUME ObserveInv, NEW t \in Tokens, CancelLow(t)
  PROVE  ObserveInv'
<1>1. Moved /\ ClientTypes' /\ cb'[t] # "none"
  BY CbTypes DEF CancelLow, DeleteClientCB, Moved, ClientTypes
<1> QED
  BY <1>1, KindFacts, NumberFacts, ClientSends DEF CancelLow

LEMMA CancelHighOK ==
  ASSUME ObserveInv, NEW t \in Tokens, CancelHigh(t)
  PROVE  ObserveInv'
<1>1. Moved /\ ClientTypes' /\ cb'[t] # "none" /\ t \in cancelled'
  BY CbTypes DEF CancelHigh, Moved, ClientTypes
<1>2. requests' \subseteq requests \cup (({"dereg"} \cap Requests) \X {t})
  BY DEF CancelHigh, Requests
<1> QED
  BY <1>1, <1>2, KindFacts, NumberFacts, ClientSends DEF CancelHigh

LEMMA CallBackMoves ==
  ASSUME ObserveInv, NEW t \in Tokens, NEW n \in Numbers, cb[t] # "none", cancelled' = cancelled,
         \/ CallBack(t, n)
         \/ LastCallBack(t)
         \/ NoCallBack
  PROVE  Moved /\ ClientTypes' /\ cb'[t] # "none"
<1>1. CASE CallBack(t, n)
  BY <1>1, CbTypes DEF CallBack, DeleteClientCB, Moved, ClientTypes
<1>2. CASE LastCallBack(t)
  BY <1>2, CbTypes DEF LastCallBack, DeleteClientCB, Moved, ClientTypes
<1>3. CASE NoCallBack
  BY <1>3, CbTypes DEF NoCallBack, Moved, ClientTypes
<1> QED
  BY <1>1, <1>2, <1>3

LEMMA HandleResponseOK ==
  ASSUME ObserveInv, NEW kind \in {"regAck", "deregAck", "error"}, NEW t \in Tokens,
         HandleResponse(kind, t)
  PROVE  ObserveInv'
<1>1. cb[t] # "none"
  BY DEF HandleResponse, ObserveInv, MessagesOK
<1>2. 0 \in Numbers /\ 1 \in Numbers
  BY LimitAssumption DEF Numbers
<1>3. \/ CallBack(t, 0)
      \/ CallBack(t, 1)
      \/ LastCallBack(t)
      \/ NoCallBack
  BY DEF HandleResponse
<1>4. UNCHANGED serverVars /\ cancelled' = cancelled
  BY DEF HandleResponse
<1>5. Moved /\ ClientTypes' /\ cb'[t] # "none"
  BY <1>1, <1>2, <1>3, <1>4, CallBackMoves
<1>6. requests' \subseteq requests /\ net' \subseteq net
  BY DEF HandleResponse
<1> QED
  BY <1>2, <1>4, <1>5, <1>6, KindFacts, ClientSends

LEMMA HandleNotificationOK ==
  ASSUME ObserveInv, NEW kind \in {"con", "non"}, NEW t \in Tokens, NEW n \in Numbers,
         HandleNotification(kind, t, n)
  PROVE  ObserveInv'
<1>1. cb[t] # "none"
  BY DEF HandleNotification, ObserveInv, MessagesOK
<1>2. UNCHANGED serverVars /\ cancelled' = cancelled /\ requests' = requests
  BY DEF HandleNotification
<1>3. CallBack(t, n) \/ NoCallBack
  BY DEF HandleNotification
<1>4. Moved /\ ClientTypes' /\ cb'[t] # "none"
  BY <1>1, <1>2, <1>3, CallBackMoves
<1>5. CASE net' \subseteq net \cup {<<"ack", t, n>>}
  BY <1>2, <1>4, <1>5, KindFacts, ClientSends
<1>6. CASE cb[t] # "active" /\ net' \subseteq net \cup {<<"rst", t, n>>}
  <2>1. cb[t] = "gone"
    BY <1>1, <1>6, CbTypes
  <2>2. cb'[t] = "gone"
    BY <1>4, <2>1 DEF Moved
  <2> QED
    BY <1>2, <1>4, <1>6, <2>2, KindFacts, ClientSends
<1> QED
  BY <1>5, <1>6 DEF HandleNotification

LEMMA RequestTimeoutOK ==
  ASSUME ObserveInv, NEW kind \in Requests, NEW t \in Tokens, RequestTimeout(kind, t)
  PROVE  ObserveInv'
<1>1. cb[t] # "none"
  BY DEF RequestTimeout, ObserveInv, RequestsOK
<1>2. Moved /\ ClientTypes' /\ cb'[t] # "none"
  BY <1>1, NumberFacts, CallBackMoves DEF RequestTimeout
<1>3. UNCHANGED serverVars /\ requests' \subseteq requests /\ net' = net
  BY DEF RequestTimeout
<1> QED
  BY <1>2, <1>3, KindFacts, NumberFacts, ClientSends

LEMMA CallbackTimesOutOK ==
  ASSUME ObserveInv, NEW t \in Tokens, CallbackTimesOut(t)
  PROVE  ObserveInv'
<1>1. Moved /\ ClientTypes' /\ cb'[t] # "none"
  BY CbTypes DEF CallbackTimesOut, DeleteClientCB, Moved, ClientTypes
<1> QED
  BY <1>1, KindFacts, NumberFacts, ClientSends DEF CallbackTimesOut

(* Losing a message, and doing nothing.                                    *)
LEMMA LoseOK ==
  ASSUME ObserveInv, UNCHANGED <<serverVars, clientVars>>, net' \subseteq net
  PROVE  ObserveInv'
<1>1. ServerTypes' /\ ListOK /\ UNCHANGED <<observers, obsId, handlerView, conPending>>
  BY DEF ObserveInv, ListOK, ServerTypes, serverVars
<1>2. ListOK' /\ Obs' = Obs
  BY <1>1, ListKept
<1>3. Exchanges({}) /\ Answers({})
  BY DEF Exchanges, Answers
<1>4. \A t \in Obs' : cb[t] # "none"
  BY <1>2 DEF ObserveInv, Began
<1> QED
  BY <1>1, <1>2, <1>3, <1>4, ServerStep

LEMMA ResendRequestOK ==
  ASSUME ObserveInv, NEW kind \in Requests, NEW t \in Tokens, ResendRequest(kind, t)
  PROVE  ObserveInv'
<1>1. cb[t] # "none" /\ (kind = "dereg" => t \in cancelled)
  BY DEF ResendRequest, ObserveInv, RequestsOK
<1>2. Moved /\ ClientTypes' /\ cb' = cb /\ cancelled' = cancelled /\ requests' = requests
  BY CbTypes DEF ResendRequest, clientVars, Moved, ClientTypes
<1>3. kind # "rst"
  BY DEF Requests
<1> QED
  BY <1>1, <1>2, <1>3, KindFacts, NumberFacts, ClientSends DEF ResendRequest

LEMMA ResendNotificationOK ==
  ASSUME ObserveInv, NEW t \in Tokens, NEW n \in Numbers, ResendNotification(t, n)
  PROVE  ObserveInv'
<1>1. cb[t] # "none"
  BY DEF ResendNotification, ObserveInv, PendingOK
<1>2. Moved /\ ClientTypes' /\ cb' = cb /\ requests' = requests
  BY CbTypes DEF ResendNotification, clientVars, Moved, ClientTypes
<1> QED
  BY <1>1, <1>2, KindFacts, ClientSends DEF ResendNotification

-----------------------------------------------------------------------------
(* The theorems.                                                           *)

LEMMA InitOK == Init => ObserveInv
<1> SUFFICES ASSUME Init PROVE ObserveInv
  OBVIOUS
<1>0. <<>> \in Seq(Tokens) /\ 0 \in 0 .. MaxFailed /\ 0 \in 0 .. MaxNon
  BY LimitAssumption
<1>1. ServerTypes
  BY <1>0, NumberFacts DEF Init, ServerTypes
<1>2. ClientTypes
  BY NumberFacts DEF Init, ClientTypes
<1>3. observers = <<>> /\ Obs = {}
  BY DEF Init, Obs
<1>4. NoDuplicateObserver /\ HandlerAgrees /\ Began
  BY <1>3 DEF Init, NoDuplicateObserver, HandlerAgrees, Began
<1>5. PendingOK /\ RequestsOK /\ MessagesOK
  BY DEF Init, PendingOK, RequestsOK, MessagesOK
<1> QED
  BY <1>1, <1>2, <1>4, <1>5 DEF ObserveInv

LEMMA NextOK == ObserveInv /\ [Next]_vars => ObserveInv'
<1> SUFFICES ASSUME ObserveInv, [Next]_vars PROVE ObserveInv'
  OBVIOUS
<1>1. CASE Application
  BY <1>1, NotifyAllOK, NotifyOneOK, ObserveOK, CancelLowOK, CancelHighOK DEF Application
<1>2. CASE Server
  BY <1>2, BecomesDueOK, HandleRegisterOK, HandleDeregisterOK, HandleReplyOK,
     NotificationTimeoutOK DEF Server
<1>3. CASE Client
  BY <1>3, HandleResponseOK, HandleNotificationOK, RequestTimeoutOK, CallbackTimesOutOK
     DEF Client
<1>4. CASE Network
  <2>1. ASSUME NEW m \in net, Lose(m) PROVE ObserveInv'
    <3>1. UNCHANGED <<serverVars, clientVars>> /\ net' \subseteq net
      BY <2>1 DEF Lose
    <3> QED
      BY <3>1, LoseOK
  <2> QED
    BY <1>4, <2>1, ResendRequestOK, ResendNotificationOK DEF Network
<1>5. CASE UNCHANGED vars
  <2>1. UNCHANGED <<serverVars, clientVars>> /\ net' \subseteq net
    BY <1>5 DEF vars, serverVars, clientVars
  <2> QED
    BY <2>1, LoseOK
<1> QED
  BY <1>1, <1>2, <1>3, <1>4, <1>5 DEF Next

(* ObserveInv holds in every reachable state.                              *)
THEOREM Invariance == Spec => []ObserveInv
  BY InitOK, NextOK, PTL DEF Spec

(* The variables keep their types: the sequence number wraps below         *)
(* MAX_SEQUENCE_NUMBER, the counters stay at or below their limits.        *)
THEOREM TypeCorrect == Spec => []TypeOK
<1>1. ObserveInv => TypeOK
  BY DEF ObserveInv, ServerTypes, ClientTypes, PendingOK, RequestsOK, MessagesOK, TypeOK
<1> QED
  BY <1>1, Invariance, PTL

(* A registration that is retransmitted, duplicated or delayed, also one   *)
(* that arrives after the observer was removed, leaves at most one         *)
(* observer for its token (AddObserver, ocobserve.c).                      *)
THEOREM OneObserver == Spec => []NoDuplicateObserver
<1>1. ObserveInv => NoDuplicateObserver
  BY DEF ObserveInv
<1> QED
  BY <1>1, Invariance, PTL

(* The entity handler has been told of exactly the observers in the list,  *)
(* and their ids differ: however registrations, deregistrations, RSTs and  *)
(* communication failures interleave.                                      *)
THEOREM HandlerIsTold == Spec => []HandlerAgrees
<1>1. ObserveInv => HandlerAgrees
  BY DEF ObserveInv
<1> QED
  BY <1>1, Invariance, PTL

(* Why an observer may leave the list.                                     *)
Caused(t) == cb[t] = "gone" \/ t \in cancelled \/ failedComm[t] = MaxFailed

RemovalsCaused == \A t \in Obs : t \notin Obs' => Caused(t)

LEMMA DeregisterCaused ==
  ASSUME ObserveInv, NEW t \in Tokens, HandleDeregister(t)
  PROVE  RemovalsCaused
<1>1. ListOK /\ UNCHANGED <<seqNum, stuck>>
  BY DEF ObserveInv, ListOK, HandleDeregister
<1>2. t \in cancelled
  BY DEF HandleDeregister, ObserveInv, MessagesOK
<1>3. Obs \ {t} \subseteq Obs'
  <2>1. CASE t \in Obs /\ RemoveObserver(t)
    BY <1>1, <2>1, RemovedObserver
  <2>2. CASE observers' = observers
    BY <2>2 DEF Obs
  <2> QED
    BY <2>1, <2>2 DEF HandleDeregister
<1> QED
  BY <1>2, <1>3 DEF RemovalsCaused, Caused

LEMMA ReplyCaused ==
  ASSUME ObserveInv, NEW kind \in {"ack", "rst"}, NEW t \in Tokens, NEW n \in Numbers,
         HandleReply(kind, t, n)
  PROVE  RemovalsCaused
<1>1. ListOK /\ UNCHANGED <<seqNum, stuck>>
  BY DEF ObserveInv, ListOK, HandleReply
<1>2. CASE kind = "rst" /\ t \in Obs /\ RemoveObserver(t)
  <2>1. cb[t] = "gone"
    BY <1>2 DEF HandleReply, ObserveInv, MessagesOK
  <2>2. Obs' = Obs \ {t}
    BY <1>1, <1>2, RemovedObserver
  <2> QED
    BY <2>1, <2>2 DEF RemovalsCaused, Caused
<1>3. CASE observers' = observers
  BY <1>3 DEF RemovalsCaused, Obs
<1> QED
  BY <1>2, <1>3 DEF HandleReply, StillInterested

LEMMA TimeoutCaused ==
  ASSUME ObserveInv, NEW t \in Tokens, NEW n \in Numbers, NotificationTimeout(t, n)
  PROVE  RemovalsCaused
<1>1. ListOK /\ UNCHANGED <<seqNum, stuck>>
  BY DEF ObserveInv, ListOK, NotificationTimeout
<1>2. CASE t \in Obs /\ failedComm[t] >= MaxFailed /\ RemoveObserver(t)
  <2>1. failedComm[t] = MaxFailed
    BY <1>1, <1>2, LimitAssumption DEF ListOK, ServerTypes
  <2>2. Obs' = Obs \ {t}
    BY <1>1, <1>2, RemovedObserver
  <2> QED
    BY <2>1, <2>2 DEF RemovalsCaused, Caused
<1>3. CASE observers' = observers
  BY <1>3 DEF RemovalsCaused, Obs
<1> QED
  BY <1>2, <1>3 DEF NotificationTimeout, FailedComm

LEMMA RegisterCaused ==
  ASSUME ObserveInv, NEW t \in Tokens, HandleRegister(t)
  PROVE  RemovalsCaused
<1>1. CASE observers' = observers
  BY <1>1 DEF RemovalsCaused, Obs
<1>2. CASE t \notin Obs /\ observers' = Append(observers, t)
  <2>1. Distinct(observers) /\ observers \in Seq(Tokens) /\ t \notin Elems(observers)
    BY <1>2, ObsIsElems DEF ObserveInv, NoDuplicateObserver, Distinct, ServerTypes
  <2>2. Elems(observers') = Obs \cup {t}
    BY <1>2, <2>1, AppendSpec, ObsIsElems
  <2> QED
    BY <2>2 DEF RemovalsCaused, Obs, Elems
<1> QED
  BY <1>1, <1>2 DEF HandleRegister, AddObserver

LEMMA StepCaused == ObserveInv /\ [Next]_vars => RemovalsCaused
<1> SUFFICES ASSUME ObserveInv, [Next]_vars PROVE RemovalsCaused
  OBVIOUS
<1>1. CASE observers' = observers
  BY <1>1 DEF RemovalsCaused, Obs
<1>2. CASE Application
  BY <1>1, <1>2 DEF Application, NotifyAll, NotifyOne, Observe, CancelLow, CancelHigh, serverVars
<1>3. CASE Server
  <2>1. ASSUME NEW t \in Tokens, BecomesDue(t) PROVE RemovalsCaused
    BY <1>1, <2>1 DEF BecomesDue
  <2> QED
    BY <1>3, <2>1, RegisterCaused, DeregisterCaused, ReplyCaused, TimeoutCaused DEF Server
<1>4. CASE Client
  BY <1>1, <1>4 DEF Client, HandleResponse, HandleNotification, RequestTimeout, CallbackTimesOut,
     serverVars
<1>5. CASE Network
  BY <1>1, <1>5 DEF Network, Lose, ResendRequest, ResendNotification, serverVars
<1>6. CASE UNCHANGED vars
  BY <1>1, <1>6 DEF vars
<1> QED
  BY <1>2, <1>3, <1>4, <1>5, <1>6 DEF Next

(* An observer leaves the list only when its client is gone or has called  *)
(* OCCancel, or after MAX_OBSERVER_FAILED_COMM + 1 time-outs: neither a    *)
(* stale ACK, a late RST nor another observer's failure takes it out.      *)
THEOREM RemovalHasCause == Spec => RemovedForCause
<1>1. ObserveInv /\ [Next]_vars =>
        [\A t \in Obs : t \notin Obs' =>
           cb[t] = "gone" \/ t \in cancelled \/ failedComm[t] = MaxFailed]_vars
  BY StepCaused DEF RemovalsCaused, Caused
<1> QED
  BY <1>1, Invariance, PTL DEF Spec, RemovedForCause
=============================================================================
