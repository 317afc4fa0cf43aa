------------------------ MODULE OCServerRequestProofs ------------------------
(***************************************************************************)
(* Theorems about OCServerRequest, for any number of messages, of copies   *)
(* of them and of resources in the collection.                             *)
(***************************************************************************)
EXTENDS OCServerRequest, FiniteSetTheorems, TLAPS

(* The inductive invariant.                                                *)

Types ==
  /\ target \in [Messages -> Targets] /\ con \in [Messages -> BOOLEAN]
  /\ copies \in [Messages -> 0..MaxCopies]
  /\ request \subseteq Request
  /\ handles \in Nat
  /\ owed \in [Handles -> Nat]
  /\ observing \in BOOLEAN
  /\ acked \subseteq Messages /\ replied \subseteq Messages
  /\ refusals \subseteq Messages
  /\ unsent \subseteq Handles /\ freedUse \subseteq Handles
  /\ met \subseteq [msg : Messages, of : Messages, id : Handles]

(* The copies that have arrived; each makes at most one request.           *)
Arrived == {p \in Messages \X (1..MaxCopies) : p[2] <= copies[p[1]]}

Allocated ==
  /\ handles <= Cardinality(Arrived)
  /\ \A r, s \in request : r = s
  /\ \A r \in request : r.id <= handles
  /\ \A x \in met : x.id <= handles
  /\ \A h \in Handles : owed[h] > 0 => h <= handles

(* Whatever the stack holds or has done for a message, the message has     *)
(* arrived; and a request in the tree has been handled.                    *)
Caused ==
  /\ \A m \in replied \cup refusals : copies[m] > 0
  /\ \A x \in met : copies[x.msg] > 0 /\ copies[x.of] > 0
  /\ \A r \in request : \E x \in met : x.id = r.id /\ x.of = r.of

(* The client: when it uses the token again the messages before have been  *)
(* answered.                                                               *)
InTurn ==
  \A m \in Messages : copies[m] > 0 =>
    \A k \in Messages : k < m => k \in replied \cup refusals

(* A request whose message has been answered was made from a later copy.   *)
AnsweredAgain == \A r \in request : r.of \in replied => copies[r.of] > 1

(* The count of fragments covers the answers that are owed.                *)
Counted ==
  \A r \in request :
    /\ r.numResponses >= 1
    /\ target[r.of] # "batch" => r.numResponses = 1
    /\ Once(r.id) => owed[r.id] <= r.numResponses

SRInv ==
  /\ Types /\ Allocated /\ Caused /\ InTurn /\ AnsweredAgain /\ Counted
  /\ HandleValid /\ LeftInTree /\ OwnRequest

-----------------------------------------------------------------------------
(* What the handlers do to the state, as far as the invariant is concerned. *)

(* The request r that a message m is handled with.                         *)
Handled(m, r) ==
  /\ r \in Found(m) /\ r \in Request
  /\ handles' = (IF request = {} THEN handles + 1 ELSE handles)
  /\ copies[m] < MaxCopies /\ (copies[m] = 0 => MaySend(m))
  /\ copies' = [copies EXCEPT ![m] = @ + 1]
  /\ met' = met \cup {[msg |-> m, of |-> r.of, id |-> r.id]}
  /\ target' = target /\ con' = con

(* It is released, or kept as q with k more answers to come; in the first  *)
(* case, and in no other, the client may have been given a response.       *)
Released(r) ==
  /\ request' = {} /\ owed' = owed
  /\ replied' = replied \/ replied' = replied \cup {r.of}

Kept(r, q, k) ==
  /\ q \in Request /\ request' = {q} /\ replied' = replied
  /\ q.id = r.id /\ q.of = r.of /\ q.numResponses >= 1 /\ k \in 0..q.numResponses
  /\ target[r.of] # "batch" => q.numResponses = r.numResponses
  /\ owed' = [owed EXCEPT ![r.id] = @ + k]

(* A handler changes the request it was given as Released or Kept say, and *)
(* leaves a request behind only for an answer to come, after a refusal or  *)
(* a response that could not be sent, or for a batch.                      *)
Effect(m, r) ==
  /\ refusals' = refusals \/ refusals' = refusals \cup {m}
  /\ unsent' = unsent \/ unsent' = unsent \cup {r.id}
  /\ \/ Released(r)
     \/ \E q \in Request, k \in Nat :
          /\ Kept(r, q, k)
          /\ k > 0 \/ m \in refusals' \/ r.id \in unsent' \/ target[r.of] = "batch"

LEMMA MessagesType ==
  /\ MaxMessages \in Nat \ {0} /\ MaxCopies \in Nat \ {0} /\ NumChildren \in Nat \ {0}
  /\ \A m \in Messages : m \in Nat
  /\ \A h \in Handles : h \in Nat
  BY ServerRequestAssumption DEF Messages, Handles

LEMMA ProductType == MaxMessages * MaxCopies \in Nat
  BY ServerRequestAssumption

(* Every handler OCHandleRequests may call has such an effect on the       *)
(* request, the answers owed and the answers given.                        *)
LEMMA HandlerEffect ==
  ASSUME Types, NEW m \in Messages, NEW r \in Request, r.numResponses >= 1,
         \/ Refused(m, r) \/ HandleVirtualResource(m, r) \/ AlreadyObserving(m, r)
         \/ HandleResourceWithEntityHandler(m, r) \/ HandleBatchInterface(m, r)
  PROVE  Effect(m, r)
<1> USE MessagesType
<1>1. r.id \in Handles /\ r.numResponses \in Nat /\ owed[r.id] \in Nat
  <2>1. r.id \in Handles
    BY DEF Request
  <2>2. r.numResponses \in Nat
    BY DEF Request
  <2>3. owed \in [Handles -> Nat]
    BY DEF Types
  <2> QED
    BY <2>1, <2>2, <2>3
<1>2. owed = [owed EXCEPT ![r.id] = @ + 0]
  BY <1>1 DEF Types
<1>3. ASSUME request' = {r}, UNCHANGED <<owed, replied>>,
             m \in refusals' \/ r.id \in unsent',
             unsent' = unsent \/ unsent' = unsent \cup {r.id},
             refusals' = refusals \/ refusals' = refusals \cup {m}
      PROVE  Effect(m, r)
  <2>1. Kept(r, r, 0)
    BY <1>1, <1>2, <1>3 DEF Kept
  <2> QED
    BY <2>1, <1>3 DEF Effect
<1>4. ASSUME HandleSingleResponse(r), UNCHANGED owed
      PROVE  Effect(m, r)
  <2>1. CASE SendResponse(r) /\ request' = {}
    BY <1>4, <2>1 DEF SendResponse, Effect, Released
  <2>2. CASE GiveUp(r) /\ request' = {r}
    BY <1>3, <1>4, <2>2 DEF GiveUp
  <2> QED
    BY <1>4, <2>1, <2>2 DEF HandleSingleResponse
<1>5. ASSUME request' = {}, UNCHANGED <<owed, replied>>,
             unsent' = unsent \/ unsent' = unsent \cup {r.id},
             refusals' = refusals \/ refusals' = refusals \cup {m}
      PROVE  Effect(m, r)
  BY <1>5 DEF Effect, Released
<1>6. CASE Refused(m, r)
  BY <1>3, <1>6 DEF Refused, DirectResponse
<1>7. CASE HandleVirtualResource(m, r)
  BY <1>3, <1>4, <1>5, <1>7 DEF HandleVirtualResource, Silent, EmptyAck, DirectResponse
<1>8. CASE AlreadyObserving(m, r)
  BY <1>5, <1>8 DEF AlreadyObserving, Silent
<1>9. CASE HandleResourceWithEntityHandler(m, r)
  <2>1. CASE HandleSingleResponse(r) /\ UNCHANGED owed
    BY <2>1, <1>4
  <2>2. CASE /\ request' = {[r EXCEPT !.slowFlag = TRUE]}
             /\ owed' = [owed EXCEPT ![r.id] = @ + 1]
             /\ EmptyAck(m)
    <3> DEFINE q == [r EXCEPT !.slowFlag = TRUE]
    <3>1. q \in Request /\ q.id = r.id /\ q.of = r.of /\ q.numResponses = r.numResponses
      BY DEF Request
    <3> HIDE DEF q
    <3>2. Kept(r, q, 1)
      BY <2>2, <3>1, <1>1 DEF Kept, EmptyAck, q
    <3> QED
      BY <2>2, <3>1, <3>2 DEF Effect, EmptyAck
  <2>3. CASE request' = {} /\ DirectResponse(m) /\ UNCHANGED owed
    BY <2>3, <1>5 DEF DirectResponse
  <2>4. CASE request' = {r} /\ DirectResponse(m) /\ UNCHANGED owed
    BY <2>4, <1>3 DEF DirectResponse
  <2>5. CASE request' = {r} /\ Silent /\ owed' = [owed EXCEPT ![r.id] = @ + 1]
    <3>1. Kept(r, r, 1)
      BY <2>5, <1>1 DEF Kept, Silent
    <3> QED
      BY <2>5, <3>1 DEF Effect, Silent
  <2> QED
    BY <1>9, <2>1, <2>2, <2>3, <2>4, <2>5
       DEF HandleResourceWithEntityHandler, CallEntityHandler
<1>10. CASE HandleBatchInterface(m, r)
  <2>1. PICK now, slow, later \in 0..NumChildren :
           /\ now + slow + later <= NumChildren
           /\ \/ now = NumChildren /\ LastFragment(r) /\ UNCHANGED owed
              \/ /\ now # NumChildren
                 /\ request' = {[r EXCEPT !.slowFlag = @ \/ slow > 0,
                                          !.numResponses = NumChildren - now]}
                 /\ owed' = [owed EXCEPT ![r.id] = @ + slow + later]
                 /\ IF slow > 0 THEN DirectResponse(m) ELSE Silent
                 /\ UNCHANGED freedUse
    BY <1>10 DEF HandleBatchInterface
  <2>2. CASE now = NumChildren /\ LastFragment(r) /\ UNCHANGED owed
    BY <2>2, <1>5 DEF LastFragment, SendResponse, GiveUp, Effect, Released
  <2>3. CASE now # NumChildren
    <3> DEFINE q == [r EXCEPT !.slowFlag = @ \/ slow > 0,
                              !.numResponses = NumChildren - now]
    <3>1. NumChildren - now \in 1..NumChildren /\ slow + later \in 0..(NumChildren - now)
      BY <2>1, <2>3
    <3>2. PICK b \in BOOLEAN :
            q = [r EXCEPT !.slowFlag = b, !.numResponses = NumChildren - now]
      BY Zenon
    <3>3. /\ q.id = r.id /\ q.of = r.of /\ q.numResponses = NumChildren - now
          /\ q \in Request
      <4> DEFINE n == NumChildren - now
      <4>1. n \in (0..NumChildren) \cup {1}
        BY <3>1
      <4>2. q = [r EXCEPT !.slowFlag = b, !.numResponses = n]
        BY <3>2
      <4> HIDE DEF q, n
      <4>3. q.id = r.id /\ q.of = r.of /\ q.numResponses = n
        BY <4>2 DEF Request
      <4>4. q \in Request
        BY <4>1, <4>2 DEF Request
      <4> QED
        BY <4>3, <4>4 DEF n
    <3>4. request' = {q}
      BY <2>1, <2>3
    <3>5. owed' = [owed EXCEPT ![r.id] = @ + (slow + later)]
      BY <2>1, <2>3, <1>1 DEF Types
    <3>6. target[r.of] = "batch"
      BY <1>10 DEF HandleBatchInterface
    <3>7. /\ replied' = replied /\ unsent' = unsent
          /\ refusals' = refusals \/ refusals' = refusals \cup {m}
      BY <2>1, <2>3 DEF DirectResponse, Silent
    <3> HIDE DEF q
    <3>8. Kept(r, q, slow + later)
      BY <3>1, <3>3, <3>4, <3>5, <3>6, <3>7 DEF Kept
    <3> QED
      BY <3>1, <3>3, <3>6, <3>7, <3>8 DEF Effect
  <2> QED
    BY <2>1, <2>2, <2>3
<1> QED
  BY <1>6, <1>7, <1>8, <1>9, <1>10

(* ... and keeps the types of what Effect does not mention.                *)
LEMMA HandlerTypes ==
  ASSUME Types, NEW m \in Messages, NEW r \in Request,
         \/ Refused(m, r) \/ HandleVirtualResource(m, r) \/ AlreadyObserving(m, r)
         \/ HandleResourceWithEntityHandler(m, r) \/ HandleBatchInterface(m, r)
  PROVE  acked' \subseteq Messages /\ freedUse' \subseteq Handles
         /\ observing' \in BOOLEAN
<1>1. r.of \in Messages /\ r.id \in Handles
  BY DEF Request
<1>2. ConOnly(m) \subseteq Messages /\ ConOnly(r.of) \subseteq Messages
  BY <1>1 DEF ConOnly
<1>3. \/ DirectResponse(m) \/ EmptyAck(m) \/ EmptyAck(r.of) \/ SendResponse(r)
      \/ GiveUp(r) \/ Silent
      => acked' \subseteq Messages
  BY <1>2 DEF DirectResponse, EmptyAck, SendResponse, GiveUp, Silent, Types
<1>4. acked' \subseteq Messages
  BY <1>3 DEF Refused, HandleVirtualResource, AlreadyObserving,
     HandleResourceWithEntityHandler, CallEntityHandler, HandleBatchInterface,
     LastFragment, HandleSingleResponse
<1>5. freedUse' \subseteq Handles /\ observing' \in BOOLEAN
  BY <1>1 DEF Refused, HandleVirtualResource, AlreadyObserving,
     HandleResourceWithEntityHandler, HandleBatchInterface, LastFragment, Types
<1> QED
  BY <1>4, <1>5

(* There are as many requests as copies have arrived, or fewer; and the    *)
(* network does not deliver more of them than there are handles.           *)
LEMMA ArrivedBound ==
  ASSUME Types
  PROVE  /\ IsFiniteSet(Arrived) /\ Cardinality(Arrived) \in Nat
         /\ Cardinality(Arrived) <= MaxMessages * MaxCopies
<1> USE MessagesType
<1>1. IsFiniteSet(Messages) /\ Cardinality(Messages) = MaxMessages
  BY FS_Interval DEF Messages
<1>2. IsFiniteSet(1..MaxCopies) /\ Cardinality(1..MaxCopies) = MaxCopies
  BY FS_Interval
<1>3. /\ IsFiniteSet(Messages \X (1..MaxCopies))
      /\ Cardinality(Messages \X (1..MaxCopies)) = MaxMessages * MaxCopies
  BY <1>1, <1>2, FS_Product
<1>4. Arrived \subseteq Messages \X (1..MaxCopies)
  BY DEF Arrived
<1> QED
  BY <1>3, <1>4, FS_Subset, FS_CardinalityType

LEMMA ArrivedGrows ==
  ASSUME Types, NEW m \in Messages, copies[m] < MaxCopies,
         copies' = [copies EXCEPT ![m] = @ + 1]
  PROVE  /\ Cardinality(Arrived') = Cardinality(Arrived) + 1
         /\ Cardinality(Arrived) + 1 <= MaxMessages * MaxCopies
<1> USE MessagesType
<1> DEFINE new == <<m, copies[m] + 1>>
<1>1. copies[m] \in 0..MaxCopies /\ copies[m] + 1 \in 1..MaxCopies
      /\ copies' \in [Messages -> 0..MaxCopies]
  BY DEF Types
<1>2. Arrived' = Arrived \cup {new}
  <2>1. ASSUME NEW p \in Messages \X (1..MaxCopies)
        PROVE  p[2] <= copies'[p[1]] <=> p[2] <= copies[p[1]] \/ p = new
    <3>1. CASE p[1] = m
      <4>1. p = <<m, p[2]>> /\ p[2] \in Nat /\ copies'[p[1]] = copies[m] + 1
        BY <3>1, <1>1 DEF Types
      <4>2. p = new <=> p[2] = copies[m] + 1
        BY <4>1
      <4> QED
        BY <3>1, <4>1, <4>2, <1>1
    <3>2. CASE p[1] # m
      BY <3>2 DEF Types
    <3> QED
      BY <3>1, <3>2
  <2>2. new \in Messages \X (1..MaxCopies)
    BY <1>1
  <2> HIDE DEF new
  <2> QED
    BY <2>1, <2>2 DEF Arrived
<1>3. new \notin Arrived
  BY <1>1 DEF Arrived
<1>4. Cardinality(Arrived') = Cardinality(Arrived) + 1
  BY <1>2, <1>3, ArrivedBound, FS_AddElement
<1>5. Cardinality(Arrived \cup {new}) <= MaxMessages * MaxCopies
  <2>1. Arrived \cup {new} \subseteq Messages \X (1..MaxCopies)
    BY <1>1 DEF Arrived
  <2>2. IsFiniteSet(Messages) /\ Cardinality(Messages) = MaxMessages
    BY FS_Interval DEF Messages
  <2>3. IsFiniteSet(1..MaxCopies) /\ Cardinality(1..MaxCopies) = MaxCopies
    BY FS_Interval
  <2>4. /\ IsFiniteSet(Messages \X (1..MaxCopies))
        /\ Cardinality(Messages \X (1..MaxCopies)) = MaxMessages * MaxCopies
    BY <2>2, <2>3, FS_Product
  <2> QED
    BY <2>1, <2>4, FS_Subset
<1> QED
  BY <1>2, <1>4, <1>5

(* A message that is handled for the second time with a request, or a      *)
(* second one, makes Once false for it; for the others nothing changes.    *)
LEMMA OnceStep ==
  ASSUME Types, Allocated, Caused, NEW m \in Messages, NEW r, Handled(m, r),
         NEW h \in Handles, Once(h)'
  PROVE  Once(h) /\ (h = r.id => request = {})
<1> DEFINE new == [msg |-> m, of |-> r.of, id |-> r.id]
<1>1. met' = met \cup {new} /\ new.id = r.id /\ new.msg = m
  BY DEF Handled
<1>2. \A x \in met : x.msg \in Messages /\ copies[x.msg] \in Nat /\ copies[x.msg] > 0
  <2>1. \A x \in met : x.msg \in Messages
    BY DEF Types
  <2>2. \A n \in Messages : copies[n] \in Nat
    BY MessagesType DEF Types
  <2> QED
    BY <2>1, <2>2 DEF Caused
<1>3. \A n \in Messages : copies'[n] = IF n = m THEN copies[n] + 1 ELSE copies[n]
  BY DEF Types, Handled
<1>4. \A x \in met' : x.id = h => copies'[x.msg] = 1
  BY DEF Once
<1>5. \A x, y \in met' : x.id = h /\ y.id = h => x = y
  BY DEF Once
<1> HIDE DEF new
<1>6. Once(h)
  <2>1. \A x \in met : x.id = h => copies[x.msg] = 1
    BY <1>1, <1>2, <1>3, <1>4
  <2>2. \A x, y \in met : x.id = h /\ y.id = h => x = y
    BY <1>1, <1>5
  <2> QED
    BY <2>1, <2>2 DEF Once
<1>7. ASSUME h = r.id, request # {} PROVE FALSE
  <2>1. r \in request
    BY <1>7 DEF Handled, Found
  <2>2. PICK x \in met : x.id = r.id
    BY <2>1 DEF Caused
  <2>3. x = new
    BY <1>1, <1>5, <1>7, <2>2
  <2> QED
    BY <1>1, <1>2, <1>3, <1>4, <1>7, <2>2, <2>3
<1> QED
  BY <1>6, <1>7

(* The facts of the types that the steps below use.                        *)
LEMMA TypeFacts ==
  ASSUME Types
  PROVE  /\ \A m \in Messages : copies[m] \in Nat
         /\ \A h \in Handles : owed[h] \in Nat
         /\ \A r \in Request : r.id \in Handles /\ r.of \in Messages
                               /\ r.numResponses \in Nat
         /\ \A x \in met : x.id \in Handles /\ x.of \in Messages /\ x.msg \in Messages
  BY MessagesType DEF Types, Request

(* The same, in terms of what the parts of the invariant speak about.      *)
After(m, r) ==
  /\ refusals' = refusals \/ refusals' = refusals \cup {m}
  /\ unsent' = unsent \/ unsent' = unsent \cup {r.id}
  /\ replied' = replied \/ (replied' = replied \cup {r.of} /\ request' = {})
  /\ owed' \in [Handles -> Nat]
  /\ \A h \in Handles : h # r.id => owed'[h] = owed[h]
  /\ owed'[r.id] >= owed[r.id]
  /\ request' = {} => owed' = owed
  /\ \A q \in request' :
       /\ q \in Request /\ q.id = r.id /\ q.of = r.of /\ q.numResponses >= 1
       /\ target[r.of] # "batch" => q.numResponses = 1
       /\ owed'[r.id] <= owed[r.id] + q.numResponses
       /\ \/ owed'[r.id] > owed[r.id] \/ m \in refusals'
          \/ r.id \in unsent' \/ target[r.of] = "batch"
  /\ \A q, s \in request' : q = s

(* Handling a message keeps the invariant.                                 *)
LEMMA DeliverInv ==
  ASSUME SRInv, NEW m \in Messages, Deliver(m)
  PROVE  SRInv'
<1> USE MessagesType
<1>0. Types /\ Allocated /\ Caused /\ InTurn /\ AnsweredAgain /\ Counted
      /\ HandleValid /\ LeftInTree /\ OwnRequest
  BY DEF SRInv
<1>1. PICK r \in Found(m) :
        /\ handles' = (IF request = {} THEN handles + 1 ELSE handles)
        /\ met' = met \cup {[msg |-> m, of |-> r.of, id |-> r.id]}
        /\ \/ Refused(m, r) \/ HandleVirtualResource(m, r) \/ AlreadyObserving(m, r)
           \/ HandleResourceWithEntityHandler(m, r) \/ HandleBatchInterface(m, r)
  BY DEF Deliver
<1>2. /\ copies[m] < MaxCopies /\ (copies[m] = 0 => MaySend(m))
      /\ copies' = [copies EXCEPT ![m] = @ + 1] /\ target' = target /\ con' = con
  BY DEF Deliver
<1>3. handles' <= Cardinality(Arrived') /\ handles' \in Nat
      /\ handles + 1 <= MaxMessages * MaxCopies
  <2>1. handles \in Nat /\ handles <= Cardinality(Arrived)
    BY <1>0 DEF Allocated, Types
  <2>2. /\ Cardinality(Arrived') = Cardinality(Arrived) + 1
        /\ Cardinality(Arrived) + 1 <= MaxMessages * MaxCopies
    BY <1>0, <1>2, ArrivedGrows
  <2>3. Cardinality(Arrived) \in Nat
    BY <1>0, ArrivedBound
  <2> QED
    BY <1>1, <2>1, <2>2, <2>3, ProductType
<1>4. /\ r \in Request /\ r.numResponses >= 1
      /\ target[r.of] # "batch" => r.numResponses = 1
      /\ request = {} => r.id = handles + 1 /\ r.of = m
      /\ request # {} => request = {r} /\ r.id <= handles
  <2>1. CASE request = {}
    <3>1. r = [id |-> handles + 1, of |-> m, slowFlag |-> FALSE, numResponses |-> 1]
      BY <1>1, <2>1 DEF Found, AddServerRequest
    <3>2. handles + 1 \in Handles
      BY <1>0, <1>3, ProductType DEF Handles, Types
    <3> QED
      BY <2>1, <3>1, <3>2 DEF Request
  <2>2. CASE request # {}
    BY <1>0, <1>1, <2>2 DEF Found, Types, Allocated, Counted
  <2> QED
    BY <2>1, <2>2
<1>5. Handled(m, r) /\ Effect(m, r)
  BY <1>0, <1>1, <1>2, <1>4, HandlerEffect DEF Handled
<1>6. acked' \subseteq Messages /\ freedUse' \subseteq Handles /\ observing' \in BOOLEAN
  BY <1>0, <1>1, <1>4, HandlerTypes
<1>7. After(m, r)
  <2>0. r.id \in Handles /\ owed[r.id] \in Nat /\ owed \in [Handles -> Nat]
    BY <1>0, <1>4, TypeFacts DEF Types
  <2>1. CASE Released(r)
    BY <1>5, <2>0, <2>1 DEF Effect, Released, After
  <2>2. ASSUME NEW q \in Request, NEW k \in Nat, Kept(r, q, k),
               k > 0 \/ m \in refusals' \/ r.id \in unsent' \/ target[r.of] = "batch"
        PROVE  After(m, r)
    <3>1. /\ owed' = [owed EXCEPT ![r.id] = @ + k] /\ k \in 0..q.numResponses
          /\ q.numResponses \in Nat
      BY <2>2, <1>0, TypeFacts DEF Kept
    <3>2. owed' \in [Handles -> Nat] /\ owed'[r.id] = owed[r.id] + k
          /\ \A h \in Handles : h # r.id => owed'[h] = owed[h]
      BY <2>0, <3>1
    <3> QED
      BY <1>4, <1>5, <2>0, <2>2, <3>1, <3>2 DEF Effect, Kept, After
  <2> QED
    BY <1>5, <2>1, <2>2 DEF Effect
<1>8. /\ copies' \in [Messages -> 0..MaxCopies]
      /\ \A n \in Messages : copies'[n] = IF n = m THEN copies[n] + 1 ELSE copies[n]
  BY <1>0, <1>2 DEF Types
<1>9. /\ r.id \in Handles /\ r.of \in Messages
      /\ r.id \in Nat /\ r.of \in Nat /\ m \in Nat
  BY <1>4 DEF Request
<1> DEFINE new == [msg |-> m, of |-> r.of, id |-> r.id]
<1>10. met' = met \cup {new} /\ new.msg = m /\ new.of = r.of /\ new.id = r.id
  BY <1>1
<1>11. Types'
  <2>1. new \in [msg : Messages, of : Messages, id : Handles]
    BY <1>9
  <2>2. request' \subseteq Request
    BY <1>7 DEF After
  <2>3. replied' \subseteq Messages /\ refusals' \subseteq Messages /\ unsent' \subseteq Handles
    BY <1>0, <1>7, <1>9 DEF Types, After
  <2> HIDE DEF new
  <2> QED
    BY <1>0, <1>2, <1>3, <1>6, <1>7, <1>8, <1>10, <2>1, <2>2, <2>3 DEF Types, After
<1> HIDE DEF new
<1>12. /\ r.id <= handles' /\ handles \in Nat /\ handles <= handles'
       /\ \A n \in Messages : copies[n] \in Nat
       /\ \A h \in Handles : owed[h] \in Nat
  BY <1>0, <1>1, <1>4, TypeFacts DEF Types
<1>13. copies[r.of] > 0 \/ r.of = m
  <2>1. CASE request # {}
    BY <1>0, <1>4, <2>1 DEF Caused
  <2> QED
    BY <1>4, <2>1
<1>14. Allocated'
  <2>1. \A x \in met' : x.id <= handles'
    BY <1>0, <1>1, <1>10, <1>12, TypeFacts DEF Allocated
  <2>2. ASSUME NEW h \in Handles, owed'[h] > 0 PROVE h <= handles'
    <3>1. CASE h = r.id
      BY <1>12, <3>1
    <3>2. CASE h # r.id
      <4>1. owed[h] > 0
        BY <1>7, <2>2, <3>2 DEF After
      <4> QED
        BY <1>0, <1>3, <1>12, <4>1 DEF Allocated
    <3> QED
      BY <3>1, <3>2
  <2>3. \A q \in request' : q.id <= handles'
    BY <1>7, <1>12 DEF After
  <2> QED
    BY <1>3, <1>7, <2>1, <2>2, <2>3 DEF Allocated, After
<1>15. Caused'
  <2>0. /\ \A n \in Messages : copies[n] > 0 => copies'[n] > 0
        /\ copies'[m] > 0 /\ copies'[r.of] > 0
    BY <1>8, <1>9, <1>12, <1>13
  <2>1. \A n \in replied' \cup refusals' : copies'[n] > 0
    BY <1>0, <1>7, <2>0 DEF Caused, Types, After
  <2>2. \A x \in met' : copies'[x.msg] > 0 /\ copies'[x.of] > 0
    BY <1>0, <1>10, <2>0, TypeFacts DEF Caused
  <2>3. \A q \in request' : \E x \in met' : x.id = q.id /\ x.of = q.of
    BY <1>7, <1>10 DEF After
  <2> QED
    BY <2>1, <2>2, <2>3 DEF Caused
<1>16. InTurn'
  <2> SUFFICES ASSUME NEW n \in Messages, copies'[n] > 0, NEW k \in Messages, k < n
               PROVE  k \in replied' \cup refusals'
    BY DEF InTurn
  <2>1. CASE copies[n] > 0
    BY <1>0, <1>7, <2>1 DEF InTurn, After
  <2>2. CASE copies[n] = 0
    <3>1. n = m /\ MaySend(m)
      BY <1>2, <1>8, <2>2
    <3>2. m - 1 \in Messages /\ m - 1 \in replied \cup refusals
      BY <3>1 DEF MaySend, Messages
    <3>3. copies[m - 1] > 0
      BY <1>0, <3>2 DEF Caused
    <3>4. k = m - 1 \/ k < m - 1
      BY <3>1
    <3> QED
      BY <1>0, <1>7, <3>2, <3>3, <3>4 DEF InTurn, After
  <2> QED
    BY <2>1, <2>2, <1>12
<1>17. AnsweredAgain'
  <2> SUFFICES ASSUME NEW q \in request', q.of \in replied' PROVE copies'[q.of] > 1
    BY DEF AnsweredAgain
  <2>1. q.of = r.of /\ r.of \in replied
    BY <1>7 DEF After
  <2>2. CASE request = {}
    BY <1>0, <1>4, <1>8, <1>12, <2>1, <2>2 DEF Caused
  <2>3. CASE request # {}
    BY <1>0, <1>4, <1>8, <1>9, <1>12, <2>1, <2>3 DEF AnsweredAgain
  <2> QED
    BY <2>2, <2>3
<1>18. Counted'
  <2> SUFFICES ASSUME NEW q \in request', Once(q.id)' PROVE owed'[q.id] <= q.numResponses
    BY <1>2, <1>7 DEF Counted, After
  <2>1. q.id = r.id /\ request = {}
    BY <1>0, <1>5, <1>7, <1>9, OnceStep DEF After
  <2>2. owed[r.id] = 0
    BY <1>0, <1>4, <1>9, <1>12, <2>1 DEF Allocated
  <2>3. q.numResponses \in Nat
    BY <1>0, <1>7, TypeFacts DEF After
  <2> QED
    BY <1>7, <1>9, <2>1, <2>2, <2>3 DEF After
<1>19. HandleValid'
  <2> SUFFICES ASSUME NEW h \in Handles, owed'[h] > 0, Once(h)'
               PROVE  \E q \in request' : q.id = h
    BY DEF HandleValid
  <2>1. Once(h) /\ (h = r.id => request = {})
    BY <1>0, <1>5, OnceStep
  <2>2. CASE h = r.id
    <3>1. owed[h] = 0
      BY <1>0, <1>4, <1>12, <2>1, <2>2 DEF Allocated
    <3>2. request' # {}
      BY <1>7, <3>1 DEF After
    <3> QED
      BY <1>7, <2>2, <3>2 DEF After
  <2>3. CASE h # r.id
    BY <1>0, <1>4, <1>7, <2>1, <2>3 DEF HandleValid, After
  <2> QED
    BY <2>2, <2>3
<1>20. LeftInTree'
  <2> SUFFICES ASSUME NEW q \in request'
               PROVE  \/ owed'[q.id] > 0 \/ q.of \in refusals'
                      \/ q.id \in unsent' \/ target'[q.of] = "batch"
    BY DEF LeftInTree
  <2>1. CASE request = {}
    BY <1>2, <1>4, <1>7, <1>9, <1>12, <2>1 DEF After
  <2>2. CASE request # {}
    BY <1>0, <1>2, <1>4, <1>7, <1>9, <1>12, <2>2 DEF LeftInTree, After
  <2> QED
    BY <2>1, <2>2
<1>21. OwnRequest'
  <2> SUFFICES ASSUME NEW x \in met', x.msg > x.of
               PROVE  x.of \in refusals' \/ copies'[x.of] > 1
    BY DEF OwnRequest
  <2>1. CASE x \in met
    BY <1>0, <1>7, <1>8, <1>12, <2>1, TypeFacts DEF OwnRequest, After
  <2>2. CASE x = new
    <3>1. m > r.of /\ request = {r}
      BY <1>4, <1>10, <2>2
    <3>3. r.of \in refusals' \/ r.of \in replied
      <4>1. r.of \in replied \cup refusals
        <5>1. CASE copies[m] > 0
          BY <1>0, <1>9, <3>1, <5>1 DEF InTurn
        <5>2. CASE copies[m] = 0
          <6>1. m - 1 \in Messages /\ m - 1 \in replied \cup refusals
            BY <1>2, <1>9, <3>1, <5>2 DEF MaySend, Messages
          <6>2. r.of = m - 1 \/ r.of < m - 1
            BY <1>9, <3>1
          <6> QED
            BY <1>0, <1>9, <6>1, <6>2 DEF InTurn, Caused
        <5> QED
          BY <1>12, <5>1, <5>2
      <4> QED
        BY <4>1, <1>7 DEF After
    <3> QED
      BY <1>0, <1>8, <1>9, <1>10, <1>12, <2>2, <3>1, <3>3 DEF AnsweredAgain
  <2> QED
    BY <1>10, <2>1, <2>2
<1> QED
  BY <1>11, <1>14, <1>15, <1>16, <1>17, <1>18, <1>19, <1>20, <1>21 DEF SRInv

(* A call of OCDoResponse keeps the invariant: it releases the request,    *)
(* takes one fragment of it, or finds it gone.                             *)
LEMMA RespondInv ==
  ASSUME SRInv, NEW h \in Handles, OCDoResponse(h)
  PROVE  SRInv'
<1> USE MessagesType
<1>0. Types /\ Allocated /\ Caused /\ InTurn /\ AnsweredAgain /\ Counted
      /\ HandleValid /\ LeftInTree /\ OwnRequest
  BY DEF SRInv
<1>1. owed[h] > 0 /\ UNCHANGED <<target, con, copies, handles, observing, met>>
  BY DEF OCDoResponse
<1>2. /\ owed' \in [Handles -> Nat]
      /\ Answered(h) => owed'[h] = owed[h] - 1
      /\ \A g \in Handles : owed[g] \in Nat /\ owed'[g] \in Nat /\ owed'[g] <= owed[g]
      /\ \A g \in Handles : g # h => owed'[g] = owed[g]
  <2>1. Answered(h) \/ owed' = owed
    BY DEF OCDoResponse, TryAgain
  <2> QED
    BY <1>0, <1>1, <2>1 DEF Types, Answered
<1>3. (\A g : Once(g)' <=> Once(g)) /\ Arrived' = Arrived
  BY <1>1 DEF Once, Arrived
<1>4. \A g \in Handles : owed'[g] > 0 => g <= handles'
  BY <1>0, <1>1, <1>2 DEF Allocated
<1>5. ASSUME NEW r \in request, r.id = h, SendResponse(r) \/ GiveUp(r), request' = {},
             freedUse' = freedUse \/ freedUse' = freedUse \cup {r.id},
             r.numResponses = 1, Answered(h)
      PROVE  SRInv'
  <2>1. /\ request' = {} /\ refusals' = refusals
        /\ replied' = replied \/ replied' = replied \cup {r.of}
        /\ acked' = acked \/ acked' = acked \cup ConOnly(r.of)
        /\ unsent' = unsent \/ unsent' = unsent \cup {r.id}
    BY <1>5 DEF SendResponse, GiveUp
  <2>2. r.of \in Messages /\ r.id \in Handles /\ ConOnly(r.of) \subseteq Messages
    BY <1>0 DEF Types, Request, ConOnly
  <2>3. Types'
    BY <1>0, <1>1, <1>2, <1>5, <2>1, <2>2 DEF Types
  <2>4. copies[r.of] > 0
    BY <1>0 DEF Caused
  <2>5. Allocated' /\ Caused'
    BY <1>0, <1>1, <1>3, <1>4, <2>1, <2>4 DEF Allocated, Caused
  <2>6. InTurn' /\ AnsweredAgain' /\ Counted' /\ LeftInTree' /\ OwnRequest'
    BY <1>0, <1>1, <2>1 DEF InTurn, AnsweredAgain, Counted, LeftInTree, OwnRequest
  <2>7. HandleValid'
    <3> SUFFICES ASSUME NEW g \in Handles, owed'[g] > 0, Once(g) PROVE FALSE
      BY <1>3 DEF HandleValid
    <3>1. owed[g] > 0 /\ g = h
      BY <1>0, <1>2, <1>5 DEF HandleValid, Allocated
    <3>2. owed[h] <= 1
      BY <1>0, <1>5, <3>1 DEF Counted
    <3> QED
      BY <1>2, <1>5, <3>1, <3>2
  <2> QED
    BY <2>3, <2>5, <2>6, <2>7 DEF SRInv
<1>6. ASSUME NEW r \in request, r.id = h, target[r.of] = "batch", r.numResponses # 1,
             request' = {[r EXCEPT !.numResponses = @ - 1]}, Silent,
             UNCHANGED freedUse, Answered(h)
      PROVE  SRInv'
  <2> DEFINE q == [r EXCEPT !.numResponses = @ - 1]
  <2>1. /\ r \in Request /\ r.numResponses \in 0..NumChildren /\ r.numResponses >= 2
        /\ r.numResponses - 1 \in 0..NumChildren
    BY <1>0, <1>6 DEF Types, Request, Counted
  <2>2. q \in Request
    <3> DEFINE n == r.numResponses - 1
    <3>1. n \in (0..NumChildren) \cup {1} /\ q = [r EXCEPT !.numResponses = n]
      BY <2>1
    <3> HIDE DEF n, q
    <3> QED
      BY <2>1, <3>1 DEF Request
  <2>3. q.id = r.id /\ q.of = r.of /\ q.numResponses = r.numResponses - 1
    BY <2>1 DEF Request
  <2> HIDE DEF q
  <2>4. request' = {q} /\ UNCHANGED <<acked, replied, refusals, unsent>>
    BY <1>6 DEF Silent, q
  <2>5. Types' /\ Allocated' /\ Caused'
    BY <1>0, <1>1, <1>2, <1>3, <1>4, <1>6, <2>2, <2>3, <2>4
       DEF Types, Allocated, Caused
  <2>6. InTurn' /\ AnsweredAgain' /\ OwnRequest' /\ LeftInTree'
    BY <1>0, <1>1, <1>6, <2>3, <2>4 DEF InTurn, AnsweredAgain, OwnRequest, LeftInTree
  <2>7. Counted'
    <3>1. Once(r.id) => owed[h] <= r.numResponses
      BY <1>0, <1>6 DEF Counted
    <3>2. Once(q.id)' => owed'[q.id] <= q.numResponses
      BY <1>2, <1>3, <1>6, <2>1, <2>3, <3>1
    <3> QED
      BY <1>1, <1>6, <2>1, <2>3, <2>4, <3>2 DEF Counted
  <2>8. HandleValid'
    BY <1>0, <1>2, <1>3, <1>6, <2>3, <2>4 DEF HandleValid, Allocated
  <2> QED
    BY <2>5, <2>6, <2>7, <2>8 DEF SRInv
<1>7. ASSUME \A r \in request : r.id # h, freedUse' = freedUse \cup {h}, Silent,
             UNCHANGED request, Answered(h)
      PROVE  SRInv'
  <2>1. \A r \in request : r.id \in Handles /\ owed'[r.id] = owed[r.id]
    BY <1>0, <1>2, <1>7 DEF Types, Request
  <2>2. Types' /\ Allocated' /\ Caused'
    BY <1>0, <1>1, <1>2, <1>3, <1>4, <1>7 DEF Types, Allocated, Caused, Silent
  <2>3. InTurn' /\ AnsweredAgain' /\ OwnRequest' /\ LeftInTree' /\ Counted'
    BY <1>0, <1>1, <1>3, <1>7, <2>1
       DEF InTurn, AnsweredAgain, OwnRequest, LeftInTree, Counted, Silent
  <2>4. HandleValid'
    BY <1>0, <1>2, <1>3, <1>7 DEF HandleValid
  <2> QED
    BY <2>2, <2>3, <2>4 DEF SRInv
<1>9. ASSUME NEW r \in request, r.id = h, GiveUp(r), request' = {r}, UNCHANGED freedUse
      PROVE  SRInv'
  <2>1. /\ request = {r} /\ request' = request /\ unsent' = unsent \cup {r.id}
        /\ UNCHANGED <<acked, replied, refusals, freedUse>>
    BY <1>0, <1>9 DEF GiveUp, Allocated
  <2>2. r.id \in Handles /\ r.id \in unsent'
    BY <1>0, <2>1 DEF Types, Request
  <2>3. Types' /\ Allocated' /\ Caused'
    BY <1>0, <1>1, <1>2, <1>3, <1>4, <2>1, <2>2 DEF Types, Allocated, Caused
  <2>4. InTurn' /\ AnsweredAgain' /\ OwnRequest' /\ LeftInTree'
    BY <1>0, <1>1, <2>1, <2>2 DEF InTurn, AnsweredAgain, OwnRequest, LeftInTree
  <2>5. Counted'
    <3>1. r.numResponses \in Nat /\ owed'[r.id] <= owed[r.id]
          /\ owed'[r.id] \in Nat /\ owed[r.id] \in Nat
      BY <1>0, <1>2, <2>1, <2>2, TypeFacts DEF Types
    <3> QED
      BY <1>0, <1>1, <1>3, <2>1, <3>1 DEF Counted
  <2>6. HandleValid'
    BY <1>0, <1>2, <1>3, <2>1 DEF HandleValid
  <2> QED
    BY <2>3, <2>4, <2>5, <2>6 DEF SRInv
<1>8. CASE \E r \in request :
             /\ r.id = h
             /\ \/ Answered(h) /\ (RespondSingle(r) \/ HandleAggregateResponse(r))
                \/ TryAgain(r)
  <2>1. PICK r \in request :
             /\ r.id = h
             /\ \/ Answered(h) /\ (RespondSingle(r) \/ HandleAggregateResponse(r))
                \/ TryAgain(r)
    BY <1>8
  <2>2. target[r.of] # "batch" => r.numResponses = 1
    BY <1>0 DEF Counted
  <2>3. CASE Answered(h) /\ RespondSingle(r)
    BY <1>5, <1>9, <2>1, <2>2, <2>3 DEF RespondSingle, HandleSingleResponse
  <2>4. CASE Answered(h) /\ HandleAggregateResponse(r)
    BY <1>5, <1>6, <2>1, <2>4 DEF HandleAggregateResponse, LastFragment
  <2>5. CASE TryAgain(r)
    BY <1>9, <2>1, <2>5 DEF TryAgain
  <2> QED
    BY <2>1, <2>3, <2>4, <2>5
<1> QED
  BY <1>7, <1>8 DEF OCDoResponse

LEMMA SRInvInit == Init => SRInv
<1> SUFFICES ASSUME Init PROVE SRInv
  OBVIOUS
<1> USE MessagesType DEF Init
<1>1. Types
  <2>1. copies \in [Messages -> 0..MaxCopies] /\ owed \in [Handles -> Nat]
    OBVIOUS
  <2>2. handles \in Nat /\ observing \in BOOLEAN
    OBVIOUS
  <2>3. /\ request \subseteq Request /\ acked \subseteq Messages
        /\ replied \subseteq Messages /\ refusals \subseteq Messages
        /\ unsent \subseteq Handles /\ freedUse \subseteq Handles
        /\ met \subseteq [msg : Messages, of : Messages, id : Handles]
    OBVIOUS
  <2>4. target \in [Messages -> Targets] /\ con \in [Messages -> BOOLEAN]
    BY Zenon
  <2> QED
    BY <2>1, <2>2, <2>3, <2>4 DEF Types
<1>2. Arrived = {}
  BY DEF Arrived
<1>3. Allocated
  BY <1>2, FS_EmptySet DEF Allocated
<1>4. Caused /\ InTurn /\ AnsweredAgain /\ Counted
  BY DEF Caused, InTurn, AnsweredAgain, Counted
<1>5. HandleValid /\ LeftInTree /\ OwnRequest
  BY DEF HandleValid, LeftInTree, OwnRequest
<1> QED
  BY <1>1, <1>3, <1>4, <1>5 DEF SRInv

LEMMA SRInvStep == SRInv /\ [Next]_vars => SRInv'
<1> SUFFICES ASSUME SRInv, [Next]_vars PROVE SRInv'
  OBVIOUS
<1>1. CASE UNCHANGED vars
  BY <1>1 DEF vars, SRInv, Types, Arrived, Allocated, Caused, InTurn, AnsweredAgain,
     Counted, Once, HandleValid, LeftInTree, OwnRequest
<1>2. CASE Next
  BY <1>2, DeliverInv, RespondInv DEF Next
<1> QED
  BY <1>1, <1>2

(* Spec => []SRInv: the invariant holds of every behaviour of the stack.   *)
THEOREM Invariance == Spec => []SRInv
  BY SRInvInit, SRInvStep, PTL DEF Spec

(* Type correctness: in particular there is at most one request in the     *)
(* tree with the token, and AddServerRequest never makes more requests     *)
(* than messages have arrived.                                             *)
THEOREM TypeCorrect == Spec => []TypeOK
<1>1. SRInv => TypeOK
  <2> SUFFICES ASSUME SRInv PROVE TypeOK
    OBVIOUS
  <2>0. Types /\ Allocated
    BY DEF SRInv
  <2>1. Cardinality(request) <= 1
    <3>1. CASE request = {}
      BY <3>1, FS_EmptySet
    <3>2. CASE request # {}
      <4>1. PICK r \in request : TRUE
        BY <3>2
      <4>2. request = {r}
        BY <2>0 DEF Allocated
      <4> QED
        <5>1. Cardinality({r}) = 1
          BY FS_Singleton, Zenon
        <5> QED
          BY <4>2, <5>1
    <3> QED
      BY <3>1, <3>2
  <2>2. handles \in 0..Cardinality(Handles)
    <3>1. Cardinality(Handles) = MaxMessages * MaxCopies
      BY ProductType, FS_Interval DEF Handles
    <3>2. handles \in Nat /\ handles <= Cardinality(Arrived)
      BY <2>0 DEF Types, Allocated
    <3> QED
      BY <2>0, <3>1, <3>2, ArrivedBound, ProductType
  <2> QED
    BY <2>0, <2>1, <2>2 DEF Types, TypeOK
<1> QED
  BY <1>1, Invariance, PTL

(* A handle for which the entity handler owes an answer points to a        *)
(* request in the tree, unless the network delivered the message again or  *)
(* the client used the token for another: OCDoResponse cannot meet a       *)
(* request that OCHandleRequests released on its own.                      *)
THEOREM HandlesValid == Spec => []HandleValid
<1>1. SRInv => HandleValid
  BY DEF SRInv
<1> QED
  BY <1>1, Invariance, PTL

(* A request stays in the tree without an answer to come only when         *)
(* SendDirectStackResponse answered its message, HandleSingleResponse      *)
(* returned before it sent the response, or it is a batch.                 *)
THEOREM TreeLeftovers == Spec => []LeftInTree
<1>1. SRInv => LeftInTree
  BY DEF SRInv
<1> QED
  BY <1>1, Invariance, PTL

(* GetServerRequestUsingToken gives a new message the request of an        *)
(* earlier one only when that one was refused or arrived again.            *)
THEOREM RequestsOwn == Spec => []OwnRequest
<1>1. SRInv => OwnRequest
  BY DEF SRInv
<1> QED
  BY <1>1, Invariance, PTL
=============================================================================
