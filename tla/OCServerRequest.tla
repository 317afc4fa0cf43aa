--------------------------- MODULE OCServerRequest ---------------------------
(***************************************************************************)
(* Server requests (ocserverrequest.c): what the stack keeps of a request  *)
(* between OCHandleRequests and the answer of the entity handler, found    *)
(* again by token.  The model follows one token of one client, which uses  *)
(* it for one message after another, the next when the one before has been *)
(* answered; the network may deliver a message again, as a retransmission  *)
(* or as a duplicate, at any later time.                                   *)
(*                                                                         *)
(* A call of OCHandleRequests, the entity handlers it calls included, runs *)
(* in OCProcess without interruption and is one action.  Entity handlers   *)
(* belong to the application and do any of what the API lets them do.      *)
(* Responses are assumed to be sent when they are handed to CA.            *)
(***************************************************************************)
EXTENDS Integers, FiniteSets

CONSTANTS MaxMessages,   \* bound: messages the client sends with the token
          MaxCopies,     \* bound: how often the network delivers one of them
          NumChildren    \* resources in the collection

ASSUME ServerRequestAssumption ==
    MaxMessages \in Nat \ {0} /\ MaxCopies \in Nat \ {0} /\ NumChildren \in Nat \ {0}

Messages == 1..MaxMessages
Handles == 1..(MaxMessages * MaxCopies)

(* What a message asks for: a resource the stack itself refuses to serve   *)
(* (no such URI, wrong endpoint, default handler only, method not allowed  *)
(* on a virtual resource), a virtual one, one with an entity handler,      *)
(* the observation of one, the batch interface of a collection.            *)
Targets == {"refused", "virtual", "handler", "observe", "batch"}

VARIABLES target,    \* target[m]: what m asks for
          con,       \* con[m]: m is confirmable (qos OC_HIGH_QOS)
          copies,    \* copies[m]: how often m has arrived
          request,   \* requests with the token in g_serverRequestTree: {} or one
          handles,   \* number of requests allocated so far
          owed,      \* owed[h]: answers the application still has to give for h
          observing, \* an observer with the token is registered
          acked,     \* messages acknowledged
          replied,   \* messages answered by OCDoResponse
          refusals,  \* messages answered by SendDirectStackResponse
          unsent,    \* requests for which HandleSingleResponse gave up
          freedUse,  \* released requests that were used or released again
          met        \* which message was handled with which request

vars == <<target, con, copies, request, handles, owed, observing, acked,
          replied, refusals, unsent, freedUse, met>>

Request == [id : Handles, of : Messages, slowFlag : BOOLEAN,
            numResponses : 0..NumChildren \cup {1}]

TypeOK ==
    /\ target \in [Messages -> Targets] /\ con \in [Messages -> BOOLEAN]
    /\ copies \in [Messages -> 0..MaxCopies]
    /\ request \subseteq Request /\ Cardinality(request) <= 1
    /\ handles \in 0..Cardinality(Handles)
    /\ owed \in [Handles -> Nat]
    /\ observing \in BOOLEAN
    /\ acked \subseteq Messages /\ replied \subseteq Messages
    /\ refusals \subseteq Messages
    /\ unsent \subseteq Handles /\ freedUse \subseteq Handles
    /\ met \subseteq [msg : Messages, of : Messages, id : Handles]

Init ==
    /\ target \in [Messages -> Targets] /\ con \in [Messages -> BOOLEAN]
    /\ copies = [m \in Messages |-> 0]
    /\ request = {} /\ handles = 0 /\ owed = [h \in Handles |-> 0]
    /\ observing = FALSE
    /\ acked = {} /\ replied = {} /\ refusals = {} /\ unsent = {}
    /\ freedUse = {} /\ met = {}

-----------------------------------------------------------------------------
(* Sending.                                                                *)

ConOnly(m) == IF con[m] THEN {m} ELSE {}

\* SendDirectStackResponse for message m: the error goes out in the
\* acknowledgement when m is confirmable.
DirectResponse(m) ==
    /\ refusals' = refusals \cup {m} /\ acked' = acked \cup ConOnly(m)
    /\ UNCHANGED <<replied, unsent>>


\* The empty acknowledgement "as precursor to slow response".
EmptyAck(m) ==
    /\ acked' = acked \cup ConOnly(m)
    /\ UNCHANGED <<replied, refusals, unsent>>

\* A response to request r goes out, with the message id of the message the
\* request was made from: piggybacked unless the request was slow, in which
\* case it is a message of its own.
SendResponse(r) ==
    /\ replied' = replied \cup {r.of}
    /\ acked' = IF r.slowFlag THEN acked ELSE acked \cup ConOnly(r.of)
    /\ UNCHANGED <<refusals, unsent>>

\* The early returns: no memory for the options, the path of the new resource
\* is too long, or the payload cannot be converted.  Nothing is sent.
GiveUp(r) ==
    /\ unsent' = unsent \cup {r.id}
    /\ UNCHANGED <<replied, acked, refusals>>

\* Mutant: the request is not released.
HandleSingleResponseKeep(r) ==
    \/ SendResponse(r) /\ request' = {r}
    \/ GiveUp(r) /\ request' = {r}

\* HandleSingleResponse: the request is released when the response is sent,
\* and stays in the tree when it is not.
HandleSingleResponse(r) ==
    \/ SendResponse(r) /\ request' = {}
    \/ GiveUp(r) /\ request' = {r}

Silent == UNCHANGED <<acked, replied, refusals, unsent>>

-----------------------------------------------------------------------------
(* Handling a request: OCHandleRequests.                                   *)

\* AddServerRequest: the new request for message m.
AddServerRequest(m) ==
    [id |-> handles + 1, of |-> m, slowFlag |-> FALSE, numResponses |-> 1]

\* GetServerRequestUsingToken: the request m is handled with.
Found(m) == IF request = {} THEN {AddServerRequest(m)} ELSE request

\* DetermineResourceHandling, or the method check of a virtual resource, fails.
Refused(m, r) ==
    /\ target[r.of] = "refused"
    /\ request' = {r}
    /\ DirectResponse(m)
    /\ UNCHANGED <<owed, observing, freedUse>>

\* HandleVirtualResource answers; ignores a multicast that finds nothing;
\* acknowledges a request for presence, which is answered by notifications; or
\* fails before that, and the error goes to the client.
HandleVirtualResource(m, r) ==
    /\ target[r.of] = "virtual"
    /\ \/ HandleSingleResponse(r)
       \/ ~con[r.of] /\ request' = {} /\ Silent
       \/ request' = {} /\ EmptyAck(r.of)
       \/ request' = {r} /\ DirectResponse(m)
    /\ UNCHANGED <<owed, observing, freedUse>>

\* Mutant: the early return forgets to release the request.
AlreadyObservingKeep(m, r) ==
    /\ target[r.of] = "observe" /\ observing
    /\ request' = {r}
    /\ Silent
    /\ UNCHANGED <<owed, observing, freedUse>>

\* A registration whose token is known: released and not answered.
AlreadyObserving(m, r) ==
    /\ target[r.of] = "observe" /\ observing
    /\ request' = {}
    /\ Silent
    /\ UNCHANGED <<owed, observing, freedUse>>

\* The entity handler answers at once; says it is slow; fails, and the
\* request is released; returns another error; or returns OC_EH_OK and will
\* answer later.
CallEntityHandler(m, r) ==
    \/ HandleSingleResponse(r) /\ UNCHANGED owed
    \/ /\ request' = {[r EXCEPT !.slowFlag = TRUE]}
       /\ owed' = [owed EXCEPT ![r.id] = @ + 1]
       /\ EmptyAck(m)
    \/ request' = {} /\ DirectResponse(m) /\ UNCHANGED owed
    \/ request' = {r} /\ DirectResponse(m) /\ UNCHANGED owed
    \/ request' = {r} /\ Silent /\ owed' = [owed EXCEPT ![r.id] = @ + 1]

\* HandleResourceWithEntityHandler and HandleDefaultDeviceEntityHandler.
HandleResourceWithEntityHandler(m, r) ==
    /\ \/ target[r.of] = "handler" /\ UNCHANGED observing
       \/ target[r.of] = "observe" /\ ~observing /\ observing' = TRUE
    /\ CallEntityHandler(m, r)
    /\ UNCHANGED freedUse

\* HandleAggregateResponse for the last fragment: HandleSingleResponse
\* releases the request, unless it gives up, and then it is released again.
LastFragment(r) ==
    /\ request' = {}
    /\ \/ SendResponse(r) /\ freedUse' = freedUse \cup {r.id}
       \/ GiveUp(r) /\ UNCHANGED freedUse

\* The batch interface of DefaultCollectionEntityHandler: the handlers of
\* `now' children answer at once, `slow' say they are slow, `later' answer
\* later without saying so, and the others never answer.  A slow child makes
\* the result an error: SendResponse without payload is refused by
\* HandleAggregateResponse and the error goes to the client.
HandleBatchInterface(m, r) ==
    /\ target[r.of] = "batch"
    /\ \E now, slow, later \in 0..NumChildren :
           /\ now + slow + later <= NumChildren
           /\ \/ now = NumChildren /\ LastFragment(r) /\ UNCHANGED owed
              \/ /\ now # NumChildren
                 /\ request' = {[r EXCEPT !.slowFlag = @ \/ slow > 0,
                                          !.numResponses = NumChildren - now]}
                 /\ owed' = [owed EXCEPT ![r.id] = @ + slow + later]
                 /\ IF slow > 0 THEN DirectResponse(m) ELSE Silent
                 /\ UNCHANGED freedUse
    /\ UNCHANGED observing

\* The client sends its messages in order, each when the one before has been
\* answered, and none after a registration that was granted.
MaySend(m) ==
    m > 1 => /\ m - 1 \in replied \cup refusals
             /\ ~(target[m - 1] = "observe" /\ m - 1 \in replied)

\* OCHandleRequests and HandleStackRequests: message m arrives, for the first
\* time or again.
Deliver(m) ==
    /\ copies[m] < MaxCopies
    /\ copies[m] = 0 => MaySend(m)
    /\ copies' = [copies EXCEPT ![m] = @ + 1]
    /\ \E r \in Found(m) :
           /\ handles' = IF request = {} THEN handles + 1 ELSE handles
           /\ met' = met \cup {[msg |-> m, of |-> r.of, id |-> r.id]}
           /\ \/ Refused(m, r)
              \/ HandleVirtualResource(m, r)
              \/ AlreadyObserving(m, r)
              \/ HandleResourceWithEntityHandler(m, r)
              \/ HandleBatchInterface(m, r)
    /\ UNCHANGED <<target, con>>

-----------------------------------------------------------------------------
(* OCDoResponse, called by the application for handle h outside of a call  *)
(* of its entity handler.  The handle is a pointer to the request.  When   *)
(* HandleSingleResponse gives up, the application does too or tries again. *)

RespondSingle(r) ==
    /\ target[r.of] # "batch"
    /\ HandleSingleResponse(r)
    /\ UNCHANGED freedUse

\* Mutant: the last fragment but one is taken for the last.
HandleAggregateResponseEarly(r) ==
    /\ target[r.of] = "batch"
    /\ LastFragment(r)

HandleAggregateResponse(r) ==
    /\ target[r.of] = "batch"
    /\ \/ r.numResponses = 1 /\ LastFragment(r)
       \/ /\ r.numResponses # 1
          /\ request' = {[r EXCEPT !.numResponses = @ - 1]}
          /\ Silent
          /\ UNCHANGED freedUse

TryAgain(r) ==
    /\ target[r.of] # "batch"
    /\ GiveUp(r) /\ request' = {r}
    /\ UNCHANGED <<owed, freedUse>>

Answered(h) == owed' = [owed EXCEPT ![h] = @ - 1]

OCDoResponse(h) ==
    /\ owed[h] > 0
    /\ \/ \E r \in request :
              /\ r.id = h
              /\ \/ Answered(h) /\ (RespondSingle(r) \/ HandleAggregateResponse(r))
                 \/ TryAgain(r)
       \/ /\ \A r \in request : r.id # h
          /\ Answered(h)
          /\ freedUse' = freedUse \cup {h}
          /\ Silent
          /\ UNCHANGED request
    /\ UNCHANGED <<target, con, copies, handles, observing, met>>

Next ==
    \/ \E m \in Messages : Deliver(m)
    \/ \E h \in Handles : OCDoResponse(h)

Spec == Init /\ [][Next]_vars

\* The application answers what it has not answered yet, and does not try for
\* ever with responses that HandleSingleResponse cannot send.
FairSpec == Spec /\ \A h \in Handles : WF_vars(OCDoResponse(h))

-----------------------------------------------------------------------------
(* Properties.                                                             *)

\* One message was handled with request h, and it arrived once.
Once(h) ==
    \A x, y \in {x \in met : x.id = h} : x = y /\ copies[x.msg] = 1

\* A handle the application owes an answer for points to a request in the
\* tree, as long as no second message, or second copy, was handled with it:
\* the second one calls the handler again or releases the request under it.
HandleValid ==
    \A h \in Handles :
        owed[h] > 0 /\ Once(h) => \E r \in request : r.id = h

\* A request that nobody will answer any more stays in the tree only if the
\* stack answered the message itself, HandleSingleResponse gave up on it, or a
\* child of a collection was silent.
LeftInTree ==
    \A r \in request :
        \/ owed[r.id] > 0
        \/ r.of \in refusals \/ r.id \in unsent \/ target[r.of] = "batch"

\* A new message is handled with the request of an earlier one, and so as if
\* it were the earlier one, only if the stack answered that one itself or
\* made a request of a late copy of it.
OwnRequest ==
    \A x \in met : x.msg > x.of => x.of \in refusals \/ copies[x.of] > 1

\* Handled once, with a request that is its own alone and for which a response
\* could be made, and neither a batch nor the registration of a token that a
\* refused registration has left behind.
Regular(m) ==
    /\ con[m] /\ copies[m] = 1 /\ target[m] # "batch"
    /\ \A x \in met : x.msg = m => x.of = m /\ Once(x.id) /\ x.id \notin unsent
    /\ target[m] = "observe" =>
           ~\E k \in Messages : k < m /\ target[k] = "observe" /\ k \in refusals


\* "server requests are usually free'd when the response is sent out for the
\* request in ocserverrequest.c : HandleSingleResponse()" (ocresource.c): once,
\* and not used after that.
FreedOnce == freedUse = {}

=============================================================================
