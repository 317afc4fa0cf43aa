------------------------------- MODULE OCObserve -------------------------------
(***************************************************************************)
(* Observation of one resource, end to end: the server's observer list     *)
(* (stack/src/ocobserve.c and the observe paths of ocresource.c, ocstack.c),*)
(* the clients' callbacks (occlientcb.c, OCHandleResponse, OCCancel) and a *)
(* network that loses, delays and reorders what is between them.           *)
(*                                                                         *)
(* Both stacks run their handlers from OCProcess, one at a time, so a      *)
(* handler is one step.  A confirmable message is an exchange of the       *)
(* retransmission layer: it is sent again while it is pending and ends     *)
(* with an ACK, a RST or CA_RETRANSMIT_TIMEOUT (CAMessageHandler models    *)
(* that layer).  Registrations are confirmable; payloads are left out, and *)
(* the entity handler answers at once.                                     *)
(***************************************************************************)
EXTENDS Naturals, Sequences, FiniteSets

CONSTANTS
  Tokens,        \* observation requests; a token is used for one registration
  Pref,          \* the QoS each registration asked for
  Ids,           \* OCObservationId (uint8_t in the code)
  MaxSeq,        \* MAX_SEQUENCE_NUMBER
  MaxFailed,     \* MAX_OBSERVER_FAILED_COMM
  MaxNon,        \* MAX_OBSERVER_NON_COUNT
  MaxInFlight    \* nothing new is sent while more messages than this travel

QoS == {"LOW", "HIGH"}

ASSUME PrefAssumption == Pref \in [Tokens -> QoS]
ASSUME LimitAssumption ==
  /\ MaxSeq \in Nat \ {0, 1}
  /\ MaxFailed \in Nat
  /\ MaxNon \in Nat
  /\ MaxInFlight \in Nat

VARIABLES
  (* the server *)
  observers,    \* resource->observersHead, in list order
  obsId,        \* observeId of each observer
  failedComm,   \* failedCommCount
  lowQos,       \* lowQosCount
  forceHigh,    \* observers with forceHighQos set
  due,          \* observers whose TTL has passed
  seqNum,       \* resource->sequenceNum
  handlerView,  \* observation ids the entity handler has been told of
  stuck,        \* GenerateObserverId finds no free id, ever
  conPending,   \* confirmable notifications in the retransmission list
  (* the clients *)
  cb,           \* the ClientCB of each token
  cbSeq,        \* cbNode->sequenceNumber
  cbTtl,        \* callbacks whose TTL is not 0
  requests,     \* <<kind, token>>: confirmable requests not answered yet
  cancelled,    \* OCCancel was called
  ended,        \* the application has had the last callback of the observation
  (* the network *)
  net           \* messages <<kind, token, number>> on their way

serverVars == <<observers, obsId, failedComm, lowQos, forceHigh, due, seqNum,
                handlerView, stuck, conPending>>
clientVars == <<cb, cbSeq, cbTtl, requests, cancelled, ended>>
vars == <<observers, obsId, failedComm, lowQos, forceHigh, due, seqNum,
          handlerView, stuck, conPending, cb, cbSeq, cbTtl, requests, cancelled,
          ended, net>>

Obs == {observers[i] : i \in DOMAIN observers}

Requests == {"reg", "dereg"}
Kinds == {"reg", "dereg", "regAck", "deregAck", "error", "con", "non", "ack", "rst"}
Numbers == 0 .. MaxSeq - 1

(* The bound of the model.                                                 *)
Room == Cardinality(net) =< MaxInFlight

(* Type invariant; the sequence number stays below MAX_SEQUENCE_NUMBER, the *)
(* failure and NON counters at or below their limits.                      *)
TypeOK ==
  /\ observers \in Seq(Tokens)
  /\ obsId \in [Tokens -> Ids \cup {0}]
  /\ failedComm \in [Tokens -> 0 .. MaxFailed]
  /\ lowQos \in [Tokens -> 0 .. MaxNon]
  /\ forceHigh \subseteq Tokens
  /\ due \subseteq Tokens
  /\ seqNum \in Numbers
  /\ handlerView \subseteq Ids
  /\ stuck \in BOOLEAN
  /\ conPending \subseteq Tokens \X Numbers
  /\ cb \in [Tokens -> {"none", "active", "gone"}]
  /\ cbSeq \in [Tokens -> Numbers]
  /\ cbTtl \subseteq Tokens
  /\ requests \subseteq Requests \X Tokens
  /\ cancelled \subseteq Tokens
  /\ ended \subseteq Tokens
  /\ net \subseteq Kinds \X Tokens \X Numbers

Init ==
  /\ observers = <<>>
  /\ obsId = [t \in Tokens |-> 0]
  /\ failedComm = [t \in Tokens |-> 0]
  /\ lowQos = [t \in Tokens |-> 0]
  /\ forceHigh = {}
  /\ due = {}
  /\ seqNum = 0
  /\ handlerView = {}
  /\ stuck = FALSE
  /\ conPending = {}
  /\ cb = [t \in Tokens |-> "none"]
  /\ cbSeq = [t \in Tokens |-> 0]
  /\ cbTtl = {}
  /\ requests = {}
  /\ cancelled = {}
  /\ ended = {}
  /\ net = {}

-----------------------------------------------------------------------------
(* The server's helpers.                                                   *)

(* LL_DELETE.                                                              *)
Without(s, t) ==
  IF \E i \in DOMAIN s : s[i] = t
    THEN LET k == CHOOSE i \in DOMAIN s : s[i] = t
         IN [j \in 1 .. Len(s) - 1 |-> IF j < k THEN s[j] ELSE s[j + 1]]
    ELSE s

(* GetObserverUsingToken sends a confirmable notification to every overdue *)
(* observer that it passes on its way to t (CheckTimedOutObserver).        *)
Passed(t) ==
  {observers[i] : i \in {j \in DOMAIN observers :
                           \A k \in 1 .. j : observers[k] # t}}
Overdue(t) == Passed(t) \cap due
Reminders(t) == {<<u, seqNum>> : u \in Overdue(t)}
ReminderMessages(t) == {<<"con", u, seqNum>> : u \in Overdue(t)}

(* incrementSequenceNumber.                                                *)
NextSeq == IF seqNum + 1 = MaxSeq THEN 1 ELSE seqNum + 1

(* DetermineObserverQoS: the QoS of the notification for t when it is      *)
(* called with q, and the NON count it leaves.                             *)
ForcedHigh(t, q) == q # "HIGH" /\ (t \in forceHigh \/ lowQos[t] >= MaxNon)

(* Mutant of DetermineObserverQoS: the count is kept and never acted upon. *)
RequestedQoS(t, q) == IF q = "NA" THEN Pref[t] ELSE q

DetermineObserverQoS(t, q) ==
  CASE ForcedHigh(t, q) -> "HIGH"
    [] ~ForcedHigh(t, q) /\ q = "NA" -> Pref[t]
    [] OTHER -> q

CountAfter(t, q) ==
  CASE q = "HIGH" -> lowQos[t]
    [] ForcedHigh(t, q) -> 0
    [] OTHER -> lowQos[t] + 1

(* The loop over the observers reuses its variable qos: the decision for   *)
(* one observer is the input for the next.                                 *)
Decided(list, q) ==
  LET f[i \in 0 .. Len(list)] ==
        IF i = 0 THEN q ELSE DetermineObserverQoS(list[i], f[i - 1])
  IN f

(* SendAllObserverNotification and SendListObserverNotification: a         *)
(* notification with number n for everybody in list, and a reminder for    *)
(* the overdue observers met while looking for them.                       *)
SendNotifications(list, q, n, overdue) ==
  LET qos == Decided(list, q)
      kind(i) == IF qos[i] = "HIGH" THEN "con" ELSE "non"
      index(t) == CHOOSE i \in DOMAIN list : list[i] = t
      targets == {list[i] : i \in DOMAIN list}
  IN /\ lowQos' = [t \in Tokens |->
                     IF t \in targets THEN CountAfter(t, qos[index(t) - 1])
                                      ELSE lowQos[t]]
     /\ conPending' = conPending \cup {<<u, n>> : u \in overdue} \cup
          {<<list[i], n>> : i \in {j \in DOMAIN list : qos[j] = "HIGH"}}
     /\ net' = net \cup {<<"con", u, n>> : u \in overdue} \cup
          {<<kind(i), list[i], n>> : i \in DOMAIN list}
     /\ due' = due \ (targets \cup overdue)

(* OCNotifyAllObservers.                                                   *)
NotifyAll(q) ==
  /\ ~stuck
  /\ Room /\ Cardinality(conPending) =< MaxInFlight
  /\ seqNum' = NextSeq
  /\ SendNotifications(observers, q, NextSeq, {})
  /\ UNCHANGED <<observers, obsId, failedComm, forceHigh, handlerView, stuck,
                 clientVars>>

(* OCNotifyListOfObservers for one observation id.                         *)
NotifyOne(t, q) ==
  /\ ~stuck
  /\ t \in Obs
  /\ Room /\ Cardinality(conPending) =< MaxInFlight
  /\ seqNum' = NextSeq
  /\ SendNotifications(<<t>>, q, NextSeq, Overdue(t))
  /\ UNCHANGED <<observers, obsId, failedComm, forceHigh, handlerView, stuck,
                 clientVars>>

(* 24 hours without a notification: longer than any message travels and    *)
(* any exchange lasts.                                                     *)
BecomesDue(t) ==
  /\ t \in Obs \ due
  /\ \A n \in Numbers : <<t, n>> \notin conPending
  /\ \A k \in Kinds, n \in Numbers : <<k, t, n>> \notin net
  /\ due' = due \cup {t}
  /\ UNCHANGED <<observers, obsId, failedComm, lowQos, forceHigh, seqNum,
                 handlerView, stuck, conPending, clientVars, net>>

-----------------------------------------------------------------------------
(* The server's handlers.                                                  *)

(* GenerateObserverId draws ids until one is free.                         *)
FreeIds == Ids \ {obsId[u] : u \in Obs}

AddObserver(t, id) ==
  /\ observers' = Append(observers, t)
  /\ obsId' = [obsId EXCEPT ![t] = id]
  /\ failedComm' = [failedComm EXCEPT ![t] = 0]
  /\ lowQos' = [lowQos EXCEPT ![t] = 0]
  /\ forceHigh' = forceHigh \ {t}

(* Mutant of HandleRegister: the list is not searched for the token.       *)
RegisterAlways(t) ==
  LET m == <<"reg", t, 0>>
  IN /\ ~stuck
     /\ m \in net
     /\ \E id \in FreeIds :
          /\ AddObserver(t, id)
          /\ handlerView' = handlerView \cup {id}
     /\ net' = (net \ {m}) \cup {<<"regAck", t, 0>>}
     /\ UNCHANGED <<due, seqNum, stuck, conPending, clientVars>>

(* HandleResourceWithEntityHandler for OC_OBSERVE_REGISTER:                *)
(* GenerateObserverId, AddObserver, the entity handler and its response,   *)
(* whose observe option is 0.  A token that is already in the list gets no *)
(* response.                                                               *)
HandleRegister(t) ==
  LET m == <<"reg", t, 0>>
  IN /\ ~stuck
     /\ m \in net
     /\ conPending' = conPending \cup Reminders(t)
     /\ due' = due \ Overdue(t)
     /\ \/ /\ t \in Obs
           /\ net' = (net \ {m}) \cup ReminderMessages(t)
           /\ UNCHANGED <<observers, obsId, failedComm, lowQos, forceHigh,
                          handlerView, stuck>>
        \/ /\ t \notin Obs
           /\ FreeIds = {}
           /\ stuck' = TRUE
           /\ net' = (net \ {m}) \cup ReminderMessages(t)
           /\ UNCHANGED <<observers, obsId, failedComm, lowQos, forceHigh,
                          handlerView>>
        \/ /\ t \notin Obs
           /\ \E id \in FreeIds :
                /\ AddObserver(t, id)
                /\ handlerView' = handlerView \cup {id}
           /\ net' = (net \ {m}) \cup ReminderMessages(t) \cup {<<"regAck", t, 0>>}
           /\ UNCHANGED stuck
     /\ UNCHANGED <<seqNum, clientVars>>

(* The observer is deleted and the entity handler is told.                 *)
RemoveObserver(t) ==
  /\ observers' = Without(observers, t)
  /\ handlerView' = handlerView \ {obsId[t]}
  /\ obsId' = [obsId EXCEPT ![t] = 0]
  /\ failedComm' = [failedComm EXCEPT ![t] = 0]
  /\ lowQos' = [lowQos EXCEPT ![t] = 0]
  /\ forceHigh' = forceHigh \ {t}
  /\ due' = due \ (Overdue(t) \cup {t})

(* SendDirectStackResponse after a handler that failed: the error, with    *)
(* the options of the request.                                             *)
DirectResponse(t) == <<"error", t, 0>>

(* ... for OC_OBSERVE_DEREGISTER; an unknown token is an error.            *)
HandleDeregister(t) ==
  LET m == <<"dereg", t, 0>>
  IN /\ ~stuck
     /\ m \in net
     /\ conPending' = conPending \cup Reminders(t)
     /\ \/ /\ t \in Obs
           /\ RemoveObserver(t)
           /\ net' = (net \ {m}) \cup ReminderMessages(t) \cup {<<"deregAck", t, 0>>}
        \/ /\ t \notin Obs
           /\ due' = due \ Overdue(t)
           /\ net' = (net \ {m}) \cup ReminderMessages(t) \cup {DirectResponse(t)}
           /\ UNCHANGED <<observers, obsId, failedComm, lowQos, forceHigh, handlerView>>
     /\ UNCHANGED <<seqNum, stuck, clientVars>>

(* OCStackFeedBack.                                                        *)
StillInterested(t) ==
  /\ failedComm' = [failedComm EXCEPT ![t] = 0]
  /\ forceHigh' = forceHigh \ {t}
  /\ due' = due \ Overdue(t)
  /\ UNCHANGED <<observers, obsId, lowQos, handlerView>>

(* Mutant of FailedComm: the entity handler is not told.                   *)
FailedCommSilently(t) ==
  \/ /\ failedComm[t] >= MaxFailed
     /\ observers' = Without(observers, t)
     /\ obsId' = [obsId EXCEPT ![t] = 0]
     /\ failedComm' = [failedComm EXCEPT ![t] = 0]
     /\ lowQos' = [lowQos EXCEPT ![t] = 0]
     /\ forceHigh' = forceHigh \ {t}
     /\ due' = due \ (Overdue(t) \cup {t})
     /\ UNCHANGED handlerView
  \/ /\ failedComm[t] < MaxFailed
     /\ failedComm' = [failedComm EXCEPT ![t] = @ + 1]
     /\ forceHigh' = forceHigh \cup {t}
     /\ due' = due \ Overdue(t)
     /\ UNCHANGED <<observers, obsId, lowQos, handlerView>>

FailedComm(t) ==
  \/ /\ failedComm[t] >= MaxFailed
     /\ RemoveObserver(t)
  \/ /\ failedComm[t] < MaxFailed
     /\ failedComm' = [failedComm EXCEPT ![t] = @ + 1]
     /\ forceHigh' = forceHigh \cup {t}
     /\ due' = due \ Overdue(t)
     /\ UNCHANGED <<observers, obsId, lowQos, handlerView>>

(* The end of the exchange for a confirmable notification: an ACK or a RST *)
(* (which carries no token: it is found through the retransmission list),  *)
(* or the time-out.                                                        *)
HandleReply(kind, t, n) ==
  LET m == <<kind, t, n>>
  IN /\ ~stuck
     /\ m \in net
     /\ \/ /\ <<t, n>> \in conPending
           /\ t \in Obs
           /\ conPending' = (conPending \ {<<t, n>>}) \cup Reminders(t)
           /\ net' = (net \ {m}) \cup ReminderMessages(t)
           /\ IF kind = "ack" THEN StillInterested(t) ELSE RemoveObserver(t)
        \/ /\ <<t, n>> \in conPending
           /\ t \notin Obs
           /\ conPending' = (conPending \ {<<t, n>>}) \cup Reminders(t)
           /\ net' = (net \ {m}) \cup ReminderMessages(t)
           /\ due' = due \ Overdue(t)
           /\ UNCHANGED <<observers, obsId, failedComm, lowQos, forceHigh, handlerView>>
        \/ /\ <<t, n>> \notin conPending
           /\ net' = net \ {m}
           /\ UNCHANGED <<conPending, observers, obsId, failedComm, lowQos,
                          forceHigh, handlerView, due>>
     /\ UNCHANGED <<seqNum, stuck, clientVars>>

NotificationTimeout(t, n) ==
  /\ ~stuck
  /\ <<t, n>> \in conPending
  /\ conPending' = (conPending \ {<<t, n>>}) \cup Reminders(t)
  /\ net' = net \cup ReminderMessages(t)
  /\ \/ t \in Obs /\ FailedComm(t)
     \/ /\ t \notin Obs
        /\ due' = due \ Overdue(t)
        /\ UNCHANGED <<observers, obsId, failedComm, lowQos, forceHigh, handlerView>>
  /\ UNCHANGED <<seqNum, stuck, clientVars>>

-----------------------------------------------------------------------------
(* The clients.                                                            *)

(* A callback starts without TTL and with sequence number 0.               *)
AddClientCB(t) ==
  /\ cb[t] = "none"
  /\ cb' = [cb EXCEPT ![t] = "active"]

DeleteClientCB(t) == cb' = [cb EXCEPT ![t] = "gone"]

(* OCDoRequest with OC_REST_OBSERVE.                                       *)
Observe(t) ==
  /\ Room
  /\ AddClientCB(t)
  /\ requests' = requests \cup {<<"reg", t>>}
  /\ net' = net \cup {<<"reg", t, 0>>}
  /\ UNCHANGED <<serverVars, cbSeq, cbTtl, cancelled, ended>>

(* OCCancel with a low QoS (on IP) deletes the callback; with high QoS it  *)
(* sends a confirmable deregistration and keeps the callback.              *)
CancelLow(t) ==
  /\ cb[t] = "active"
  /\ DeleteClientCB(t)
  /\ cancelled' = cancelled \cup {t}
  /\ UNCHANGED <<serverVars, cbSeq, cbTtl, requests, ended, net>>

CancelHigh(t) ==
  /\ Room
  /\ cb[t] = "active"
  /\ t \notin cancelled
  /\ cancelled' = cancelled \cup {t}
  /\ requests' = requests \cup {<<"dereg", t>>}
  /\ net' = net \cup {<<"dereg", t, 0>>}
  /\ UNCHANGED <<serverVars, cb, cbSeq, cbTtl, ended>>

(* The application's callback: it keeps or deletes the transaction.  A     *)
(* callback that is kept gets a TTL.                                       *)
CallBack(t, n) ==
  /\ cbSeq' = [cbSeq EXCEPT ![t] = n]
  /\ \/ /\ DeleteClientCB(t)
        /\ ended' = ended \cup {t}
        /\ UNCHANGED cbTtl
     \/ /\ cbTtl' = cbTtl \cup {t}
        /\ UNCHANGED <<cb, ended>>

(* ... and the callback that ends the observation.                         *)
LastCallBack(t) ==
  /\ ended' = ended \cup {t}
  /\ DeleteClientCB(t)
  /\ UNCHANGED <<cbSeq, cbTtl>>

NoCallBack == UNCHANGED <<ended, cb, cbSeq, cbTtl>>

(* A notification the client has already seen, or a later one.             *)
Stale(t, n) == n > 0 /\ cbSeq[t] =< MaxSeq /\ n =< cbSeq[t]

(* OCHandleResponse for the response to a registration (observe option 0), *)
(* to a deregistration (no observe option) and for the error that answers  *)
(* a deregistration without observer: SendDirectStackResponse sends the    *)
(* options of the request back (here the observe option alone: OCCancel    *)
(* was given no others), and the client takes OC_OBSERVE_DEREGISTER = 1    *)
(* for a sequence number.                                                  *)
HandleResponse(kind, t) ==
  LET m == <<kind, t, 0>>
      answers == IF kind = "regAck" THEN "reg" ELSE "dereg"
  IN /\ m \in net
     /\ net' = net \ {m}
     /\ requests' = requests \ {<<answers, t>>}
     /\ \/ cb[t] # "active" /\ NoCallBack
        \/ cb[t] = "active" /\ kind = "regAck" /\ CallBack(t, 0)
        \/ cb[t] = "active" /\ kind = "error" /\ Stale(t, 1) /\ NoCallBack
        \/ cb[t] = "active" /\ kind = "error" /\ ~Stale(t, 1) /\ CallBack(t, 1)
        \/ cb[t] = "active" /\ kind = "deregAck" /\ LastCallBack(t)
     /\ UNCHANGED <<serverVars, cancelled>>

(* Mutant of HandleNotification: a stale notification is answered with a   *)
(* RST.                                                                    *)
ResetStale(kind, t, n) ==
  LET m == <<kind, t, n>>
  IN /\ m \in net
     /\ \/ /\ cb[t] = "active" /\ ~Stale(t, n)
           /\ CallBack(t, n)
           /\ net' = (net \ {m}) \cup (IF kind = "con" THEN {<<"ack", t, n>>} ELSE {})
        \/ /\ cb[t] # "active" \/ Stale(t, n)
           /\ NoCallBack
           /\ net' = (net \ {m}) \cup (IF kind = "con" THEN {<<"rst", t, n>>} ELSE {})
     /\ UNCHANGED <<serverVars, requests, cancelled>>

(* OCHandleResponse for a notification: a stale one is acknowledged and    *)
(* not passed on; one without a callback is answered with a RST.  (The RST *)
(* for a NON finds no entry in the server's retransmission list and has no *)
(* effect.)                                                                *)
HandleNotification(kind, t, n) ==
  LET m == <<kind, t, n>>
      reply(r) == IF kind = "con" THEN {<<r, t, n>>} ELSE {}
  IN /\ m \in net
     /\ \/ /\ cb[t] = "active"
           /\ IF Stale(t, n) THEN NoCallBack ELSE CallBack(t, n)
           /\ net' = (net \ {m}) \cup reply("ack")
        \/ /\ cb[t] # "active"
           /\ NoCallBack
           /\ net' = (net \ {m}) \cup reply("rst")
     /\ UNCHANGED <<serverVars, requests, cancelled>>

(* CA_RETRANSMIT_TIMEOUT for a request ends the observation.               *)
RequestTimeout(kind, t) ==
  /\ <<kind, t>> \in requests
  /\ requests' = requests \ {<<kind, t>>}
  /\ \/ cb[t] = "active" /\ LastCallBack(t)
     \/ cb[t] # "active" /\ NoCallBack
  /\ UNCHANGED <<serverVars, cancelled, net>>

(* Two hours without a response: CheckAndDeleteTimedOutCB, called when the *)
(* callback list is searched for another token.                            *)
CallbackTimesOut(t) ==
  /\ cb[t] = "active"
  /\ t \in cbTtl
  /\ DeleteClientCB(t)
  /\ UNCHANGED <<serverVars, cbSeq, cbTtl, requests, cancelled, ended, net>>

-----------------------------------------------------------------------------
(* The network and the retransmission layers.                              *)

Lose(m) ==
  /\ m \in net
  /\ net' = net \ {m}
  /\ UNCHANGED <<serverVars, clientVars>>

ResendRequest(kind, t) ==
  /\ Room
  /\ <<kind, t>> \in requests
  /\ net' = net \cup {<<kind, t, 0>>}
  /\ UNCHANGED <<serverVars, clientVars>>

ResendNotification(t, n) ==
  /\ Room
  /\ <<t, n>> \in conPending
  /\ net' = net \cup {<<"con", t, n>>}
  /\ UNCHANGED <<serverVars, clientVars>>

Application ==
  \/ \E q \in QoS \cup {"NA"} : NotifyAll(q) \/ \E t \in Tokens : NotifyOne(t, q)
  \/ \E t \in Tokens : Observe(t) \/ CancelLow(t) \/ CancelHigh(t)

Server ==
  \E t \in Tokens :
    \/ BecomesDue(t)
    \/ HandleRegister(t)
    \/ HandleDeregister(t)
    \/ \E n \in Numbers :
         \/ HandleReply("ack", t, n)
         \/ HandleReply("rst", t, n)
         \/ NotificationTimeout(t, n)

Client ==
  \E t \in Tokens :
    \/ \E kind \in {"regAck", "deregAck", "error"} : HandleResponse(kind, t)
    \/ \E n \in Numbers, kind \in {"con", "non"} : HandleNotification(kind, t, n)
    \/ \E kind \in Requests : RequestTimeout(kind, t)
    \/ CallbackTimesOut(t)

Network ==
  \/ \E m \in net : Lose(m)
  \/ \E t \in Tokens :
       \/ \E kind \in Requests : ResendRequest(kind, t)
       \/ \E n \in Numbers : ResendNotification(t, n)

Next == Application \/ Server \/ Client \/ Network

Spec == Init /\ [][Next]_vars

(* Handlers run, exchanges end, the network delivers or loses what it      *)
(* carries, 24 hours pass, and the resource changes again and again.       *)
(* Nobody has to register or to cancel, and nothing has to search the      *)
(* client's callback list.                                                 *)
Fairness ==
  /\ \A t \in Tokens :
       /\ WF_vars(HandleRegister(t))
       /\ WF_vars(HandleDeregister(t))
       /\ WF_vars(BecomesDue(t))
       /\ \A n \in Numbers :
            /\ WF_vars(HandleReply("ack", t, n) \/ HandleReply("rst", t, n))
            /\ WF_vars(NotificationTimeout(t, n))
            /\ WF_vars(HandleNotification("con", t, n))
            /\ WF_vars(HandleNotification("non", t, n))
       /\ WF_vars(\E kind \in {"regAck", "deregAck", "error"} : HandleResponse(kind, t))
       /\ \A kind \in Requests : WF_vars(RequestTimeout(kind, t))
  /\ WF_vars(\E q \in QoS \cup {"NA"} : NotifyAll(q))

FairSpec == Spec /\ Fairness

-----------------------------------------------------------------------------
(* Properties.                                                             *)

(* The entity handler and the stack agree on who observes: every           *)
(* registration, deregistration, RST and communication failure reaches     *)
(* both, and an id stands for one observer.                                *)
HandlerAgrees ==
  /\ handlerView = {obsId[t] : t \in Obs}
  /\ \A t, u \in Obs : obsId[t] = obsId[u] => t = u

(* A registration that is retransmitted, duplicated or delayed does not    *)
(* make a second observer.                                                 *)
NoDuplicateObserver ==
  \A i, j \in DOMAIN observers : observers[i] = observers[j] => i = j

(* An observer is removed for a reason: its client no longer wants it (the *)
(* callback is gone or OCCancel was called), or it left MaxFailed + 1      *)
(* confirmable notifications in a row unanswered.                          *)
RemovedForCause ==
  [][\A t \in Obs : t \notin Obs' =>
       cb[t] = "gone" \/ t \in cancelled \/ failedComm[t] = MaxFailed]_vars

(* An observer whose client is gone leaves the list in the end: every      *)
(* (MaxNon + 1)th notification is confirmable, and its RST or its time-outs*)
(* remove it.                                                              *)
GoneIsRemoved ==
  \A t \in Tokens : (cb[t] = "gone" /\ t \in Obs) ~> (t \notin Obs)

(* "Determine observe QOS based on the QOS of the request." (ocobserve.c): *)
(* with OC_NA_QOS what one observer gets does not depend on the observers  *)
(* before it in the list.                                                  *)
OwnQoS ==
  \A i \in DOMAIN observers :
    Decided(observers, "NA")[i] = DetermineObserverQoS(observers[i], "NA")

(* "This timeout will NOT apply to OBSERVE requests. OBSERVE needs an      *)
(* explicit cancel using OCCancel()." (ocstackconfig.h): the callback of an *)
(* observation goes when the application cancels, or with a last call of it.*)
ObservationKept ==
  [][\A t \in Tokens : cb[t] = "active" /\ cb'[t] = "gone"
       => t \in cancelled' \cup ended']_vars
=============================================================================
