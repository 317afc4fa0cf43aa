----------------------------- MODULE OCPresence -----------------------------
(***************************************************************************)
(* Presence (ocstack.c): a client that has subscribed to the presence of   *)
(* servers, and the servers' announcements.  A server announces itself by  *)
(* multicast when presence starts, when its resources change and when it   *)
(* is asked, with a random sequence number and a time to live.  The client *)
(* runs timers at growing parts of that time, asks at each of them and     *)
(* gives the server up after the last.                                     *)
(*                                                                         *)
(* OCProcess of the client runs in one thread: a walk of OCProcessPresence *)
(* and the handling of a response, callbacks included, are one action      *)
(* each.  The network loses announcements and delivers the others late and *)
(* in any order; a request reaches its server at once or never.            *)
(* Subscriptions are to single servers: the callback of a multicast one is *)
(* called for what none of them takes, and keeps neither timers nor        *)
(* numbers.  The times are ones that the guard of GetTicks lets pass.      *)
(***************************************************************************)
EXTENDS Integers, Sequences, SequencesExt, FiniteSets

CONSTANTS Servers,
          Filtered,         \* those subscribed to for one resource type only
          PresenceTimeOut,  \* bounds of the timers, in parts of the TTL
          MaxSeq,           \* bound: sequence numbers the servers draw
          MaxInFlight       \* bound: announcements on their way

PresenceTimeOutSize == Len(PresenceTimeOut) - 1

ASSUME PresenceAssumption ==
    /\ PresenceTimeOut \in Seq(Nat \ {0}) /\ Len(PresenceTimeOut) > 1
    /\ \A i \in 1..PresenceTimeOutSize : PresenceTimeOut[i] <= PresenceTimeOut[i + 1]
    /\ IsFiniteSet(Servers) /\ Filtered \subseteq Servers
    /\ MaxSeq \in Nat /\ MaxInFlight \in Nat

VARIABLES subs,      \* presence nodes of g_cbList: server, sequenceNumber, presence
          told,      \* told[s]: what the application was last told of s
          timeouts,  \* timeouts[s]: time-outs of s reported since it was heard of
          server,    \* server[s]: presence of s and sequence number of its resource
          notes      \* announcements and answers on their way to the client

vars == <<subs, told, timeouts, server, notes>>

TTL == PresenceTimeOut[Len(PresenceTimeOut)]

\* The node's OCPresence: <<>> for NULL.  age is the time since it was reset.
Timers == [1..PresenceTimeOutSize -> 1..TTL]
Presence == [level : 0..PresenceTimeOutSize + 2, age : 0..TTL, timeOut : Timers]

TypeOK ==
    /\ subs \in Seq([server : Servers, seq : 0..MaxSeq, presence : {<<>>} \cup
                        {<<p>> : p \in Presence}])
    /\ told \in [Servers -> {"nothing", "present", "stopped", "timeout"}]
    /\ timeouts \in [Servers -> Nat]
    /\ server \in [Servers -> [state : {"new", "active", "inactive", "down"},
                               seq : 0..MaxSeq]]
    /\ notes \subseteq [server : Servers, seq : 0..MaxSeq,
                        kind : {"live", "stop", "deleted"}]

Init ==
    /\ subs = <<>>
    /\ told = [s \in Servers |-> "nothing"] /\ timeouts = [s \in Servers |-> 0]
    /\ server = [s \in Servers |-> [state |-> "new", seq |-> 0]]
    /\ notes = {}

clientVars == <<subs, told, timeouts>>

-----------------------------------------------------------------------------
(* The servers.                                                            *)

Note(s, seq, kind) == [server |-> s, seq |-> seq, kind |-> kind]

\* SendAllObserverNotification for presence.  maxAge is 0 unless "live", and
\* "stop" names no resource type.
\* It is lost, or on its way with those that still are.
Announce(note) ==
    \/ UNCHANGED notes
    \/ Cardinality(notes) < MaxInFlight /\ notes' = notes \cup {note}

\* OCGetRandom draws a number that s has not drawn before.
Drawn(s) == server[s].seq + 1
MayDraw == MapThenSumSet(LAMBDA s : server[s].seq, Servers) < MaxSeq

Set(s, state, seq) == server' = [server EXCEPT ![s] = [state |-> state, seq |-> seq]]

OCStartPresence(s) ==
    /\ server[s].state # "down" /\ MayDraw
    /\ Set(s, "active", Drawn(s))
    /\ Announce(Note(s, Drawn(s), "live"))
    /\ UNCHANGED clientVars

\* A resource is created, bound, unbound or deleted, or gets another type,
\* interface or handler.
ResourceChange(s) ==
    /\ server[s].state # "down" /\ MayDraw
    /\ Set(s, server[s].state, Drawn(s))
    /\ IF server[s].state = "active" THEN Announce(Note(s, Drawn(s), "live"))
       ELSE UNCHANGED notes
    /\ UNCHANGED clientVars

\* OCStopPresence, also when it was stopped before.
OCStopPresence(s) ==
    /\ server[s].state \in {"active", "inactive"} /\ MayDraw
    /\ Set(s, "inactive", Drawn(s))
    /\ Announce(Note(s, Drawn(s), "stop"))
    /\ UNCHANGED clientVars

\* OCStop: presenceTTL is 0 when deleteAllResources announces the resources
\* it deletes, each with its type; one announcement stands for them.
OCStop(s) ==
    /\ server[s].state # "down" /\ MayDraw
    /\ Set(s, "down", Drawn(s))
    /\ IF server[s].state = "active" THEN Announce(Note(s, Drawn(s), "deleted"))
       ELSE UNCHANGED notes
    /\ UNCHANGED clientVars

\* The server fails or leaves the network without a word; it comes back.
Crash(s) ==
    /\ server[s].state # "down"
    /\ Set(s, "down", server[s].seq)
    /\ UNCHANGED <<clientVars, notes>>

Restart(s) ==
    /\ server[s].state = "down"
    /\ Set(s, "new", server[s].seq)
    /\ UNCHANGED <<clientVars, notes>>

\* HandleVirtualResource for /oic/ad: an active server announces itself, any
\* other answers without payload, which reads as number 0 and maxAge 0.
HandlePoll(s) ==
    IF server[s].state = "active" THEN Note(s, server[s].seq, "live")
    ELSE Note(s, 0, "stop")

-----------------------------------------------------------------------------
(* The client's list.                                                      *)

\* GetClientCBUsingUri
Lookup(s) == SelectInSeq(subs, LAMBDA n : n.server = s)

\* OCDoRequest with OC_REST_PRESENCE and AddClientCB: nothing is sent, and a
\* node that exists is used again.
Subscribe(s) ==
    /\ Lookup(s) = 0
    /\ subs' = Append(subs, [server |-> s, seq |-> 0, presence |-> <<>>])
    /\ timeouts' = [timeouts EXCEPT ![s] = 0]
    /\ UNCHANGED <<told, server, notes>>

OCCancel(s) ==
    /\ Lookup(s) # 0
    /\ subs' = RemoveAt(subs, Lookup(s))
    /\ told' = [told EXCEPT ![s] = "nothing"]
    /\ timeouts' = [timeouts EXCEPT ![s] = 0]
    /\ UNCHANGED <<server, notes>>

\* The timers ResetPresenceTTL may draw.
Drawings ==
    {t \in Timers : \A i \in 1..PresenceTimeOutSize :
        t[i] \in PresenceTimeOut[i]..PresenceTimeOut[i + 1]}

\* Mutant of Reset: TTLlevel is left as it is.
ResetTimers(n, t) ==
    IF n.presence = <<>> THEN <<[level |-> 0, age |-> 0, timeOut |-> t]>>
    ELSE <<[n.presence[1] EXCEPT !.age = 0, !.timeOut = t]>>

\* ResetPresenceTTL on node n, whose OCPresence is allocated if it has none.
Reset(n, t) == <<[level |-> 0, age |-> 0, timeOut |-> t]>>

Heard(s) == timeouts' = [timeouts EXCEPT ![s] = 0]

\* "No presence change".  Without OCPresence only the log would look at it.
Unchanged(i, note) ==
    /\ subs[i].seq = note.seq
    /\ IF subs[i].presence = <<>> THEN UNCHANGED <<subs, timeouts>>
       ELSE /\ \E t \in Drawings : subs' = [subs EXCEPT ![i].presence = Reset(subs[i], t)]
            /\ Heard(note.server)
    /\ UNCHANGED told

\* The node after the callback, which may ask for its deletion.
CalledBack(i, node, result) ==
    \/ /\ subs' = [subs EXCEPT ![i] = node]
       /\ told' = [told EXCEPT ![node.server] = result]
    \/ /\ subs' = RemoveAt(subs, i)
       /\ told' = [told EXCEPT ![node.server] = "nothing"]

\* The resource type of a note need not be the one subscribed to.
Filters(note) == note.server \in Filtered /\ note.kind # "stop"

Report(i, node, note, result) ==
    \/ CalledBack(i, node, result)
    \/ Filters(note) /\ subs' = [subs EXCEPT ![i] = node] /\ UNCHANGED told

Stopped(i, note) ==
    /\ subs[i].seq # note.seq /\ note.kind # "live"
    /\ Report(i, [subs[i] EXCEPT !.presence = <<>>], note, "stopped")
    /\ Heard(note.server)

Present(i, note) ==
    /\ subs[i].seq # note.seq /\ note.kind = "live"
    /\ \E t \in Drawings :
           Report(i, [subs[i] EXCEPT !.presence = Reset(subs[i], t), !.seq = note.seq],
                  note, "present")
    /\ Heard(note.server)

HandlePresenceResponse(note) ==
    /\ note \in notes
    /\ notes' = notes \ {note}
    /\ \/ Lookup(note.server) = 0 /\ UNCHANGED clientVars
       \/ /\ Lookup(note.server) # 0
          /\ \E i \in {Lookup(note.server)} :
                 Unchanged(i, note) \/ Stopped(i, note) \/ Present(i, note)
    /\ UNCHANGED server

-----------------------------------------------------------------------------
(* OCProcessPresence.                                                      *)

Level(n) == n.presence[1].level

\* The time-out was reported before: the walk ends here.
Stuck(n) == n.presence # <<>> /\ Level(n) > PresenceTimeOutSize

\* All the timers have run out: the time-out is reported.
Expired(n) == n.presence # <<>> /\ Level(n) = PresenceTimeOutSize

\* The next timer has run out: the server is asked.
Due(n) ==
    /\ n.presence # <<>> /\ Level(n) < PresenceTimeOutSize
    /\ n.presence[1].timeOut[Level(n) + 1] <= n.presence[1].age

\* Mutant of EndsWalk: a node whose time has not come ends the walk.
EndsWalkIdle(i, asking, failed) == i \notin asking \/ i \in failed

\* goto exit at place i of the list.
EndsWalk(i, asking, failed) == Stuck(subs[i]) \/ (i \in asking /\ i \in failed)

\* Mutant of Visited: after the report the level stays.
VisitedAgain(i, asked, deleted) ==
    IF i \in deleted THEN <<>>
    ELSE IF Due(subs[i]) /\ asked
         THEN <<[subs[i] EXCEPT !.presence[1].level = @ + 1]>> ELSE <<subs[i]>>

\* The node at place i after its visit, <<>> if the callback had it deleted.
Visited(i, asked, deleted) ==
    LET up == (IF Expired(subs[i]) THEN 1 ELSE 0) + (IF asked THEN 1 ELSE 0)
    IN  IF i \in deleted THEN <<>>
        ELSE IF up = 0 THEN <<subs[i]>>
        ELSE <<[subs[i] EXCEPT !.presence[1].level = @ + up]>>

\* One walk.  OCSendRequest fails for the nodes in `failed', and the callback
\* deletes those in `deleted'.  After a time-out was reported the code goes on
\* to compare with timeOut[TTLlevel], behind the array or in a node that was
\* deleted: the outcome is that the nodes in `more' ask once more.
Walk(failed, deleted, more) ==
    LET asking == {i \in DOMAIN subs : Due(subs[i])} \cup more
        ends == {i \in DOMAIN subs : EndsWalk(i, asking, failed)}
        seen == {i \in DOMAIN subs : \A e \in ends : i <= e}
        late == {i \in seen : Expired(subs[i])}
        asked == (asking \cap seen) \ failed
        servers(places) == {subs[i].server : i \in places}
    IN  /\ UNCHANGED server
        /\ subs' = FlattenSeq([i \in DOMAIN subs |->
               IF i \in seen THEN Visited(i, i \in asked, deleted) ELSE <<subs[i]>>])
        /\ told' = [s \in Servers |->
               IF s \notin servers(late) THEN told[s]
               ELSE IF s \in servers(deleted) THEN "nothing" ELSE "timeout"]
        /\ timeouts' = [s \in Servers |->
               timeouts[s] + (IF s \in servers(late) THEN 1 ELSE 0)]
        /\ \E reached \in SUBSET {i \in asked \ deleted : server[subs[i].server].state # "down"} :
               notes' = notes \cup {HandlePoll(subs[i].server) : i \in reached}
        /\ Cardinality(notes') <= MaxInFlight

Late == {i \in DOMAIN subs : Expired(subs[i])}

\* A call of OCProcessPresence in which every request can be sent, and any.
WalkSending == \E deleted \in SUBSET Late, more \in SUBSET Late : Walk({}, deleted, more)

OCProcessPresence ==
    \E deleted \in SUBSET Late, more \in SUBSET Late :
        \E failed \in SUBSET {i \in DOMAIN subs : Due(subs[i]) \/ i \in more} :
            Walk(failed, deleted, more)

-----------------------------------------------------------------------------
(* Time and the network.                                                   *)

Older(p) == IF p.level <= PresenceTimeOutSize /\ p.age < TTL
            THEN [p EXCEPT !.age = @ + 1] ELSE p

Tick ==
    /\ UNCHANGED <<told, timeouts, server, notes>>
    /\ subs' = [i \in DOMAIN subs |->
           [subs[i] EXCEPT !.presence = [j \in DOMAIN @ |-> Older(@[j])]]]

Lose(n) ==
    /\ n \in notes
    /\ notes' = notes \ {n}
    /\ UNCHANGED <<clientVars, server>>

Next ==
    \/ \E s \in Servers : \/ OCStartPresence(s) \/ ResourceChange(s)
                          \/ OCStopPresence(s) \/ OCStop(s) \/ Crash(s) \/ Restart(s)
                          \/ Subscribe(s) \/ OCCancel(s)
    \/ \E n \in notes : HandlePresenceResponse(n) \/ Lose(n)
    \/ OCProcessPresence
    \/ Tick

Spec == Init /\ [][Next]_vars

\* Time passes, OCProcess is called again and again, and requests can be sent
\* again and again.  Nothing is assumed of the network or of the servers.
FairSpec == Spec /\ WF_vars(Tick) /\ WF_vars(WalkSending)

-----------------------------------------------------------------------------
(* Properties.                                                             *)

Node(s) == subs[Lookup(s)]

\* A time-out is reported once, and not before the last timer can have run
\* out since the server was heard of.
TimeoutEarned ==
    [][\A s \in Servers : timeouts'[s] > timeouts[s] =>
           /\ timeouts'[s] = 1
           /\ Node(s).presence[1].age >= PresenceTimeOut[PresenceTimeOutSize]]_vars

\* A server the application takes for present is watched: its timers run and
\* its time-out has not been passed over, whatever was lost or late.
\* A filter breaks this: the deletion of a resource of another type stops the
\* timers without a word.
BelievedWatched ==
    \A s \in Servers \ Filtered : told[s] = "present" =>
        /\ Lookup(s) # 0
        /\ Node(s).presence # <<>> /\ ~Stuck(Node(s))

\* Before the node of s in the list is one whose time-out has been reported.
Blocked(s) ==
    /\ Lookup(s) # 0
    /\ \E i \in 1..(Lookup(s) - 1) : Stuck(subs[i])

\* The application does not go on taking for present a server that has stopped
\* presence or has died, even if the network loses every message, unless the
\* walk of the client's list never gets to it.
AbsenceNoticed ==
    \A s \in Servers \ Filtered :
        (told[s] = "present" /\ server[s].state # "active")
            ~> (told[s] # "present" \/ server[s].state = "active" \/ Blocked(s))

=============================================================================
