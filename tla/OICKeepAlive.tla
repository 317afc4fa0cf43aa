---------------------------- MODULE OICKeepAlive ----------------------------
(***************************************************************************)
(* Keep-alive of TCP connections (oickeepalive.c) between clients and one  *)
(* server, both ends running this stack.  When a client has connected, it  *)
(* looks for /oic/ping; the answer creates its table entry and the first   *)
(* ping, a POST that announces in how many minutes the next one comes.     *)
(* ProcessKeepAlive, called from OCProcess, sends the pings and drops      *)
(* connections whose peer is silent.  The connection callback runs in the  *)
(* threads of the TCP adapter.                                             *)
(*                                                                         *)
(* Time is in minutes and only as the age of an entry's time stamp.  A     *)
(* connection is <<client, number>>: a server knows a client by address    *)
(* and port, and each connection has a new port; a client knows the server *)
(* by one address.  A turn of the loop of ProcessKeepAlive is one step,    *)
(* although the table has no mutex and the callback of the TCP threads may *)
(* run inside it; so is handing a message to the adapter's send thread,    *)
(* which may fail to send it later.                                        *)
(***************************************************************************)
EXTENDS Integers, Sequences, SequencesExt, FiniteSets

CONSTANTS Clients,
          Intervals,   \* intervalInfo: minutes, 2 << i or the server's list
          MaxConns,    \* bound: connections a client opens
          MaxErrors    \* bound: error responses that wait at a client

ASSUME KeepAliveAssumption ==
    /\ MaxConns \in Nat /\ MaxErrors \in Nat
    /\ Intervals \in Seq(Nat \ {0}) /\ Intervals # <<>>

VARIABLES entry,     \* entry[c]: the client's table, <<>> or one KeepAliveEntry_t
          table,     \* the server's g_keepAliveConnectionTable
          turn,      \* ProcessKeepAlive of the server: next index and len
          session,   \* session[c]: number of the client's connection, 0 if none
          opened,    \* opened[c]: number of connections the client has opened
          accepted,  \* connections for which the server has a session
          cut,       \* connections the network has silently stopped to serve
          toServer,  \* toServer[c]: requests sent and not handled
          toClient,  \* toClient[c]: responses sent and not handled
          failed,    \* failed[c]: OCDoResource has refused the last ping of c
          errors     \* errors[c]: error responses in the receive queue of c

vars == <<entry, table, turn, session, opened, accepted, cut, toServer,
          toClient, failed, errors>>

KEEPALIVE_RESPONSE_TIMEOUT == 1

Longest == Intervals[Len(Intervals)]
AgeCap == Longest + 1
Older(age) == IF age < AgeCap THEN age + 1 ELSE age

Conns == Clients \X (1..MaxConns)
Here(c) == <<c, session[c]>>
\* Both ends have the connection and the network serves it.
Whole(k) == k \in accepted \ cut /\ session[k[1]] = k[2]
\* A queue of messages after one more is sent: on a connection that is not
\* whole it goes nowhere.
Sent(q, m) == IF Whole(m.conn) THEN Append(q, m) ELSE q

ClientEntries == [idx : 1..Len(Intervals), sent : BOOLEAN, age : 0..AgeCap]
ServerEntries == [conn : Conns, interval : Nat, age : 0..AgeCap]

TypeOK ==
    /\ \A c \in Clients : Len(entry[c]) <= 1 /\ entry[c] \in Seq(ClientEntries)
    /\ table \in Seq(ServerEntries)
    /\ turn \in [next : Nat, len : Nat]
    /\ session \in [Clients -> 0..MaxConns] /\ opened \in [Clients -> 0..MaxConns]
    /\ accepted \subseteq Conns /\ cut \subseteq Conns
    /\ failed \in [Clients -> BOOLEAN] /\ errors \in [Clients -> 0..MaxErrors]

Init ==
    /\ entry = [c \in Clients |-> <<>>]
    /\ table = <<>> /\ turn = [next |-> 0, len |-> 0]
    /\ session = [c \in Clients |-> 0] /\ opened = [c \in Clients |-> 0]
    /\ accepted = {} /\ cut = {}
    /\ toServer = [c \in Clients |-> <<>>] /\ toClient = [c \in Clients |-> <<>>]
    /\ failed = [c \in Clients |-> FALSE] /\ errors = [c \in Clients |-> 0]

Request(c, k, method, interval) ==
    [conn |-> <<c, k>>, method |-> method, interval |-> interval]

-----------------------------------------------------------------------------
(* The client.                                                             *)

\* CAConnectTCPSession and the connected callback: HandleKeepAliveConnCB looks
\* for the ping resource of the server.  msgs is what waited for the session.
\* OCDoResource may fail, and then there is no keep-alive on the connection.
Connect(c, msgs) ==
    /\ session[c] = 0 /\ opened[c] < MaxConns
    /\ session' = [session EXCEPT ![c] = opened[c] + 1]
    /\ opened' = [opened EXCEPT ![c] = @ + 1]
    /\ accepted' = accepted \cup {<<c, opened[c] + 1>>}
    /\ \E found \in {<<>>, <<Request(c, opened[c] + 1, "GET", 0)>>} :
           toServer' = [toServer EXCEPT ![c] = @ \o msgs \o found]

\* The application of c talks to the server for the first time, or again.
AppConnects(c) ==
    /\ Connect(c, <<>>)
    /\ UNCHANGED <<entry, table, turn, cut, toClient, failed, errors>>

\* CATCPErrorHandler: the ping that could not be sent goes to the receive
\* queue as an error response.
ReportError(c) ==
    /\ errors[c] < MaxErrors
    /\ errors' = [errors EXCEPT ![c] = @ + 1]

\* SendPingMessage for entry e: the request is refused by OCDoResource, goes
\* out on the session, opens one first, or fails to.
SendPingMessage(c, e) ==
    \/ /\ entry' = [entry EXCEPT ![c] = <<e>>]
       /\ failed' = [failed EXCEPT ![c] = TRUE]
       /\ UNCHANGED <<session, opened, accepted, toServer, errors>>
    \/ /\ entry' = [entry EXCEPT ![c] = <<[e EXCEPT !.sent = TRUE, !.age = 0]>>]
       /\ failed' = [failed EXCEPT ![c] = FALSE]
       /\ \/ /\ session[c] # 0
             /\ toServer' = [toServer EXCEPT ![c] = Sent(@,
                                Request(c, session[c], "POST", Intervals[e.idx]))]
             /\ UNCHANGED <<session, opened, accepted, errors>>
          \/ /\ Connect(c, <<Request(c, opened[c] + 1, "POST", Intervals[e.idx])>>)
             /\ UNCHANGED errors
          \/ /\ session[c] = 0 /\ ReportError(c)
             /\ UNCHANGED <<session, opened, accepted, toServer>>

\* HandleKeepAliveResponse with an entry: any response, an error too.
Heard(c) == entry' = [entry EXCEPT ![c][1].sent = FALSE]

\* HandleKeepAliveResponse for an answer of the server: without an entry the
\* answer to the search makes one and the first ping.
HandleKeepAliveResponse(c) ==
    /\ toClient[c] # <<>>
    /\ toClient' = [toClient EXCEPT ![c] = Tail(@)]
    /\ IF entry[c] = <<>> /\ Head(toClient[c]).method = "GET"
       THEN SendPingMessage(c, [idx |-> 1, sent |-> FALSE, age |-> 0])
       ELSE /\ IF entry[c] # <<>> THEN Heard(c) ELSE UNCHANGED entry
            /\ UNCHANGED <<session, opened, accepted, toServer, failed, errors>>
    /\ UNCHANGED <<table, turn, cut>>

\* HandleCAErrorResponse: PingRequestCallback has HandleKeepAliveResponse
\* look for an entry, whichever connection the ping was for.
HandleErrorResponse(c) ==
    /\ errors[c] > 0
    /\ errors' = [errors EXCEPT ![c] = @ - 1]
    /\ IF entry[c] # <<>> THEN Heard(c) ELSE UNCHANGED entry
    /\ UNCHANGED <<table, turn, session, opened, accepted, cut, toServer, toClient, failed>>

IncreaseInterval(e) ==
    IF e.idx < Len(Intervals) THEN [e EXCEPT !.idx = @ + 1] ELSE e

\* SendDisconnectMessage at the client.  The entry is freed before its address
\* is read for CASendRequest: the message closes the session, or goes astray
\* (reached is FALSE).  CADisconnectTCPSession calls back, to no effect.
DisconnectServer(c, reached) ==
    /\ entry' = [entry EXCEPT ![c] = <<>>]
    /\ session' = [session EXCEPT ![c] = IF reached THEN 0 ELSE @]

\* Mutant of PingDue: the ping goes out before the interval is increased, so
\* it announces the old one.
PingDueLate(c) ==
    LET e == entry[c][1]
    IN  /\ ~e.sent /\ Intervals[e.idx] <= e.age
        /\ session[c] # 0
        /\ entry' = [entry EXCEPT ![c] =
               <<[IncreaseInterval(e) EXCEPT !.sent = TRUE, !.age = 0]>>]
        /\ toServer' = [toServer EXCEPT ![c] = Sent(@,
               Request(c, session[c], "POST", Intervals[e.idx]))]
        /\ failed' = [failed EXCEPT ![c] = FALSE]
        /\ UNCHANGED <<session, opened, accepted, errors>>

\* ProcessKeepAlive of a client whose interval has passed.
PingDue(c) ==
    LET e == entry[c][1]
    IN  /\ ~e.sent /\ Intervals[e.idx] <= e.age
        /\ SendPingMessage(c, IncreaseInterval(e))

\* ProcessKeepAlive of a client whose ping was not answered in a minute.
PingTimeout(c) ==
    LET e == entry[c][1]
    IN  /\ e.sent /\ KEEPALIVE_RESPONSE_TIMEOUT <= e.age
        /\ \E reached \in BOOLEAN : DisconnectServer(c, reached)
        /\ UNCHANGED <<opened, accepted, toServer, failed, errors>>

ClientProcessKeepAlive(c) ==
    /\ entry[c] # <<>>
    /\ PingDue(c) \/ PingTimeout(c)
    /\ UNCHANGED <<table, turn, cut, toClient>>

\* recv() sees the end of the connection: CADisconnectTCPSession calls
\* HandleKeepAliveConnCB, which removes the entry.
ClientDisconnected(c) ==
    /\ session[c] # 0 /\ Here(c) \notin accepted /\ Here(c) \notin cut
    /\ session' = [session EXCEPT ![c] = 0]
    /\ entry' = [entry EXCEPT ![c] = <<>>]
    /\ UNCHANGED <<table, turn, opened, accepted, cut, toServer, toClient, failed, errors>>

\* CATCPSendData fails for the last ping or for a message of the application:
\* CASearchAndDeleteTCPSession closes the session, which calls back.
SendFails(c) ==
    /\ session[c] # 0
    /\ session' = [session EXCEPT ![c] = 0]
    /\ entry' = [entry EXCEPT ![c] = <<>>]
    /\ \/ entry[c] # <<>> /\ entry[c][1].sent /\ ReportError(c)
       \/ UNCHANGED errors
    /\ UNCHANGED <<table, turn, opened, accepted, cut, toServer, toClient, failed>>

-----------------------------------------------------------------------------
(* The server.                                                             *)

\* GetEntryFromEndpoint: the first index with the address and port of k.
Lookup(k) == SelectInSeq(table, LAMBDA e : e.conn = k)

Fresh(k, interval) == [conn |-> k, interval |-> interval, age |-> 0]

\* Mutant of HandleKeepAlivePOSTRequest: a known client gets another entry.
HandleKeepAlivePOSTRequestTwice(k, interval) ==
    table' = Append(table, Fresh(k, interval))

\* HandleKeepAlivePOSTRequest: the first ping of a client adds its entry.
HandleKeepAlivePOSTRequest(k, interval) ==
    table' = IF Lookup(k) = 0 THEN Append(table, Fresh(k, interval))
             ELSE [table EXCEPT ![Lookup(k)] = Fresh(k, interval)]

\* HandleKeepAliveRequest: POST updates the table, GET finds the resource;
\* SendKeepAliveResponse answers, if there is still a session to answer on.
HandleKeepAliveRequest(c) ==
    /\ toServer[c] # <<>>
    /\ LET r == Head(toServer[c])
       IN  /\ IF r.method = "POST" THEN HandleKeepAlivePOSTRequest(r.conn, r.interval)
              ELSE UNCHANGED table
           /\ toClient' = [toClient EXCEPT ![c] = Sent(@, r)]
    /\ toServer' = [toServer EXCEPT ![c] = Tail(@)]
    /\ UNCHANGED <<entry, turn, session, opened, accepted, cut, failed, errors>>

\* A call of ProcessKeepAlive: len is read once.
StartTurn ==
    /\ turn.next = turn.len
    /\ table # <<>>
    /\ turn' = [next |-> 0, len |-> Len(table)]
    /\ UNCHANGED <<entry, table, session, opened, accepted, cut, toServer, toClient, failed, errors>>

\* Mutant of ServerTurn: a silent client is never dropped.
ServerTurnLenient ==
    /\ turn.next < turn.len
    /\ turn' = [turn EXCEPT !.next = @ + 1]
    /\ UNCHANGED <<entry, table, session, opened, accepted, cut, toServer, toClient, failed, errors>>

\* One turn of its loop.  u_arraylist_get is NULL past the end; dropping an
\* entry moves the following ones down, so the next one is passed over.
ServerTurn ==
    /\ turn.next < turn.len
    /\ turn' = [turn EXCEPT !.next = @ + 1]
    /\ LET i == turn.next + 1
       IN  IF i <= Len(table) /\ table[i].interval <= table[i].age
           THEN \E reached \in BOOLEAN :
                    /\ table' = RemoveAt(table, i)
                    /\ accepted' = IF reached THEN accepted \ {table[i].conn} ELSE accepted
           ELSE UNCHANGED <<table, accepted>>
    /\ UNCHANGED <<entry, session, opened, cut, toServer, toClient, failed, errors>>

\* recv() at the server sees the end of a connection.
ServerDisconnected(k) ==
    /\ k \in accepted \ cut /\ session[k[1]] # k[2]
    /\ accepted' = accepted \ {k}
    /\ table' = IF Lookup(k) = 0 THEN table ELSE RemoveAt(table, Lookup(k))
    /\ UNCHANGED <<entry, turn, session, opened, cut, toServer, toClient, failed, errors>>

-----------------------------------------------------------------------------
(* Time and the network.                                                   *)

Tick ==
    /\ entry' = [c \in Clients |-> [i \in DOMAIN entry[c] |->
                    [entry[c][i] EXCEPT !.age = Older(@)]]]
    /\ table' = [i \in DOMAIN table |-> [table[i] EXCEPT !.age = Older(@)]]
    /\ UNCHANGED <<turn, session, opened, accepted, cut, toServer, toClient, failed, errors>>

\* The path between the ends breaks without either being told.
Cut(c) ==
    /\ session[c] # 0 /\ Here(c) \in accepted \ cut
    /\ cut' = cut \cup {Here(c)}
    /\ UNCHANGED <<entry, table, turn, session, opened, accepted, toServer, toClient, failed, errors>>

\* What was in flight on a broken connection is lost, unless the other end had
\* received it before; that is then handled as any other message.
Lose(c) ==
    \/ /\ toServer[c] # <<>> /\ ~Whole(Head(toServer[c]).conn)
       /\ toServer' = [toServer EXCEPT ![c] = Tail(@)]
       /\ UNCHANGED <<entry, table, turn, session, opened, accepted, cut, toClient, failed, errors>>
    \/ /\ toClient[c] # <<>> /\ ~Whole(Head(toClient[c]).conn)
       /\ toClient' = [toClient EXCEPT ![c] = Tail(@)]
       /\ UNCHANGED <<entry, table, turn, session, opened, accepted, cut, toServer, failed, errors>>

Next ==
    \/ \E c \in Clients :
          \/ AppConnects(c) \/ HandleKeepAliveResponse(c) \/ ClientProcessKeepAlive(c)
          \/ HandleErrorResponse(c) \/ SendFails(c)
          \/ ClientDisconnected(c) \/ HandleKeepAliveRequest(c) \/ Cut(c) \/ Lose(c)
    \/ \E k \in Conns : ServerDisconnected(k)
    \/ StartTurn \/ ServerTurn \/ Tick

Spec == Init /\ [][Next]_vars

\* The clock goes on, OCProcess is called again and again at both ends, and
\* the TCP threads report the end of a connection that is seen to close.  A
\* ping that is due is not refused by OCDoResource for ever.
Fairness ==
    /\ WF_vars(Tick) /\ WF_vars(StartTurn) /\ WF_vars(ServerTurn)
    /\ \A c \in Clients : /\ WF_vars(ClientProcessKeepAlive(c))
                          /\ WF_vars(ClientDisconnected(c))
                          /\ WF_vars(HandleErrorResponse(c))
                          /\ WF_vars(HandleKeepAliveRequest(c) \/ Lose(c))
                          /\ WF_vars(HandleKeepAliveResponse(c) \/ Lose(c))
    /\ \A k \in Conns : WF_vars(ServerDisconnected(k))

FairSpec == Spec /\ Fairness

-----------------------------------------------------------------------------
\* A connection has one entry at the server, however its pings, its end and
\* the loop of ProcessKeepAlive interleave.
OneEntry == \A i, j \in DOMAIN table : table[i].conn = table[j].conn => i = j

\* The ends agree on the pace: with no ping on its way and none refused by
\* OCDoResource, the server waits exactly as long as the client will let it.
PaceAgreed ==
    \A c \in Clients : \A i \in DOMAIN table :
        (/\ entry[c] # <<>> /\ table[i].conn = Here(c) /\ Whole(Here(c)) /\ ~failed[c]
         /\ \A j \in DOMAIN toServer[c] : toServer[c][j].method # "POST")
        => table[i].interval = Intervals[entry[c][1].idx]

\* The server does not remember for ever a connection that is dead: cut, or
\* closed while a message of it was still waiting to be handled.  The client
\* either forgets it, gets a new one, or is told again and again that a ping
\* cannot be sent: an error response takes the ping for answered, so the
\* entry may outlive its connection, but never silently.
DeadForgotten ==
    /\ \A k \in Conns :
          (~Whole(k) /\ Lookup(k) # 0) ~> (Lookup(k) = 0)
    /\ \A c \in Clients :
          (entry[c] # <<>> /\ ~Whole(Here(c)))
              ~> (entry[c] = <<>> \/ Whole(Here(c)) \/ errors[c] > 0)

\* What the comments of ProcessKeepAlive say: an end that hears nothing
\* terminates the connection.
SilentTerminated ==
    \A c \in Clients : \A n \in 1..MaxConns :
        (entry[c] # <<>> /\ session[c] = n /\ <<c, n>> \in cut) ~> (session[c] # n)

=============================================================================
