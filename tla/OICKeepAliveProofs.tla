-------------------------- MODULE OICKeepAliveProofs --------------------------
(***************************************************************************)
(* Theorems about OICKeepAlive, for any number of clients and connections  *)
(* and any list of intervals.                                              *)
(***************************************************************************)
EXTENDS OICKeepAlive, SequenceTheorems, WellFoundedInduction, TLAPS

(* The inductive invariant.                                                *)

Msgs == [conn : Conns, method : {"GET", "POST"}, interval : Nat]
NoneOrOne == {<<>>} \cup {<<e>> : e \in ClientEntries}

Types ==
  /\ entry \in [Clients -> NoneOrOne]
  /\ table \in Seq(ServerEntries)
  /\ turn \in [next : Nat, len : Nat]
  /\ session \in [Clients -> 0..MaxConns] /\ opened \in [Clients -> 0..MaxConns]
  /\ accepted \subseteq Conns /\ cut \subseteq Conns
  /\ toServer \in [Clients -> Seq(Msgs)] /\ toClient \in [Clients -> Seq(Msgs)]
  /\ failed \in [Clients -> BOOLEAN] /\ errors \in [Clients -> 0..MaxErrors]

(* Nothing refers to a connection that has not been opened.                *)
OfClient(q, c, n) == \A j \in DOMAIN q : q[j].conn[1] = c /\ q[j].conn[2] <= n
Opened ==
  /\ \A c \in Clients : session[c] <= opened[c]
  /\ \A c \in Clients : OfClient(toServer[c], c, opened[c])
  /\ \A i \in DOMAIN table : table[i].conn[2] <= opened[table[i].conn[1]]

(* The pings for connection k in a queue q; the last of them announces v.  *)
Posts(q, k) == {j \in DOMAIN q : q[j].method = "POST" /\ q[j].conn = k}
Announces(q, k, v) ==
  \E j \in Posts(q, k) : q[j].interval = v /\ \A l \in Posts(q, k) : l <= j
Listed(t, k, v) == \A i \in DOMAIN t : t[i].conn = k => t[i].interval = v

(* The server waits v, or will when it has handled the pings on their way. *)
InStep(q, t, k, v) == Announces(q, k, v) \/ (Posts(q, k) = {} /\ Listed(t, k, v))

(* ... where v is what the client's entry says.                            *)
PaceOf(c) ==
  entry[c] # <<>> /\ ~failed[c] /\ Whole(Here(c))
    => InStep(toServer[c], table, Here(c), Intervals[entry[c][1].idx])
Pace == \A c \in Clients : PaceOf(c)

KAInv == Types /\ Opened /\ OneEntry /\ Pace

LEMMA LeastExists ==
  ASSUME NEW T, T \subseteq Nat, T # {}
  PROVE  \E x \in T : \A y \in T : x <= y
<1> DEFINE R == OpToRel(<, Nat)
<1>1. \A x, y \in Nat : y < x => <<y, x>> \in R
  BY DEF OpToRel
<1>2. IsWellFoundedOn(R, Nat)
  BY NatLessThanWellFounded
<1> HIDE DEF R
<1>3. PICK x \in T : \A y \in T : ~ (<<y, x>> \in R)
  BY <1>2, WFMin
<1>4. ASSUME NEW y \in T PROVE x <= y
  <2>1. x \in Nat /\ y \in Nat /\ ~(y < x)
    BY <1>1, <1>3
  <2> QED
    BY <2>1
<1> QED
  BY <1>4

LEMMA MinIs ==
  ASSUME NEW T, T \subseteq Nat, T # {}
  PROVE  Min(T) \in T /\ \A y \in T : Min(T) <= y
  BY LeastExists DEF Min

LEMMA LookupSpec ==
  ASSUME NEW S, table \in Seq(S), NEW k
  PROVE  /\ Lookup(k) = 0 => \A i \in DOMAIN table : table[i].conn # k
         /\ Lookup(k) # 0 => Lookup(k) \in DOMAIN table /\ table[Lookup(k)].conn = k
<1> DEFINE I == {i \in 1..Len(table) : table[i].conn = k}
<1>1. Lookup(k) = IF I # {} THEN Min(I) ELSE 0
  BY DEF Lookup, SelectInSeq
<1>2. DOMAIN table = 1..Len(table) /\ I \subseteq Nat /\ 0 \notin I
  BY LenProperties
<1>3. CASE I = {}
  BY <1>1, <1>2, <1>3
<1>4. CASE I # {}
  <2>1. Min(I) \in I
    BY <1>2, <1>4, MinIs
  <2> QED
    BY <1>1, <1>2, <1>4, <2>1
<1> QED
  BY <1>3, <1>4

LEMMA RemoveAtSpec ==
  ASSUME NEW S, NEW s \in Seq(S), NEW i \in 1..Len(s)
  PROVE  /\ RemoveAt(s, i) \in Seq(S) /\ Len(RemoveAt(s, i)) = Len(s) - 1
         /\ \A j \in 1..(Len(s) - 1) : RemoveAt(s, i)[j] = IF j < i THEN s[j] ELSE s[j + 1]
<1> DEFINE a == SubSeq(s, 1, i - 1)
           b == SubSeq(s, i + 1, Len(s))
<1>0. Len(s) \in Nat /\ i \in Nat /\ i >= 1 /\ i <= Len(s) /\ \A j \in 1..Len(s) : s[j] \in S
  BY LenProperties
<1>1. a \in Seq(S) /\ Len(a) = i - 1 /\ \A j \in 1..(i - 1) : a[j] = s[j]
  BY <1>0, SubSeqProperties
<1>2. b \in Seq(S) /\ Len(b) = Len(s) - i /\ \A j \in 1..(Len(s) - i) : b[j] = s[i + j]
  <2>1. \A j \in (i + 1)..Len(s) : s[j] \in S
    BY <1>0
  <2>2. /\ b \in Seq(S) /\ Len(b) = (IF i + 1 <= Len(s) THEN Len(s) - (i + 1) + 1 ELSE 0)
        /\ \A j \in 1..(Len(s) - (i + 1) + 1) : b[j] = s[i + 1 + j - 1]
    BY <1>0, <2>1, SubSeqProperties
  <2> HIDE DEF b
  <2>3. Len(b) = Len(s) - i
    <3>1. Len(b) = (IF i + 1 <= Len(s) THEN Len(s) - (i + 1) + 1 ELSE 0)
      BY <2>2
    <3>2. CASE i + 1 <= Len(s)
      BY <1>0, <3>1, <3>2
    <3>3. CASE ~(i + 1 <= Len(s))
      BY <1>0, <3>1, <3>3
    <3> QED
      BY <3>2, <3>3
  <2>4. ASSUME NEW j \in 1..(Len(s) - i) PROVE b[j] = s[i + j]
    <3>1. j \in 1..(Len(s) - (i + 1) + 1) /\ i + 1 + j - 1 = i + j
      BY <1>0
    <3> QED
      BY <2>2, <3>1
  <2> QED
    BY <2>2, <2>3, <2>4
<1> HIDE DEF a, b
<1>3. /\ a \o b \in Seq(S) /\ Len(a \o b) = Len(a) + Len(b)
      /\ \A j \in 1..(Len(a) + Len(b)) :
           (a \o b)[j] = IF j <= Len(a) THEN a[j] ELSE b[j - Len(a)]
  BY <1>1, <1>2, ConcatProperties
<1>4. RemoveAt(s, i) = a \o b
  BY DEF RemoveAt, a, b
<1>5. Len(a) + Len(b) = Len(s) - 1
  BY <1>0, <1>1, <1>2
<1>6. ASSUME NEW j \in 1..(Len(s) - 1)
      PROVE  RemoveAt(s, i)[j] = IF j < i THEN s[j] ELSE s[j + 1]
  <2>1. CASE j < i
    BY <1>0, <1>1, <1>3, <1>4, <1>5, <2>1
  <2>2. CASE ~(j < i)
    <3>1. j - (i - 1) \in 1..(Len(s) - i) /\ i + (j - (i - 1)) = j + 1 /\ ~(j <= i - 1)
      BY <1>0, <2>2
    <3>2. RemoveAt(s, i)[j] = b[j - (i - 1)]
      BY <1>1, <1>3, <1>4, <1>5, <3>1
    <3> QED
      BY <1>2, <2>2, <3>1, <3>2
  <2> QED
    BY <2>1, <2>2
<1> QED
  BY <1>3, <1>4, <1>5, <1>6

-----------------------------------------------------------------------------
LEMMA AgeCapType ==
  /\ MaxConns \in Nat /\ Len(Intervals) \in Nat /\ 1 \in 1..Len(Intervals)
  /\ \A i \in 1..Len(Intervals) : Intervals[i] \in Nat
  /\ AgeCap \in Nat /\ AgeCap >= 1
  /\ 0 \in 0..AgeCap /\ \A a \in 0..AgeCap : Older(a) \in 0..AgeCap
<1>1. Intervals \in Seq(Nat \ {0}) /\ Intervals # <<>> /\ MaxConns \in Nat
  BY KeepAliveAssumption
<1>2. Len(Intervals) \in Nat \ {0} /\ \A i \in 1..Len(Intervals) : Intervals[i] \in Nat
  BY <1>1, EmptySeq, LenProperties, ElementOfSeq
<1>3. Longest \in Nat
  BY <1>2 DEF Longest
<1> QED
  BY <1>1, <1>2, <1>3 DEF AgeCap, Older

-----------------------------------------------------------------------------
(* Queues of requests.                                                     *)

(* A ping that is queued for k is the last one.                            *)
LEMMA AppendPost ==
  ASSUME NEW q \in Seq(Msgs), NEW m \in Msgs, m.method = "POST"
  PROVE  Announces(Append(q, m), m.conn, m.interval)
<1> DEFINE p == Append(q, m)
           n == Len(q) + 1
<1>1. n \in Nat /\ DOMAIN p = 1..n /\ p[n] = m
  BY AppendProperties, LenProperties
<1>2. n \in Posts(p, m.conn)
  BY <1>1 DEF Posts
<1>3. \A l \in Posts(p, m.conn) : l <= n
  BY <1>1 DEF Posts
<1> QED
  BY <1>1, <1>2, <1>3 DEF Announces

(* The search for the ping resource is no ping.                            *)
LEMMA AppendGet ==
  ASSUME NEW q \in Seq(Msgs), NEW m \in Msgs, m.method = "GET", NEW k
  PROVE  /\ Posts(Append(q, m), k) = Posts(q, k)
         /\ \A v : Announces(q, k, v) => Announces(Append(q, m), k, v)
<1> DEFINE p == Append(q, m)
           n == Len(q)
<1>1. /\ n \in Nat /\ DOMAIN q = 1..n /\ DOMAIN p = 1..(n + 1) /\ p[n + 1] = m
      /\ \A j \in 1..n : p[j] = q[j]
  BY AppendProperties, LenProperties
<1> HIDE DEF p, n
<1>2. Posts(p, k) = Posts(q, k)
  BY <1>1 DEF Posts
<1>3. \A j \in Posts(q, k) : p[j] = q[j]
  BY <1>1 DEF Posts
<1>4. ASSUME NEW v, Announces(q, k, v) PROVE Announces(p, k, v)
  BY <1>2, <1>3, <1>4 DEF Announces
<1> QED
  BY <1>2, <1>4 DEF p

(* Taking the first request off the queue.                                 *)
LEMMA TailPosts ==
  ASSUME NEW q \in Seq(Msgs), q # <<>>, NEW k, NEW v
  PROVE  /\ Posts(Tail(q), k) = {j \in 1..Len(Tail(q)) : j + 1 \in Posts(q, k)}
         /\ Posts(q, k) = {} => Posts(Tail(q), k) = {}
         /\ Announces(q, k, v) =>
              \/ Announces(Tail(q), k, v)
              \/ /\ Posts(Tail(q), k) = {} /\ Head(q).method = "POST"
                 /\ Head(q).conn = k /\ Head(q).interval = v
<1> DEFINE p == Tail(q)
           n == Len(p)
<1>1. /\ n \in Nat /\ DOMAIN p = 1..n /\ DOMAIN q = 1..(n + 1) /\ Head(q) = q[1]
      /\ \A j \in 1..n : p[j] = q[j + 1]
  <2>1. Len(q) \in Nat /\ DOMAIN q = 1..Len(q)
    BY LenProperties
  <2>2. p \in Seq(Msgs) /\ n = Len(q) - 1 /\ \A j \in 1..n : p[j] = q[j + 1]
    BY HeadTailProperties
  <2>3. n \in Nat /\ DOMAIN p = 1..n
    BY <2>2, LenProperties
  <2> QED
    BY <2>1, <2>2, <2>3
<1> HIDE DEF p, n
<1>2. Posts(p, k) = {j \in 1..n : j + 1 \in Posts(q, k)}
  BY <1>1 DEF Posts
<1>3. ASSUME Announces(q, k, v)
      PROVE  \/ Announces(p, k, v)
             \/ /\ Posts(p, k) = {} /\ Head(q).method = "POST"
                /\ Head(q).conn = k /\ Head(q).interval = v
  <2>1. PICK j \in Posts(q, k) : q[j].interval = v /\ \A l \in Posts(q, k) : l <= j
    BY <1>3 DEF Announces
  <2>2. j \in 1..(n + 1)
    BY <1>1 DEF Posts
  <2>3. CASE j = 1
    <3>1. Posts(p, k) = {}
      BY <1>1, <1>2, <2>1, <2>3
    <3> QED
      BY <1>1, <2>1, <2>3, <3>1 DEF Posts
  <2>4. CASE j # 1
    <3>1. j - 1 \in 1..n /\ (j - 1) + 1 = j
      BY <1>1, <2>2, <2>4
    <3>2. j - 1 \in Posts(p, k) /\ p[j - 1].interval = v
      BY <1>1, <1>2, <2>1, <3>1
    <3>3. ASSUME NEW l \in Posts(p, k) PROVE l <= j - 1
      BY <1>1, <1>2, <2>1, <2>2
    <3> QED
      BY <3>2, <3>3 DEF Announces
  <2> QED
    BY <2>3, <2>4
<1> QED
  BY <1>1, <1>2, <1>3 DEF p, n

-----------------------------------------------------------------------------
(* The table of the server.                                                *)

(* A table t1 with the entries of t, or some of them, as far as the        *)
(* connections and the intervals go.                                       *)
Fewer(t1, t) ==
  \A i \in DOMAIN t1 : \E j \in DOMAIN t :
    t1[i].conn = t[j].conn /\ t1[i].interval = t[j].interval

(* Removing an entry, wherever it is.                                      *)
LEMMA RemoveEntry ==
  ASSUME table \in Seq(ServerEntries), OneEntry, NEW i \in DOMAIN table,
         table' = RemoveAt(table, i)
  PROVE  table' \in Seq(ServerEntries) /\ OneEntry' /\ Fewer(table', table)
<1> DEFINE n == Len(table)
<1>1. n \in Nat /\ DOMAIN table = 1..n
  BY LenProperties
<1>2. /\ table' \in Seq(ServerEntries) /\ Len(table') = n - 1
      /\ \A j \in 1..(n - 1) : table'[j] = IF j < i THEN table[j] ELSE table[j + 1]
  BY <1>1, RemoveAtSpec
<1>3. DOMAIN table' = 1..(n - 1)
  BY <1>2, LenProperties
<1> HIDE DEF n
<1>4. OneEntry'
  <2> SUFFICES ASSUME NEW j \in 1..(n - 1), NEW l \in 1..(n - 1),
                      table'[j].conn = table'[l].conn
               PROVE  j = l
    BY <1>3 DEF OneEntry
  <2> DEFINE J == IF j < i THEN j ELSE j + 1
             L == IF l < i THEN l ELSE l + 1
  <2>1. J \in DOMAIN table /\ L \in DOMAIN table /\ table'[j] = table[J] /\ table'[l] = table[L]
    BY <1>1, <1>2
  <2>2. J = L
    BY <2>1 DEF OneEntry
  <2> QED
    BY <1>1, <2>2
<1>5. Fewer(table', table)
  <2> SUFFICES ASSUME NEW j \in 1..(n - 1)
               PROVE  \E l \in DOMAIN table : table'[j] = table[l]
    BY <1>3 DEF Fewer
  <2> DEFINE J == IF j < i THEN j ELSE j + 1
  <2>1. J \in DOMAIN table /\ table'[j] = table[J]
    BY <1>1, <1>2
  <2> QED
    BY <2>1
<1> QED
  BY <1>2, <1>4, <1>5

(* HandleKeepAlivePOSTRequest: afterwards connection k has exactly one     *)
(* entry, with the announced interval, and the others are as they were.    *)
LEMMA PostEntry ==
  ASSUME table \in Seq(ServerEntries), OneEntry, NEW k \in Conns, NEW v \in Nat,
         HandleKeepAlivePOSTRequest(k, v)
  PROVE  /\ table' \in Seq(ServerEntries) /\ OneEntry' /\ Listed(table', k, v)
         /\ \A i \in DOMAIN table' : table'[i].conn # k =>
              \E j \in DOMAIN table : table'[i] = table[j]
<1> DEFINE n == Len(table)
           e == Fresh(k, v)
<1>1. n \in Nat /\ DOMAIN table = 1..n
  BY LenProperties
<1>2. e \in ServerEntries /\ e.conn = k /\ e.interval = v
  BY AgeCapType DEF Fresh, ServerEntries
<1> HIDE DEF e, n
<1>3. CASE Lookup(k) = 0
  <2>1. table' = Append(table, e)
    BY <1>3 DEF HandleKeepAlivePOSTRequest, e
  <2>2. /\ table' \in Seq(ServerEntries) /\ Len(table') = n + 1 /\ table'[n + 1] = e
        /\ \A j \in 1..n : table'[j] = table[j]
    BY <1>2, <2>1, AppendProperties DEF n
  <2>3. DOMAIN table' = 1..(n + 1)
    BY <2>2, LenProperties
  <2>4. \A j \in 1..n : table[j].conn # k
    BY <1>1, <1>3, LookupSpec
  <2>5. OneEntry'
    BY <1>1, <1>2, <2>2, <2>3, <2>4 DEF OneEntry
  <2> QED
    BY <1>1, <1>2, <2>2, <2>3, <2>4, <2>5 DEF Listed
<1>4. CASE Lookup(k) # 0
  <2> DEFINE i == Lookup(k)
  <2>1. i \in 1..n /\ table[i].conn = k
    BY <1>1, <1>4, LookupSpec
  <2>2. table' = [table EXCEPT ![i] = e]
    BY <1>4 DEF HandleKeepAlivePOSTRequest, e
  <2> HIDE DEF i
  <2>3. /\ table' \in Seq(ServerEntries) /\ Len(table') = n
        /\ \A j \in 1..n : table'[j] = IF j = i THEN e ELSE table[j]
    BY <1>2, <2>1, <2>2, ExceptSeq DEF n
  <2>4. DOMAIN table' = 1..n
    BY <2>3, LenProperties
  <2>5. \A j \in 1..n : table'[j].conn = table[j].conn
    BY <1>2, <2>1, <2>3
  <2>6. OneEntry'
    BY <1>1, <2>4, <2>5 DEF OneEntry
  <2>7. Listed(table', k, v)
    BY <1>1, <1>2, <2>1, <2>3, <2>4, <2>5 DEF Listed, OneEntry
  <2>8. \A j \in 1..n : table'[j].conn # k => table'[j] = table[j]
    BY <1>2, <2>3
  <2> QED
    BY <1>1, <2>3, <2>4, <2>6, <2>7, <2>8
<1> QED
  BY <1>3, <1>4

-----------------------------------------------------------------------------
(* Steps.                                                                  *)

LEMMA ConnType ==
  \A k \in Conns : /\ k[1] \in Clients /\ k[2] \in Nat /\ k[2] >= 1
                   /\ k[2] <= MaxConns /\ k = <<k[1], k[2]>>
  BY AgeCapType DEF Conns

LEMMA AppendOf ==
  ASSUME NEW q \in Seq(Msgs), NEW m \in Msgs, NEW c, NEW n \in Nat, NEW N \in Nat,
         OfClient(q, c, n), n <= N, m.conn[1] = c, m.conn[2] <= N
  PROVE  OfClient(Append(q, m), c, N)
<1> DEFINE p == Append(q, m)
           k == Len(q)
<1>1. /\ k \in Nat /\ DOMAIN q = 1..k /\ DOMAIN p = 1..(k + 1) /\ p[k + 1] = m
      /\ \A j \in 1..k : p[j] = q[j]
  BY AppendProperties, LenProperties
<1>2. \A j \in 1..k : q[j].conn[2] \in Nat
  <2>1. \A j \in 1..k : q[j] \in Msgs
    BY ElementOfSeq
  <2> QED
    BY <2>1, ConnType DEF Msgs
<1> HIDE DEF p, k
<1>3. OfClient(p, c, N)
  BY <1>1, <1>2 DEF OfClient
<1> QED
  BY <1>3 DEF p

LEMMA TailOf ==
  ASSUME NEW q \in Seq(Msgs), q # <<>>, NEW c, NEW n, OfClient(q, c, n)
  PROVE  /\ OfClient(Tail(q), c, n) /\ Tail(q) \in Seq(Msgs)
         /\ Head(q) \in Msgs /\ Head(q).conn[1] = c /\ Head(q).conn[2] <= n
<1>1. /\ Head(q) \in Msgs /\ Tail(q) \in Seq(Msgs) /\ Len(Tail(q)) = Len(q) - 1
      /\ \A i \in 1..Len(Tail(q)) : Tail(q)[i] = q[i + 1]
  BY HeadTailProperties
<1>2. Len(q) \in Nat \ {0} /\ DOMAIN q = 1..Len(q)
  BY LenProperties, EmptySeq
<1>3. DOMAIN Tail(q) = 1..Len(Tail(q))
  BY <1>1, LenProperties
<1>4. Head(q) = q[1] /\ 1 \in DOMAIN q
  BY <1>2
<1>5. \A i \in 1..Len(Tail(q)) : i + 1 \in DOMAIN q
  BY <1>1, <1>2
<1> QED
  BY <1>1, <1>3, <1>4, <1>5 DEF OfClient

(* A connection that is whole after a step was whole before.               *)
LEMMA WholeBefore ==
  ASSUME NEW c \in Clients, session'[c] = session[c], cut \subseteq cut',
         \A k \in accepted' : k \in accepted \/ k[1] # c, Whole(Here(c))'
  PROVE  Whole(Here(c))
  BY DEF Whole, Here

(* A step that leaves alone what client c has and has sent, and does not   *)
(* change the interval of its connection at the server.                    *)
LEMMA PaceKept ==
  ASSUME NEW c \in Clients, PaceOf(c), session'[c] = session[c], cut \subseteq cut',
         \A k \in accepted' : k \in accepted \/ k[1] # c,
         entry'[c] # <<>> /\ ~failed'[c] =>
           entry[c] # <<>> /\ ~failed[c] /\ entry'[c][1].idx = entry[c][1].idx,
         toServer'[c] = toServer[c],
         \A v : Listed(table, Here(c), v) => Listed(table', Here(c), v)
  PROVE  PaceOf(c)'
<1> SUFFICES ASSUME entry'[c] # <<>>, ~failed'[c], Whole(Here(c))'
             PROVE  InStep(toServer'[c], table', Here(c), Intervals[entry'[c][1].idx])
  BY DEF PaceOf, Here
<1>1. Whole(Here(c))
  BY WholeBefore
<1>2. InStep(toServer[c], table, Here(c), Intervals[entry[c][1].idx])
  BY <1>1 DEF PaceOf
<1> QED
  BY <1>2 DEF InStep

LEMMA FewerListed ==
  ASSUME NEW t, NEW t1, Fewer(t1, t), NEW k, NEW v, Listed(t, k, v)
  PROVE  Listed(t1, k, v)
  BY DEF Fewer, Listed

LEMMA FewerOpened ==
  ASSUME Opened, Fewer(table', table), UNCHANGED <<session, opened>>,
         \A c \in Clients : OfClient(toServer'[c], c, opened[c])
  PROVE  Opened'
  BY DEF Opened, Fewer

(* The network, the clock and the end of connections: nothing is sent,     *)
(* and the table of the server has no entry it had not before.             *)
LEMMA QuietStep ==
  ASSUME KAInv, Types', OneEntry', UNCHANGED <<opened, toServer>>, cut \subseteq cut',
         accepted' \subseteq accepted, Fewer(table', table),
         \A c \in Clients : \/ entry'[c] = <<>> /\ session'[c] \in {0, session[c]}
                            \/ /\ session'[c] = session[c] /\ failed'[c] = failed[c]
                               /\ entry'[c] # <<>> => entry[c] # <<>>
                                    /\ entry'[c][1].idx = entry[c][1].idx
  PROVE  KAInv'
<1>1. Opened'
  <2>1. \A c \in Clients : session'[c] <= opened'[c]
    <3>1. \A c \in Clients : opened[c] \in Nat /\ session[c] <= opened[c]
      BY AgeCapType DEF KAInv, Opened, Types
    <3> QED
      BY <3>1
  <2> QED
    BY <2>1 DEF KAInv, Opened, Fewer
<1>2. ASSUME NEW c \in Clients PROVE PaceOf(c)'
  <2>1. CASE entry'[c] = <<>>
    BY <2>1 DEF PaceOf
  <2>2. CASE entry'[c] # <<>>
    <3>1. PaceOf(c) /\ session'[c] = session[c] /\ failed'[c] = failed[c]
          /\ entry[c] # <<>> /\ entry'[c][1].idx = entry[c][1].idx
      BY <2>2 DEF KAInv, Pace
    <3>2. \A v : Listed(table, Here(c), v) => Listed(table', Here(c), v)
      BY FewerListed
    <3> QED
      BY <3>1, <3>2, PaceKept
  <2> QED
    BY <2>1, <2>2
<1> QED
  BY <1>1, <1>2 DEF KAInv, Pace

LEMMA OfLater ==
  ASSUME NEW q \in Seq(Msgs), NEW c, NEW n \in Nat, NEW N \in Nat, OfClient(q, c, n), n <= N
  PROVE  OfClient(q, c, N)
<1>1. ASSUME NEW j \in DOMAIN q PROVE q[j].conn[2] \in Nat
  <2>1. q[j] \in Msgs
    BY LenProperties, ElementOfSeq
  <2> QED
    BY <2>1, ConnType DEF Msgs
<1> QED
  BY <1>1 DEF OfClient

(* What Connect queues: the ping that waited, if any, and the search.      *)
LEMMA FoundQueued ==
  ASSUME NEW q \in Seq(Msgs), NEW c \in Clients, NEW N \in 1..MaxConns,
         OfClient(q, c, N), NEW found \in {<<>>, <<Request(c, N, "GET", 0)>>}
  PROVE  /\ q \o found \in Seq(Msgs) /\ OfClient(q \o found, c, N)
         /\ \A k : Posts(q \o found, k) = Posts(q, k)
         /\ \A k, v : Announces(q, k, v) => Announces(q \o found, k, v)
<1> DEFINE get == Request(c, N, "GET", 0)
<1>0. get \in Msgs /\ get.method = "GET" /\ get.conn = <<c, N>> /\ N \in Nat
  BY AgeCapType DEF Request, Msgs, Conns
<1> HIDE DEF get
<1>1. CASE found = <<>>
  <2>1. q \o found = q
    BY <1>1, ConcatEmptySeq
  <2> QED
    BY <2>1
<1>2. CASE found = <<get>>
  <2>1. q \o found = Append(q, get)
    BY <1>0, <1>2, AppendIsConcat
  <2>2. Append(q, get) \in Seq(Msgs)
    BY <1>0, AppendProperties
  <2>3. OfClient(Append(q, get), c, N)
    <3>1. get.conn[1] = c /\ get.conn[2] <= N
      BY <1>0
    <3> QED
      BY <1>0, <3>1, AppendOf
  <2> QED
    BY <1>0, <2>1, <2>2, <2>3, AppendGet
<1> QED
  BY <1>1, <1>2 DEF get

LEMMA NextConn ==
  ASSUME Types, NEW c \in Clients, opened[c] < MaxConns
  PROVE  /\ opened[c] \in Nat /\ opened[c] + 1 \in Nat
         /\ opened[c] + 1 \in 1..MaxConns /\ opened[c] + 1 \in 0..MaxConns
         /\ <<c, opened[c] + 1>> \in Conns
<1>1. MaxConns \in Nat /\ opened[c] \in 0..MaxConns
  BY AgeCapType DEF Types
<1> QED
  BY <1>1 DEF Conns

(* Connect: the new connection gets the queue p, and nothing else of the   *)
(* clients changes.                                                        *)
LEMMA ConnectStep ==
  ASSUME KAInv, NEW c \in Clients, NEW msgs, Connect(c, msgs), NEW p,
         toServer' = [toServer EXCEPT ![c] = p], p \in Seq(Msgs),
         OfClient(p, c, opened[c] + 1)
  PROVE  /\ session' \in [Clients -> 0..MaxConns] /\ opened' \in [Clients -> 0..MaxConns]
         /\ accepted' \subseteq Conns /\ toServer' \in [Clients -> Seq(Msgs)]
         /\ session'[c] = opened[c] + 1 /\ opened'[c] = opened[c] + 1 /\ toServer'[c] = p
         /\ \A d \in Clients \ {c} : /\ session'[d] = session[d] /\ opened'[d] = opened[d]
                                     /\ toServer'[d] = toServer[d]
         /\ \A k \in accepted' : k \in accepted \/ k[1] = c
         /\ table' = table => Opened'
<1>0. Types /\ Opened
  BY DEF KAInv
<1>1. /\ opened[c] \in Nat /\ opened[c] + 1 \in 1..MaxConns /\ opened[c] + 1 \in 0..MaxConns
      /\ <<c, opened[c] + 1>> \in Conns
  BY <1>0, NextConn DEF Connect
<1>2. /\ session' = [session EXCEPT ![c] = opened[c] + 1]
      /\ opened' = [opened EXCEPT ![c] = opened[c] + 1]
      /\ accepted' = accepted \cup {<<c, opened[c] + 1>>}
  BY DEF Connect
<1>3. /\ session' \in [Clients -> 0..MaxConns] /\ opened' \in [Clients -> 0..MaxConns]
      /\ accepted' \subseteq Conns /\ toServer' \in [Clients -> Seq(Msgs)]
  BY <1>0, <1>1, <1>2 DEF Types
<1>4. /\ session'[c] = opened[c] + 1 /\ opened'[c] = opened[c] + 1 /\ toServer'[c] = p
      /\ \A d \in Clients \ {c} : /\ session'[d] = session[d] /\ opened'[d] = opened[d]
                                  /\ toServer'[d] = toServer[d]
  BY <1>0, <1>2 DEF Types
<1>5. \A k \in accepted' : k \in accepted \/ k[1] = c
  BY <1>2
<1>6. ASSUME table' = table PROVE Opened'
  <2>1. \A d \in Clients : session'[d] <= opened'[d]
    BY <1>0, <1>1, <1>4 DEF Opened
  <2>2. \A d \in Clients : OfClient(toServer'[d], d, opened'[d])
    BY <1>0, <1>4 DEF Opened
  <2>3. ASSUME NEW i \in DOMAIN table PROVE table[i].conn[2] <= opened'[table[i].conn[1]]
    <3>1. table[i] \in ServerEntries
      BY <1>0, LenProperties, ElementOfSeq DEF Types
    <3>2. table[i].conn[1] \in Clients /\ table[i].conn[2] \in Nat
      BY <3>1, ConnType DEF ServerEntries
    <3>3. table[i].conn[2] <= opened[table[i].conn[1]]
      BY <1>0 DEF Opened
    <3> QED
      BY <1>1, <1>4, <3>2, <3>3
  <2> QED
    BY <1>6, <2>1, <2>2, <2>3 DEF Opened
<1> QED
  BY <1>3, <1>4, <1>5, <1>6

(* The pace of a client other than the one that sends or connects.         *)
LEMMA PaceOfOthers ==
  ASSUME KAInv, NEW c \in Clients, table' = table, cut' = cut,
         \A k \in accepted' : k \in accepted \/ k[1] = c,
         NEW d \in Clients \ {c}, session'[d] = session[d], entry'[d] = entry[d],
         failed'[d] = failed[d], toServer'[d] = toServer[d]
  PROVE  PaceOf(d)'
<1>1. PaceOf(d)
  BY DEF KAInv, Pace
<1>2. \A k \in accepted' : k \in accepted \/ k[1] # d
  OBVIOUS
<1> QED
  BY <1>1, <1>2, PaceKept

(* AppConnects: no ping is on its way on the new connection, and the       *)
(* server has no entry for it.                                             *)
LEMMA AppConnectsInv ==
  ASSUME KAInv, NEW c \in Clients, AppConnects(c)
  PROVE  KAInv'
<1> DEFINE n == opened[c] + 1
<1>0. Types /\ Opened /\ OneEntry /\ Pace
  BY DEF KAInv
<1>1. Connect(c, <<>>) /\ UNCHANGED <<entry, table, turn, cut, toClient, failed, errors>>
  BY DEF AppConnects
<1>2. opened[c] \in Nat /\ n \in Nat /\ <<c, n>> \in Conns /\ toServer[c] \in Seq(Msgs)
  BY <1>0, <1>1, NextConn DEF Connect, Types
<1>3. n \in 1..MaxConns
  BY <1>0, <1>1, NextConn DEF Connect
<1>4. PICK found \in {<<>>, <<Request(c, n, "GET", 0)>>} :
        toServer' = [toServer EXCEPT ![c] = toServer[c] \o <<>> \o found]
  BY <1>1 DEF Connect
<1>5. toServer[c] \o <<>> = toServer[c]
  BY <1>2, ConcatEmptySeq
<1>6. OfClient(toServer[c], c, opened[c]) /\ OfClient(toServer[c], c, n)
  BY <1>0, <1>2, OfLater DEF Opened
<1> DEFINE p == toServer[c] \o found
<1> HIDE DEF n
<1>7. /\ p \in Seq(Msgs) /\ OfClient(p, c, n)
      /\ Posts(p, <<c, n>>) = Posts(toServer[c], <<c, n>>)
  BY <1>2, <1>3, <1>6, FoundQueued, ZenonT(60)
<1>8. toServer' = [toServer EXCEPT ![c] = p]
  BY <1>4, <1>5
<1> HIDE DEF p
<1>9. /\ session' \in [Clients -> 0..MaxConns] /\ opened' \in [Clients -> 0..MaxConns]
      /\ accepted' \subseteq Conns /\ toServer' \in [Clients -> Seq(Msgs)]
      /\ session'[c] = n /\ toServer'[c] = p
      /\ \A d \in Clients \ {c} : session'[d] = session[d] /\ toServer'[d] = toServer[d]
      /\ \A k \in accepted' : k \in accepted \/ k[1] = c
      /\ Opened'
  BY <1>1, <1>7, <1>8, ConnectStep DEF n
<1>10. Types' /\ OneEntry'
  BY <1>0, <1>1, <1>9 DEF Types, OneEntry
<1>11. PaceOf(c)'
  <2>1. Posts(p, <<c, n>>) = {}
    BY <1>2, <1>6, <1>7 DEF Posts, OfClient, n
  <2>2. \A i \in DOMAIN table : table[i].conn # <<c, n>>
    BY <1>0, <1>2 DEF Opened, n
  <2> QED
    BY <1>1, <1>9, <2>1, <2>2 DEF PaceOf, InStep, Listed, Here
<1>12. \A d \in Clients \ {c} : PaceOf(d)'
  BY <1>1, <1>9, PaceOfOthers
<1> QED
  BY <1>9, <1>10, <1>11, <1>12 DEF KAInv, Pace

(* A ping for an interval is a message of its connection.                  *)
LEMMA PingIsMessage ==
  ASSUME NEW c \in Clients, NEW k \in 1..MaxConns, NEW v \in Nat
  PROVE  /\ Request(c, k, "POST", v) \in Msgs
         /\ Request(c, k, "POST", v).method = "POST"
         /\ Request(c, k, "POST", v).conn = <<c, k>>
         /\ Request(c, k, "POST", v).interval = v
<1>1. <<c, k>> \in Conns
  BY DEF Conns
<1> QED
  BY <1>1 DEF Request, Msgs

LEMMA ReportErrorType ==
  ASSUME Types, NEW c \in Clients, ReportError(c)
  PROVE  errors' \in [Clients -> 0..MaxErrors]
<1>1. errors[c] \in 0..MaxErrors /\ errors[c] < MaxErrors /\ MaxErrors \in Nat
  BY KeepAliveAssumption DEF Types, ReportError
<1>2. errors[c] + 1 \in 0..MaxErrors
  BY <1>1
<1> QED
  BY <1>2 DEF Types, ReportError

(* SendPingMessage: when the ping goes out it is the last one on the       *)
(* connection and announces what the entry says; when it is refused the    *)
(* entry says something else, but failed remembers that.                   *)
LEMMA SendPingInv ==
  ASSUME KAInv, NEW c \in Clients, NEW e \in ClientEntries, SendPingMessage(c, e),
         UNCHANGED <<table, turn, cut>>, toClient' \in [Clients -> Seq(Msgs)]
  PROVE  KAInv'
<1> DEFINE v == Intervals[e.idx]
           n == opened[c] + 1
           q == toServer[c]
<1>0. Types /\ Opened /\ OneEntry /\ Pace
  BY DEF KAInv
<1>1. e.idx \in 1..Len(Intervals) /\ v \in Nat /\ q \in Seq(Msgs)
      /\ OfClient(q, c, opened[c]) /\ opened[c] \in Nat /\ session[c] \in 0..MaxConns
  <2>1. e.idx \in 1..Len(Intervals)
    BY DEF ClientEntries
  <2>2. v \in Nat /\ MaxConns \in Nat
    BY <2>1, AgeCapType
  <2>3. opened[c] \in 0..MaxConns /\ session[c] \in 0..MaxConns /\ q \in Seq(Msgs)
    BY <1>0 DEF Types
  <2> QED
    BY <1>0, <2>1, <2>2, <2>3 DEF Opened
<1>E. errors' \in [Clients -> 0..MaxErrors]
  BY <1>0, ReportErrorType DEF SendPingMessage, Types
<1>2. /\ entry' \in [Clients -> NoneOrOne] /\ failed' \in [Clients -> BOOLEAN]
      /\ \A d \in Clients \ {c} : entry'[d] = entry[d] /\ failed'[d] = failed[d]
      /\ ~failed'[c] => entry'[c][1].idx = e.idx
  <2> DEFINE e1 == [e EXCEPT !.sent = TRUE, !.age = 0]
  <2>1. e1 \in ClientEntries /\ e1.idx = e.idx
    BY AgeCapType DEF ClientEntries
  <2> HIDE DEF e1
  <2>2. CASE entry' = [entry EXCEPT ![c] = <<e>>] /\ failed' = [failed EXCEPT ![c] = TRUE]
    BY <1>0, <2>2 DEF Types, NoneOrOne
  <2>3. CASE entry' = [entry EXCEPT ![c] = <<e1>>] /\ failed' = [failed EXCEPT ![c] = FALSE]
    BY <1>0, <2>1, <2>3 DEF Types, NoneOrOne
  <2> QED
    BY <2>2, <2>3 DEF SendPingMessage, e1
<1>3. ASSUME NEW p \in Seq(Msgs), OfClient(p, c, opened[c]),
             toServer' = [toServer EXCEPT ![c] = p],
             UNCHANGED <<session, opened, accepted>>, PaceOf(c)'
      PROVE  KAInv'
  <2>1. toServer' \in [Clients -> Seq(Msgs)] /\ toServer'[c] = p
        /\ \A d \in Clients \ {c} : toServer'[d] = toServer[d]
    BY <1>0, <1>3 DEF Types
  <2>2. Types' /\ OneEntry'
    BY <1>0, <1>2, <1>3, <1>E, <2>1 DEF Types, OneEntry
  <2>3. Opened'
    BY <1>0, <1>3, <2>1 DEF Opened
  <2>4. \A d \in Clients \ {c} : PaceOf(d)'
    BY <1>2, <1>3, <2>1, PaceOfOthers
  <2> QED
    BY <1>3, <2>2, <2>3, <2>4 DEF KAInv, Pace
<1>4. toServer = [toServer EXCEPT ![c] = q]
  BY <1>0 DEF Types
<1>5. CASE failed' = [failed EXCEPT ![c] = TRUE]
           /\ UNCHANGED <<session, opened, accepted, toServer>>
  <2>1. failed'[c]
    BY <1>0, <1>5 DEF Types
  <2> QED
    BY <1>1, <1>3, <1>4, <1>5, <2>1 DEF PaceOf
<1>6. CASE session[c] # 0 /\ UNCHANGED <<session, opened, accepted>>
           /\ toServer' = [toServer EXCEPT ![c] = Sent(@, Request(c, session[c], "POST", v))]
  <2> DEFINE m == Request(c, session[c], "POST", v)
  <2>1. /\ m \in Msgs /\ m.method = "POST" /\ m.conn = Here(c) /\ m.interval = v
        /\ Here(c)[1] = c /\ Here(c)[2] = session[c]
    <3> DEFINE k == session[c]
    <3>0. k # 0 /\ k \in 0..MaxConns /\ v \in Nat
      BY <1>1, <1>6
    <3> HIDE DEF v, k
    <3>1. k \in 1..MaxConns /\ v \in Nat
      BY <3>0, KeepAliveAssumption
    <3>2. Here(c) = <<c, k>> /\ Here(c)[1] = c /\ Here(c)[2] = k
      BY DEF Here, k
    <3>3. /\ Request(c, k, "POST", v) \in Msgs
          /\ Request(c, k, "POST", v).method = "POST"
          /\ Request(c, k, "POST", v).conn = <<c, k>>
          /\ Request(c, k, "POST", v).interval = v
      BY <3>1, PingIsMessage
    <3> QED
      BY <3>2, <3>3 DEF k
  <2> HIDE DEF m
  <2>2. CASE Whole(Here(c))
    <3> DEFINE p == Append(q, m)
    <3>1. toServer' = [toServer EXCEPT ![c] = p] /\ p \in Seq(Msgs)
      BY <1>1, <1>6, <2>1, <2>2, AppendProperties DEF Sent, m
    <3>2. OfClient(p, c, opened[c])
      BY <1>0, <1>1, <2>1, AppendOf DEF Opened
    <3>3. Announces(p, Here(c), v)
      BY <1>1, <2>1, AppendPost
    <3>4. toServer'[c] = p
      BY <1>0, <3>1 DEF Types
    <3> HIDE DEF p
    <3>5. PaceOf(c)'
      BY <1>2, <1>6, <3>3, <3>4 DEF PaceOf, InStep, Here
    <3> QED
      BY <1>3, <1>6, <3>1, <3>2, <3>5
  <2>3. CASE ~Whole(Here(c))
    <3>1. toServer' = [toServer EXCEPT ![c] = q]
      BY <1>6, <2>1, <2>3 DEF Sent, m
    <3>2. PaceOf(c)'
      BY <1>6, <2>3 DEF PaceOf, Whole, Here
    <3> QED
      BY <1>1, <1>3, <1>6, <3>1, <3>2
  <2> QED
    BY <2>2, <2>3
<1>7. CASE Connect(c, <<Request(c, n, "POST", v)>>)
  <2> DEFINE m == Request(c, n, "POST", v)
             q1 == Append(q, m)
  <2>1. n \in Nat /\ n \in 1..MaxConns /\ <<c, n>> \in Conns /\ opened[c] <= n
    BY <1>0, <1>1, <1>7, NextConn DEF Connect
  <2>2. m \in Msgs /\ m.method = "POST" /\ m.conn = <<c, n>> /\ m.interval = v
    BY <1>1, <2>1, PingIsMessage
  <2>3. PICK found \in {<<>>, <<Request(c, n, "GET", 0)>>} :
          toServer' = [toServer EXCEPT ![c] = q \o <<m>> \o found]
    BY <1>7 DEF Connect
  <2> HIDE DEF m, n
  <2>4. q1 = q \o <<m>> /\ q1 \in Seq(Msgs) /\ Announces(q1, <<c, n>>, v)
    BY <1>1, <2>2, AppendIsConcat, AppendProperties, AppendPost
  <2>5. OfClient(q1, c, n)
    <3>1. m.conn[1] = c /\ m.conn[2] <= n
      BY <2>1, <2>2
    <3> QED
      BY <1>1, <2>1, <2>2, <3>1, AppendOf
  <2> DEFINE p == q1 \o found
  <2> HIDE DEF q1
  <2>6. p \in Seq(Msgs) /\ OfClient(p, c, n) /\ Announces(p, <<c, n>>, v)
    BY <2>1, <2>4, <2>5, FoundQueued
  <2>7. toServer' = [toServer EXCEPT ![c] = p]
    BY <2>3, <2>4
  <2> HIDE DEF p, q
  <2>8. /\ session' \in [Clients -> 0..MaxConns] /\ opened' \in [Clients -> 0..MaxConns]
        /\ accepted' \subseteq Conns /\ toServer' \in [Clients -> Seq(Msgs)]
        /\ session'[c] = n /\ toServer'[c] = p
        /\ \A d \in Clients \ {c} : session'[d] = session[d] /\ toServer'[d] = toServer[d]
        /\ \A k \in accepted' : k \in accepted \/ k[1] = c
        /\ Opened'
    BY <1>7, <2>6, <2>7, ConnectStep DEF n
  <2>9. Types' /\ OneEntry'
    BY <1>0, <1>2, <1>E, <2>8 DEF Types, OneEntry
  <2>10. PaceOf(c)'
    BY <1>2, <2>6, <2>8 DEF PaceOf, InStep, Here
  <2>11. \A d \in Clients \ {c} : PaceOf(d)'
    BY <1>2, <2>8, PaceOfOthers
  <2> QED
    BY <2>8, <2>9, <2>10, <2>11 DEF KAInv, Pace
<1>8. CASE session[c] = 0 /\ UNCHANGED <<session, opened, accepted, toServer>>
  <2>1. ~Whole(Here(c))'
    BY <1>0, <1>8, ConnType DEF Whole, Here, Types
  <2> QED
    BY <1>1, <1>3, <1>4, <1>8, <2>1 DEF PaceOf
<1> QED
  BY <1>5, <1>6, <1>7, <1>8 DEF SendPingMessage

LEMMA EntryType ==
  ASSUME Types, NEW c \in Clients, entry[c] # <<>>
  PROVE  /\ entry[c][1] \in ClientEntries /\ entry[c] = <<entry[c][1]>>
         /\ DOMAIN entry[c] = {1}
  BY DEF Types, NoneOrOne

LEMMA Nothing == 0 \in 0..MaxConns /\ <<>> \in NoneOrOne
<1>1. MaxConns \in Nat
  BY AgeCapType
<1> QED
  BY <1>1 DEF NoneOrOne

(* HandleKeepAliveResponse with an entry, and without one that does        *)
(* nothing: the interval stays.                                            *)
Listened(c) == IF entry[c] # <<>> THEN Heard(c) ELSE UNCHANGED entry

LEMMA HeardEntry ==
  ASSUME Types, NEW c \in Clients, Listened(c)
  PROVE  /\ entry' \in [Clients -> NoneOrOne]
         /\ \A d \in Clients : entry'[d] # <<>> =>
              entry[d] # <<>> /\ entry'[d][1].idx = entry[d][1].idx
<1>1. CASE entry[c] = <<>>
  BY <1>1 DEF Types, Listened
<1>2. CASE entry[c] # <<>>
  <2> DEFINE e == entry[c][1]
             e1 == [e EXCEPT !.sent = FALSE]
  <2>1. e \in ClientEntries /\ entry[c] = <<e>>
    BY <1>2, EntryType
  <2>2. e1 \in ClientEntries /\ e1.idx = e.idx
    BY <2>1 DEF ClientEntries
  <2> HIDE DEF e1
  <2>3. [entry[c] EXCEPT ![1].sent = FALSE] = <<e1>>
    <3>1. [entry[c] EXCEPT ![1].sent = FALSE] = [entry[c] EXCEPT ![1] = e1]
      BY DEF e1
    <3>2. [<<e>> EXCEPT ![1] = e1] = <<e1>>
      OBVIOUS
    <3> QED
      BY <2>1, <3>1, <3>2
  <2>4. entry' = [entry EXCEPT ![c] = <<e1>>]
    BY <1>2, <2>3 DEF Listened, Heard
  <2>5. entry' \in [Clients -> NoneOrOne] /\ entry'[c] = <<e1>>
        /\ \A d \in Clients \ {c} : entry'[d] = entry[d]
    BY <2>2, <2>4 DEF Types, NoneOrOne
  <2> QED
    BY <1>2, <2>2, <2>5
<1> QED
  BY <1>1, <1>2

LEMMA ResponseInv ==
  ASSUME KAInv, NEW c \in Clients, HandleKeepAliveResponse(c)
  PROVE  KAInv'
<1>0. Types /\ OneEntry
  BY DEF KAInv
<1>1. toClient[c] # <<>> /\ toClient' = [toClient EXCEPT ![c] = Tail(@)]
      /\ UNCHANGED <<table, turn, cut>>
  BY DEF HandleKeepAliveResponse
<1>2. toClient' \in [Clients -> Seq(Msgs)]
  <2>1. toClient[c] \in Seq(Msgs)
    BY <1>0 DEF Types
  <2>2. Tail(toClient[c]) \in Seq(Msgs)
    BY <1>1, <2>1, HeadTailProperties
  <2> QED
    BY <1>0, <1>1, <2>2 DEF Types
<1>3. CASE SendPingMessage(c, [idx |-> 1, sent |-> FALSE, age |-> 0])
  <2>1. [idx |-> 1, sent |-> FALSE, age |-> 0] \in ClientEntries
    BY AgeCapType DEF ClientEntries
  <2> QED
    BY <1>1, <1>2, <1>3, <2>1, SendPingInv
<1>4. CASE Listened(c) /\ UNCHANGED <<session, opened, accepted, toServer, failed, errors>>
  <2>1. /\ entry' \in [Clients -> NoneOrOne]
        /\ \A d \in Clients : entry'[d] # <<>> =>
             entry[d] # <<>> /\ entry'[d][1].idx = entry[d][1].idx
    BY <1>0, <1>4, HeardEntry
  <2>2. Types' /\ OneEntry' /\ Fewer(table', table)
    BY <1>0, <1>1, <1>2, <1>4, <2>1 DEF Types, OneEntry, Fewer
  <2> QED
    BY <1>1, <1>4, <2>1, <2>2, QuietStep
<1> QED
  BY <1>3, <1>4 DEF HandleKeepAliveResponse, Listened

LEMMA ErrorResponseInv ==
  ASSUME KAInv, NEW c \in Clients, HandleErrorResponse(c)
  PROVE  KAInv'
<1>0. Types /\ OneEntry
  BY DEF KAInv
<1>1. /\ Listened(c) /\ errors[c] > 0 /\ errors' = [errors EXCEPT ![c] = @ - 1]
      /\ UNCHANGED <<table, turn, session, opened, accepted, cut, toServer, toClient, failed>>
  BY DEF HandleErrorResponse, Listened
<1>2. errors' \in [Clients -> 0..MaxErrors]
  <2>1. errors[c] \in 0..MaxErrors /\ MaxErrors \in Nat
    BY <1>0, KeepAliveAssumption DEF Types
  <2>2. errors[c] - 1 \in 0..MaxErrors
    BY <1>1, <2>1
  <2> QED
    BY <1>0, <1>1, <2>2 DEF Types
<1>3. /\ entry' \in [Clients -> NoneOrOne]
      /\ \A d \in Clients : entry'[d] # <<>> =>
           entry[d] # <<>> /\ entry'[d][1].idx = entry[d][1].idx
  BY <1>0, <1>1, HeardEntry
<1>4. Types' /\ OneEntry' /\ Fewer(table', table)
  BY <1>0, <1>1, <1>2, <1>3 DEF Types, OneEntry, Fewer
<1> QED
  BY <1>1, <1>3, <1>4, QuietStep

LEMMA SendFailsInv ==
  ASSUME KAInv, NEW c \in Clients, SendFails(c)
  PROVE  KAInv'
<1>0. Types /\ OneEntry
  BY DEF KAInv
<1>1. /\ entry' = [entry EXCEPT ![c] = <<>>] /\ session' = [session EXCEPT ![c] = 0]
      /\ UNCHANGED <<table, turn, opened, accepted, cut, toServer, toClient, failed>>
  BY DEF SendFails
<1>2. errors' \in [Clients -> 0..MaxErrors]
  BY <1>0, ReportErrorType DEF SendFails, Types
<1>3. /\ entry' \in [Clients -> NoneOrOne] /\ session' \in [Clients -> 0..MaxConns]
      /\ entry'[c] = <<>> /\ session'[c] = 0
      /\ \A d \in Clients \ {c} : entry'[d] = entry[d] /\ session'[d] = session[d]
  BY <1>0, <1>1, Nothing DEF Types
<1>4. Types' /\ OneEntry' /\ Fewer(table', table)
  BY <1>0, <1>1, <1>2, <1>3 DEF Types, OneEntry, Fewer
<1> QED
  BY <1>1, <1>3, <1>4, QuietStep

LEMMA ClientProcessInv ==
  ASSUME KAInv, NEW c \in Clients, ClientProcessKeepAlive(c)
  PROVE  KAInv'
<1>0. Types /\ OneEntry
  BY DEF KAInv
<1>1. entry[c] # <<>> /\ UNCHANGED <<table, turn, cut, toClient>>
  BY DEF ClientProcessKeepAlive
<1>2. CASE PingDue(c)
  <2> DEFINE e == entry[c][1]
  <2>1. e \in ClientEntries
    BY <1>0, <1>1, EntryType
  <2>2. IncreaseInterval(e) \in ClientEntries
    <3>1. e.idx \in 1..Len(Intervals) /\ Len(Intervals) \in Nat
      BY <2>1, AgeCapType DEF ClientEntries
    <3>2. CASE e.idx < Len(Intervals)
      <4>1. e.idx + 1 \in 1..Len(Intervals)
        BY <3>1, <3>2
      <4> QED
        BY <2>1, <3>2, <4>1 DEF IncreaseInterval, ClientEntries
    <3>3. CASE ~(e.idx < Len(Intervals))
      BY <2>1, <3>3 DEF IncreaseInterval
    <3> QED
      BY <3>2, <3>3
  <2>3. SendPingMessage(c, IncreaseInterval(e)) /\ toClient' \in [Clients -> Seq(Msgs)]
    BY <1>0, <1>1, <1>2 DEF PingDue, Types
  <2> HIDE DEF e
  <2> QED
    BY <1>1, <2>2, <2>3, SendPingInv
<1>3. CASE PingTimeout(c)
  <2>1. PICK reached \in BOOLEAN : DisconnectServer(c, reached)
    BY <1>3 DEF PingTimeout
  <2>2. /\ entry' = [entry EXCEPT ![c] = <<>>]
        /\ session' = session \/ session' = [session EXCEPT ![c] = 0]
        /\ UNCHANGED <<opened, accepted, toServer, failed, errors>>
    <3>1. session = [session EXCEPT ![c] = @]
      BY <1>0 DEF Types
    <3> QED
      BY <1>3, <2>1, <3>1 DEF PingTimeout, DisconnectServer
  <2>3. /\ entry' \in [Clients -> NoneOrOne] /\ session' \in [Clients -> 0..MaxConns]
        /\ entry'[c] = <<>> /\ session'[c] \in {0, session[c]}
        /\ \A d \in Clients \ {c} : entry'[d] = entry[d] /\ session'[d] = session[d]
    BY <1>0, <2>2, Nothing DEF Types
  <2>4. Types' /\ OneEntry' /\ Fewer(table', table)
    BY <1>0, <1>1, <2>2, <2>3 DEF Types, OneEntry, Fewer
  <2> QED
    BY <1>1, <2>2, <2>3, <2>4, QuietStep
<1> QED
  BY <1>2, <1>3 DEF ClientProcessKeepAlive

LEMMA ClientDisconnectedInv ==
  ASSUME KAInv, NEW c \in Clients, ClientDisconnected(c)
  PROVE  KAInv'
<1>0. Types /\ OneEntry
  BY DEF KAInv
<1>1. /\ entry' = [entry EXCEPT ![c] = <<>>] /\ session' = [session EXCEPT ![c] = 0]
      /\ UNCHANGED <<table, turn, opened, accepted, cut, toServer, toClient, failed, errors>>
  BY DEF ClientDisconnected
<1>2. /\ entry' \in [Clients -> NoneOrOne] /\ session' \in [Clients -> 0..MaxConns]
      /\ entry'[c] = <<>> /\ session'[c] = 0
      /\ \A d \in Clients \ {c} : entry'[d] = entry[d] /\ session'[d] = session[d]
  BY <1>0, <1>1, Nothing DEF Types
<1>3. Types' /\ OneEntry' /\ Fewer(table', table)
  BY <1>0, <1>1, <1>2 DEF Types, OneEntry, Fewer
<1> QED
  BY <1>1, <1>2, <1>3, QuietStep

(* HandleKeepAliveRequest: when the last ping of a connection leaves the   *)
(* queue the table has its interval.                                       *)
LEMMA RequestInv ==
  ASSUME KAInv, NEW c \in Clients, HandleKeepAliveRequest(c)
  PROVE  KAInv'
<1> DEFINE q == toServer[c]
           r == Head(q)
<1>0. Types /\ Opened /\ OneEntry /\ Pace
  BY DEF KAInv
<1>1. /\ q # <<>> /\ toServer' = [toServer EXCEPT ![c] = Tail(q)]
      /\ toClient' = [toClient EXCEPT ![c] = Sent(@, r)]
      /\ IF r.method = "POST" THEN HandleKeepAlivePOSTRequest(r.conn, r.interval)
                              ELSE UNCHANGED table
      /\ UNCHANGED <<entry, turn, session, opened, accepted, cut, failed, errors>>
  BY DEF HandleKeepAliveRequest
<1>2. q \in Seq(Msgs) /\ OfClient(q, c, opened[c]) /\ table \in Seq(ServerEntries)
      /\ toClient[c] \in Seq(Msgs)
  BY <1>0 DEF Types, Opened
<1>3. /\ OfClient(Tail(q), c, opened[c]) /\ Tail(q) \in Seq(Msgs)
      /\ r \in Msgs /\ r.conn[1] = c /\ r.conn[2] <= opened[c]
  BY <1>1, <1>2, TailOf
<1>4. r.conn \in Conns /\ r.interval \in Nat
  BY <1>3 DEF Msgs
<1>5. Sent(toClient[c], r) \in Seq(Msgs)
  BY <1>2, <1>3, AppendProperties DEF Sent
<1>6. /\ toServer' \in [Clients -> Seq(Msgs)] /\ toClient' \in [Clients -> Seq(Msgs)]
      /\ toServer'[c] = Tail(q) /\ \A d \in Clients \ {c} : toServer'[d] = toServer[d]
  BY <1>0, <1>1, <1>3, <1>5 DEF Types
<1> HIDE DEF q, r
<1>7. /\ table' \in Seq(ServerEntries) /\ OneEntry'
      /\ r.method = "POST" => Listed(table', r.conn, r.interval)
      /\ \A i \in DOMAIN table' :
           \/ r.method = "POST" /\ table'[i].conn = r.conn
           \/ \E j \in DOMAIN table : table'[i] = table[j]
  <2>1. CASE r.method = "POST"
    BY <1>0, <1>1, <1>2, <1>4, <2>1, PostEntry
  <2>2. CASE r.method # "POST"
    BY <1>0, <1>1, <1>2, <2>2 DEF OneEntry
  <2> QED
    BY <2>1, <2>2
<1>8. \A k, v : Listed(table, k, v) /\ ~(r.method = "POST" /\ r.conn = k)
                => Listed(table', k, v)
  BY <1>7 DEF Listed
<1>9. Types'
  BY <1>0, <1>1, <1>6, <1>7 DEF Types
<1>10. Opened'
  BY <1>0, <1>1, <1>3, <1>6, <1>7, SMTT(60) DEF Opened
<1>11. PaceOf(c)'
  <2> DEFINE v == Intervals[entry[c][1].idx]
             k == Here(c)
  <2> SUFFICES ASSUME entry[c] # <<>>, ~failed[c], Whole(k)
               PROVE  InStep(Tail(q), table', k, v)
    BY <1>1, <1>6 DEF PaceOf, Here, Whole
  <2> HIDE DEF v, k
  <2>1. InStep(q, table, k, v)
    BY <1>0 DEF Pace, PaceOf, q, k, v
  <2>2. CASE Announces(q, k, v)
    <3>1. \/ Announces(Tail(q), k, v)
          \/ Posts(Tail(q), k) = {} /\ r.method = "POST" /\ r.conn = k /\ r.interval = v
      BY <1>1, <1>2, <2>2, TailPosts DEF r
    <3> QED
      BY <1>7, <3>1 DEF InStep
  <2>3. CASE Posts(q, k) = {} /\ Listed(table, k, v)
    <3>1. Posts(Tail(q), k) = {}
      BY <1>1, <1>2, <2>3, TailPosts
    <3>2. ~(r.method = "POST" /\ r.conn = k)
      <4>1. 1 \in DOMAIN q /\ r = q[1]
        BY <1>1, <1>2, LenProperties, EmptySeq DEF r
      <4> QED
        BY <2>3, <4>1 DEF Posts
    <3> QED
      BY <1>8, <2>3, <3>1, <3>2 DEF InStep
  <2> QED
    BY <2>1, <2>2, <2>3 DEF InStep
<1>12. ASSUME NEW d \in Clients \ {c} PROVE PaceOf(d)'
  <2>1. r.conn # Here(d)
    BY <1>3 DEF Here
  <2>2. \A v : Listed(table, Here(d), v) => Listed(table', Here(d), v)
    BY <1>8, <2>1
  <2>3. PaceOf(d)
    BY <1>0 DEF Pace
  <2> QED
    BY <1>1, <1>6, <2>2, <2>3, PaceKept
<1> QED
  BY <1>7, <1>9, <1>10, <1>11, <1>12 DEF KAInv, Pace

(* StartTurn, ServerTurn and ServerDisconnected: an entry may go.          *)
LEMMA ServerInv ==
  ASSUME KAInv, StartTurn \/ ServerTurn \/ \E k \in Conns : ServerDisconnected(k)
  PROVE  KAInv'
<1>0. Types /\ OneEntry
  BY DEF KAInv
<1>1. table \in Seq(ServerEntries) /\ DOMAIN table = 1..Len(table) /\ Len(table) \in Nat
  BY <1>0, LenProperties DEF Types
<1>2. ASSUME table' = table \/ \E i \in DOMAIN table : table' = RemoveAt(table, i),
             accepted' \subseteq accepted, turn' \in [next : Nat, len : Nat],
             UNCHANGED <<entry, session, opened, cut, toServer, toClient, failed, errors>>
      PROVE  KAInv'
  <2>1. table' \in Seq(ServerEntries) /\ OneEntry' /\ Fewer(table', table)
    <3>1. CASE table' = table
      BY <1>0, <1>1, <3>1 DEF OneEntry, Fewer
    <3>2. CASE \E i \in DOMAIN table : table' = RemoveAt(table, i)
      BY <1>0, <1>1, <3>2, RemoveEntry
    <3> QED
      BY <1>2, <3>1, <3>2
  <2>2. Types'
    BY <1>0, <1>2, <2>1 DEF Types
  <2> QED
    BY <1>2, <2>1, <2>2, QuietStep
<1>3. turn.next \in Nat /\ turn.len \in Nat
  BY <1>0 DEF Types
<1>4. CASE StartTurn
  <2>1. turn' \in [next : Nat, len : Nat]
    BY <1>1, <1>4 DEF StartTurn
  <2> QED
    BY <1>2, <1>4, <2>1 DEF StartTurn
<1>5. CASE ServerTurn
  <2> DEFINE i == turn.next + 1
  <2>1. turn' \in [next : Nat, len : Nat]
    <3>1. turn \in [next : Nat, len : Nat] /\ i \in Nat
      BY <1>0, <1>3 DEF Types
    <3>2. turn' = [turn EXCEPT !.next = i]
      BY <1>5 DEF ServerTurn
    <3> HIDE DEF i
    <3> QED
      BY <3>1, <3>2
  <2>2. \/ UNCHANGED <<table, accepted>>
        \/ i <= Len(table) /\ table' = RemoveAt(table, i) /\ accepted' \subseteq accepted
    BY <1>5 DEF ServerTurn
  <2>3. i <= Len(table) => i \in DOMAIN table
    BY <1>1, <1>3
  <2>4. table' = table \/ \E j \in DOMAIN table : table' = RemoveAt(table, j)
    BY <2>2, <2>3
  <2> QED
    BY <1>2, <1>5, <2>1, <2>2, <2>4 DEF ServerTurn
<1>6. ASSUME NEW k \in Conns, ServerDisconnected(k) PROVE KAInv'
  <2>1. Lookup(k) # 0 => Lookup(k) \in DOMAIN table
    BY <1>1, LookupSpec
  <2>2. table' = table \/ \E j \in DOMAIN table : table' = RemoveAt(table, j)
    BY <1>6, <2>1 DEF ServerDisconnected
  <2>3. accepted' \subseteq accepted /\ turn' \in [next : Nat, len : Nat]
    BY <1>0, <1>6 DEF ServerDisconnected, Types
  <2> QED
    BY <1>2, <1>6, <2>2, <2>3 DEF ServerDisconnected
<1> QED
  BY <1>4, <1>5, <1>6

LEMMA TickInv ==
  ASSUME KAInv, Tick
  PROVE  KAInv'
<1> DEFINE Aged(e) == [e EXCEPT !.age = Older(@)]
<1>0. Types /\ OneEntry
  BY DEF KAInv
<1>1. table \in Seq(ServerEntries) /\ DOMAIN table = 1..Len(table) /\ Len(table) \in Nat
      /\ \A i \in 1..Len(table) : table[i] \in ServerEntries
  BY <1>0, LenProperties DEF Types
<1>2. \A e \in ServerEntries : /\ Aged(e) \in ServerEntries
                               /\ Aged(e).conn = e.conn /\ Aged(e).interval = e.interval
  BY AgeCapType DEF ServerEntries
<1>3. \A e \in ClientEntries : Aged(e) \in ClientEntries /\ Aged(e).idx = e.idx
  BY AgeCapType DEF ClientEntries
<1>4. /\ table' = [i \in DOMAIN table |-> Aged(table[i])]
      /\ entry' = [c \in Clients |-> [i \in DOMAIN entry[c] |-> Aged(entry[c][i])]]
      /\ UNCHANGED <<turn, session, opened, accepted, cut, toServer, toClient, failed, errors>>
  BY DEF Tick
<1> HIDE DEF Aged
<1>5. /\ DOMAIN table' = DOMAIN table
      /\ \A i \in DOMAIN table : /\ table'[i] \in ServerEntries
                                 /\ table'[i].conn = table[i].conn
                                 /\ table'[i].interval = table[i].interval
  BY <1>1, <1>2, <1>4
<1>6. table' \in Seq(ServerEntries)
  <2>1. table' \in [1..Len(table) -> ServerEntries]
    BY <1>1, <1>2, <1>4
  <2> QED
    BY <1>1, <2>1, SeqDef
<1>7. OneEntry' /\ Fewer(table', table)
  BY <1>0, <1>5 DEF OneEntry, Fewer
<1>8. ASSUME NEW c \in Clients
      PROVE  /\ entry'[c] \in NoneOrOne
             /\ entry'[c] # <<>> => entry[c] # <<>> /\ entry'[c][1].idx = entry[c][1].idx
  <2>1. entry'[c] = [i \in DOMAIN entry[c] |-> Aged(entry[c][i])]
    BY <1>4
  <2>2. CASE entry[c] = <<>>
    BY <2>1, <2>2, Nothing
  <2>3. CASE entry[c] # <<>>
    <3> DEFINE e == entry[c][1]
    <3>1. e \in ClientEntries /\ DOMAIN entry[c] = {1}
      BY <1>0, <2>3, EntryType
    <3>2. entry'[c] = <<Aged(e)>>
      BY <2>1, <3>1
    <3> HIDE DEF e
    <3>3. entry'[c][1] = Aged(e)
      BY <3>2
    <3>4. Aged(e) \in ClientEntries /\ Aged(e).idx = e.idx
      BY <1>3, <3>1
    <3> QED
      BY <2>3, <3>2, <3>3, <3>4 DEF NoneOrOne, e
  <2> QED
    BY <2>2, <2>3
<1>9. entry' \in [Clients -> NoneOrOne]
  <2>1. entry' = [c \in Clients |-> entry'[c]]
    BY <1>4
  <2> QED
    BY <1>8, <2>1
<1>10. Types'
  BY <1>0, <1>4, <1>6, <1>9 DEF Types
<1> QED
  BY <1>4, <1>7, <1>8, <1>10, QuietStep

LEMMA CutInv ==
  ASSUME KAInv, NEW c \in Clients, Cut(c)
  PROVE  KAInv'
<1>0. Types /\ OneEntry
  BY DEF KAInv
<1>1. Types' /\ OneEntry' /\ Fewer(table', table) /\ cut \subseteq cut'
  BY <1>0 DEF Cut, Types, OneEntry, Fewer
<1> QED
  BY <1>1, QuietStep DEF Cut

(* What is lost was sent on a connection that is no longer whole.          *)
LEMMA LoseInv ==
  ASSUME KAInv, NEW c \in Clients, Lose(c)
  PROVE  KAInv'
<1> DEFINE q == toServer[c]
<1>0. Types /\ Opened /\ OneEntry /\ Pace
  BY DEF KAInv
<1>1. CASE /\ q # <<>> /\ ~Whole(Head(q).conn)
           /\ toServer' = [toServer EXCEPT ![c] = Tail(q)]
           /\ UNCHANGED <<entry, table, turn, session, opened, accepted, cut, toClient, failed, errors>>
  <2>1. q \in Seq(Msgs) /\ OfClient(q, c, opened[c])
    BY <1>0 DEF Types, Opened
  <2>2. OfClient(Tail(q), c, opened[c]) /\ Tail(q) \in Seq(Msgs)
    BY <1>1, <2>1, TailOf
  <2>3. /\ toServer' \in [Clients -> Seq(Msgs)] /\ toServer'[c] = Tail(q)
        /\ \A d \in Clients \ {c} : toServer'[d] = toServer[d]
    BY <1>0, <1>1, <2>2 DEF Types
  <2> HIDE DEF q
  <2>4. Types' /\ OneEntry'
    BY <1>0, <1>1, <2>3 DEF Types, OneEntry
  <2>5. Opened'
    BY <1>0, <1>1, <2>2, <2>3 DEF Opened
  <2>6. PaceOf(c)'
    <3> DEFINE v == Intervals[entry[c][1].idx]
               k == Here(c)
    <3> SUFFICES ASSUME entry[c] # <<>>, ~failed[c], Whole(k)
                 PROVE  InStep(Tail(q), table, k, v)
      BY <1>1, <2>3 DEF PaceOf, Here, Whole
    <3> HIDE DEF v, k
    <3>1. InStep(q, table, k, v)
      BY <1>0 DEF Pace, PaceOf, q, k, v
    <3>2. Head(q).conn # k
      BY <1>1
    <3> QED
      BY <1>1, <2>1, <3>1, <3>2, TailPosts DEF InStep
  <2>7. \A d \in Clients \ {c} : PaceOf(d)'
    BY <1>1, <2>3, PaceOfOthers
  <2> QED
    BY <2>4, <2>5, <2>6, <2>7 DEF KAInv, Pace
<1>2. CASE /\ toClient[c] # <<>> /\ toClient' = [toClient EXCEPT ![c] = Tail(@)]
           /\ UNCHANGED <<entry, table, turn, session, opened, accepted, cut, toServer, failed, errors>>
  <2>1. toClient[c] \in Seq(Msgs)
    BY <1>0 DEF Types
  <2>2. Tail(toClient[c]) \in Seq(Msgs)
    BY <1>2, <2>1, HeadTailProperties
  <2>3. toClient' \in [Clients -> Seq(Msgs)]
    BY <1>0, <1>2, <2>2 DEF Types
  <2>4. Types' /\ OneEntry' /\ Fewer(table', table)
    BY <1>0, <1>2, <2>3 DEF Types, OneEntry, Fewer
  <2> QED
    BY <1>2, <2>4, QuietStep
<1> QED
  BY <1>1, <1>2 DEF Lose

-----------------------------------------------------------------------------

LEMMA KAInvInit == Init => KAInv
<1> SUFFICES ASSUME Init PROVE KAInv
  OBVIOUS
<1>1. Types
  <2>1. session \in [Clients -> 0..MaxConns] /\ opened \in [Clients -> 0..MaxConns]
        /\ entry \in [Clients -> NoneOrOne] /\ errors \in [Clients -> 0..MaxErrors]
    BY Nothing, KeepAliveAssumption DEF Init
  <2>2. <<>> \in Seq(Msgs) /\ <<>> \in Seq(ServerEntries)
    BY EmptySeq
  <2> QED
    BY <2>1, <2>2 DEF Init, Types
<1>2. Opened
  BY DEF Init, Opened, OfClient
<1>3. OneEntry /\ Pace
  BY DEF Init, OneEntry, Pace, PaceOf
<1> QED
  BY <1>1, <1>2, <1>3 DEF KAInv

LEMMA KAInvStep == KAInv /\ [Next]_vars => KAInv'
<1> SUFFICES ASSUME KAInv, [Next]_vars PROVE KAInv'
  OBVIOUS
<1>1. CASE UNCHANGED vars
  BY <1>1 DEF vars, KAInv, Types, Opened, OneEntry, Pace, PaceOf, Here, Whole
<1>2. CASE Next
  BY <1>2, AppConnectsInv, ResponseInv, ErrorResponseInv, SendFailsInv, ClientProcessInv, ClientDisconnectedInv,
     RequestInv, CutInv, LoseInv, ServerInv, TickInv DEF Next
<1> QED
  BY <1>1, <1>2

(* KAInv holds of every behaviour of the clients, the server and the       *)
(* network between them.                                                   *)
THEOREM Invariance == Spec => []KAInv
  BY KAInvInit, KAInvStep, PTL DEF Spec

(* Type correctness: in particular an entry's interval is always one of    *)
(* the list, however often it is increased.                                *)
THEOREM TypeCorrect == Spec => []TypeOK
<1>1. KAInv => TypeOK
  <2> SUFFICES ASSUME KAInv PROVE TypeOK
    OBVIOUS
  <2>0. Types
    BY DEF KAInv
  <2>1. ASSUME NEW c \in Clients PROVE Len(entry[c]) <= 1 /\ entry[c] \in Seq(ClientEntries)
    <3>1. CASE entry[c] = <<>>
      BY <3>1, EmptySeq
    <3>2. CASE entry[c] # <<>>
      <4>1. PICK e \in ClientEntries : entry[c] = <<e>>
        BY <2>0, <3>2, EntryType
      <4>2. Len(<<e>>) = 1 /\ <<e>> \in Seq(ClientEntries)
        OBVIOUS
      <4> QED
        BY <4>1, <4>2
    <3> QED
      BY <3>1, <3>2
  <2> QED
    BY <2>0, <2>1 DEF Types, TypeOK
<1> QED
  BY <1>1, Invariance, PTL

(* The server's table has one entry per connection: neither a ping that    *)
(* races the end of its connection nor the loop of ProcessKeepAlive, whose *)
(* index and length go stale, makes a second one.                          *)
THEOREM OneEntryEach == Spec => []OneEntry
<1>1. KAInv => OneEntry
  BY DEF KAInv
<1> QED
  BY <1>1, Invariance, PTL

(* Client and server agree on the interval whenever no ping is on its way: *)
(* through reconnections, lost pings, and an entry that is removed and     *)
(* made again on the same connection.                                      *)
THEOREM PaceIsAgreed == Spec => []PaceAgreed
<1>1. KAInv => PaceAgreed
  <2> SUFFICES ASSUME KAInv, NEW c \in Clients, NEW i \in DOMAIN table,
                      entry[c] # <<>>, table[i].conn = Here(c), Whole(Here(c)), ~failed[c],
                      \A j \in DOMAIN toServer[c] : toServer[c][j].method # "POST"
               PROVE  table[i].interval = Intervals[entry[c][1].idx]
    BY DEF PaceAgreed
  <2>1. InStep(toServer[c], table, Here(c), Intervals[entry[c][1].idx])
    BY DEF KAInv, Pace, PaceOf
  <2>2. Posts(toServer[c], Here(c)) = {}
    BY DEF Posts
  <2> QED
    BY <2>1, <2>2 DEF InStep, Announces, Listed
<1> QED
  BY <1>1, Invariance, PTL
=============================================================================
