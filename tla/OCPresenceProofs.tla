-------------------------- MODULE OCPresenceProofs --------------------------
(***************************************************************************)
(* Theorems about OCPresence, for any number of servers, any timers and    *)
(* any number of announcements on their way.                               *)
(***************************************************************************)
EXTENDS OCPresence, SequenceTheorems, FiniteSetTheorems, WellFoundedInduction, TLAPS

Size == PresenceTimeOutSize

Results == {"nothing", "present", "stopped", "timeout"}
Nodes == [server : Servers, seq : 0..MaxSeq, presence : {<<>>} \cup {<<p>> : p \in Presence}]

(* The inductive invariant.                                                *)

(* Timers as they are drawn; those that count as run out have run out.     *)
Timed(p) ==
  /\ p.timeOut \in Drawings
  /\ p.level \in 1..Size => p.timeOut[p.level] <= p.age
TimedNodes == {n \in Nodes : n.presence = <<>> \/ Timed(n.presence[1])}

(* The timers run and the time-out has not been reported.                  *)
Watching(n) == n.presence # <<>> /\ n.presence[1].level <= Size

(* One node for a server.                                                  *)
Distinct(q) == \A i, j \in DOMAIN q : q[i].server = q[j].server => i = j

(* A time-out that is still to come has not been reported.                 *)
Quiet(q, to) == \A i \in DOMAIN q : Watching(q[i]) => to[q[i].server] = 0

(* A server that is taken for present has a node that is watched.          *)
Watched(q, td) ==
  \A s \in Servers \ Filtered : td[s] = "present" =>
    \E i \in DOMAIN q : q[i].server = s /\ Watching(q[i])

Client(q, td, to) ==
  /\ q \in Seq(TimedNodes) /\ td \in [Servers -> Results] /\ to \in [Servers -> Nat]
  /\ Distinct(q) /\ Quiet(q, to) /\ Watched(q, td)

Network ==
  /\ server \in [Servers -> [state : {"new", "active", "inactive", "down"}, seq : 0..MaxSeq]]
  /\ notes \subseteq [server : Servers, seq : 0..MaxSeq, kind : {"live", "stop", "deleted"}]

PresenceInv == Client(subs, told, timeouts) /\ Network

-----------------------------------------------------------------------------
(* The operators on sequences.                                             *)

LEMMA LeastExists ==
  ASSUME NEW T, T \subseteq Nat, T # {}
  PROVE  \E x \in T : \A y \in T : x <= y
<1> DEFINE R == OpToRel(<, Nat)
<1>1. \A x, y \in Nat : y < x => <<y, x>> \in R
  BY DEF OpToRel
<1>2. IsWellFoundedOn(R, Nat)
  BY NatLessThanWellFounded
<1> HIDE DEF R
<1>3. PICK x \in T : \A y \in T : ~ (<<y, x>> \in R)
  BY <1>2, WFMin
<1>4. ASSUME NEW y \in T PROVE x <= y
  <2>1. x \in Nat /\ y \in Nat /\ ~(y < x)
    BY <1>1, <1>3
  <2> QED
    BY <2>1
<1> QED
  BY <1>4

LEMMA MinIs ==
  ASSUME NEW T, T \subseteq Nat, T # {}
  PROVE  Min(T) \in T /\ \A y \in T : Min(T) <= y
  BY LeastExists DEF Min

LEMMA LookupSpec ==
  ASSUME NEW S, subs \in Seq(S), NEW s
  PROVE  /\ Lookup(s) = 0 => \A i \in DOMAIN subs : subs[i].server # s
         /\ Lookup(s) # 0 => Lookup(s) \in DOMAIN subs /\ subs[Lookup(s)].server = s
<1> DEFINE I == {i \in 1..Len(subs) : subs[i].server = s}
<1>1. Lookup(s) = IF I # {} THEN Min(I) ELSE 0
  BY DEF Lookup, SelectInSeq
<1>2. DOMAIN subs = 1..Len(subs) /\ I \subseteq Nat /\ 0 \notin I
  BY LenProperties
<1>3. CASE I = {}
  BY <1>1, <1>2, <1>3
<1>4. CASE I # {}
  <2>1. Min(I) \in I
    BY <1>2, <1>4, MinIs
  <2> QED
    BY <1>1, <1>2, <1>4, <2>1
<1> QED
  BY <1>3, <1>4

LEMMA RemoveAtSpec ==
  ASSUME NEW S, NEW s \in Seq(S), NEW i \in 1..Len(s)
  PROVE  /\ RemoveAt(s, i) \in Seq(S) /\ Len(RemoveAt(s, i)) = Len(s) - 1
         /\ \A j \in 1..(Len(s) - 1) : RemoveAt(s, i)[j] = IF j < i THEN s[j] ELSE s[j + 1]
<1> DEFINE a == SubSeq(s, 1, i - 1)
           b == SubSeq(s, i + 1, Len(s))
<1>0. Len(s) \in Nat /\ i \in Nat /\ i >= 1 /\ i <= Len(s) /\ \A j \in 1..Len(s) : s[j] \in S
  BY LenProperties
<1>1. a \in Seq(S) /\ Len(a) = i - 1 /\ \A j \in 1..(i - 1) : a[j] = s[j]
  BY <1>0, SubSeqProperties
<1>2. b \in Seq(S) /\ Len(b) = Len(s) - i /\ \A j \in 1..(Len(s) - i) : b[j] = s[i + j]
  <2>1. \A j \in (i + 1)..Len(s) : s[j] \in S
    BY <1>0
  <2>2. /\ b \in Seq(S) /\ Len(b) = (IF i + 1 <= Len(s) THEN Len(s) - (i + 1) + 1 ELSE 0)
        /\ \A j \in 1..(Len(s) - (i + 1) + 1) : b[j] = s[i + 1 + j - 1]
    BY <1>0, <2>1, SubSeqProperties
  <2> HIDE DEF b
  <2>3. Len(b) = Len(s) - i
    <3>1. Len(b) = (IF i + 1 <= Len(s) THEN Len(s) - (i + 1) + 1 ELSE 0)
      BY <2>2
    <3>2. CASE i + 1 <= Len(s)
      BY <1>0, <3>1, <3>2
    <3>3. CASE ~(i + 1 <= Len(s))
      BY <1>0, <3>1, <3>3
    <3> QED
      BY <3>2, <3>3
  <2>4. ASSUME NEW j \in 1..(Len(s) - i) PROVE b[j] = s[i + j]
    <3>1. j \in 1..(Len(s) - (i + 1) + 1) /\ i + 1 + j - 1 = i + j
      BY <1>0
    <3> QED
      BY <2>2, <3>1
  <2> QED
    BY <2>2, <2>3, <2>4
<1> HIDE DEF a, b
<1>3. /\ a \o b \in Seq(S) /\ Len(a \o b) = Len(a) + Len(b)
      /\ \A j \in 1..(Len(a) + Len(b)) :
           (a \o b)[j] = IF j <= Len(a) THEN a[j] ELSE b[j - Len(a)]
  BY <1>1, <1>2, ConcatProperties
<1>4. RemoveAt(s, i) = a \o b
  BY DEF RemoveAt, a, b
<1>5. Len(a) + Len(b) = Len(s) - 1
  BY <1>0, <1>1, <1>2
<1>6. ASSUME NEW j \in 1..(Len(s) - 1)
      PROVE  RemoveAt(s, i)[j] = IF j < i THEN s[j] ELSE s[j + 1]
  <2>1. CASE j < i
    BY <1>0, <1>1, <1>3, <1>4, <1>5, <2>1
  <2>2. CASE ~(j < i)
    <3>1. j - (i - 1) \in 1..(Len(s) - i) /\ i + (j - (i - 1)) = j + 1 /\ ~(j <= i - 1)
      BY <1>0, <2>2
    <3>2. RemoveAt(s, i)[j] = b[j - (i - 1)]
      BY <1>1, <1>3, <1>4, <1>5, <3>1
    <3> QED
      BY <1>2, <2>2, <3>1, <3>2
  <2> QED
    BY <2>1, <2>2
<1> QED
  BY <1>3, <1>4, <1>5, <1>6

(* Induction over the natural numbers, for a set.                          *)
LEMMA Induction ==
  ASSUME NEW S, 0 \in S, \A n \in Nat : n \in S => n + 1 \in S
  PROVE  \A n \in Nat : n \in S
<1> DEFINE T == Nat \ S
           R == OpToRel(<, Nat)
<1> SUFFICES ASSUME T # {} PROVE FALSE
  OBVIOUS
<1>1. IsWellFoundedOn(R, Nat) /\ \A x, y \in Nat : y < x => <<y, x>> \in R
  BY NatLessThanWellFounded DEF OpToRel
<1> HIDE DEF R
<1>2. PICK x \in T : \A y \in T : ~ (<<y, x>> \in R)
  BY <1>1, WFMin
<1>3. x \in Nat /\ x \notin S /\ x # 0
  BY <1>2
<1>4. x - 1 \in Nat /\ x - 1 < x /\ (x - 1) + 1 = x
  BY <1>3
<1>5. x - 1 \in S
  BY <1>1, <1>2, <1>3, <1>4
<1> QED
  BY <1>3, <1>4, <1>5

(* f holds the concatenation of the first i elements of q, up to n.        *)
Joins(q, n, f) ==
  /\ f[1] = q[1]
  /\ \A i \in 2 .. n : f[i] = f[i - 1] \o q[i]

LEMMA JoinsExists == ASSUME NEW q PROVE \A n \in Nat : \E f : Joins(q, n, f)
<1> DEFINE S == {n \in Nat : \E f : Joins(q, n, f)}
<1>1. 0 \in S
  <2>1. Joins(q, 0, [i \in 1 .. 1 |-> q[1]])
    BY DEF Joins
  <2> QED
    BY <2>1
<1>2. ASSUME NEW n \in Nat, n \in S PROVE n + 1 \in S
  <2>1. PICK f : Joins(q, n, f)
    BY <1>2
  <2> DEFINE g == [i \in 1 .. n + 1 |->
                     IF i = n + 1 /\ n # 0 THEN f[n] \o q[n + 1] ELSE f[i]]
  <2>2. g[1] = q[1]
    BY <2>1 DEF Joins
  <2>3. ASSUME NEW i \in 2 .. n + 1 PROVE g[i] = g[i - 1] \o q[i]
    <3>1. CASE i = n + 1
      <4>1. n # 0 /\ i - 1 = n /\ n \in 1 .. n + 1 /\ n + 1 \in 1 .. n + 1 /\ n # n + 1
        BY <3>1
      <4>2. g[n + 1] = f[n] \o q[n + 1] /\ g[n] = f[n]
        BY <4>1
      <4> QED
        BY <3>1, <4>1, <4>2
    <3>2. CASE i # n + 1
      <4>1. i \in 2 .. n /\ i \in 1 .. n + 1 /\ i - 1 \in 1 .. n + 1 /\ i - 1 # n + 1
        BY <3>2
      <4>2. f[i] = f[i - 1] \o q[i]
        BY <2>1, <4>1 DEF Joins
      <4>3. g[i] = f[i] /\ g[i - 1] = f[i - 1]
        BY <3>2, <4>1
      <4> QED
        BY <4>2, <4>3
    <3> QED
      BY <3>1, <3>2
  <2> HIDE DEF g
  <2>4. Joins(q, n + 1, g)
    BY <2>2, <2>3 DEF Joins
  <2> QED
    BY <2>4
<1> HIDE DEF S
<1>3. \A n \in Nat : n \in S
  BY <1>1, <1>2, Induction
<1> QED
  BY <1>3 DEF S

(* What FlattenSeq computes.                                               *)
LEMMA FlattenFacts ==
  ASSUME NEW q, Len(q) \in Nat \ {0}
  PROVE  \E f : Joins(q, Len(q), f) /\ FlattenSeq(q) = f[Len(q)]
<1> DEFINE n == Len(q)
           D(f) == [i \in 1 .. n |-> IF i = 1 THEN q[i] ELSE f[i - 1] \o q[i]]
           F == CHOOSE f : f = D(f)
<1>1. PICK f : Joins(q, n, f)
  BY JoinsExists
<1> DEFINE g == [i \in 1 .. n |-> f[i]]
<1>2. g = D(g)
  <2>1. ASSUME NEW i \in 1 .. n PROVE g[i] = D(g)[i]
    <3>1. CASE i = 1
      BY <1>1, <3>1 DEF Joins
    <3>2. CASE i # 1
      <4>1. i \in 2 .. n /\ i - 1 \in 1 .. n
        BY <3>2
      <4>2. f[i] = f[i - 1] \o q[i]
        BY <1>1, <4>1 DEF Joins
      <4> QED
        BY <3>2, <4>1, <4>2
    <3> QED
      BY <3>1, <3>2
  <2> QED
    BY <2>1
<1>3. FlattenSeq(q) = F[n]
  BY DEF FlattenSeq
<1> HIDE DEF D
<1>4. F = D(F)
  BY <1>2
<1> HIDE DEF F
<1>5. Joins(q, n, F)
  <2>1. \A i \in 1 .. n : D(F)[i] = IF i = 1 THEN q[i] ELSE F[i - 1] \o q[i]
    BY DEF D
  <2>2. \A i \in 1 .. n : F[i] = IF i = 1 THEN q[i] ELSE F[i - 1] \o q[i]
    BY <1>4, <2>1
  <2>3. 1 \in 1 .. n /\ \A i \in 2 .. n : i \in 1 .. n /\ i # 1
    OBVIOUS
  <2> QED
    BY <2>2, <2>3 DEF Joins
<1> QED
  BY <1>3, <1>5

(* r holds what is in the first m elements of q, each empty or of one,     *)
(* and place says where from.                                              *)
Places(q, m, r, place) ==
  /\ place \in [1..Len(r) -> 1..m]
  /\ \A k \in 1..Len(r) : q[place[k]] = <<r[k]>>
  /\ \A k, l \in 1..Len(r) : place[k] = place[l] => k = l
  /\ \A i \in 1..m : q[i] # <<>> => \E k \in 1..Len(r) : place[k] = i
Gathers(S, q, m, r) == r \in Seq(S) /\ \E place : Places(q, m, r, place)

LEMMA GatherStep ==
  ASSUME NEW S, NEW q, NEW m \in Nat, NEW r, Gathers(S, q, m, r),
         q[m + 1] = <<>> \/ \E x \in S : q[m + 1] = <<x>>
  PROVE  Gathers(S, q, m + 1, r \o q[m + 1])
<1>1. PICK place : Places(q, m, r, place)
  BY DEF Gathers
<1>2. r \in Seq(S) /\ Len(r) \in Nat
  BY LenProperties DEF Gathers
<1>3. CASE q[m + 1] = <<>>
  <2>1. r \o q[m + 1] = r
    BY <1>2, <1>3, ConcatEmptySeq
  <2>2. Places(q, m + 1, r, place)
    <3>1. \A i \in 1..m : i \in 1..(m + 1)
      OBVIOUS
    <3>2. \A i \in 1..(m + 1) : i \in 1..m \/ i = m + 1
      OBVIOUS
    <3>3. place \in [1..Len(r) -> 1..(m + 1)]
      BY <1>1, <3>1 DEF Places
    <3> QED
      BY <1>1, <1>3, <3>2, <3>3 DEF Places
  <2> QED
    BY <1>2, <2>1, <2>2 DEF Gathers
<1>4. CASE \E x \in S : q[m + 1] = <<x>>
  <2>1. PICK x \in S : q[m + 1] = <<x>>
    BY <1>4
  <2> DEFINE t == Append(r, x)
             n == Len(r) + 1
             new == [k \in 1..n |-> IF k = n THEN m + 1 ELSE place[k]]
  <2>2. r \o q[m + 1] = t
    BY <1>2, <2>1, AppendIsConcat
  <2>3. /\ t \in Seq(S) /\ Len(t) = n /\ t[n] = x /\ n \in Nat /\ n \in 1..n
        /\ \A k \in 1..Len(r) : t[k] = r[k]
    BY <1>2, AppendProperties
  <2> HIDE DEF t
  <2>4. \A k \in 1..n : k = n \/ (k \in 1..Len(r) /\ k # n)
    BY <1>2
  <2>5. \A k \in 1..Len(r) : k \in 1..n /\ k # n
    BY <1>2
  <2>6. new[n] = m + 1 /\ \A k \in 1..Len(r) : new[k] = place[k]
    BY <2>3, <2>5
  <2>7. \A k \in 1..Len(r) : place[k] \in 1..m /\ place[k] \in 1..(m + 1) /\ place[k] # m + 1
    BY <1>1 DEF Places
  <2>8. new \in [1..n -> 1..(m + 1)]
    BY <2>4, <2>7
  <2> HIDE DEF n, new
  <2>9. \A k \in 1..n : q[new[k]] = <<t[k]>>
    BY <1>1, <2>1, <2>3, <2>4, <2>6 DEF Places
  <2>10. ASSUME NEW k \in 1..n, NEW l \in 1..n, new[k] = new[l] PROVE k = l
    BY <1>1, <2>4, <2>6, <2>7, <2>10 DEF Places
  <2>11. ASSUME NEW i \in 1..(m + 1), q[i] # <<>> PROVE \E k \in 1..n : new[k] = i
    <3>1. CASE i = m + 1
      BY <2>3, <2>6, <3>1
    <3>2. CASE i # m + 1
      <4>1. i \in 1..m
        BY <3>2
      <4> QED
        BY <1>1, <2>5, <2>6, <2>11, <4>1 DEF Places
    <3> QED
      BY <3>1, <3>2
  <2>12. Places(q, m + 1, t, new)
    BY <2>3, <2>8, <2>9, <2>10, <2>11 DEF Places
  <2> QED
    BY <2>2, <2>3, <2>12 DEF Gathers
<1> QED
  BY <1>3, <1>4

LEMMA FlattenGathers ==
  ASSUME NEW S, NEW n \in Nat, NEW q \in [1..n -> {<<>>} \cup {<<x>> : x \in S}]
  PROVE  Gathers(S, q, n, FlattenSeq(q))
<1>1. q \in Seq({<<>>} \cup {<<x>> : x \in S}) /\ Len(q) = n
  BY LenProperties, IsASeq
<1>2. \A i \in 1..n : q[i] = <<>> \/ \E x \in S : q[i] = <<x>>
  OBVIOUS
<1>3. Gathers(S, q, 0, <<>>)
  <2>1. <<>> \in Seq(S) /\ Len(<<>>) = 0
    BY EmptySeq
  <2>2. Places(q, 0, <<>>, [k \in 1..0 |-> k])
    BY <2>1 DEF Places
  <2> QED
    BY <2>1, <2>2 DEF Gathers
<1>4. CASE n = 0
  <2>1. FlattenSeq(q) = q /\ q = <<>>
    BY <1>1, <1>4, EmptySeq DEF FlattenSeq
  <2> QED
    BY <1>3, <1>4, <2>1
<1>5. CASE n # 0
  <2>1. PICK f : Joins(q, n, f) /\ FlattenSeq(q) = f[n]
    BY <1>1, <1>5, FlattenFacts
  <2> DEFINE G == {m \in Nat : m + 1 <= n => Gathers(S, q, m + 1, f[m + 1])}
  <2>2. 0 \in G
    <3>1. 1 \in 1..n
      BY <1>5
    <3>2. q[1] = <<>> \/ \E x \in S : q[1] = <<x>>
      BY <1>2, <3>1
    <3>3. q[1] \in Seq(S)
      <4>1. CASE q[1] = <<>>
        BY <4>1
      <4>2. CASE \E x \in S : q[1] = <<x>>
        BY <4>2
      <4> QED
        BY <3>2, <4>1, <4>2
    <3>5. PICK z \in Nat : z = 0 /\ z + 1 = 1
      OBVIOUS
    <3>6. Gathers(S, q, 1, <<>> \o q[1])
      <4>1. Gathers(S, q, z, <<>>) /\ (q[z + 1] = <<>> \/ \E x \in S : q[z + 1] = <<x>>)
        BY <1>3, <3>2, <3>5
      <4>2. Gathers(S, q, z + 1, <<>> \o q[z + 1])
        BY <4>1, GatherStep
      <4> QED
        BY <3>5, <4>2
    <3>4. <<>> \o q[1] = q[1]
      BY <3>3, ConcatEmptySeq
    <3> QED
      BY <2>1, <3>4, <3>6 DEF Joins
  <2>3. ASSUME NEW m \in Nat, m \in G PROVE m + 1 \in G
    <3> SUFFICES ASSUME (m + 1) + 1 <= n PROVE Gathers(S, q, (m + 1) + 1, f[(m + 1) + 1])
      OBVIOUS
    <3>1. m + 1 <= n /\ m + 1 \in Nat /\ (m + 1) + 1 \in 1..n /\ (m + 1) + 1 \in 2..n
      OBVIOUS
    <3>2. Gathers(S, q, m + 1, f[m + 1])
      BY <2>3, <3>1
    <3>3. f[(m + 1) + 1] = f[m + 1] \o q[(m + 1) + 1]
      <4>1. ((m + 1) + 1) - 1 = m + 1
        OBVIOUS
      <4> QED
        BY <2>1, <3>1, <4>1 DEF Joins
    <3> QED
      BY <1>2, <3>1, <3>2, <3>3, GatherStep
  <2> HIDE DEF G
  <2>4. n - 1 \in G
    BY <1>5, <2>2, <2>3, Induction
  <2> QED
    BY <1>5, <2>1, <2>4 DEF G
<1> QED
  BY <1>4, <1>5

-----------------------------------------------------------------------------
(* The nodes of the client.                                                *)

LEMMA Constants ==
  /\ Size \in Nat /\ Size >= 1 /\ Len(PresenceTimeOut) = Size + 1
  /\ TTL \in Nat /\ MaxSeq \in Nat /\ MaxInFlight \in Nat
  /\ \A i \in 1..(Size + 1) : PresenceTimeOut[i] \in Nat
  /\ Filtered \subseteq Servers /\ IsFiniteSet(Servers)
<1>1. PresenceTimeOut \in Seq(Nat \ {0}) /\ Len(PresenceTimeOut) > 1
  BY PresenceAssumption
<1>2. Len(PresenceTimeOut) \in Nat
  BY <1>1, LenProperties
<1>3. Size \in Nat /\ Size >= 1 /\ Len(PresenceTimeOut) = Size + 1
  BY <1>1, <1>2 DEF Size, PresenceTimeOutSize
<1>4. \A i \in 1..Len(PresenceTimeOut) : PresenceTimeOut[i] \in Nat
  BY <1>1, ElementOfSeq
<1> QED
  BY <1>3, <1>4, PresenceAssumption DEF TTL

(* What a node is made of.                                                 *)
LEMMA NodeFacts ==
  ASSUME NEW n \in TimedNodes
  PROVE  /\ n = [server |-> n.server, seq |-> n.seq, presence |-> n.presence]
         /\ n.server \in Servers /\ n.seq \in 0..MaxSeq
         /\ n.presence # <<>> => n.presence = <<n.presence[1]>> /\ n.presence[1] \in Presence
                                 /\ Timed(n.presence[1])
<1>1. n \in Nodes /\ (n.presence = <<>> \/ Timed(n.presence[1]))
  BY DEF TimedNodes
<1>2. n.presence \in {<<>>} \cup {<<p>> : p \in Presence}
  BY <1>1 DEF Nodes
<1>3. ASSUME n.presence # <<>>
      PROVE  n.presence = <<n.presence[1]>> /\ n.presence[1] \in Presence
  <2>1. PICK p \in Presence : n.presence = <<p>>
    BY <1>2, <1>3
  <2> QED
    BY <2>1
<1> QED
  BY <1>1, <1>3 DEF Nodes

LEMMA NodeOf ==
  ASSUME NEW s \in Servers, NEW n \in 0..MaxSeq
  PROVE  /\ [server |-> s, seq |-> n, presence |-> <<>>] \in TimedNodes
         /\ \A p \in Presence : Timed(p) =>
              [server |-> s, seq |-> n, presence |-> <<p>>] \in TimedNodes
<1>1. [server |-> s, seq |-> n, presence |-> <<>>] \in Nodes
  BY DEF Nodes
<1>2. \A p \in Presence : [server |-> s, seq |-> n, presence |-> <<p>>] \in Nodes
  BY DEF Nodes
<1> QED
  BY <1>1, <1>2 DEF TimedNodes

LEMMA NodeExcept ==
  ASSUME NEW n \in TimedNodes, NEW x, NEW k
  PROVE  /\ [n EXCEPT !.presence = x] = [server |-> n.server, seq |-> n.seq, presence |-> x]
         /\ [n EXCEPT !.presence = x, !.seq = k] =
              [server |-> n.server, seq |-> k, presence |-> x]
<1>1. n = [server |-> n.server, seq |-> n.seq, presence |-> n.presence]
  BY NodeFacts
<1>2. PICK a, b, c : n = [server |-> a, seq |-> b, presence |-> c]
  BY <1>1
<1>3. [n EXCEPT !.presence = x] = [server |-> a, seq |-> b, presence |-> x]
  BY <1>2
<1>4. [n EXCEPT !.presence = x, !.seq = k] = [server |-> a, seq |-> k, presence |-> x]
  <2>1. [n EXCEPT !.presence = x, !.seq = k] = [[n EXCEPT !.presence = x] EXCEPT !.seq = k]
    OBVIOUS
  <2>2. PICK m : m = [server |-> a, seq |-> b, presence |-> x] /\ m = [n EXCEPT !.presence = x]
    BY <1>3
  <2>3. [m EXCEPT !.seq = k] = [server |-> a, seq |-> k, presence |-> x]
    BY <2>2
  <2> QED
    BY <2>1, <2>2, <2>3
<1>5. n.server = a /\ n.seq = b
  BY <1>2
<1> QED
  BY <1>3, <1>4, <1>5

LEMMA ResetFacts ==
  ASSUME NEW n, NEW t \in Drawings
  PROVE  \E p \in Presence : Reset(n, t) = <<p>> /\ Timed(p) /\ p.level <= Size
<1> DEFINE p == [level |-> 0, age |-> 0, timeOut |-> t]
<1>1. p \in Presence
  BY Constants DEF Presence, Drawings, Size
<1>2. Timed(p) /\ p.level <= Size
  BY Constants DEF Timed
<1> QED
  BY <1>1, <1>2 DEF Reset

(* A node is changed in place; its server is not.                          *)
LEMMA ReplaceNode ==
  ASSUME NEW q, NEW td, NEW to, Client(q, td, to),
         NEW i \in DOMAIN q, NEW n \in TimedNodes, n.server = q[i].server,
         NEW v \in Results,
         v = "present" /\ n.server \notin Filtered => Watching(n)
  PROVE  Client([q EXCEPT ![i] = n], [td EXCEPT ![n.server] = v],
                [to EXCEPT ![n.server] = 0])
<1> DEFINE r == [q EXCEPT ![i] = n]
           te == [td EXCEPT ![n.server] = v]
           tp == [to EXCEPT ![n.server] = 0]
<1>1. /\ q \in Seq(TimedNodes) /\ td \in [Servers -> Results] /\ to \in [Servers -> Nat]
      /\ Distinct(q) /\ Quiet(q, to) /\ Watched(q, td)
  BY DEF Client
<1>2. n.server \in Servers /\ \A j \in DOMAIN q : q[j] \in TimedNodes /\ q[j].server \in Servers
  BY <1>1, NodeFacts, ElementOfSeq, LenProperties
<1>3. /\ r \in Seq(TimedNodes) /\ DOMAIN r = DOMAIN q /\ r[i] = n
      /\ \A j \in DOMAIN q : j # i => r[j] = q[j]
  BY <1>1, LenProperties, ExceptSeq
<1>4. /\ te \in [Servers -> Results] /\ tp \in [Servers -> Nat]
      /\ te[n.server] = v /\ tp[n.server] = 0
      /\ \A s \in Servers : s # n.server => te[s] = td[s] /\ tp[s] = to[s]
  BY <1>1, <1>2
<1> HIDE DEF r, te, tp
<1>5. \A j \in DOMAIN q : r[j].server = q[j].server
  BY <1>3
<1>6. Distinct(r)
  BY <1>1, <1>3, <1>5 DEF Distinct
<1>7. Quiet(r, tp)
  <2> SUFFICES ASSUME NEW j \in DOMAIN q, Watching(r[j]) PROVE tp[r[j].server] = 0
    BY <1>3 DEF Quiet
  <2>1. CASE j = i
    BY <1>3, <1>4, <2>1
  <2>2. CASE j # i
    BY <1>1, <1>2, <1>3, <1>4, <2>2 DEF Quiet, Distinct
  <2> QED
    BY <2>1, <2>2
<1>8. Watched(r, te)
  <2> SUFFICES ASSUME NEW s \in Servers \ Filtered, te[s] = "present"
               PROVE  \E j \in DOMAIN q : r[j].server = s /\ Watching(r[j])
    BY <1>3 DEF Watched
  <2>1. CASE s = n.server
    BY <1>3, <1>4, <2>1
  <2>2. CASE s # n.server
    <3>1. PICK j \in DOMAIN q : q[j].server = s /\ Watching(q[j])
      BY <1>1, <1>4, <2>2 DEF Watched
    <3> QED
      BY <1>3, <2>2, <3>1
  <2> QED
    BY <2>1, <2>2
<1> QED
  BY <1>3, <1>4, <1>6, <1>7, <1>8 DEF Client, r, te, tp

(* A node is removed, and the application is told nothing any more.        *)
LEMMA RemoveNode ==
  ASSUME NEW q, NEW td, NEW to, Client(q, td, to), NEW i \in DOMAIN q,
         NEW s, s = q[i].server
  PROVE  Client(RemoveAt(q, i), [td EXCEPT ![s] = "nothing"], [to EXCEPT ![s] = 0])
<1> DEFINE r == RemoveAt(q, i)
           te == [td EXCEPT ![s] = "nothing"]
           tp == [to EXCEPT ![s] = 0]
<1>1. /\ q \in Seq(TimedNodes) /\ td \in [Servers -> Results] /\ to \in [Servers -> Nat]
      /\ Distinct(q) /\ Quiet(q, to) /\ Watched(q, td)
  BY DEF Client
<1>2. s \in Servers /\ \A j \in DOMAIN q : q[j] \in TimedNodes /\ q[j].server \in Servers
  BY <1>1, NodeFacts, ElementOfSeq, LenProperties
<1> DEFINE n == Len(q)
           at(j) == IF j < i THEN j ELSE j + 1
<1>3. n \in Nat /\ DOMAIN q = 1..n /\ i \in 1..n
  BY <1>1, LenProperties
<1>4. /\ r \in Seq(TimedNodes) /\ Len(r) = n - 1
      /\ \A j \in 1..(n - 1) : r[j] = IF j < i THEN q[j] ELSE q[j + 1]
  BY <1>1, <1>3, RemoveAtSpec
<1>5. DOMAIN r = 1..(n - 1)
  BY <1>4, LenProperties
<1> HIDE DEF r, n
<1>6. \A j \in DOMAIN r : r[j] = q[at(j)] /\ at(j) \in DOMAIN q /\ at(j) # i
  BY <1>3, <1>4, <1>5
<1>7. \A j, k \in DOMAIN r : at(j) = at(k) => j = k
  BY <1>3, <1>5
<1>8. ASSUME NEW k \in DOMAIN q, k # i PROVE \E j \in DOMAIN r : r[j] = q[k]
  <2>1. CASE k < i
    <3>1. k \in 1..(n - 1)
      BY <1>3, <2>1
    <3> QED
      BY <1>4, <1>5, <2>1, <3>1
  <2>2. CASE ~(k < i)
    <3>1. k - 1 \in 1..(n - 1) /\ ~(k - 1 < i) /\ (k - 1) + 1 = k
      BY <1>3, <1>8, <2>2
    <3> QED
      BY <1>4, <1>5, <3>1
  <2> QED
    BY <2>1, <2>2
<1>9. /\ te \in [Servers -> Results] /\ tp \in [Servers -> Nat]
      /\ te[s] = "nothing" /\ tp[s] = 0
      /\ \A u \in Servers : u # s => te[u] = td[u] /\ tp[u] = to[u]
  BY <1>1, <1>2 DEF Results
<1> HIDE DEF te, tp, at
<1>10. Distinct(r)
  BY <1>1, <1>6, <1>7 DEF Distinct
<1>11. Quiet(r, tp)
  BY <1>1, <1>2, <1>6, <1>9 DEF Quiet
<1>12. Watched(r, te)
  <2> SUFFICES ASSUME NEW u \in Servers \ Filtered, te[u] = "present"
               PROVE  \E j \in DOMAIN r : r[j].server = u /\ Watching(r[j])
    BY DEF Watched
  <2>1. u # s /\ td[u] = "present"
    BY <1>9
  <2>2. PICK k \in DOMAIN q : q[k].server = u /\ Watching(q[k])
    BY <1>1, <2>1 DEF Watched
  <2> QED
    BY <1>8, <2>1, <2>2
<1> QED
  BY <1>4, <1>9, <1>10, <1>11, <1>12 DEF Client, r, te, tp

(* A node is added for a server that had none.                             *)
LEMMA AppendNode ==
  ASSUME NEW q, NEW td, NEW to, Client(q, td, to), NEW s \in Servers,
         \A i \in DOMAIN q : q[i].server # s
  PROVE  Client(Append(q, [server |-> s, seq |-> 0, presence |-> <<>>]), td,
                [to EXCEPT ![s] = 0])
<1> DEFINE n == [server |-> s, seq |-> 0, presence |-> <<>>]
           r == Append(q, n)
           tp == [to EXCEPT ![s] = 0]
           l == Len(q)
<1>1. /\ q \in Seq(TimedNodes) /\ td \in [Servers -> Results] /\ to \in [Servers -> Nat]
      /\ Distinct(q) /\ Quiet(q, to) /\ Watched(q, td)
  BY DEF Client
<1>2. n \in TimedNodes
  BY NodeOf, Constants
<1>3. n.server = s /\ ~Watching(n)
  BY DEF Watching
<1> HIDE DEF n
<1>4. /\ l \in Nat /\ DOMAIN q = 1..l /\ DOMAIN r = 1..(l + 1) /\ r \in Seq(TimedNodes)
      /\ r[l + 1] = n /\ \A j \in 1..l : r[j] = q[j]
  BY <1>1, <1>2, LenProperties, AppendProperties
<1>5. \A j \in 1..l : q[j].server \in Servers
  BY <1>1, <1>4, NodeFacts, ElementOfSeq
<1>6. tp \in [Servers -> Nat] /\ \A u \in Servers : u # s => tp[u] = to[u]
  BY <1>1
<1> HIDE DEF r, l, tp
<1>7. \A j \in 1..(l + 1) : j \in 1..l \/ j = l + 1
  BY <1>4
<1>8. \A j \in 1..l : j \in 1..(l + 1)
  BY <1>4
<1>9. Distinct(r)
  BY <1>1, <1>3, <1>4, <1>7 DEF Distinct
<1>10. Quiet(r, tp)
  BY <1>1, <1>3, <1>4, <1>5, <1>6, <1>7 DEF Quiet
<1>11. Watched(r, td)
  BY <1>1, <1>4, <1>8 DEF Watched
<1> QED
  BY <1>1, <1>4, <1>6, <1>9, <1>10, <1>11 DEF Client, r, tp, n

(* The list q after a walk, where the node at place i became Q[i]: the     *)
(* time-outs of those in late were reported, and only these may be gone.   *)
AfterVisit(n, Qi, isLate) ==
  \/ Qi = <<>> /\ isLate
  \/ \E m \in TimedNodes :
       /\ Qi = <<m>> /\ m.server = n.server
       /\ Watching(m) <=> (Watching(n) /\ ~isLate)

LEMMA WalkKeeps ==
  ASSUME NEW q, NEW td, NEW to, Client(q, td, to), NEW late, late \subseteq DOMAIN q,
         NEW Q, DOMAIN Q = DOMAIN q, Q = [i \in DOMAIN Q |-> Q[i]],
         \A i \in DOMAIN q : AfterVisit(q[i], Q[i], i \in late),
         NEW te \in [Servers -> Results], NEW tp \in [Servers -> Nat],
         \A i \in late : te[q[i].server] # "present",
         \A s \in Servers : (\A i \in late : q[i].server # s) => te[s] = td[s] /\ tp[s] = to[s]
  PROVE  Client(FlattenSeq(Q), te, tp)
<1> DEFINE n == Len(q)
           r == FlattenSeq(Q)
<1>1. /\ q \in Seq(TimedNodes) /\ td \in [Servers -> Results] /\ to \in [Servers -> Nat]
      /\ Distinct(q) /\ Quiet(q, to) /\ Watched(q, td)
  BY DEF Client
<1>2. /\ n \in Nat /\ DOMAIN q = 1..n
      /\ \A j \in 1..n : q[j] \in TimedNodes /\ q[j].server \in Servers
  BY <1>1, NodeFacts, ElementOfSeq, LenProperties
<1>3. Q \in [1..n -> {<<>>} \cup {<<x>> : x \in TimedNodes}]
  <2>1. \A i \in 1..n : Q[i] \in {<<>>} \cup {<<x>> : x \in TimedNodes}
    BY <1>2 DEF AfterVisit
  <2> QED
    BY <1>2, <2>1
<1>4. Gathers(TimedNodes, Q, n, r)
  BY <1>2, <1>3, FlattenGathers
<1> HIDE DEF n, r
<1>5. r \in Seq(TimedNodes) /\ DOMAIN r = 1..Len(r)
  BY <1>4, LenProperties DEF Gathers
<1>6. PICK place : Places(Q, n, r, place)
  BY <1>4 DEF Gathers
<1>7. ASSUME NEW k \in 1..Len(r)
      PROVE  /\ place[k] \in 1..n /\ r[k].server = q[place[k]].server
             /\ Watching(r[k]) <=> (Watching(q[place[k]]) /\ place[k] \notin late)
  <2>1. place[k] \in 1..n /\ Q[place[k]] = <<r[k]>>
    BY <1>6 DEF Places
  <2>2. PICK m \in TimedNodes :
           /\ Q[place[k]] = <<m>> /\ m.server = q[place[k]].server
           /\ Watching(m) <=> (Watching(q[place[k]]) /\ ~(place[k] \in late))
    <3>1. AfterVisit(q[place[k]], Q[place[k]], place[k] \in late)
      BY <1>2, <2>1
    <3>2. Q[place[k]] # <<>>
      BY <2>1
    <3> QED
      BY ONLY <3>1, <3>2 DEF AfterVisit
  <2>3. m = r[k]
    BY <2>1, <2>2
  <2> QED
    BY <2>1, <2>2, <2>3
<1>8. \A i \in 1..n : i \notin late => \A j \in late : q[j].server # q[i].server
  BY <1>1, <1>2 DEF Distinct
<1>9. Distinct(r)
  <2> SUFFICES ASSUME NEW k \in 1..Len(r), NEW l \in 1..Len(r), r[k].server = r[l].server
               PROVE  k = l
    BY <1>5 DEF Distinct
  <2>1. place[k] = place[l]
    <3>1. place[k] \in 1..n /\ r[k].server = q[place[k]].server
      BY <1>7
    <3>2. place[l] \in 1..n /\ r[l].server = q[place[l]].server
      BY <1>7
    <3> QED
      BY <1>1, <1>2, <3>1, <3>2, ZenonT(60) DEF Distinct
  <2> QED
    BY <1>6, <2>1 DEF Places
<1>10. Quiet(r, tp)
  <2> SUFFICES ASSUME NEW k \in 1..Len(r), Watching(r[k]) PROVE tp[r[k].server] = 0
    BY <1>5 DEF Quiet
  <2>1. Watching(q[place[k]]) /\ place[k] \notin late /\ place[k] \in 1..n
    BY <1>7
  <2>2. to[q[place[k]].server] = 0
    BY <1>1, <1>2, <2>1 DEF Quiet
  <2>3. tp[q[place[k]].server] = to[q[place[k]].server]
    BY <1>2, <1>8, <2>1
  <2> QED
    BY <1>7, <2>2, <2>3
<1>11. Watched(r, te)
  <2> SUFFICES ASSUME NEW s \in Servers \ Filtered, te[s] = "present"
               PROVE  \E k \in 1..Len(r) : r[k].server = s /\ Watching(r[k])
    BY <1>5 DEF Watched
  <2>1. \A i \in late : q[i].server # s
    OBVIOUS
  <2>2. PICK i \in 1..n : q[i].server = s /\ Watching(q[i])
    BY <1>1, <1>2, <2>1 DEF Watched
  <2>3. i \notin late
    BY <2>1, <2>2
  <2>4. Q[i] # <<>>
    <3>1. AfterVisit(q[i], Q[i], i \in late)
      BY <1>2
    <3>2. PICK m : Q[i] = <<m>>
      BY ONLY <2>3, <3>1 DEF AfterVisit
    <3> QED
      BY <3>2
  <2>5. PICK k \in 1..Len(r) : place[k] = i
    BY <1>6, <2>4 DEF Places
  <2> QED
    BY <1>7, <2>2, <2>3, <2>5
<1> QED
  BY <1>5, <1>9, <1>10, <1>11 DEF Client, r

(* The visit of a node: where it may end up.                               *)
LEMMA VisitFacts ==
  ASSUME NEW i \in DOMAIN subs, subs[i] \in TimedNodes, NEW asked \in BOOLEAN,
         asked => Due(subs[i]) \/ Expired(subs[i]),
         NEW deleted, i \in deleted => Expired(subs[i])
  PROVE  AfterVisit(subs[i], Visited(i, asked, deleted), Expired(subs[i]))
<1> DEFINE n == subs[i]
           p == n.presence[1]
           up == (IF Expired(n) THEN 1 ELSE 0) + (IF asked THEN 1 ELSE 0)
           m == [n EXCEPT !.presence[1].level = @ + up]
<1>1. Visited(i, asked, deleted) =
        IF i \in deleted THEN <<>> ELSE IF up = 0 THEN <<n>> ELSE <<m>>
  BY DEF Visited
<1>2. CASE i \in deleted
  BY <1>1, <1>2 DEF AfterVisit
<1>3. CASE i \notin deleted /\ up = 0
  <2>1. ~Expired(n)
    BY <1>3
  <2> QED
    BY <1>1, <1>3, <2>1 DEF AfterVisit
<1>4. CASE i \notin deleted /\ up # 0
  <2>1. (Expired(n) \/ Due(n)) /\ up \in {1, 2} /\ (Due(n) => up = 1)
    <3>1. Due(n) => ~Expired(n)
      BY Constants DEF Due, Expired, Level, Size
    <3> QED
      BY <1>4, <3>1
  <2>2. n.presence # <<>>
    BY <2>1 DEF Expired, Due
  <2>3. /\ n = [server |-> n.server, seq |-> n.seq, presence |-> <<p>>]
        /\ n.server \in Servers /\ n.seq \in 0..MaxSeq /\ p \in Presence /\ Timed(p)
    BY <2>2, NodeFacts
  <2> HIDE DEF up
  <2> DEFINE f == [p EXCEPT !.level = @ + up]
  <2>4. m = [server |-> n.server, seq |-> n.seq, presence |-> <<f>>]
    BY <2>3
  <2>5. /\ p.level \in 0..(Size + 2) /\ p.age \in 0..TTL /\ p.timeOut \in Timers
        /\ p = [level |-> p.level, age |-> p.age, timeOut |-> p.timeOut]
    BY <2>3 DEF Presence, Size
  <2>6. f = [level |-> p.level + up, age |-> p.age, timeOut |-> p.timeOut]
    BY <2>5
  <2> HIDE DEF m, f
  <2>7. m.server = n.server /\ m.presence = <<f>> /\ m.presence[1] = f
    BY <2>4
  <2>8. f \in Presence /\ Timed(f) => m \in TimedNodes
    BY <2>3, <2>4, NodeOf
  <2>9. CASE Expired(n)
    <3>1. p.level = Size
      BY <2>9 DEF Expired, Level, Size
    <3>2. f \in Presence /\ f.level > Size /\ f.level = Size + up
      BY <2>1, <2>5, <2>6, <3>1, Constants DEF Presence, Size
    <3>3. Timed(f)
      BY <2>1, <2>3, <2>6, <3>2, Constants DEF Timed
    <3>4. m \in TimedNodes /\ m.server = n.server /\ m.presence[1] = f
      BY <2>7, <2>8, <3>2, <3>3
    <3>5. ~Watching(m)
      BY <2>1, <3>2, <3>4, Constants DEF Watching
    <3> QED
      BY <1>1, <1>4, <2>9, <3>4, <3>5 DEF AfterVisit
  <2>10. CASE Due(n)
    <3>1. p.level < Size /\ p.timeOut[p.level + 1] <= p.age /\ up = 1
      BY <2>1, <2>10 DEF Due, Level, Size
    <3>2. f \in Presence /\ f.level = p.level + 1 /\ f.level <= Size
      BY <2>5, <2>6, <3>1, Constants DEF Presence, Size
    <3>3. Timed(f)
      BY <2>3, <2>6, <3>1, <3>2 DEF Timed
    <3>4. m \in TimedNodes /\ m.server = n.server /\ m.presence = <<f>>
      BY <2>7, <2>8, <3>2, <3>3
    <3>5. Watching(m)
      BY <3>2, <3>4 DEF Watching
    <3>6. Watching(n) /\ ~Expired(n)
      BY <2>2, <2>5, <3>1, Constants DEF Watching, Expired, Level, Size
    <3> QED
      BY <1>1, <1>4, <3>4, <3>5, <3>6 DEF AfterVisit
  <2> QED
    BY <2>1, <2>9, <2>10
<1> QED
  BY <1>2, <1>3, <1>4

-----------------------------------------------------------------------------
(* MapThenSumSet, in MayDraw.                                              *)

One(t) == CHOOSE x \in t : TRUE
SumRule(S, h, f) ==
  [t \in SUBSET S |-> IF t = {} THEN 0 ELSE h[One(t)].seq + f[t \ {One(t)}]]

(* f follows the rule for the subsets of at most n elements.               *)
Sums(S, h, n, f) ==
  \A t \in SUBSET S : Cardinality(t) <= n =>
    f[t] = IF t = {} THEN 0 ELSE h[One(t)].seq + f[t \ {One(t)}]

LEMMA OneLess ==
  ASSUME NEW S, IsFiniteSet(S), NEW t \in SUBSET S
  PROVE  /\ Cardinality(t) \in Nat /\ Cardinality(t) <= Cardinality(S)
         /\ t # {} => /\ One(t) \in t /\ t \ {One(t)} \in SUBSET S
                      /\ Cardinality(t \ {One(t)}) = Cardinality(t) - 1
         /\ Cardinality(t) = 0 <=> t = {}
<1>1. IsFiniteSet(t) /\ Cardinality(t) <= Cardinality(S)
  BY FS_Subset
<1>2. Cardinality(t) \in Nat /\ (Cardinality(t) = 0 <=> t = {})
  BY <1>1, FS_CardinalityType, FS_EmptySet
<1>3. ASSUME t # {} PROVE One(t) \in t
  BY <1>3 DEF One
<1>4. ASSUME t # {} PROVE Cardinality(t \ {One(t)}) = Cardinality(t) - 1
  BY <1>1, <1>3, <1>4, FS_RemoveElement
<1> QED
  BY <1>1, <1>2, <1>3, <1>4

LEMMA SumsExists ==
  ASSUME NEW S, IsFiniteSet(S), NEW h
  PROVE  \A n \in Nat : \E f : Sums(S, h, n, f)
<1> DEFINE T == {n \in Nat : \E f : Sums(S, h, n, f)}
<1>1. 0 \in T
  <2>1. Sums(S, h, 0, [t \in SUBSET S |-> 0])
    <3>1. \A t \in SUBSET S : Cardinality(t) <= 0 => t = {}
      <4> SUFFICES ASSUME NEW t \in SUBSET S, Cardinality(t) <= 0 PROVE t = {}
        OBVIOUS
      <4>1. Cardinality(t) \in Nat /\ (Cardinality(t) = 0 <=> t = {})
        BY OneLess
      <4> QED
        BY <4>1
    <3> QED
      BY <3>1 DEF Sums
  <2> QED
    BY <2>1
<1>2. ASSUME NEW n \in Nat, n \in T PROVE n + 1 \in T
  <2>1. PICK f : Sums(S, h, n, f)
    BY <1>2
  <2> DEFINE g == [t \in SUBSET S |-> IF Cardinality(t) = n + 1
                                      THEN h[One(t)].seq + f[t \ {One(t)}] ELSE f[t]]
  <2>2. ASSUME NEW t \in SUBSET S, Cardinality(t) <= n + 1
        PROVE  g[t] = IF t = {} THEN 0 ELSE h[One(t)].seq + g[t \ {One(t)}]
    <3>1. Cardinality(t) \in Nat /\ (Cardinality(t) = 0 <=> t = {})
      BY OneLess
    <3>2. CASE t = {}
      <4>1. Cardinality(t) # n + 1 /\ Cardinality(t) <= n
        BY <3>1, <3>2
      <4> QED
        BY <2>1, <3>2, <4>1 DEF Sums
    <3>3. CASE t # {}
      <4>1. /\ t \ {One(t)} \in SUBSET S
            /\ Cardinality(t \ {One(t)}) = Cardinality(t) - 1
        BY <3>3, OneLess
      <4>2. Cardinality(t \ {One(t)}) # n + 1
        BY <2>2, <3>1, <4>1
      <4>3. g[t \ {One(t)}] = f[t \ {One(t)}]
        BY <4>1, <4>2
      <4>4. g[t] = h[One(t)].seq + f[t \ {One(t)}]
        <5>1. CASE Cardinality(t) = n + 1
          BY <5>1
        <5>2. CASE Cardinality(t) # n + 1
          <6>1. Cardinality(t) <= n
            BY <2>2, <3>1, <5>2
          <6> QED
            BY <2>1, <3>3, <5>2, <6>1 DEF Sums
        <5> QED
          BY <5>1, <5>2
      <4> QED
        BY <3>3, <4>3, <4>4
    <3> QED
      BY <3>2, <3>3
  <2> HIDE DEF g
  <2>3. Sums(S, h, n + 1, g)
    BY <2>2 DEF Sums
  <2> QED
    BY <2>3
<1> HIDE DEF T
<1>3. \A n \in Nat : n \in T
  BY <1>1, <1>2, Induction
<1> QED
  BY <1>3 DEF T

(* The sum is at least each of the numbers added.                          *)
LEMMA SumBounds ==
  ASSUME NEW S, IsFiniteSet(S), NEW h, \A x \in S : h[x].seq \in Nat, NEW f, f = SumRule(S, h, f)
  PROVE  \A x \in S : f[S] \in Nat /\ h[x].seq <= f[S]
<1> DEFINE T == {n \in Nat : \A t \in SUBSET S : Cardinality(t) <= n =>
                   f[t] \in Nat /\ \A x \in t : h[x].seq <= f[t]}
<1>1. \A t \in SUBSET S : f[t] = IF t = {} THEN 0 ELSE h[One(t)].seq + f[t \ {One(t)}]
  BY DEF SumRule
<1>2. 0 \in T
  <2> SUFFICES ASSUME NEW t \in SUBSET S, Cardinality(t) <= 0
               PROVE  f[t] \in Nat /\ \A x \in t : h[x].seq <= f[t]
    OBVIOUS
  <2>1. t = {}
    <3>1. Cardinality(t) \in Nat /\ (Cardinality(t) = 0 <=> t = {})
      BY OneLess
    <3> QED
      BY <3>1
  <2>2. f[t] = 0
    BY <1>1, <2>1
  <2> QED
    BY <2>1, <2>2
<1>3. ASSUME NEW n \in Nat, n \in T PROVE n + 1 \in T
  <2> SUFFICES ASSUME NEW t \in SUBSET S, Cardinality(t) <= n + 1
               PROVE  f[t] \in Nat /\ \A x \in t : h[x].seq <= f[t]
    OBVIOUS
  <2>1. CASE t = {}
    <3>1. f[t] = 0
      BY <1>1, <2>1
    <3> QED
      BY <2>1, <3>1
  <2>2. CASE t # {}
    <3> DEFINE u == t \ {One(t)}
               v == h[One(t)].seq
    <3>1. /\ One(t) \in t /\ u \in SUBSET S /\ Cardinality(u) = Cardinality(t) - 1
          /\ Cardinality(t) \in Nat
      BY <2>2, OneLess
    <3>2. Cardinality(u) <= n
      BY <3>1
    <3>3. f[u] \in Nat /\ \A x \in u : h[x].seq <= f[u]
      BY <1>3, <3>1, <3>2
    <3>4. f[t] = v + f[u] /\ v \in Nat
      BY <1>1, <2>2, <3>1
    <3>5. ASSUME NEW x \in t PROVE h[x].seq <= f[t]
      <4>1. CASE x \in u
        <5>1. h[x].seq \in Nat /\ h[x].seq <= f[u]
          BY <3>1, <3>3, <4>1
        <5> HIDE DEF u, v
        <5> QED
          BY <3>3, <3>4, <5>1
      <4>2. CASE x = One(t)
        <5>1. h[x].seq = v
          BY <4>2
        <5> HIDE DEF u, v
        <5> QED
          BY <3>3, <3>4, <5>1
      <4> QED
        BY <4>1, <4>2
    <3> HIDE DEF u, v
    <3> QED
      BY <3>3, <3>4, <3>5
  <2> QED
    BY <2>1, <2>2
<1> HIDE DEF T
<1>4. Cardinality(S) \in T
  BY <1>2, <1>3, Induction, FS_CardinalityType
<1>5. S \in SUBSET S /\ Cardinality(S) <= Cardinality(S)
  BY FS_CardinalityType
<1> QED
  BY <1>4, <1>5 DEF T

(* A server that may draw a number has not drawn the last one.             *)
LEMMA DrawBound ==
  ASSUME Network, MayDraw, NEW s \in Servers
  PROVE  server[s].seq \in 0..MaxSeq /\ Drawn(s) \in 0..MaxSeq
<1> DEFINE F == CHOOSE f : f = SumRule(Servers, server, f)
<1>1. F[Servers] < MaxSeq
  BY DEF MayDraw, MapThenSumSet, MapThenFoldSet, SumRule, One
<1>2. IsFiniteSet(Servers) /\ \A x \in Servers : server[x].seq \in 0..MaxSeq
  BY Constants DEF Network
<1>3. PICK g : Sums(Servers, server, Cardinality(Servers), g)
  BY <1>2, SumsExists, FS_CardinalityType
<1> DEFINE f == [t \in SUBSET Servers |-> g[t]]
<1>4. f = SumRule(Servers, server, f)
  <2>1. ASSUME NEW t \in SUBSET Servers
        PROVE  f[t] = IF t = {} THEN 0 ELSE server[One(t)].seq + f[t \ {One(t)}]
    <3>1. t \ {One(t)} \in SUBSET Servers /\ Cardinality(t) <= Cardinality(Servers)
      BY <1>2, OneLess
    <3> QED
      BY <1>3, <3>1 DEF Sums
  <2> HIDE DEF f
  <2>2. f = [t \in SUBSET Servers |-> f[t]]
    BY DEF f
  <2> QED
    BY <2>1, <2>2 DEF SumRule
<1> HIDE DEF f
<1>5. F = SumRule(Servers, server, F)
  BY <1>4
<1> HIDE DEF F
<1>6. \A x \in Servers : server[x].seq \in Nat
  BY <1>2, Constants
<1>7. F[Servers] \in Nat /\ server[s].seq <= F[Servers]
  BY <1>2, <1>5, <1>6, SumBounds
<1> QED
  BY <1>1, <1>2, <1>7, Constants DEF Drawn

-----------------------------------------------------------------------------
(* The actions.                                                            *)

LEMMA SubsFacts ==
  ASSUME Client(subs, told, timeouts)
  PROVE  /\ subs \in Seq(TimedNodes) /\ Distinct(subs)
         /\ told \in [Servers -> Results] /\ timeouts \in [Servers -> Nat]
         /\ \A i \in DOMAIN subs : subs[i] \in TimedNodes /\ subs[i].server \in Servers
<1>1. /\ subs \in Seq(TimedNodes) /\ Distinct(subs)
      /\ told \in [Servers -> Results] /\ timeouts \in [Servers -> Nat]
  BY DEF Client
<1>2. \A i \in DOMAIN subs : subs[i] \in TimedNodes
  BY <1>1, LenProperties, ElementOfSeq
<1> QED
  BY <1>1, <1>2, NodeFacts

LEMMA NoteFacts ==
  ASSUME Network
  PROVE  /\ \A s \in Servers, k \in {"live", "stop", "deleted"}, n \in 0..MaxSeq :
              Note(s, n, k) \in [server : Servers, seq : 0..MaxSeq,
                                 kind : {"live", "stop", "deleted"}]
         /\ \A s \in Servers : HandlePoll(s) \in [server : Servers, seq : 0..MaxSeq,
                                                  kind : {"live", "stop", "deleted"}]
<1>1. 0 \in 0..MaxSeq
  BY Constants
<1>2. \A s \in Servers : server[s].seq \in 0..MaxSeq
  BY DEF Network
<1> QED
  BY <1>1, <1>2 DEF Note, HandlePoll

LEMMA ServerInv ==
  ASSUME PresenceInv, NEW s \in Servers,
         OCStartPresence(s) \/ ResourceChange(s) \/ OCStopPresence(s) \/ OCStop(s)
           \/ Crash(s) \/ Restart(s)
  PROVE  PresenceInv'
<1>1. Client(subs, told, timeouts) /\ Network
  BY DEF PresenceInv
<1>2. MayDraw => server[s].seq \in 0..MaxSeq /\ Drawn(s) \in 0..MaxSeq
  BY <1>1, DrawBound
<1>3. /\ server[s].state \in {"new", "active", "inactive", "down"}
      /\ server[s].seq \in 0..MaxSeq
  BY <1>1 DEF Network
<1>4. ASSUME NEW st \in {"new", "active", "inactive", "down"}, NEW n \in 0..MaxSeq,
             Set(s, st, n),
             \/ UNCHANGED notes
             \/ \E k \in {"live", "stop", "deleted"} : Announce(Note(s, n, k))
      PROVE  Network'
  <2>1. server' \in [Servers -> [state : {"new", "active", "inactive", "down"}, seq : 0..MaxSeq]]
    BY <1>1, <1>4 DEF Network, Set
  <2>2. notes' \subseteq [server : Servers, seq : 0..MaxSeq, kind : {"live", "stop", "deleted"}]
    <3>1. CASE UNCHANGED notes
      BY <1>1, <3>1 DEF Network
    <3>2. ASSUME NEW k \in {"live", "stop", "deleted"}, Announce(Note(s, n, k))
          PROVE  notes' \subseteq [server : Servers, seq : 0..MaxSeq,
                                   kind : {"live", "stop", "deleted"}]
      <4>1. Note(s, n, k) \in [server : Servers, seq : 0..MaxSeq,
                               kind : {"live", "stop", "deleted"}]
        BY <1>1, <1>4, NoteFacts
      <4>2. notes' \subseteq notes \cup {Note(s, n, k)}
        BY <3>2 DEF Announce
      <4> QED
        BY <1>1, <4>1, <4>2 DEF Network
    <3> QED
      BY <1>4, <3>1, <3>2
  <2> QED
    BY <2>1, <2>2 DEF Network
<1>5. Network'
  <2>1. CASE OCStartPresence(s)
    BY <1>2, <1>4, <2>1 DEF OCStartPresence
  <2>2. CASE ResourceChange(s)
    BY <1>2, <1>3, <1>4, <2>2 DEF ResourceChange
  <2>3. CASE OCStopPresence(s)
    BY <1>2, <1>4, <2>3 DEF OCStopPresence
  <2>4. CASE OCStop(s)
    BY <1>2, <1>4, <2>4 DEF OCStop
  <2>5. CASE Crash(s)
    BY <1>3, <1>4, <2>5 DEF Crash
  <2>6. CASE Restart(s)
    BY <1>3, <1>4, <2>6 DEF Restart
  <2> QED
    BY <2>1, <2>2, <2>3, <2>4, <2>5, <2>6
<1>6. UNCHANGED <<subs, told, timeouts>>
  BY DEF OCStartPresence, ResourceChange, OCStopPresence, OCStop, Crash, Restart, clientVars
<1>7. Client(subs', told', timeouts')
  BY <1>1, <1>6
<1> QED
  BY <1>5, <1>7 DEF PresenceInv

LEMMA SubscribeInv ==
  ASSUME PresenceInv, NEW s \in Servers, Subscribe(s) \/ OCCancel(s)
  PROVE  PresenceInv'
<1>1. Client(subs, told, timeouts) /\ Network
  BY DEF PresenceInv
<1>2. Network'
  BY <1>1 DEF Subscribe, OCCancel, Network
<1>3. subs \in Seq(TimedNodes)
  BY <1>1, SubsFacts
<1>4. CASE Subscribe(s)
  <2>1. \A i \in DOMAIN subs : subs[i].server # s
    BY <1>3, <1>4, LookupSpec DEF Subscribe
  <2>2. Client(subs', told', timeouts')
    BY <1>1, <1>4, <2>1, AppendNode DEF Subscribe
  <2> QED
    BY <1>2, <2>2 DEF PresenceInv
<1>5. CASE OCCancel(s)
  <2>1. Lookup(s) \in DOMAIN subs /\ subs[Lookup(s)].server = s
    BY <1>3, <1>5, LookupSpec DEF OCCancel
  <2>2. Client(subs', told', timeouts')
    BY <1>1, <1>5, <2>1, RemoveNode DEF OCCancel
  <2> QED
    BY <1>2, <2>2 DEF PresenceInv
<1> QED
  BY <1>4, <1>5

LEMMA TickInv ==
  ASSUME PresenceInv, Tick
  PROVE  PresenceInv'
<1>1. Client(subs, told, timeouts) /\ Network
  BY DEF PresenceInv
<1>2. Network'
  BY <1>1 DEF Tick, Network
<1> DEFINE old(i) == [subs[i] EXCEPT !.presence = [j \in DOMAIN @ |-> Older(@[j])]]
<1>3. subs' = [i \in DOMAIN subs |-> old(i)] /\ UNCHANGED <<told, timeouts>>
  BY DEF Tick
<1>4. ASSUME NEW i \in DOMAIN subs
      PROVE  /\ old(i) \in TimedNodes /\ old(i).server = subs[i].server
             /\ Watching(old(i)) <=> Watching(subs[i])
  <2> DEFINE n == subs[i]
             p == n.presence[1]
             o == [j \in DOMAIN n.presence |-> Older(n.presence[j])]
  <2>1. n \in TimedNodes
    BY <1>1, SubsFacts
  <2>2. /\ n = [server |-> n.server, seq |-> n.seq, presence |-> n.presence]
        /\ n.server \in Servers /\ n.seq \in 0..MaxSeq
        /\ n.presence # <<>> => n.presence = <<p>> /\ p \in Presence /\ Timed(p)
    BY <2>1, NodeFacts
  <2>3. old(i) = [server |-> n.server, seq |-> n.seq, presence |-> o]
    BY <2>2
  <2>4. CASE n.presence = <<>>
    <3>1. o = <<>>
      BY <2>4
    <3>2. old(i) = n
      BY <2>2, <2>3, <2>4, <3>1
    <3> QED
      BY <2>1, <3>2
  <2>5. CASE n.presence # <<>>
    <3>1. n.presence = <<p>> /\ p \in Presence /\ Timed(p)
      BY <2>2, <2>5
    <3>2. o = <<Older(p)>>
      BY <3>1
    <3>3. Older(p) \in Presence /\ Older(p).level = p.level /\ Timed(Older(p))
      <4>1. /\ p.level \in 0..(Size + 2) /\ p.age \in 0..TTL /\ p.timeOut \in Timers
            /\ p = [level |-> p.level, age |-> p.age, timeOut |-> p.timeOut]
        BY <3>1 DEF Presence, Size
      <4>2. CASE p.level <= PresenceTimeOutSize /\ p.age < TTL
        <5> DEFINE f == [level |-> p.level, age |-> p.age + 1, timeOut |-> p.timeOut]
        <5>1. Older(p) = f
          BY <4>1, <4>2 DEF Older
        <5>2. f \in Presence
          BY <4>1, <4>2, Constants DEF Presence, Size
        <5>3. Timed(f)
          <6>1. ASSUME p.level \in 1..Size PROVE p.timeOut[p.level] <= p.age + 1
            <7>1. p.timeOut[p.level] <= p.age /\ p.age \in Nat
              BY <3>1, <4>1, <6>1, Constants DEF Timed
            <7>2. p.timeOut[p.level] \in Int
              BY <4>1, <6>1, Constants DEF Timers, Size
            <7> QED
              BY <7>1, <7>2
          <6> QED
            BY <3>1, <6>1 DEF Timed
        <5> QED
          BY <5>1, <5>2, <5>3
      <4>3. CASE ~(p.level <= PresenceTimeOutSize /\ p.age < TTL)
        BY <3>1, <4>3 DEF Older
      <4> QED
        BY <4>2, <4>3
    <3>4. old(i) = [server |-> n.server, seq |-> n.seq, presence |-> <<Older(p)>>]
      BY <2>3, <3>2
    <3>5. old(i) \in TimedNodes
      <4>1. PICK f : f = Older(p)
        OBVIOUS
      <4>2. [server |-> n.server, seq |-> n.seq, presence |-> <<f>>] \in TimedNodes
        BY <2>2, <3>3, <4>1, NodeOf
      <4> QED
        BY <3>4, <4>1, <4>2
    <3>6. Watching(old(i)) <=> Watching(n)
      <4>1. old(i).presence = <<Older(p)>> /\ old(i).presence # <<>>
        BY <3>4
      <4> HIDE DEF old
      <4> QED
        BY <2>5, <3>3, <4>1 DEF Watching
    <3> QED
      BY <3>4, <3>5, <3>6
  <2> QED
    BY <2>4, <2>5
<1> HIDE DEF old
<1>5. /\ subs \in Seq(TimedNodes) /\ DOMAIN subs = 1..Len(subs) /\ Len(subs) \in Nat
  BY <1>1, SubsFacts, LenProperties
<1>6. subs' \in Seq(TimedNodes) /\ DOMAIN subs' = DOMAIN subs
  BY <1>3, <1>4, <1>5, IsASeq
<1>7. \A i \in DOMAIN subs : /\ subs'[i].server = subs[i].server
                             /\ Watching(subs'[i]) <=> Watching(subs[i])
  BY <1>3, <1>4
<1>8. Client(subs', told', timeouts')
  BY <1>1, <1>3, <1>6, <1>7, SMTT(60) DEF Client, Distinct, Quiet, Watched
<1> QED
  BY <1>2, <1>8 DEF PresenceInv

LEMMA ReportInv ==
  ASSUME Client(subs, told, timeouts), NEW i \in DOMAIN subs,
         NEW n \in TimedNodes, n.server = subs[i].server,
         NEW note, note.server = n.server, NEW result \in Results,
         result = "present" => Watching(n),
         Report(i, n, note, result), Heard(note.server)
  PROVE  Client(subs', told', timeouts')
<1>1. told \in [Servers -> Results] /\ n.server \in Servers
  BY SubsFacts
<1>2. timeouts' = [timeouts EXCEPT ![n.server] = 0]
  BY DEF Heard
<1>3. CASE subs' = [subs EXCEPT ![i] = n] /\ told' = [told EXCEPT ![n.server] = result]
  BY <1>2, <1>3, ReplaceNode
<1>4. CASE subs' = RemoveAt(subs, i) /\ told' = [told EXCEPT ![n.server] = "nothing"]
  BY <1>2, <1>4, RemoveNode
<1>5. CASE Filters(note) /\ subs' = [subs EXCEPT ![i] = n] /\ UNCHANGED told
  <2>1. told' = [told EXCEPT ![n.server] = told[n.server]] /\ told[n.server] \in Results
    BY <1>1, <1>5
  <2>2. n.server \in Filtered
    BY <1>5 DEF Filters
  <2>3. PICK v \in Results : v = told[n.server]
    BY <2>1
  <2>4. told' = [told EXCEPT ![n.server] = v]
    BY <2>1, <2>3
  <2>5. Client([subs EXCEPT ![i] = n], [told EXCEPT ![n.server] = v],
               [timeouts EXCEPT ![n.server] = 0])
    BY <2>2, ReplaceNode
  <2> QED
    BY <1>2, <1>5, <2>4, <2>5
<1> QED
  BY <1>3, <1>4, <1>5 DEF Report, CalledBack

LEMMA ResponseInv ==
  ASSUME PresenceInv, NEW note \in notes, HandlePresenceResponse(note)
  PROVE  PresenceInv'
<1>1. Client(subs, told, timeouts) /\ Network
  BY DEF PresenceInv
<1>2. Network'
  BY <1>1 DEF HandlePresenceResponse, Network
<1>3. note.server \in Servers /\ note.seq \in 0..MaxSeq
  BY <1>1 DEF Network
<1>4. Client(subs', told', timeouts')
  <2>1. CASE UNCHANGED clientVars
    BY <1>1, <2>1 DEF clientVars
  <2>2. ASSUME NEW i, i = Lookup(note.server), i # 0,
               Unchanged(i, note) \/ Stopped(i, note) \/ Present(i, note)
        PROVE  Client(subs', told', timeouts')
    <3>1. i \in DOMAIN subs /\ subs[i].server = note.server
      BY <1>1, <2>2, SubsFacts, LookupSpec
    <3>2. subs[i] \in TimedNodes
      BY <1>1, <3>1, SubsFacts
    <3> DEFINE n == subs[i]
    <3>3. /\ n = [server |-> n.server, seq |-> n.seq, presence |-> n.presence]
          /\ n.server \in Servers /\ n.seq \in 0..MaxSeq
      BY <3>2, NodeFacts
    <3>4. ASSUME NEW t \in Drawings, NEW k \in 0..MaxSeq
          PROVE  \E m \in TimedNodes :
                   /\ m = [server |-> n.server, seq |-> k, presence |-> Reset(n, t)]
                   /\ m.server = n.server /\ Watching(m)
      <4>1. PICK p \in Presence : Reset(n, t) = <<p>> /\ Timed(p) /\ p.level <= Size
        BY ResetFacts
      <4> DEFINE m == [server |-> n.server, seq |-> k, presence |-> <<p>>]
      <4>2. m \in TimedNodes
        BY <3>3, <4>1, NodeOf
      <4>3. Watching(m)
        BY <4>1 DEF Watching
      <4> QED
        BY <4>1, <4>2, <4>3
    <3>5. CASE Unchanged(i, note)
      <4>1. CASE n.presence = <<>>
        BY <1>1, <3>5, <4>1 DEF Unchanged
      <4>2. CASE n.presence # <<>>
        <5>1. PICK t \in Drawings : subs' = [subs EXCEPT ![i].presence = Reset(subs[i], t)]
          BY <3>5, <4>2 DEF Unchanged
        <5>2. PICK m \in TimedNodes :
                /\ m = [server |-> n.server, seq |-> n.seq, presence |-> Reset(n, t)]
                /\ m.server = n.server /\ Watching(m)
          BY <3>3, <3>4
        <5>3. subs' = [subs EXCEPT ![i] = m]
          <6>1. [subs[i] EXCEPT !.presence = Reset(subs[i], t)] = m
            BY <3>2, <5>2, NodeExcept
          <6> QED
            BY <5>1, <6>1
        <5>4. /\ told' = [told EXCEPT ![m.server] = told[m.server]] /\ told[m.server] \in Results
              /\ timeouts' = [timeouts EXCEPT ![m.server] = 0]
          BY <1>1, <3>1, <3>3, <3>5, <4>2, <5>2, SubsFacts DEF Unchanged, Heard
        <5>5. m.server = subs[i].server
          BY <5>2
        <5> QED
          BY <1>1, <3>1, <5>2, <5>3, <5>4, <5>5, ReplaceNode
      <4> QED
        BY <4>1, <4>2
    <3>6. CASE Stopped(i, note)
      <4> DEFINE m == [server |-> n.server, seq |-> n.seq, presence |-> <<>>]
      <4>1. m \in TimedNodes /\ m.server = n.server
        BY <3>3, NodeOf
      <4>2. [subs[i] EXCEPT !.presence = <<>>] = m
        BY <3>3
      <4>3. Report(i, m, note, "stopped") /\ Heard(note.server)
        BY <3>6, <4>2 DEF Stopped
      <4>4. "stopped" \in Results /\ "stopped" # "present"
        BY DEF Results
      <4> HIDE DEF m
      <4> QED
        BY <1>1, <3>1, <4>1, <4>3, <4>4, ReportInv
    <3>7. CASE Present(i, note)
      <4>1. PICK t \in Drawings :
              Report(i, [subs[i] EXCEPT !.presence = Reset(subs[i], t), !.seq = note.seq],
                     note, "present")
        BY <3>7 DEF Present
      <4>2. PICK m \in TimedNodes :
              /\ m = [server |-> n.server, seq |-> note.seq, presence |-> Reset(n, t)]
              /\ m.server = n.server /\ Watching(m)
        BY <1>3, <3>4
      <4>3. [subs[i] EXCEPT !.presence = Reset(subs[i], t), !.seq = note.seq] = m
        <5>1. PICK x : x = Reset(n, t)
          OBVIOUS
        <5>2. [subs[i] EXCEPT !.presence = x, !.seq = note.seq] =
                [server |-> n.server, seq |-> note.seq, presence |-> x]
          BY <3>2, NodeExcept
        <5> QED
          BY <4>2, <5>1, <5>2
      <4>4. Report(i, m, note, "present") /\ Heard(note.server)
        BY <3>7, <4>1, <4>3 DEF Present
      <4>5. "present" \in Results
        BY DEF Results
      <4> QED
        BY <1>1, <3>1, <4>2, <4>4, <4>5, ReportInv
    <3> QED
      BY <2>2, <3>5, <3>6, <3>7
  <2> QED
    BY <2>1, <2>2 DEF HandlePresenceResponse
<1> QED
  BY <1>2, <1>4 DEF PresenceInv

LEMMA WalkInv ==
  ASSUME PresenceInv, NEW failed, NEW deleted \in SUBSET Late, NEW more \in SUBSET Late,
         Walk(failed, deleted, more)
  PROVE  PresenceInv'
<1> DEFINE asking == {i \in DOMAIN subs : Due(subs[i])} \cup more
           ends == {i \in DOMAIN subs : EndsWalk(i, asking, failed)}
           seen == {i \in DOMAIN subs : \A e \in ends : i <= e}
           late == {i \in seen : Expired(subs[i])}
           asked == (asking \cap seen) \ failed
           servers(places) == {subs[i].server : i \in places}
           Q == [i \in DOMAIN subs |->
                   IF i \in seen THEN Visited(i, i \in asked, deleted) ELSE <<subs[i]>>]
<1>1. Client(subs, told, timeouts) /\ Network
  BY DEF PresenceInv
<1>2. /\ UNCHANGED server
      /\ subs' = FlattenSeq(Q)
      /\ told' = [s \in Servers |->
             IF s \notin servers(late) THEN told[s]
             ELSE IF s \in servers(deleted) THEN "nothing" ELSE "timeout"]
      /\ timeouts' = [s \in Servers |->
             timeouts[s] + (IF s \in servers(late) THEN 1 ELSE 0)]
      /\ \E reached \in SUBSET {i \in asked \ deleted : server[subs[i].server].state # "down"} :
             notes' = notes \cup {HandlePoll(subs[i].server) : i \in reached}
  BY DEF Walk
<1>3. /\ asked \subseteq DOMAIN subs /\ seen \subseteq DOMAIN subs /\ late \subseteq DOMAIN subs
      /\ \A i \in asked : Due(subs[i]) \/ Expired(subs[i])
      /\ \A i \in deleted : Expired(subs[i])
      /\ \A i \in seen : i \in late <=> Expired(subs[i])
  BY DEF Late
<1>4. \A i \in DOMAIN subs : Q[i] =
        IF i \in seen THEN Visited(i, i \in asked, deleted) ELSE <<subs[i]>>
  OBVIOUS
<1>5. DOMAIN Q = DOMAIN subs /\ Q = [i \in DOMAIN Q |-> Q[i]]
  OBVIOUS
<1> HIDE DEF asking, ends, seen, late, asked, Q
<1>6. /\ told \in [Servers -> Results] /\ timeouts \in [Servers -> Nat]
      /\ \A i \in DOMAIN subs : subs[i] \in TimedNodes /\ subs[i].server \in Servers
  BY <1>1, SubsFacts
<1>7. Network'
  <2>1. PICK reached \in SUBSET asked :
          notes' = notes \cup {HandlePoll(subs[i].server) : i \in reached}
    BY <1>2
  <2>2. \A i \in reached : subs[i].server \in Servers
    BY <1>3, <1>6
  <2>3. \A i \in reached : HandlePoll(subs[i].server) \in
          [server : Servers, seq : 0..MaxSeq, kind : {"live", "stop", "deleted"}]
    BY <1>1, <2>2, NoteFacts
  <2> QED
    BY <1>1, <1>2, <2>1, <2>3 DEF Network
<1>8. ASSUME NEW i \in DOMAIN subs PROVE AfterVisit(subs[i], Q[i], i \in late)
  <2>1. CASE i \in seen
    <3>1. AfterVisit(subs[i], Visited(i, i \in asked, deleted), Expired(subs[i]))
      <4>1. PICK b \in BOOLEAN : b = (i \in asked)
        <5>1. (i \in asked) \in BOOLEAN
          OBVIOUS
        <5> QED
          BY <5>1, Zenon
      <4>2. AfterVisit(subs[i], Visited(i, b, deleted), Expired(subs[i]))
        BY <1>3, <1>6, <4>1, VisitFacts
      <4> QED
        BY <4>1, <4>2
    <3>2. Q[i] = Visited(i, i \in asked, deleted)
      BY <1>4, <2>1
    <3>3. i \in late <=> Expired(subs[i])
      BY <1>3, <2>1
    <3> QED
      BY <3>1, <3>2, <3>3 DEF AfterVisit
  <2>2. CASE i \notin seen
    <3>1. Q[i] = <<subs[i]>> /\ i \notin late
      BY <1>4, <2>2 DEF late
    <3> QED
      BY <1>6, <3>1 DEF AfterVisit
  <2> QED
    BY <2>1, <2>2
<1>9. told' \in [Servers -> Results] /\ timeouts' \in [Servers -> Nat]
  <2>1. told' \in [Servers -> Results]
    BY <1>2, <1>6 DEF Results
  <2>2. timeouts' \in [Servers -> Nat]
    BY <1>2, <1>6
  <2> QED
    BY <2>1, <2>2
<1>10. \A i \in late : told'[subs[i].server] # "present"
  BY <1>2, <1>3, <1>6
<1>11. \A s \in Servers : (\A i \in late : subs[i].server # s) =>
          told'[s] = told[s] /\ timeouts'[s] = timeouts[s]
  BY <1>2, <1>6
<1>12. Client(FlattenSeq(Q), told', timeouts')
  BY <1>1, <1>3, <1>5, <1>8, <1>9, <1>10, <1>11, WalkKeeps
<1> QED
  BY <1>2, <1>7, <1>12 DEF PresenceInv

LEMMA InvInit == Init => PresenceInv
<1> SUFFICES ASSUME Init PROVE PresenceInv
  OBVIOUS
<1>1. subs = <<>> /\ subs \in Seq(TimedNodes) /\ DOMAIN subs = {}
  BY EmptySeq DEF Init
<1>2. told \in [Servers -> Results] /\ \A s \in Servers : told[s] # "present"
  BY DEF Init, Results
<1>3. timeouts \in [Servers -> Nat]
  BY DEF Init
<1>4. Client(subs, told, timeouts)
  BY <1>1, <1>2, <1>3 DEF Client, Distinct, Quiet, Watched
<1>5. Network
  BY Constants DEF Init, Network
<1> QED
  BY <1>4, <1>5 DEF PresenceInv

LEMMA InvStep == PresenceInv /\ [Next]_vars => PresenceInv'
<1> SUFFICES ASSUME PresenceInv, [Next]_vars PROVE PresenceInv'
  OBVIOUS
<1>1. ASSUME NEW s \in Servers,
             OCStartPresence(s) \/ ResourceChange(s) \/ OCStopPresence(s) \/ OCStop(s)
               \/ Crash(s) \/ Restart(s)
      PROVE  PresenceInv'
  BY <1>1, ServerInv
<1>2. ASSUME NEW s \in Servers, Subscribe(s) \/ OCCancel(s) PROVE PresenceInv'
  BY <1>2, SubscribeInv
<1>3. ASSUME NEW n \in notes, HandlePresenceResponse(n) PROVE PresenceInv'
  BY <1>3, ResponseInv
<1>4. ASSUME NEW n \in notes, Lose(n) PROVE PresenceInv'
  BY <1>4 DEF Lose, clientVars, PresenceInv, Network
<1>5. CASE OCProcessPresence
  <2>1. PICK deleted \in SUBSET Late, more \in SUBSET Late :
          \E failed \in SUBSET {i \in DOMAIN subs : Due(subs[i]) \/ i \in more} :
            Walk(failed, deleted, more)
    BY <1>5 DEF OCProcessPresence
  <2>2. PICK failed : Walk(failed, deleted, more)
    BY <2>1
  <2> QED
    BY <2>2, WalkInv
<1>6. CASE Tick
  BY <1>6, TickInv
<1>7. CASE UNCHANGED vars
  BY <1>7 DEF vars, PresenceInv, Network
<1> QED
  BY <1>1, <1>2, <1>3, <1>4, <1>5, <1>6, <1>7 DEF Next

(* The list of presence nodes, the timers of each and what the application *)
(* has been told agree, whatever the network and the servers do: one node  *)
(* for a server, a timer that counts as run out has run out, and no        *)
(* time-out that is still to come has been reported.                       *)
THEOREM Invariance == Spec => []PresenceInv
  BY InvInit, InvStep, PTL DEF Spec

(* The nodes of g_cbList, the announcements on their way and the servers   *)
(* keep their types: TTLlevel is at most two above the last timer and no   *)
(* server draws a sequence number beyond the bound.                        *)
THEOREM TypeCorrect == Spec => []TypeOK
<1>1. PresenceInv => TypeOK
  <2> SUFFICES ASSUME PresenceInv PROVE TypeOK
    OBVIOUS
  <2>1. Client(subs, told, timeouts) /\ Network
    BY DEF PresenceInv
  <2>2. TimedNodes \subseteq Nodes
    BY DEF TimedNodes
  <2>3. subs \in Seq(Nodes)
    BY <2>1, <2>2, SubsFacts, SeqMonotonic
  <2> QED
    BY <2>1, <2>3, SubsFacts DEF TypeOK, Nodes, Network, Results
<1> QED
  BY <1>1, Invariance, PTL

(* Lookup finds the node of a server wherever it is.                       *)
LEMMA LookupIs ==
  ASSUME Client(subs, told, timeouts), NEW i \in DOMAIN subs
  PROVE  Lookup(subs[i].server) = i
<1>1. subs \in Seq(TimedNodes) /\ Distinct(subs) /\ 0 \notin DOMAIN subs
  BY SubsFacts, LenProperties
<1>2. Lookup(subs[i].server) # 0
  BY <1>1, LookupSpec
<1>3. /\ Lookup(subs[i].server) \in DOMAIN subs
      /\ subs[Lookup(subs[i].server)].server = subs[i].server
  BY <1>1, <1>2, LookupSpec
<1> QED
  BY <1>1, <1>3 DEF Distinct

(* A server that the application takes for present has a presence node     *)
(* with running timers, whose time-out OCProcessPresence has not passed    *)
(* over, however the announcements were lost, late or out of order.        *)
THEOREM PresentIsWatched == Spec => []BelievedWatched
<1>1. PresenceInv => BelievedWatched
  <2> SUFFICES ASSUME PresenceInv, NEW s \in Servers \ Filtered, told[s] = "present"
               PROVE  Lookup(s) # 0 /\ Node(s).presence # <<>> /\ ~Stuck(Node(s))
    BY DEF BelievedWatched
  <2>1. Client(subs, told, timeouts) /\ Watched(subs, told)
    BY DEF PresenceInv, Client
  <2>2. PICK i \in DOMAIN subs : subs[i].server = s /\ Watching(subs[i])
    BY <2>1 DEF Watched
  <2>3. Lookup(s) = i /\ i # 0
    <3>1. 0 \notin DOMAIN subs
      BY <2>1, SubsFacts, LenProperties
    <3> QED
      BY <2>1, <2>2, <3>1, LookupIs
  <2>4. Node(s) = subs[i] /\ subs[i] \in TimedNodes
    BY <2>1, <2>3, SubsFacts DEF Node
  <2>5. subs[i].presence # <<>> /\ subs[i].presence[1].level \in Nat
        /\ subs[i].presence[1].level <= Size
    BY <2>2, <2>4, NodeFacts, Constants DEF Watching, Presence, Size
  <2>6. ~Stuck(subs[i])
    BY <2>5, Constants DEF Stuck, Level, Size
  <2> QED
    BY <2>3, <2>4, <2>5, <2>6
<1> QED
  BY <1>1, Invariance, PTL

(* OCProcessPresence reports the time-out of a server once, and not before *)
(* the bound of its last timer has passed since ResetPresenceTTL.          *)
THEOREM TimeoutIsEarned == Spec => TimeoutEarned
<1> DEFINE Earned == \A s \in Servers : timeouts'[s] > timeouts[s] =>
             /\ timeouts'[s] = 1
             /\ Node(s).presence[1].age >= PresenceTimeOut[PresenceTimeOutSize]
<1>1. PresenceInv /\ [Next]_vars => [Earned]_vars
  <2> SUFFICES ASSUME PresenceInv, Next, NEW s \in Servers, timeouts'[s] > timeouts[s]
               PROVE  /\ timeouts'[s] = 1
                      /\ Node(s).presence[1].age >= PresenceTimeOut[PresenceTimeOutSize]
    OBVIOUS
  <2>1. Client(subs, told, timeouts)
    BY DEF PresenceInv
  <2>2. timeouts \in [Servers -> Nat] /\ ~(timeouts[s] > timeouts[s]) /\ ~(0 > timeouts[s])
    BY <2>1, SubsFacts
  <2>3. ~UNCHANGED timeouts /\ ~(\E u \in Servers : timeouts' = [timeouts EXCEPT ![u] = 0])
    BY <2>2
  <2>4. OCProcessPresence
    <3>1. ASSUME NEW n \in notes, HandlePresenceResponse(n) PROVE FALSE
      <4>1. n.server \in Servers
        BY DEF PresenceInv, Network
      <4> QED
        BY <2>3, <3>1, <4>1 DEF HandlePresenceResponse, Unchanged, Stopped, Present, Heard,
                                clientVars
    <3>2. ASSUME NEW n \in notes, Lose(n) PROVE FALSE
      BY <2>3, <3>2 DEF Lose, clientVars
    <3>3. ASSUME NEW u \in Servers,
                 \/ OCStartPresence(u) \/ ResourceChange(u) \/ OCStopPresence(u) \/ OCStop(u)
                 \/ Crash(u) \/ Restart(u) \/ Subscribe(u) \/ OCCancel(u)
          PROVE  FALSE
      BY <2>3, <3>3 DEF OCStartPresence, ResourceChange, OCStopPresence, OCStop, Crash,
                        Restart, Subscribe, OCCancel, clientVars
    <3>4. ~Tick
      BY <2>3 DEF Tick
    <3> QED
      BY <3>1, <3>2, <3>3, <3>4 DEF Next
  <2>5. PICK failed, deleted, more : Walk(failed, deleted, more)
    BY <2>4 DEF OCProcessPresence
  <2>6. PICK late \in SUBSET Late :
          timeouts' = [u \in Servers |->
            timeouts[u] + (IF u \in {subs[i].server : i \in late} THEN 1 ELSE 0)]
    <3> DEFINE asking == {i \in DOMAIN subs : Due(subs[i])} \cup more
               ends == {i \in DOMAIN subs : EndsWalk(i, asking, failed)}
               seen == {i \in DOMAIN subs : \A e \in ends : i <= e}
               late == {i \in seen : Expired(subs[i])}
    <3>1. timeouts' = [u \in Servers |->
            timeouts[u] + (IF u \in {subs[i].server : i \in late} THEN 1 ELSE 0)]
      BY <2>5 DEF Walk
    <3>2. late \in SUBSET Late
      BY DEF Late
    <3> HIDE DEF late
    <3> QED
      BY <3>1, <3>2
  <2>7. PICK i \in Late : subs[i].server = s /\ timeouts'[s] = timeouts[s] + 1
    BY <2>2, <2>6
  <2>8. i \in DOMAIN subs /\ Expired(subs[i]) /\ subs[i] \in TimedNodes
    BY <2>1, SubsFacts DEF Late
  <2> DEFINE p == subs[i].presence[1]
  <2>9. subs[i].presence # <<>> /\ p.level = Size /\ p \in Presence /\ Timed(p)
    BY <2>8, NodeFacts DEF Expired, Level, Size
  <2>10. timeouts[s] = 0
    <3>1. Watching(subs[i])
      BY <2>9, Constants DEF Watching
    <3> QED
      BY <2>1, <2>7, <2>8, <3>1 DEF Client, Quiet
  <2>11. p.age >= PresenceTimeOut[Size]
    <3>1. Size \in 1..Size
      BY Constants
    <3>2. p.timeOut[Size] <= p.age /\ p.timeOut[Size] \in PresenceTimeOut[Size]..PresenceTimeOut[Size + 1]
      BY <2>9, <3>1 DEF Timed, Drawings, Size
    <3>3. PresenceTimeOut[Size] \in Nat /\ PresenceTimeOut[Size + 1] \in Nat /\ p.age \in Nat
      BY <2>9, <3>1, Constants DEF Presence
    <3> HIDE DEF p
    <3> QED
      BY <3>2, <3>3
  <2>12. Node(s) = subs[i]
    BY <2>1, <2>7, <2>8, LookupIs DEF Node
  <2> QED
    BY <2>7, <2>10, <2>11, <2>12 DEF Size
<1> QED
  BY <1>1, Invariance, PTL DEF Spec, TimeoutEarned

=============================================================================
