---------------------- MODULE CABlockwiseTransferProofs ----------------------
(***************************************************************************)
(* Theorems about CABlockwiseTransfer, for payloads of any number of       *)
(* blocks and any number of messages repeated, reordered and lost.         *)
(***************************************************************************)
EXTENDS CABlockwiseTransfer, SequenceTheorems, TLAPS

(* The inductive invariant.                                                *)

Blocks == [num : Nat, m : BOOLEAN]
Options == {<<>>} \cup {<<b>> : b \in Blocks}
Items == [code : Codes, size : Nat]
Entries == [type : {0, 1, 2}, block1 : Blocks, block2 : Blocks, sent : Items,
            got : Seq(Nat), total : Nat]
Pdus == [code : Codes, b1 : Options, b2 : Options, data : Seq(Nat), size : Nat]
Ups == [code : Codes, data : Seq(Nat)]

(* What s puts into its send queue.  Only the client sends the request,    *)
(* and only the server has a payload to answer with.                       *)
ItemFrom(s, d) ==
  /\ d.code = "request" => s = "client" /\ d.size = Upload
  /\ d.code = "get" => d.size = 0
  /\ s = "client" => d.code \in {"request", "get", "empty", "incomplete"}
  /\ s = "client" /\ d.code # "request" => d.size = 0
  /\ s = "server" => d.size \in {0, Download}
  /\ d.code = "content" => d.size = Download

(* What is on its way to s: a block holds the part of the payload that its *)
(* option names, and the last is marked.                                   *)
BlockOfRequest(p) ==
  /\ p.code = "request" /\ p.b2 = <<>> /\ p.data = <<p.b1[1].num>>
  /\ p.b1[1].num < Upload /\ (p.b1[1].m <=> p.b1[1].num + 1 < Upload)
BlockOfResponse(p) ==
  /\ p.data = <<p.b2[1].num>>
  /\ p.b2[1].num < Download /\ (p.b2[1].m <=> p.b2[1].num + 1 < Download)
PduTo(s, p) ==
  /\ IsRequest(p.code) /\ p.b1 # <<>> => BlockOfRequest(p)
  /\ p.code = "request" => s = "server"
  /\ p.code = "request" /\ p.b1 = <<>> /\ p.b2 = <<>> => p.data = Whole(Upload)
  /\ ~IsRequest(p.code) /\ p.b2 # <<>> => s = "client" /\ BlockOfResponse(p)
  /\ p.code = "content" /\ p.b2 = <<>> => Download = 1 /\ p.data = Whole(Download)
  /\ p.code = "incomplete" => p.b1 = <<>> /\ p.b2 = <<>> /\ p.data = <<>>
  /\ s = "server" => p.code \in {"request", "get", "empty", "incomplete"}

(* The entries.  The server counts the blocks it has, and its Block1       *)
(* option names the last of them or was reset; the client, as long as it   *)
(* waits for the response to its request, has the blocks before the one it *)
(* asks for.                                                               *)
Collecting(e) ==
  /\ e.got = Whole(Len(e.got)) /\ Len(e.got) <= Upload
  /\ e.block1.num = 0 \/ e.block1.num < Len(e.got)
Asking(e) ==
  /\ e.got = Whole(e.block2.num) /\ (e.block2.m => e.block2.num = 0)
  /\ e.block2.num < Download
EntryAt(s, e) ==
  /\ ItemFrom(s, e.sent)
  /\ s = "server" => Collecting(e)
  /\ s = "client" /\ e.sent.code = "request" => Asking(e)

ItemsOf(s) == {d \in Items : ItemFrom(s, d)}
PdusTo(s) == {p \in Pdus : PduTo(s, p)}
EntriesOf(s) == {e \in Entries : EntryAt(s, e)}
NoneOrOne(S) == {<<>>} \cup {<<e>> : e \in S}

(* The entry for the client's own request.                                 *)
Asks(E) == E # <<>> /\ E[1].sent.code = "request"

(* The end that has no entry makes up a GET.  There is none as long as the *)
(* client has the entry for its request.                                   *)
Gets(E) == E # <<>> /\ E[1].sent.code = "get"
NoGet ==
  \A s \in Sides : /\ ~Gets(entry[s])
                   /\ \A i \in DOMAIN queue[s] : queue[s][i].code # "get"
                   /\ \A p \in BagToSet(net[s]) : p.code # "get"

Silent ==
  /\ \A s \in Sides : entry[s] = <<>> /\ queue[s] = <<>> /\ BagToSet(net[s]) = {}
  /\ pending = 0

Types ==
  /\ DOMAIN entry = Sides /\ DOMAIN queue = Sides /\ DOMAIN net = Sides
  /\ \A s \in Sides : /\ entry[s] \in NoneOrOne(EntriesOf(s))
                      /\ queue[s] \in Seq(ItemsOf(s))
                      /\ BagToSet(net[s]) \subseteq PdusTo(s)

BlockwiseInv ==
  /\ Types
  /\ Asks(entry["client"]) => NoGet
  /\ ~started => Silent
  /\ Upload # 2 => UploadWhole
  /\ dups \in 0..MaxDups /\ echoes \in 0..MaxEchoes

-----------------------------------------------------------------------------
(* Payloads.                                                               *)

LEMMA WholeFacts ==
  ASSUME NEW n \in Nat
  PROVE  /\ Whole(n) \in Seq(Nat) /\ Len(Whole(n)) = n
         /\ Whole(n) \o <<n>> = Whole(n + 1)
         /\ Whole(0) = <<>> /\ (Whole(n) = <<>> <=> n = 0)
<1> DEFINE w == Whole(n)
           x == w \o <<n>>
<1>1. \A i \in 1..n : i - 1 \in Nat
  OBVIOUS
<1>2. w \in Seq(Nat) /\ Len(w) = n /\ \A i \in 1..n : w[i] = i - 1
  BY <1>1, IsASeq, LenProperties DEF Whole
<1> HIDE DEF w
<1>3. <<n>> \in Seq(Nat) /\ Len(<<n>>) = 1 /\ <<n>>[1] = n
  OBVIOUS
<1>4. /\ x \in Seq(Nat) /\ Len(x) = n + 1
      /\ \A i \in 1..(n + 1) : x[i] = IF i <= n THEN w[i] ELSE <<n>>[i - n]
  BY <1>2, <1>3, ConcatProperties
<1> HIDE DEF x
<1>5. ASSUME NEW i \in 1..(n + 1) PROVE x[i] = i - 1
  <2>1. CASE i <= n
    BY <1>2, <1>4, <2>1
  <2>2. CASE ~(i <= n)
    <3>1. i = n + 1 /\ i - n = 1
      BY <2>2
    <3> QED
      BY <1>3, <1>4, <2>2, <3>1
  <2> QED
    BY <2>1, <2>2
<1>6. x = Whole(n + 1)
  <2>1. x = [i \in 1..(n + 1) |-> x[i]]
    BY <1>4, LenProperties
  <2> QED
    BY <1>5, <2>1 DEF Whole
<1>7. Whole(0) = <<>>
  BY DEF Whole
<1> QED
  BY <1>2, <1>6, <1>7, EmptySeq DEF w, x

LEMMA Constants ==
  /\ Upload \in Nat /\ Upload > 0 /\ Download \in Nat /\ Download > 0
  /\ MaxDups \in Nat /\ MaxEchoes \in Nat
  BY BlockwiseAssumption

LEMMA NoneYet == Len(<<>>) = 0 /\ Whole(0) = <<>> /\ 0 <= Upload /\ 0 < Download
<1>1. Whole(0) = <<>>
  BY DEF Whole
<1>2. 0 <= Upload /\ 0 < Download
  BY Constants
<1> QED
  BY <1>1, <1>2, EmptySeq

LEMMA ConcatEmpty ==
  ASSUME NEW S, NEW q \in Seq(S)
  PROVE  q \o <<>> = q /\ <<>> \o q = q
  BY ConcatEmptySeq

LEMMA Single ==
  ASSUME NEW S, NEW x \in S
  PROVE  <<x>> \in Seq(S) /\ <<>> \in Seq(S)
  BY EmptySeq

(* None or one.                                                            *)
LEMMA OneFacts ==
  ASSUME NEW S, NEW E \in NoneOrOne(S), E # <<>>
  PROVE  E[1] \in S /\ E = <<E[1]>>
<1>1. PICK e \in S : E = <<e>>
  BY DEF NoneOrOne
<1> QED
  BY <1>1

LEMMA OneIs ==
  ASSUME NEW S, NEW e \in S
  PROVE  <<e>> \in NoneOrOne(S) /\ <<e>>[1] = e /\ <<e>> # <<>> /\ <<>> \in NoneOrOne(S)
  BY DEF NoneOrOne

-----------------------------------------------------------------------------
(* The fields of an entry.  f is e with some of them changed.              *)

LEMMA Fields ==
  ASSUME NEW e \in Entries
  PROVE  /\ e.type \in {0, 1, 2} /\ e.block1 \in Blocks /\ e.block2 \in Blocks
         /\ e.sent \in Items /\ e.got \in Seq(Nat) /\ e.total \in Nat
         /\ e.block1.num \in Nat /\ e.block2.num \in Nat
         /\ e.block1.m \in BOOLEAN /\ e.block2.m \in BOOLEAN
         /\ e.sent.code \in Codes /\ e.sent.size \in Nat /\ Len(e.got) \in Nat
  BY LenProperties DEF Entries, Blocks, Items

LEMMA BlockIs ==
  ASSUME NEW n \in Nat, NEW m \in BOOLEAN
  PROVE  Block(n, m) \in Blocks /\ Block(n, m).num = n /\ Block(n, m).m = m
  BY DEF Block, Blocks

LEMMA SetType ==
  ASSUME NEW e \in Entries, NEW t \in {0, 1, 2}, NEW f, f = [e EXCEPT !.type = t]
  PROVE  /\ f \in Entries /\ f.type = t /\ f.block1 = e.block1 /\ f.block2 = e.block2
         /\ f.sent = e.sent /\ f.got = e.got
  BY DEF Entries

LEMMA SetBlock1 ==
  ASSUME NEW e \in Entries, NEW b \in Blocks, NEW f, f = [e EXCEPT !.block1 = b]
  PROVE  /\ f \in Entries /\ f.block1 = b /\ f.block2 = e.block2
         /\ f.sent = e.sent /\ f.got = e.got
  BY DEF Entries

LEMMA SetBlock2 ==
  ASSUME NEW e \in Entries, NEW b \in Blocks, NEW f, f = [e EXCEPT !.block2 = b]
  PROVE  /\ f \in Entries /\ f.block1 = e.block1 /\ f.block2 = b
         /\ f.sent = e.sent /\ f.got = e.got
  BY DEF Entries

LEMMA SetNum1 ==
  ASSUME NEW e \in Entries, NEW n \in Nat, NEW f, f = [e EXCEPT !.block1.num = n]
  PROVE  /\ f \in Entries /\ f.block1.num = n /\ f.block1.m = e.block1.m
         /\ f.block2 = e.block2 /\ f.sent = e.sent /\ f.got = e.got
<1>1. [e.block1 EXCEPT !.num = n] \in Blocks
  BY DEF Entries, Blocks
<1>2. f = [e EXCEPT !.block1 = [e.block1 EXCEPT !.num = n]]
  OBVIOUS
<1> QED
  BY <1>1, <1>2, SetBlock1 DEF Blocks, Entries

LEMMA SetGot ==
  ASSUME NEW e \in Entries, NEW g \in Seq(Nat), NEW f, f = [e EXCEPT !.got = g]
  PROVE  /\ f \in Entries /\ f.block1 = e.block1 /\ f.block2 = e.block2
         /\ f.sent = e.sent /\ f.got = g
  BY DEF Entries

LEMMA SetTotal ==
  ASSUME NEW e \in Entries, NEW n \in Nat, NEW f, f = [e EXCEPT !.total = n]
  PROVE  /\ f \in Entries /\ f.block1 = e.block1 /\ f.block2 = e.block2
         /\ f.sent = e.sent /\ f.got = e.got
  BY DEF Entries

LEMMA SetSent ==
  ASSUME NEW e \in Entries, NEW d \in Items, NEW f, f = [e EXCEPT !.sent = d]
  PROVE  /\ f \in Entries /\ f.block1 = e.block1 /\ f.block2 = e.block2
         /\ f.sent = d /\ f.got = e.got
  BY DEF Entries

LEMMA DataIs ==
  ASSUME NEW c \in Codes, NEW n \in Nat
  PROVE  Data(c, n) \in Items /\ Data(c, n).code = c /\ Data(c, n).size = n
  BY DEF Data, Items

LEMMA NewEntryIs ==
  ASSUME NEW d \in Items
  PROVE  /\ NewEntry(d) \in Entries /\ NewEntry(d).sent = d /\ NewEntry(d).got = <<>>
         /\ NewEntry(d).block1.num = 0 /\ NewEntry(d).block2.num = 0
         /\ NewEntry(d).block2.m = FALSE
<1>1. <<>> \in Seq(Nat) /\ Block(0, FALSE) \in Blocks
  BY EmptySeq DEF Block, Blocks
<1> QED
  BY <1>1 DEF NewEntry, Entries, Block

LEMMA PduIs ==
  ASSUME NEW c \in Codes, NEW b1 \in Options, NEW b2 \in Options,
         NEW x \in Seq(Nat), NEW n \in Nat, NEW p, p = Pdu(c, b1, b2, x, n)
  PROVE  /\ p \in Pdus /\ p.code = c /\ p.b1 = b1 /\ p.b2 = b2 /\ p.data = x
  BY DEF Pdu, Pdus

LEMMA SentIs ==
  ASSUME NEW x, NEW y PROVE Sent(x, y).pdus = x /\ Sent(x, y).entry = y
  BY DEF Sent

-----------------------------------------------------------------------------
(* The send thread.                                                        *)

(* What CAAddBlockOption does with item d and entry E at s.                *)
SentBy(s, d, E, r) ==
  /\ r.entry \in NoneOrOne(EntriesOf(s))
  /\ r.entry # <<>> => E # <<>> /\ r.entry[1].sent = E[1].sent
  /\ \/ r.pdus = <<>>
     \/ \E p \in PdusTo(Other(s)) : p.code = d.code /\ r.pdus = <<p>>

(* f is e, but for the type, the total, and options that say the same.     *)
Similar(e, f) ==
  /\ f \in Entries /\ f.sent = e.sent /\ f.got = e.got
  /\ f.block1.num = 0 \/ f.block1.num = e.block1.num
  /\ f.block2.num = e.block2.num /\ (f.block2.m => f.block2.num = 0 \/ e.block2.m)

LEMMA Similarly ==
  ASSUME NEW s \in Sides, NEW e \in EntriesOf(s), NEW f, Similar(e, f)
  PROVE  f \in EntriesOf(s)
<1>1. e \in Entries /\ EntryAt(s, e)
  BY DEF EntriesOf
<1>2. e.got = Whole(e.block2.num) => f.got = Whole(f.block2.num)
  BY DEF Similar
<1>3. Collecting(e) => Collecting(f)
  BY DEF Similar, Collecting
<1>4. Asking(e) => Asking(f)
  BY <1>2 DEF Similar, Asking
<1> QED
  BY <1>1, <1>3, <1>4 DEF Similar, EntryAt, EntriesOf

LEMMA Sides2 ==
  ASSUME NEW s \in Sides
  PROVE  /\ Other(s) \in Sides
         /\ s = "client" => Other(s) = "server"
         /\ s = "server" => Other(s) = "client"
         /\ s = "client" \/ s = "server"
  BY DEF Sides, Other

LEMMA NoBlock ==
  /\ <<>> \in Options /\ \A b \in Blocks : <<b>> \in Options /\ <<b>>[1] = b /\ <<b>> # <<>>
  BY DEF Options

LEMMA PlainPdu ==
  ASSUME NEW s \in Sides, NEW d \in ItemsOf(s), d.size <= 1, d.code # "incomplete",
         NEW p, p = Pdu(d.code, <<>>, <<>>, Whole(d.size), 0)
  PROVE  p \in PdusTo(Other(s)) /\ p.code = d.code
<1>1. d.code \in Codes /\ d.size \in Nat /\ ItemFrom(s, d)
  BY DEF ItemsOf, Items
<1>2. Whole(d.size) \in Seq(Nat) /\ 0 \in Nat
  BY <1>1, WholeFacts
<1>3. p \in Pdus /\ p.code = d.code /\ p.b1 = <<>> /\ p.b2 = <<>> /\ p.data = Whole(d.size)
  BY <1>1, <1>2, PduIs, NoBlock
<1>4. PduTo(Other(s), p)
  <2>1. p.code = "content" => Download = 1 /\ p.data = Whole(Download)
    BY <1>1, <1>3, Constants DEF ItemFrom
  <2> QED
    BY <1>1, <1>3, <2>1, Sides2 DEF PduTo, ItemFrom
<1> QED
  BY <1>3, <1>4 DEF PdusTo

LEMMA IncompletePdu ==
  ASSUME NEW s \in Sides, NEW p, p = Pdu("incomplete", <<>>, <<>>, <<>>, 0)
  PROVE  p \in PdusTo(s) /\ p.code = "incomplete"
<1>1. "incomplete" \in Codes /\ <<>> \in Seq(Nat) /\ 0 \in Nat
  BY EmptySeq DEF Codes
<1>2. /\ p \in Pdus /\ p.code = "incomplete" /\ p.b1 = <<>> /\ p.b2 = <<>>
      /\ p.data = <<>>
  BY <1>1, NoBlock DEF Pdu, Pdus
<1>3. PduTo(s, p)
  BY <1>2 DEF PduTo, IsRequest
<1> QED
  BY <1>2, <1>3 DEF PdusTo

LEMMA EmptyPdu ==
  ASSUME NEW p, p = Pdu("empty", <<>>, <<>>, <<>>, 0)
  PROVE  p \in PdusTo("client") /\ p.code = "empty"
<1>1. "empty" \in Codes /\ <<>> \in Seq(Nat) /\ 0 \in Nat
  BY EmptySeq DEF Codes
<1>2. p \in Pdus /\ p.code = "empty" /\ p.b1 = <<>> /\ p.b2 = <<>> /\ p.data = <<>>
  BY <1>1, NoBlock DEF Pdu, Pdus
<1>3. PduTo("client", p)
  BY <1>2 DEF PduTo, IsRequest
<1> QED
  BY <1>2, <1>3 DEF PdusTo

LEMMA MarkedIs ==
  ASSUME NEW n \in Nat, NEW k \in Nat
  PROVE  \E b \in Blocks : b = Block(n, n + 1 < k) /\ b.num = n /\ (b.m <=> b.num + 1 < k)
<1>1. (n + 1 < k) \in BOOLEAN
  OBVIOUS
<1>2. PICK m \in BOOLEAN : m = (n + 1 < k)
  BY <1>1, Zenon
<1>3. Block(n, m) \in Blocks /\ Block(n, m).num = n /\ Block(n, m).m = m
  BY BlockIs
<1> QED
  BY <1>2, <1>3, Zenon

(* A block of a response.                                                  *)
LEMMA SendBlock2 ==
  ASSUME NEW s \in Sides, NEW d \in ItemsOf(s), NEW e \in EntriesOf(s),
         ~IsRequest(d.code), d.code # "incomplete",
         NEW r, r = Block2Response(d, e)
  PROVE  SentBy(s, d, <<e>>, r)
<1>1. d \in Items /\ d.code \in Codes /\ d.size \in Nat /\ ItemFrom(s, d) /\ e \in Entries
  BY DEF ItemsOf, Items, EntriesOf
<1>2. e.block1 \in Blocks /\ e.block2.num \in Nat /\ e.block2.m \in BOOLEAN
  BY <1>1, Fields
<1>4. PICK b2 \in Blocks : /\ b2 = Block(e.block2.num, e.block2.num + 1 < d.size)
                           /\ b2.num = e.block2.num /\ (b2.m <=> b2.num + 1 < d.size)
  BY <1>1, <1>2, MarkedIs
<1>5. PICK b1 \in Options : b1 = IF e.block1.num = 0 THEN <<>> ELSE <<e.block1>>
  BY <1>2, NoBlock
<1>6. PICK g : g = [e EXCEPT !.block2 = b2]
  OBVIOUS
<1>7. PICK f : f = [g EXCEPT !.block1.num = 0]
  OBVIOUS
<1>8. f = [e EXCEPT !.block2 = b2, !.block1.num = 0]
  BY <1>6, <1>7
<1>9. g \in Entries /\ g.block2 = b2 /\ g.sent = e.sent /\ g.got = e.got
  BY <1>1, <1>6, SetBlock2
<1>10. /\ f \in Entries /\ f.block2 = b2 /\ f.sent = e.sent /\ f.got = e.got
       /\ f.block1.num = 0
  BY <1>7, <1>9, SetNum1
<1>11. s = "client" => d.size = 0
  BY <1>1 DEF ItemFrom, IsRequest
<1>12. b2.num \in Nat
  BY <1>2, <1>4
<1>13. f \in EntriesOf(s)
  <2>1. CASE s = "client"
    <3>1. ~f.block2.m
      BY <1>4, <1>10, <1>11, <1>12, <2>1
    <3>2. Similar(e, f)
      BY <1>4, <1>10, <3>1 DEF Similar
    <3> QED
      BY <3>2, Similarly
  <2>2. CASE s = "server"
    <3>1. Collecting(e) /\ ItemFrom(s, e.sent)
      BY <2>2 DEF EntriesOf, EntryAt
    <3>2. Collecting(f)
      BY <1>10, <3>1 DEF Collecting
    <3> QED
      BY <1>10, <2>2, <3>1, <3>2 DEF EntriesOf, EntryAt
  <2> QED
    BY <2>1, <2>2, Sides2
<1>14. r = IF b2.num >= d.size THEN Sent(<<>>, <<f>>)
           ELSE Sent(<<Pdu(d.code, b1, <<b2>>, <<b2.num>>, SizeOption(b2.num, d.size))>>,
                     IF b2.m THEN <<f>> ELSE <<>>)
  BY <1>4, <1>5, <1>8 DEF Block2Response
<1>15. <<f>> \in NoneOrOne(EntriesOf(s)) /\ <<>> \in NoneOrOne(EntriesOf(s))
  BY <1>13, OneIs
<1>16. <<f>>[1].sent = <<e>>[1].sent /\ <<e>> # <<>>
  BY <1>10
<1>17. CASE b2.num >= d.size
  <2>1. r.pdus = <<>> /\ r.entry = <<f>>
    BY <1>14, <1>17, SentIs
  <2> QED
    BY <1>15, <1>16, <2>1 DEF SentBy
<1>18. CASE ~(b2.num >= d.size)
  <2>1. s = "server" /\ Other(s) = "client"
    BY <1>1, <1>11, <1>12, <1>18, Sides2
  <2>2. PICK p : p = Pdu(d.code, b1, <<b2>>, <<b2.num>>, SizeOption(b2.num, d.size))
    OBVIOUS
  <2>3. r.pdus = <<p>> /\ (r.entry = <<f>> \/ r.entry = <<>>)
    BY <1>14, <1>18, <2>2, SentIs
  <2>4. <<b2.num>> \in Seq(Nat) /\ SizeOption(b2.num, d.size) \in Nat
    BY <1>1, <1>12 DEF SizeOption
  <2>5. p \in Pdus /\ p.code = d.code /\ p.b2 = <<b2>> /\ p.data = <<b2.num>>
    BY <1>1, <2>2, <2>4, NoBlock DEF Pdu, Pdus
  <2>6. p.b2[1] = b2
    BY <2>5
  <2>7. PduTo("client", p)
    <3>1. d.size = Download
      BY <1>1, <1>12, <1>18, <2>1 DEF ItemFrom
    <3>2. BlockOfResponse(p)
      BY <1>1, <1>4, <1>12, <1>18, <2>5, <2>6, <3>1 DEF BlockOfResponse
    <3> QED
      BY <1>1, <2>5, <2>6, <3>2 DEF PduTo, IsRequest
  <2> QED
    BY <1>15, <1>16, <2>1, <2>3, <2>5, <2>7 DEF SentBy, PdusTo
<1> QED
  BY <1>17, <1>18

(* A block of the request, or the answer to one.                           *)
LEMMA SendBlock1 ==
  ASSUME NEW s \in Sides, NEW d \in ItemsOf(s), NEW e \in EntriesOf(s),
         d.code # "incomplete", NEW r, r = CAAddBlockOption1(d, e)
  PROVE  SentBy(s, d, <<e>>, r)
<1>1. d \in Items /\ d.code \in Codes /\ d.size \in Nat /\ ItemFrom(s, d) /\ e \in Entries
  BY DEF ItemsOf, Items, EntriesOf
<1>2. e.block1 \in Blocks /\ e.block1.num \in Nat /\ e.block2.num \in Nat
  BY <1>1, Fields
<1>3. <<e>> \in NoneOrOne(EntriesOf(s)) /\ <<>> \in NoneOrOne(EntriesOf(s))
  BY OneIs
<1>4. CASE IsRequest(d.code)
  <2>1. PICK b \in Blocks : /\ b = Block(e.block1.num, e.block1.num + 1 < d.size)
                            /\ b.num = e.block1.num /\ (b.m <=> b.num + 1 < d.size)
    BY <1>1, <1>2, MarkedIs
  <2>2. PICK f : f = [e EXCEPT !.block1 = b]
    OBVIOUS
  <2>3. /\ f \in Entries /\ f.block1 = b /\ f.block2 = e.block2 /\ f.sent = e.sent
        /\ f.got = e.got
    BY <1>1, <2>2, SetBlock1
  <2>4. f \in EntriesOf(s)
    BY <2>1, <2>3, Similarly DEF Similar
  <2>5. <<f>> \in NoneOrOne(EntriesOf(s)) /\ <<f>>[1].sent = <<e>>[1].sent /\ <<e>> # <<>>
    BY <2>3, <2>4, OneIs
  <2>6. PICK p : p = Pdu(d.code, <<b>>, <<>>, <<b.num>>, SizeOption(b.num, d.size))
    OBVIOUS
  <2>7. r = Sent(IF b.num >= d.size THEN <<>> ELSE <<p>>, <<f>>)
    BY <1>4, <2>1, <2>2, <2>6 DEF CAAddBlockOption1
  <2>8. r.entry = <<f>> /\ r.pdus = IF b.num >= d.size THEN <<>> ELSE <<p>>
    BY <2>7, SentIs
  <2>9. CASE b.num >= d.size
    BY <2>5, <2>8, <2>9 DEF SentBy
  <2>10. CASE ~(b.num >= d.size)
    <3>1. d.code = "request" /\ s = "client" /\ d.size = Upload
      BY <1>1, <1>2, <1>4, <2>1, <2>10 DEF ItemFrom, IsRequest
    <3>2. b.num \in Nat /\ <<b.num>> \in Seq(Nat) /\ SizeOption(b.num, d.size) \in Nat
      BY <1>1, <1>2, <2>1 DEF SizeOption
    <3>3. /\ p \in Pdus /\ p.code = d.code /\ p.b1 = <<b>> /\ p.b2 = <<>>
          /\ p.data = <<b.num>>
      BY <1>1, <2>6, <3>2, NoBlock DEF Pdu, Pdus
    <3>4. p.b1[1] = b /\ p.b1 # <<>>
      BY <3>3
    <3>5. BlockOfRequest(p)
      BY <1>1, <2>1, <2>10, <3>1, <3>2, <3>3, <3>4 DEF BlockOfRequest
    <3>6. PduTo("server", p)
      BY <3>1, <3>3, <3>4, <3>5 DEF PduTo, IsRequest
    <3> QED
      BY <2>5, <2>8, <2>10, <3>1, <3>3, <3>6, Sides2 DEF SentBy, PdusTo
  <2> QED
    BY <2>9, <2>10
<1>5. CASE ~IsRequest(d.code) /\ d.size > 1
  <2>1. r = Sent(<<>>, <<e>>)
    BY <1>5 DEF CAAddBlockOption1
  <2>2. r.pdus = <<>> /\ r.entry = <<e>>
    BY <2>1, SentIs
  <2> QED
    BY <1>3, <2>2 DEF SentBy
<1>6. CASE ~IsRequest(d.code) /\ ~(d.size > 1)
  <2>1. PICK p : p = Pdu(d.code, <<e.block1>>, <<>>, Whole(d.size), 0)
    OBVIOUS
  <2>2. r = Sent(<<p>>, IF e.block1.m THEN <<e>> ELSE <<>>)
    BY <1>6, <2>1 DEF CAAddBlockOption1
  <2>3. r.pdus = <<p>> /\ (r.entry = <<e>> \/ r.entry = <<>>)
    BY <2>2, SentIs
  <2>4. Whole(d.size) \in Seq(Nat)
    BY <1>1, WholeFacts
  <2>5. p \in Pdus /\ p.code = d.code /\ p.b2 = <<>> /\ p.data = Whole(d.size)
    BY <1>1, <1>2, <2>1, <2>4, NoBlock DEF Pdu, Pdus
  <2>7. p.code = "content" => Download = 1 /\ p.data = Whole(Download)
    BY <1>1, <1>6, <2>5, Constants DEF ItemFrom
  <2>6. PduTo(Other(s), p)
    BY <1>1, <1>6, <2>5, <2>7, Sides2 DEF PduTo, IsRequest, ItemFrom
  <2> QED
    BY <1>3, <2>3, <2>5, <2>6 DEF SentBy, PdusTo
<1> QED
  BY <1>4, <1>5, <1>6

LEMMA SendFacts ==
  ASSUME NEW s \in Sides, NEW d \in ItemsOf(s), NEW E \in NoneOrOne(EntriesOf(s)),
         NEW r, r = CAAddBlockOption(d, E)
  PROVE  SentBy(s, d, E, r)
<1>1. d \in Items /\ d.code \in Codes /\ d.size \in Nat /\ ItemFrom(s, d)
  BY DEF ItemsOf, Items
<1>2. PICK type : type = IF E = <<>> THEN 0 ELSE E[1].type
  OBVIOUS
<1>3. CASE d.code = "incomplete"
  <2>1. r = Sent(<<Pdu("incomplete", <<>>, <<>>, <<>>, 0)>>, E)
    BY <1>3 DEF CAAddBlockOption
  <2>2. r.pdus = <<Pdu("incomplete", <<>>, <<>>, <<>>, 0)>> /\ r.entry = E
    BY <2>1, SentIs
  <2> QED
    BY <1>3, <2>2, IncompletePdu, Sides2 DEF SentBy
<1>4. CASE d.code # "incomplete" /\ type \in {1, 2}
  <2>1. E # <<>>
    BY <1>2, <1>4
  <2>2. PICK e \in EntriesOf(s) : E = <<e>> /\ E[1] = e
    BY <2>1, OneFacts
  <2>3. CASE type = 1
    <3>1. r = CAAddBlockOption1(d, e)
      BY <1>2, <1>4, <2>2, <2>3 DEF CAAddBlockOption
    <3> QED
      BY <1>4, <2>2, <3>1, SendBlock1
  <2>4. CASE type = 2 /\ ~IsRequest(d.code)
    <3>1. r = Block2Response(d, e)
      BY <1>2, <1>4, <2>2, <2>4 DEF CAAddBlockOption, CAAddBlockOption2
    <3> QED
      BY <1>4, <2>2, <2>4, <3>1, SendBlock2
  <2>5. CASE type = 2 /\ IsRequest(d.code)
    <3>1. PICK p : p = Pdu(d.code, <<>>, <<e.block2>>, <<>>, 0)
      OBVIOUS
    <3>2. r = Sent(<<p>>, <<e>>)
      BY <1>2, <1>4, <2>2, <2>5, <3>1 DEF CAAddBlockOption, CAAddBlockOption2
    <3>3. r.pdus = <<p>> /\ r.entry = <<e>>
      BY <3>2, SentIs
    <3>4. e.block2 \in Blocks /\ <<>> \in Seq(Nat)
      BY EmptySeq, Fields DEF EntriesOf
    <3>5. p \in Pdus /\ p.code = d.code /\ p.b1 = <<>> /\ p.b2 = <<e.block2>>
      BY <1>1, <3>1, <3>4, NoBlock DEF Pdu, Pdus
    <3>6. p.b2 # <<>>
      BY <3>5
    <3>7. PduTo(Other(s), p)
      BY <1>1, <2>5, <3>5, <3>6, Sides2 DEF PduTo, IsRequest, ItemFrom
    <3> QED
      BY <2>2, <3>3, <3>5, <3>7 DEF SentBy, PdusTo
  <2> QED
    BY <1>4, <2>3, <2>4, <2>5
<1>5. CASE d.code # "incomplete" /\ type \notin {1, 2}
  <2>1. PICK p : p = Pdu(d.code, <<>>, <<>>, Whole(d.size), 0)
    OBVIOUS
  <2>2. r = Sent(IF d.size > 1 THEN <<>> ELSE <<p>>, E)
    BY <1>2, <1>5, <2>1 DEF CAAddBlockOption
  <2>3. r.entry = E /\ r.pdus = IF d.size > 1 THEN <<>> ELSE <<p>>
    BY <2>2, SentIs
  <2>4. CASE d.size > 1
    BY <2>3, <2>4 DEF SentBy
  <2>5. CASE ~(d.size > 1)
    <3>1. d.size <= 1
      BY <1>1, <2>5
    <3>2. p \in PdusTo(Other(s)) /\ p.code = d.code
      BY <1>5, <2>1, <3>1, PlainPdu
    <3> QED
      BY <2>3, <2>5, <3>2 DEF SentBy
  <2> QED
    BY <2>4, <2>5
<1> QED
  BY <1>3, <1>4, <1>5

-----------------------------------------------------------------------------
(* Reception.                                                              *)

(* What a step of the reception at s does with the entry e.                *)
GoodUp(u) == u.code = "request" /\ Upload # 2 => u.data = Whole(Upload)
GoodAnswer(u) == u.code = "content" => u.data = Whole(Download)
UpOK(s, asks, up) ==
  /\ up = <<>> \/ \E u : up = <<u>>
  /\ s = "server" => \A u \in ToSet(up) : GoodUp(u)
  /\ s = "client" /\ asks => \A u \in ToSet(up) : GoodAnswer(u)
Steps(s, e, r) ==
  /\ r.entry \in NoneOrOne(EntriesOf(s)) /\ r.items \in Seq(ItemsOf(s))
  /\ UpOK(s, e.sent.code = "request", r.up)
  /\ Asks(r.entry) => e.sent.code = "request"
NoNewGet(r) == ~Gets(r.entry) /\ \A i \in DOMAIN r.items : r.items[i].code # "get"

LEMMA DoneIs ==
  ASSUME NEW x, NEW y, NEW z
  PROVE  /\ Done(x, y, z).entry = x /\ Done(x, y, z).items = y /\ Done(x, y, z).up = z
         /\ Done(x, y, z).ok
  BY DEF Done

LEMMA FailIs ==
  ASSUME NEW x
  PROVE  Fail(x).entry = x /\ Fail(x).items = <<>> /\ Fail(x).up = <<>> /\ Fail(x).ok = FALSE
  BY DEF Fail

LEMMA Nobody ==
  /\ ToSet(<<>>) = {} /\ \A x : ToSet(<<x>>) = {x}
  /\ \A P : \A i \in DOMAIN <<>> : P
  BY DEF ToSet

LEMMA NoUp ==
  ASSUME NEW s, NEW x PROVE UpOK(s, x, <<>>)
  BY Nobody DEF UpOK

LEMMA OneUp ==
  ASSUME NEW s, NEW x, NEW u, s = "server" => GoodUp(u), s = "client" /\ x => GoodAnswer(u)
  PROVE  UpOK(s, x, <<u>>)
<1>1. ToSet(<<u>>) = {u}
  BY Nobody
<1> QED
  BY <1>1 DEF UpOK

(* An entry that may be new.                                               *)
LEMMA CreatedIs ==
  ASSUME NEW s \in Sides, NEW p, NEW e, e = Created(p)
  PROVE  /\ e \in EntriesOf(s) /\ e.sent.code # "request"
         /\ e.sent.code = "get" => ~IsRequest(p.code)
<1>1. PICK c : c = IF IsRequest(p.code) THEN "empty" ELSE "get"
  OBVIOUS
<1>2. c \in Codes /\ c # "request" /\ (c = "get" => ~IsRequest(p.code)) /\ c \in {"empty", "get"}
  BY <1>1 DEF Codes
<1>3. PICK d : d = Data(c, 0)
  OBVIOUS
<1>4. d \in Items /\ d.code = c /\ d.size = 0
  BY <1>2, <1>3, DataIs
<1>5. e = NewEntry(d)
  BY <1>1, <1>3 DEF Created
<1>6. e \in Entries /\ e.sent = d /\ e.got = <<>> /\ e.block1.num = 0
  BY <1>4, <1>5, NewEntryIs
<1>7. ItemFrom(s, d)
  BY <1>2, <1>4 DEF ItemFrom
<1>8. Collecting(e)
  <2>1. Len(e.got) = 0 /\ Whole(0) = <<>> /\ 0 <= Upload
    BY <1>6, NoneYet
  <2> QED
    BY <1>6, <2>1 DEF Collecting
<1> QED
  BY <1>2, <1>4, <1>6, <1>7, <1>8 DEF EntriesOf, EntryAt

LEMMA ExistingIs ==
  ASSUME NEW s \in Sides, NEW p, NEW E \in NoneOrOne(EntriesOf(s)), NEW t \in {1, 2},
         NEW e, e = Existing(p, E, t)
  PROVE  /\ e \in EntriesOf(s)
         /\ E # <<>> => /\ e.sent = E[1].sent /\ e.block1 = E[1].block1
                        /\ e.block2 = E[1].block2
         /\ e.sent.code = "request" => Asks(E)
         /\ e.sent.code = "get" => Gets(E) \/ (E = <<>> /\ ~IsRequest(p.code))
<1>1. PICK f : f = IF E = <<>> THEN Created(p) ELSE E[1]
  OBVIOUS
<1>2. f \in EntriesOf(s) /\ f \in Entries
  BY <1>1, CreatedIs, OneFacts DEF EntriesOf
<1>3. e = [f EXCEPT !.type = t]
  BY <1>1 DEF Existing
<1>4. t \in {0, 1, 2}
  OBVIOUS
<1>5. /\ e \in Entries /\ e.block1 = f.block1 /\ e.block2 = f.block2
      /\ e.sent = f.sent /\ e.got = f.got
  BY <1>2, <1>3, <1>4, SetType
<1>6. e \in EntriesOf(s)
  BY <1>2, <1>5, Similarly DEF Similar
<1>7. CASE E = <<>>
  BY <1>1, <1>5, <1>6, <1>7, CreatedIs
<1>8. CASE E # <<>>
  BY <1>1, <1>5, <1>6, <1>8 DEF Asks, Gets
<1> QED
  BY <1>7, <1>8

LEMMA WithTotalIs ==
  ASSUME NEW s \in Sides, NEW p \in Pdus, NEW e \in EntriesOf(s), NEW f, f = WithTotal(e, p)
  PROVE  f \in EntriesOf(s) /\ f.sent = e.sent /\ f.block2 = e.block2
<1>1. CASE p.size = 0
  BY <1>1 DEF WithTotal
<1>2. CASE p.size # 0
  <2>1. f = [e EXCEPT !.total = p.size] /\ e \in Entries /\ p.size \in Nat
    BY <1>2 DEF WithTotal, EntriesOf, Pdus
  <2>2. /\ f \in Entries /\ f.block1 = e.block1 /\ f.block2 = e.block2
        /\ f.sent = e.sent /\ f.got = e.got
    BY <2>1, SetTotal
  <2> QED
    BY <2>2, Similarly DEF Similar
<1> QED
  BY <1>1, <1>2

(* The stored message goes out.                                            *)
LEMMA SendBlockMessage ==
  ASSUME NEW s \in Sides, NEW p, NEW e \in EntriesOf(s), IsRequest(p.code) => s = "server",
         NEW r, r = CASendBlockMessage(p, e)
  PROVE  /\ Steps(s, e, r)
         /\ e.sent.code # "get" => NoNewGet(r)
         /\ r.ok /\ r.up = <<>> /\ (~IsRequest(p.code) => r.entry = <<e>>)
<1>1. e \in Entries /\ EntryAt(s, e) /\ e.sent \in Items /\ e.sent.code \in Codes
  BY Fields DEF EntriesOf
<1>2. PICK f : f = IF IsRequest(p.code) /\ ~IsRequest(e.sent.code)
                   THEN [e EXCEPT !.sent.code = "continue"] ELSE e
  OBVIOUS
<1>3. r = Done(<<f>>, <<f.sent>>, <<>>)
  BY <1>2 DEF CASendBlockMessage
<1>4. r.entry = <<f>> /\ r.items = <<f.sent>> /\ r.up = <<>> /\ r.ok
  BY <1>3, DoneIs
<1>5. /\ f \in EntriesOf(s) /\ f.sent \in ItemsOf(s)
      /\ f.sent.code \in {e.sent.code, "continue"}
  <2>1. CASE f = e
    BY <1>1, <2>1 DEF ItemsOf, EntryAt
  <2>2. CASE IsRequest(p.code) /\ ~IsRequest(e.sent.code)
    <3>1. s = "server"
      BY <2>2
    <3>7. PICK d : d = [e.sent EXCEPT !.code = "continue"]
      OBVIOUS
    <3>8. d \in Items /\ d.code = "continue" /\ d.size = e.sent.size
      BY <1>1, <3>7 DEF Items, Codes
    <3>9. f = [e EXCEPT !.sent = d]
      BY <1>2, <2>2, <3>7
    <3>2. /\ f \in Entries /\ f.block1 = e.block1 /\ f.block2 = e.block2
          /\ f.sent.code = "continue" /\ f.sent.size = e.sent.size /\ f.got = e.got
      BY <1>1, <3>8, <3>9, SetSent
    <3>3. f.sent \in Items
      BY <3>2, Fields
    <3>4. ItemFrom(s, f.sent)
      BY <1>1, <3>1, <3>2 DEF ItemFrom, EntryAt
    <3>5. Collecting(e) /\ Collecting(f)
      BY <1>1, <3>1, <3>2 DEF EntryAt, Collecting
    <3> QED
      BY <3>1, <3>2, <3>3, <3>4, <3>5 DEF EntriesOf, EntryAt, ItemsOf
  <2> QED
    BY <1>2, <2>1, <2>2
<1>6. <<f>> \in NoneOrOne(EntriesOf(s)) /\ <<f.sent>> \in Seq(ItemsOf(s)) /\ <<f>>[1] = f
  BY <1>5, OneIs
<1>7. Steps(s, e, r)
  BY <1>4, <1>5, <1>6, NoUp DEF Steps, Asks
<1>8. ASSUME e.sent.code # "get" PROVE NoNewGet(r)
  <2>1. f.sent.code # "get"
    BY <1>5, <1>8
  <2>2. \A i \in DOMAIN <<f.sent>> : <<f.sent>>[i].code # "get"
    BY <2>1
  <2> QED
    BY <1>4, <1>6, <2>1, <2>2 DEF NoNewGet, Gets
<1>9. ~IsRequest(p.code) => r.entry = <<e>>
  BY <1>2, <1>4
<1> QED
  BY <1>4, <1>7, <1>8, <1>9

(* Start over.                                                             *)
LEMMA Restart ==
  ASSUME NEW s \in Sides, NEW e \in Entries, ItemFrom(s, e.sent), NEW r, r = SendIncomplete(e)
  PROVE  Steps(s, e, r) /\ (e.sent.code # "get" => NoNewGet(r))
<1>1. PICK f : f = [e EXCEPT !.got = <<>>]
  OBVIOUS
<1>2. PICK g : g = [f EXCEPT !.total = 0]
  OBVIOUS
<1>3. PICK h : h = [g EXCEPT !.block1.num = 0]
  OBVIOUS
<1>4. PICK k : k = [h EXCEPT !.block2.num = 0]
  OBVIOUS
<1>5. k = [e EXCEPT !.got = <<>>, !.total = 0, !.block1.num = 0, !.block2.num = 0]
  BY <1>1, <1>2, <1>3, <1>4
<1>6. <<>> \in Seq(Nat) /\ 0 \in Nat
  BY EmptySeq
<1>7. f \in Entries /\ f.sent = e.sent /\ f.got = <<>>
  BY <1>1, <1>6, SetGot, ZenonT(60)
<1>8. g \in Entries /\ g.sent = e.sent /\ g.got = <<>>
  BY <1>2, <1>6, <1>7, SetTotal
<1>9. h \in Entries /\ h.sent = e.sent /\ h.got = <<>> /\ h.block1.num = 0
  BY <1>3, <1>6, <1>8, SetNum1
<1>19. /\ k \in Entries /\ k.sent = h.sent /\ k.got = h.got /\ k.block1 = h.block1
       /\ k.block2.num = 0
  <2>1. PICK b : b = [h.block2 EXCEPT !.num = 0]
    OBVIOUS
  <2>2. h.block2 \in Blocks
    BY <1>9, Fields
  <2>3. b \in Blocks /\ b.num = 0
    BY <2>1, <2>2 DEF Blocks
  <2>4. k = [h EXCEPT !.block2 = b]
    BY <1>4, <2>1
  <2> QED
    BY <1>9, <2>3, <2>4, SetBlock2
<1>10. k \in Entries /\ k.sent = e.sent /\ k.got = <<>> /\ k.block1.num = 0 /\ k.block2.num = 0
  BY <1>9, <1>19
<1>11. Len(<<>>) = 0 /\ Whole(0) = <<>> /\ 0 <= Upload /\ 0 < Download
  BY NoneYet
<1>12. k \in EntriesOf(s)
  BY <1>10, <1>11 DEF EntriesOf, EntryAt, Collecting, Asking
<1>13. PICK d : d = Data("incomplete", 0)
  OBVIOUS
<1>14. d \in Items /\ d.code = "incomplete" /\ d.size = 0
  BY <1>13, DataIs DEF Codes
<1>15. d \in ItemsOf(s)
  BY <1>14 DEF ItemsOf, ItemFrom
<1>16. r.entry = <<k>> /\ r.items = <<d>> /\ r.up = <<>>
  BY <1>5, <1>13, DoneIs DEF SendIncomplete
<1>17. <<k>> \in NoneOrOne(EntriesOf(s)) /\ <<d>> \in Seq(ItemsOf(s)) /\ <<k>>[1] = k
  BY <1>12, <1>15, OneIs
<1>18. \A i \in DOMAIN <<d>> : <<d>>[i].code # "get"
  BY <1>14
<1> QED
  BY <1>10, <1>16, <1>17, <1>18, NoUp DEF Steps, NoNewGet, Asks, Gets

(* Nothing is sent.                                                        *)
LEMMA Quietly ==
  ASSUME NEW s \in Sides, NEW e \in EntriesOf(s), NEW f \in EntriesOf(s), f.sent = e.sent,
         NEW r, r.items = <<>>, r.entry = <<f>> \/ r.entry = <<>>,
         UpOK(s, e.sent.code = "request", r.up)
  PROVE  Steps(s, e, r) /\ (e.sent.code # "get" => NoNewGet(r))
<1>1. <<f>> \in NoneOrOne(EntriesOf(s)) /\ <<>> \in NoneOrOne(EntriesOf(s)) /\ <<f>>[1] = f
  BY OneIs
<1>2. r.entry \in NoneOrOne(EntriesOf(s))
  BY <1>1
<1>3. <<>> \in Seq(ItemsOf(s)) /\ DOMAIN <<>> = {}
  BY EmptySeq
<1>4. r.entry # <<>> => r.entry[1].sent = e.sent
  BY <1>1
<1> QED
  BY <1>2, <1>3, <1>4 DEF Steps, NoNewGet, Asks, Gets

(* A block of the request.                                                 *)
LEMMA Request1 ==
  ASSUME NEW p \in PdusTo("server"), BlockOfRequest(p), p.b1 # <<>>,
         NEW b, b = p.b1[1], NEW e \in EntriesOf("server"),
         NEW r, r = Option1Request(p, b, e)
  PROVE  Steps("server", e, r) /\ (e.sent.code # "get" => NoNewGet(r))
<1>1. /\ e \in Entries /\ Collecting(e) /\ ItemFrom("server", e.sent) /\ "server" \in Sides
  BY DEF EntriesOf, EntryAt, Sides
<1>2. b \in Blocks
  BY DEF PdusTo, Pdus, Options
<1>3. /\ p.code = "request" /\ IsRequest(p.code) /\ p.data = <<b.num>> /\ b.num < Upload
      /\ (b.m <=> b.num + 1 < Upload)
  BY DEF BlockOfRequest, IsRequest
<1>4. /\ b.num \in Nat /\ b.m \in BOOLEAN /\ e.block1.num \in Nat
      /\ e.got \in Seq(Nat) /\ Len(e.got) \in Nat /\ Upload \in Nat
  BY <1>1, <1>2, Fields, Constants DEF Blocks
<1>5. PICK status : status = Block1Status(b, e)
  OBVIOUS
<1>6. PICK n : n = Len(e.got)
  OBVIOUS
<1>7. n \in Nat /\ e.got = Whole(n) /\ n <= Upload /\ (e.block1.num = 0 \/ e.block1.num < n)
  BY <1>1, <1>4, <1>6 DEF Collecting
<1>8. CASE status = "incomplete"
  <2>1. PICK f : f = [e EXCEPT !.block1 = b]
    OBVIOUS
  <2>2. f \in Entries /\ f.sent = e.sent
    BY <1>1, <1>2, <2>1, SetBlock1
  <2>3. r = SendIncomplete(f)
    BY <1>5, <1>8, <2>1 DEF Option1Request
  <2>4. Steps("server", f, r) /\ (f.sent.code # "get" => NoNewGet(r))
    BY <1>1, <2>2, <2>3, Restart
  <2> QED
    BY <2>2, <2>4 DEF Steps
<1>9. ASSUME status # "incomplete"
      PROVE  \E f \in EntriesOf("server") :
                /\ f.sent = e.sent
                /\ r = IF b.m THEN CASendBlockMessage(p, f)
                       ELSE Done(<<f>>, <<>>, ToApplication(p, f))
                /\ ~b.m /\ Upload # 2 => f.got = Whole(Upload)
  <2>1. CASE b.num = n
    <3>1. status = "unknown"
      BY <1>5, <1>6, <1>9, <2>1 DEF Block1Status
    <3>2. PICK f : f = [e EXCEPT !.block1 = b]
      OBVIOUS
    <3>3. PICK g : g = [f EXCEPT !.got = Whole(n + 1)]
      OBVIOUS
    <3>4. Whole(n) \o <<n>> = Whole(n + 1)
      BY <1>7, WholeFacts
    <3>5. e.got \o p.data = Whole(n + 1)
      BY <1>3, <1>7, <2>1, <3>4
    <3>6. f \in Entries /\ f.block1 = b /\ f.sent = e.sent
      BY <1>1, <1>2, <3>2, SetBlock1
    <3>7. n + 1 \in Nat
      BY <1>7
    <3>8. Whole(n + 1) \in Seq(Nat) /\ Len(Whole(n + 1)) = n + 1
      BY <3>7, WholeFacts
    <3>9. g \in Entries /\ g.block1 = b /\ g.sent = e.sent /\ g.got = Whole(n + 1)
      BY <3>3, <3>6, <3>8, SetGot
    <3>10. g = [e EXCEPT !.block1 = b, !.got = @ \o p.data]
      BY <3>2, <3>3, <3>5
    <3>11. Len(g.got) = n + 1 /\ g.block1.num < n + 1 /\ n + 1 <= Upload
      BY <1>3, <1>4, <1>7, <2>1, <3>8, <3>9
    <3>12. Collecting(g)
      BY <3>9, <3>11 DEF Collecting
    <3>13. g \in EntriesOf("server")
      BY <1>1, <3>9, <3>12 DEF EntriesOf, EntryAt
    <3>14. r = IF b.m THEN CASendBlockMessage(p, g)
               ELSE Done(<<g>>, <<>>, ToApplication(p, g))
      BY <1>4, <1>5, <3>1, <3>10 DEF Option1Request
    <3>15. ~b.m => n + 1 = Upload
      BY <1>3, <1>4, <1>7, <2>1
    <3> QED
      BY <3>9, <3>13, <3>14, <3>15
  <2>2. CASE b.num # n
    <3>1. status = "already" /\ b.num <= e.block1.num + 1
      BY <1>4, <1>5, <1>6, <1>9, <2>2 DEF Block1Status
    <3>2. r = IF b.m THEN CASendBlockMessage(p, e)
              ELSE Done(<<e>>, <<>>, ToApplication(p, e))
      BY <1>4, <1>5, <3>1 DEF Option1Request
    <3>3. ~b.m /\ Upload # 2 => n = Upload
      BY <1>3, <1>4, <1>7, <2>2, <3>1
    <3> QED
      BY <1>7, <3>2, <3>3
  <2> QED
    BY <2>1, <2>2
<1>10. CASE status # "incomplete"
  <2>1. PICK f \in EntriesOf("server") :
                /\ f.sent = e.sent
                /\ r = IF b.m THEN CASendBlockMessage(p, f)
                       ELSE Done(<<f>>, <<>>, ToApplication(p, f))
                /\ ~b.m /\ Upload # 2 => f.got = Whole(Upload)
    BY <1>9, <1>10
  <2>2. CASE b.m
    <3>1. r = CASendBlockMessage(p, f)
      BY <2>1, <2>2
    <3>2. Steps("server", f, r) /\ (f.sent.code # "get" => NoNewGet(r))
      BY <1>1, <3>1, SendBlockMessage
    <3> QED
      BY <2>1, <3>2 DEF Steps
  <2>3. CASE ~b.m
    <3>1. PICK u : u = [code |-> p.code, data |-> IF f.got = <<>> THEN p.data ELSE f.got]
      OBVIOUS
    <3>2. r = Done(<<f>>, <<>>, <<u>>)
      BY <2>1, <2>3, <3>1 DEF ToApplication
    <3>3. r.entry = <<f>> /\ r.items = <<>> /\ r.up = <<u>>
      BY <3>2, DoneIs
    <3>4. ASSUME Upload # 2 PROVE u.data = Whole(Upload)
      <4>1. f.got = Whole(Upload)
        BY <2>1, <2>3, <3>4
      <4>2. Whole(Upload) # <<>>
        <5>1. Upload \in Nat /\ Upload # 0
          BY Constants
        <5> QED
          BY <5>1, WholeFacts
      <4> QED
        BY <3>1, <4>1, <4>2
    <3>5. GoodUp(u)
      BY <3>4 DEF GoodUp
    <3>6. UpOK("server", e.sent.code = "request", r.up)
      BY <3>3, <3>5, OneUp
    <3> QED
      BY <1>1, <2>1, <3>3, <3>6, Quietly
  <2> QED
    BY <2>2, <2>3
<1> QED
  BY <1>8, <1>10

(* The answer to a block of the request.  The entry goes with the last,    *)
(* unless the answer has a block of its own.                               *)
LEMMA Response1 ==
  ASSUME NEW s \in Sides, NEW p, PduTo(s, p), ~IsRequest(p.code),
         s = "server" => p.code = "incomplete", NEW b \in Blocks, NEW e \in EntriesOf(s),
         NEW r, r = Option1Response(p, b, e)
  PROVE  /\ Steps(s, e, r) /\ (e.sent.code # "get" => NoNewGet(r))
         /\ p.b2 # <<>> => r.entry # <<>> /\ r.entry[1].sent = e.sent /\ r.up = <<>>
<1>1. e \in Entries /\ b.num \in Nat /\ b.m \in BOOLEAN
  BY DEF EntriesOf, Blocks
<1>2. ASSUME NEW c \in Blocks, s = "client" \/ c.num = 0,
             r = CASendBlockMessage(p, [e EXCEPT !.block1 = c])
      PROVE  /\ Steps(s, e, r) /\ (e.sent.code # "get" => NoNewGet(r))
             /\ r.entry # <<>> /\ r.entry[1].sent = e.sent /\ r.up = <<>>
  <2>1. PICK f : f = [e EXCEPT !.block1 = c]
    OBVIOUS
  <2>2. /\ f \in Entries /\ f.block1 = c /\ f.block2 = e.block2 /\ f.sent = e.sent
        /\ f.got = e.got
    BY <1>1, <2>1, SetBlock1
  <2>3. f \in EntriesOf(s)
    <3>1. CASE s = "client"
      BY <2>2, <3>1 DEF EntriesOf, EntryAt, Asking
    <3>2. CASE c.num = 0
      BY <2>2, <3>2, Similarly DEF Similar
    <3> QED
      BY <1>2, <3>1, <3>2
  <2>4. r = CASendBlockMessage(p, f)
    BY <1>2, <2>1
  <2>5. Steps(s, f, r) /\ (f.sent.code # "get" => NoNewGet(r)) /\ r.entry = <<f>>
        /\ r.up = <<>>
    BY <2>3, <2>4, SendBlockMessage
  <2> QED
    BY <2>2, <2>5 DEF Steps
<1>3. CASE ~b.m /\ p.code # "incomplete"
  <2>1. s = "client"
    BY <1>3, Sides2
  <2>2. PICK f : f = [e EXCEPT !.block1.num = 0]
    OBVIOUS
  <2>3. f \in Entries /\ f.block2 = e.block2 /\ f.sent = e.sent /\ f.got = e.got
    BY <1>1, <2>2, SetNum1
  <2>4. f \in EntriesOf(s)
    BY <2>1, <2>3 DEF EntriesOf, EntryAt, Asking
  <2>5. r = IF p.b2 # <<>> THEN Done(<<f>>, <<>>, <<>>) ELSE Done(<<>>, <<>>, ToApplication(p, e))
    BY <1>3, <2>2 DEF Option1Response
  <2>6. CASE p.b2 # <<>>
    <3>1. r.entry = <<f>> /\ r.items = <<>> /\ r.up = <<>>
      BY <2>5, <2>6, DoneIs
    <3> QED
      BY <2>3, <2>4, <3>1, NoUp, Quietly
  <2>7. CASE p.b2 = <<>>
    <3>1. PICK u : u = [code |-> p.code, data |-> IF e.got = <<>> THEN p.data ELSE e.got]
      OBVIOUS
    <3>2. r.entry = <<>> /\ r.items = <<>> /\ r.up = <<u>>
      BY <2>5, <2>7, <3>1, DoneIs DEF ToApplication
    <3>3. ASSUME e.sent.code = "request" PROVE GoodAnswer(u)
      <4>1. Asking(e) /\ e.block2.num \in Nat
        BY <1>1, <2>1, <3>3, Fields DEF EntriesOf, EntryAt
      <4>2. CASE p.code = "content"
        <5>1. Download = 1 /\ p.data = Whole(Download)
          BY <2>7, <4>2 DEF PduTo
        <5>2. e.block2.num = 0
          BY <4>1, <5>1 DEF Asking
        <5>3. e.got = <<>>
          BY <4>1, <5>2, NoneYet DEF Asking
        <5> QED
          BY <3>1, <5>1, <5>3 DEF GoodAnswer
      <4>3. CASE p.code # "content"
        BY <3>1, <4>3 DEF GoodAnswer
      <4> QED
        BY <4>2, <4>3
    <3>5. /\ s = "server" => GoodUp(u)
          /\ s = "client" /\ e.sent.code = "request" => GoodAnswer(u)
      BY <2>1, <3>3
    <3>6. UpOK(s, e.sent.code = "request", <<u>>)
      BY ONLY <3>5, OneUp
    <3>4. UpOK(s, e.sent.code = "request", r.up)
      BY <3>2, <3>6
    <3> QED
      BY <2>7, <3>2, <3>4, Quietly
  <2> QED
    BY <2>6, <2>7
<1>4. CASE p.code = "incomplete"
  <2>1. r = CASendBlockMessage(p, [e EXCEPT !.block1 = Block(0, b.m)])
    BY <1>4 DEF Option1Response
  <2>2. Block(0, b.m) \in Blocks /\ Block(0, b.m).num = 0
    BY <1>1, BlockIs
  <2> QED
    BY <1>2, <2>1, <2>2
<1>5. CASE b.m /\ p.code # "incomplete"
  <2>1. s = "client"
    BY <1>5, Sides2
  <2>2. CASE e.block1.num > b.num
    <3>1. r = Fail(<<e>>)
      BY <1>5, <2>2 DEF Option1Response
    <3>2. r.entry = <<e>> /\ r.items = <<>> /\ r.up = <<>>
      BY <3>1, FailIs
    <3> QED
      BY <3>2, NoUp, Quietly
  <2>3. CASE ~(e.block1.num > b.num)
    <3>1. r = CASendBlockMessage(p, [e EXCEPT !.block1 = Block(b.num + 1, b.m)])
      BY <1>5, <2>3 DEF Option1Response
    <3>2. Block(b.num + 1, b.m) \in Blocks
      BY <1>1, BlockIs
    <3> QED
      BY <1>2, <2>1, <3>1, <3>2
  <2> QED
    BY <2>2, <2>3
<1> QED
  BY <1>1, <1>3, <1>4, <1>5

(* A block of the response, or 4.08.                                       *)
BlockFor(s, p, b) ==
  /\ s = "client" /\ p.code # "incomplete" /\ p.data = <<b.num>>
  /\ b.num < Download /\ (b.m <=> b.num + 1 < Download)

LEMMA Response2 ==
  ASSUME NEW s \in Sides, NEW p \in Pdus, ~IsRequest(p.code), NEW b \in Blocks,
         NEW e \in EntriesOf(s),
         \/ p.code = "incomplete" /\ p.data = <<>> /\ b = e.block2
         \/ BlockFor(s, p, b),
         NEW r, r = Option2Response(p, b, e)
  PROVE  Steps(s, e, r) /\ (e.sent.code # "get" => NoNewGet(r))
<1>1. e \in Entries /\ EntryAt(s, e) /\ b.num \in Nat /\ b.m \in BOOLEAN
  BY DEF EntriesOf, Blocks
<1>2. e.got \in Seq(Nat) /\ e.block2.num \in Nat
  BY <1>1, Fields
<1>5. ASSUME NEW f \in EntriesOf(s), f.sent = e.sent, r = CASendBlockMessage(p, f)
      PROVE  Steps(s, e, r) /\ (e.sent.code # "get" => NoNewGet(r))
  <2>1. Steps(s, f, r) /\ (f.sent.code # "get" => NoNewGet(r))
    BY <1>5, SendBlockMessage
  <2> QED
    BY <1>5, <2>1 DEF Steps
<1>6. CASE p.code = "incomplete"
  <2>7. p.data = <<>> /\ b = e.block2
    BY <1>6 DEF BlockFor
  <2>1. e.got \o p.data = e.got
    BY <1>2, <2>7, ConcatEmpty
  <2>2. PICK f : f = [e EXCEPT !.got = @ \o p.data]
    OBVIOUS
  <2>3. f = [e EXCEPT !.got = e.got]
    BY <2>1, <2>2
  <2>4. /\ f \in Entries /\ f.block1 = e.block1 /\ f.block2 = e.block2
        /\ f.sent = e.sent /\ f.got = e.got
    BY <1>1, <1>2, <2>3, SetGot
  <2>5. CASE ~b.m
    <3>1. r = Done(<<>>, <<>>, ToApplication(p, f))
      BY <1>6, <2>2, <2>5 DEF Option2Response
    <3>2. PICK u : u = [code |-> p.code, data |-> IF f.got = <<>> THEN p.data ELSE f.got]
      OBVIOUS
    <3>3. r.entry = <<>> /\ r.items = <<>> /\ r.up = <<u>>
      BY <3>1, <3>2, DoneIs DEF ToApplication
    <3>4. GoodUp(u) /\ GoodAnswer(u)
      BY <1>6, <3>2 DEF GoodUp, GoodAnswer
    <3>5. UpOK(s, e.sent.code = "request", r.up)
      BY <3>3, <3>4, OneUp
    <3> QED
      BY <3>3, <3>5, Quietly
  <2>6. CASE b.m
    <3>1. PICK c : c = Block(0, b.m)
      OBVIOUS
    <3>2. c \in Blocks /\ c.num = 0
      BY <1>1, <3>1, BlockIs
    <3>3. PICK g : g = [f EXCEPT !.block2 = c]
      OBVIOUS
    <3>4. r = CASendBlockMessage(p, g)
      BY <1>6, <2>2, <2>6, <3>1, <3>3 DEF Option2Response
    <3>5. /\ g \in Entries /\ g.block1 = e.block1 /\ g.block2 = c
          /\ g.sent = e.sent /\ g.got = e.got
      BY <2>4, <3>2, <3>3, SetBlock2
    <3>6. Collecting(e) => Collecting(g)
      BY <3>5 DEF Collecting
    <3>7. Asking(e) => Asking(g)
      BY <2>6, <2>7, <3>2, <3>5, NoneYet DEF Asking
    <3>8. g \in EntriesOf(s)
      BY <1>1, <3>5, <3>6, <3>7 DEF EntriesOf, EntryAt
    <3> QED
      BY <1>5, <3>4, <3>5, <3>8
  <2> QED
    BY <1>1, <2>5, <2>6
<1>7. CASE BlockFor(s, p, b)
  <2>6. /\ s = "client" /\ p.code # "incomplete" /\ p.data = <<b.num>>
        /\ b.num < Download /\ (b.m <=> b.num + 1 < Download) /\ Download \in Nat
    BY <1>7, Constants DEF BlockFor
  <2>1. PICK status : status = Block2Status(b, e)
    OBVIOUS
  <2>2. status \in {"already", "incomplete", "unknown"}
    BY <2>1 DEF Block2Status
  <2>3. CASE status = "incomplete"
    <3>1. PICK f : f = [e EXCEPT !.block2 = b]
      OBVIOUS
    <3>2. f \in Entries /\ f.sent = e.sent
      BY <1>1, <3>1, SetBlock2
    <3>3. r = SendIncomplete(f)
      BY <2>6, <2>1, <2>3, <3>1 DEF Option2Response
    <3>4. ItemFrom(s, f.sent)
      BY <1>1, <3>2 DEF EntryAt
    <3>5. Steps(s, f, r) /\ (f.sent.code # "get" => NoNewGet(r))
      BY <3>2, <3>3, <3>4, Restart
    <3> QED
      BY <3>2, <3>5 DEF Steps
  <2>4. CASE status = "already"
    <3>1. r = Fail(<<>>)
      BY <2>6, <2>1, <2>4 DEF Option2Response
    <3>2. r.entry = <<>> /\ r.items = <<>> /\ r.up = <<>>
      BY <3>1, FailIs
    <3> QED
      BY <3>2, NoUp, Quietly
  <2>5. CASE status = "unknown"
    <3>1. b.num = e.block2.num
      BY <2>1, <2>5 DEF Block2Status
    <3>2. PICK n : n = b.num
      OBVIOUS
    <3>3. n \in Nat /\ n + 1 \in Nat /\ p.data = <<n>>
      BY <1>1, <2>6, <3>2
    <3>4. PICK f : f = [e EXCEPT !.got = @ \o p.data]
      OBVIOUS
    <3>10. e.got \o p.data \in Seq(Nat)
      BY <1>2, <3>3
    <3>5. PICK x \in Seq(Nat) : x = e.got \o p.data
      BY <3>10
    <3>9. f = [e EXCEPT !.got = x]
      BY <3>4, <3>5
    <3>6. /\ f \in Entries /\ f.block1 = e.block1 /\ f.block2 = e.block2
          /\ f.sent = e.sent /\ f.got = x
      BY <1>1, <3>9, SetGot
    <3>7. CASE ~b.m
      <4>1. r = Done(<<>>, <<>>, ToApplication(p, f))
        BY <2>6, <2>1, <2>5, <3>4, <3>7 DEF Option2Response
      <4>2. PICK u : u = [code |-> p.code, data |-> IF f.got = <<>> THEN p.data ELSE f.got]
        OBVIOUS
      <4>3. r.entry = <<>> /\ r.items = <<>> /\ r.up = <<u>>
        BY <4>1, <4>2, DoneIs DEF ToApplication
      <4>4. ASSUME e.sent.code = "request" PROVE GoodAnswer(u)
        <5>1. Asking(e)
          BY <1>1, <2>6, <4>4 DEF EntryAt
        <5>2. e.got = Whole(n) /\ n + 1 = Download
          BY <2>6, <3>1, <3>2, <3>3, <3>7, <5>1 DEF Asking
        <5>3. Whole(n) \o <<n>> = Whole(n + 1) /\ (Whole(n + 1) = <<>> <=> n + 1 = 0)
          BY <3>3, WholeFacts
        <5>4. f.got = Whole(Download) /\ f.got # <<>>
          BY <3>3, <3>5, <3>6, <5>2, <5>3
        <5> QED
          BY <4>2, <5>4 DEF GoodAnswer
      <4>5. UpOK(s, e.sent.code = "request", r.up)
        BY <2>6, <4>3, <4>4, OneUp
      <4> QED
        BY <4>3, <4>5, Quietly
    <3>8. CASE b.m
      <4>1. PICK c : c = Block(n + 1, FALSE)
        OBVIOUS
      <4>2. c \in Blocks /\ c.num = n + 1 /\ c.m = FALSE
        BY <3>3, <4>1, BlockIs
      <4>3. PICK g : g = [f EXCEPT !.block2 = c]
        OBVIOUS
      <4>4. r = CASendBlockMessage(p, g)
        BY <2>6, <2>1, <2>5, <3>2, <3>4, <3>8, <4>1, <4>3 DEF Option2Response
      <4>5. /\ g \in Entries /\ g.block2 = c /\ g.sent = e.sent /\ g.got = x
        BY <3>6, <4>2, <4>3, SetBlock2
      <4>6. Whole(n) \o <<n>> = Whole(n + 1)
        BY <3>3, WholeFacts
      <4>7. ASSUME Asking(e) PROVE Asking(g)
        <5>1. e.got = Whole(n)
          BY <3>1, <3>2, <4>7 DEF Asking
        <5>2. g.got = Whole(g.block2.num)
          BY <3>3, <3>5, <4>2, <4>5, <4>6, <5>1
        <5> QED
          BY <2>6, <3>2, <3>8, <4>2, <4>5, <5>2 DEF Asking
      <4>8. g \in EntriesOf(s)
        BY <1>1, <2>6, <4>5, <4>7 DEF EntriesOf, EntryAt
      <4> QED
        BY <1>5, <4>4, <4>5, <4>8
    <3> QED
      BY <1>1, <3>7, <3>8
  <2> QED
    BY <2>2, <2>3, <2>4, <2>5
<1> QED
  BY <1>6, <1>7

(* A request for a block of the response.                                  *)
LEMMA Request2 ==
  ASSUME NEW s \in Sides, NEW p, NEW b \in Blocks, NEW e \in EntriesOf(s),
         s = "client" => e.sent.code # "request",
         NEW r, r = Option2Request(p, b, e)
  PROVE  Steps(s, e, r) /\ (e.sent.code # "get" /\ p.code # "get" => NoNewGet(r))
<1>1. e \in Entries /\ EntryAt(s, e) /\ b.num \in Nat /\ e.sent \in Items
  BY Fields DEF EntriesOf, Blocks
<1>2. PICK c : c = Block(b.num, FALSE)
  OBVIOUS
<1>3. c \in Blocks
  BY <1>1, <1>2, BlockIs
<1>4. PICK f : f = [e EXCEPT !.block2 = c]
  OBVIOUS
<1>5. f \in Entries /\ f.block1 = e.block1 /\ f.sent = e.sent /\ f.got = e.got
  BY <1>1, <1>3, <1>4, SetBlock2
<1>6. Collecting(e) => Collecting(f)
  BY <1>5 DEF Collecting
<1>7. f \in EntriesOf(s)
  BY <1>1, <1>5, <1>6 DEF EntriesOf, EntryAt
<1>8. PICK d : d = IF Echoed(p) THEN Data("get", 0) ELSE e.sent
  OBVIOUS
<1>9. d \in ItemsOf(s) /\ (e.sent.code # "get" /\ p.code # "get" => d.code # "get")
  <2>1. CASE Echoed(p)
    <3>1. d = Data("get", 0) /\ p.code = "get"
      BY <1>8, <2>1 DEF Echoed
    <3>2. "get" \in Codes /\ 0 \in Nat
      BY DEF Codes
    <3>3. d \in Items /\ d.code = "get" /\ d.size = 0
      BY <3>1, <3>2, DataIs
    <3> QED
      BY <3>1, <3>3 DEF ItemsOf, ItemFrom
  <2>2. CASE ~Echoed(p)
    BY <1>1, <1>8, <2>2 DEF ItemsOf, EntryAt
  <2> QED
    BY <2>1, <2>2
<1>10. PICK items : items = IF Echoed(p) THEN <<Data("get", 0)>>
                           ELSE IF IsRequest(e.sent.code) THEN <<>> ELSE <<e.sent>>
  OBVIOUS
<1>11. items = <<d>> \/ items = <<>>
  BY <1>8, <1>10
<1>12. /\ items \in Seq(ItemsOf(s))
       /\ d.code # "get" => \A i \in DOMAIN items : items[i].code # "get"
  <2>1. CASE items = <<d>>
    <3>1. <<d>> \in Seq(ItemsOf(s)) /\ DOMAIN <<d>> = {1} /\ <<d>>[1] = d
      BY ONLY <1>9
    <3> QED
      BY <2>1, <3>1
  <2>2. CASE items = <<>>
    <3>1. <<>> \in Seq(ItemsOf(s)) /\ DOMAIN <<>> = {}
      OBVIOUS
    <3> QED
      BY <2>2, <3>1
  <2> QED
    BY <1>11, <2>1, <2>2
<1>13. r = Done(<<f>>, items, <<>>)
  BY <1>2, <1>4, <1>10 DEF Option2Request
<1>14. r.entry = <<f>> /\ r.items = items /\ r.up = <<>>
  BY <1>13, DoneIs
<1>15. <<f>> \in NoneOrOne(EntriesOf(s)) /\ <<f>>[1] = f
  BY <1>7, OneIs
<1> QED
  BY <1>5, <1>9, <1>12, <1>14, <1>15, NoUp DEF Steps, NoNewGet, Asks, Gets

(* What the reception of p at s does with what is there.                   *)
ReceivedAt(s, p, E, r) ==
  /\ r.entry \in NoneOrOne(EntriesOf(s)) /\ r.items \in Seq(ItemsOf(s))
  /\ UpOK(s, Asks(E), r.up)
  /\ Asks(r.entry) => Asks(E)
  /\ p.code # "get" /\ ~Gets(E) /\ (s = "client" => Asks(E)) => NoNewGet(r)

LEMMA FromSteps ==
  ASSUME NEW s \in Sides, NEW p, NEW E \in NoneOrOne(EntriesOf(s)), NEW t \in {1, 2},
         NEW e, e = Existing(p, E, t), IsRequest(p.code) \/ E # <<>> \/ s = "client",
         NEW r, Steps(s, e, r), e.sent.code # "get" /\ p.code # "get" => NoNewGet(r)
  PROVE  ReceivedAt(s, p, E, r)
<1>1. /\ e.sent.code = "request" => Asks(E)
      /\ e.sent.code = "get" => Gets(E) \/ (E = <<>> /\ ~IsRequest(p.code))
  BY ExistingIs
<1>2. Asks(E) => E # <<>>
  BY DEF Asks
<1>3. Asks(E) => e.sent.code = "request"
  BY ExistingIs DEF Asks
<1>4. UpOK(s, Asks(E), r.up)
  BY <1>1, <1>3 DEF Steps, UpOK
<1> QED
  BY <1>1, <1>2, <1>4 DEF ReceivedAt, Steps

LEMMA Next1 ==
  ASSUME NEW s \in Sides, NEW p \in PdusTo(s), NEW E \in NoneOrOne(EntriesOf(s)), NEW b \in Blocks,
         IsRequest(p.code) => p.b1 # <<>> /\ b = p.b1[1],
         ~IsRequest(p.code) /\ s = "server" => p.code = "incomplete" /\ E # <<>>,
         NEW r, r = CASetNextBlockOption1(p, b, E)
  PROVE  /\ ReceivedAt(s, p, E, r)
         /\ ~IsRequest(p.code) /\ p.b2 # <<>> =>
               /\ r.entry # <<>> /\ (E # <<>> => r.entry[1].sent = E[1].sent)
               /\ r.up = <<>>
<1>1. PICK e : e = Existing(p, E, 1)
  OBVIOUS
<1>2. p \in Pdus /\ PduTo(s, p) /\ 1 \in {1, 2}
  BY DEF PdusTo
<1>3. e \in EntriesOf(s) /\ (E # <<>> => e.sent = E[1].sent)
  BY <1>1, <1>2, ExistingIs
<1>4. CASE IsRequest(p.code)
  <2>1. BlockOfRequest(p) /\ s = "server"
    BY <1>2, <1>4 DEF PduTo, BlockOfRequest
  <2>2. PICK f : f = WithTotal(e, p)
    OBVIOUS
  <2>3. f \in EntriesOf(s) /\ f.sent = e.sent
    BY <1>2, <1>3, <2>2, WithTotalIs
  <2>4. r = Option1Request(p, b, f)
    BY <1>1, <1>4, <2>2 DEF CASetNextBlockOption1
  <2>5. Steps(s, f, r) /\ (f.sent.code # "get" => NoNewGet(r))
    BY <1>4, <2>1, <2>3, <2>4, Request1
  <2>6. Steps(s, e, r) /\ (e.sent.code # "get" => NoNewGet(r))
    BY <2>3, <2>5 DEF Steps
  <2> QED
    BY <1>1, <1>2, <1>4, <2>6, FromSteps
<1>5. CASE ~IsRequest(p.code)
  <2>1. r = Option1Response(p, b, e)
    BY <1>1, <1>5 DEF CASetNextBlockOption1
  <2>2. /\ Steps(s, e, r) /\ (e.sent.code # "get" => NoNewGet(r))
        /\ p.b2 # <<>> => r.entry # <<>> /\ r.entry[1].sent = e.sent /\ r.up = <<>>
    BY <1>2, <1>3, <1>5, <2>1, Response1
  <2>3. E # <<>> \/ s = "client"
    BY <1>5, Sides2
  <2>4. ReceivedAt(s, p, E, r)
    BY <1>1, <1>2, <2>2, <2>3, FromSteps
  <2> QED
    BY <1>3, <2>2, <2>4
<1> QED
  BY <1>4, <1>5

LEMMA Next2 ==
  ASSUME NEW s \in Sides, NEW p \in PdusTo(s), NEW E \in NoneOrOne(EntriesOf(s)), NEW b \in Blocks,
         IsRequest(p.code) /\ s = "client" => ~Asks(E),
         ~IsRequest(p.code) =>
            \/ p.code = "incomplete" /\ p.data = <<>> /\ E # <<>> /\ b = E[1].block2
            \/ BlockFor(s, p, b),
         NEW r, r = CASetNextBlockOption2(p, b, E)
  PROVE  ReceivedAt(s, p, E, r)
<1>1. PICK e : e = Existing(p, E, 2)
  OBVIOUS
<1>2. p \in Pdus /\ PduTo(s, p) /\ 2 \in {1, 2}
  BY DEF PdusTo
<1>3. /\ e \in EntriesOf(s) /\ (E # <<>> => e.sent = E[1].sent /\ e.block2 = E[1].block2)
      /\ e.sent.code = "request" => Asks(E)
  BY <1>1, <1>2, ExistingIs
<1>4. CASE IsRequest(p.code)
  <2>1. r = Option2Request(p, b, e)
    BY <1>1, <1>4 DEF CASetNextBlockOption2
  <2>2. s = "client" => e.sent.code # "request"
    BY <1>3, <1>4
  <2>3. Steps(s, e, r) /\ (e.sent.code # "get" /\ p.code # "get" => NoNewGet(r))
    BY <1>3, <2>1, <2>2, Request2
  <2> QED
    BY <1>1, <1>2, <1>4, <2>3, FromSteps
<1>5. CASE ~IsRequest(p.code)
  <2>1. PICK f : f = WithTotal(e, p)
    OBVIOUS
  <2>2. f \in EntriesOf(s) /\ f.sent = e.sent /\ f.block2 = e.block2
    BY <1>2, <1>3, <2>1, WithTotalIs
  <2>3. r = Option2Response(p, b, f)
    BY <1>1, <1>5, <2>1 DEF CASetNextBlockOption2
  <2>4. \/ p.code = "incomplete" /\ p.data = <<>> /\ b = f.block2
        \/ BlockFor(s, p, b)
    BY <1>3, <1>5, <2>2
  <2>5. Steps(s, f, r) /\ (f.sent.code # "get" => NoNewGet(r))
    BY <1>2, <1>5, <2>2, <2>3, <2>4, Response2
  <2>6. Steps(s, e, r) /\ (e.sent.code # "get" => NoNewGet(r))
    BY <2>2, <2>5 DEF Steps
  <2>7. E # <<>> \/ s = "client"
    BY <1>5 DEF BlockFor
  <2> QED
    BY <1>1, <1>2, <2>6, <2>7, FromSteps
<1> QED
  BY <1>4, <1>5

(* The result of the second step is a record.                              *)
LEMMA Shape ==
  ASSUME NEW p, NEW b, NEW E, NEW r, r = CASetNextBlockOption2(p, b, E)
  PROVE  \E x, y, z, k : r = [entry |-> x, items |-> y, up |-> z, ok |-> k]
<1>1. ASSUME NEW e PROVE \E x, y, z, k : CASendBlockMessage(p, e) =
                              [entry |-> x, items |-> y, up |-> z, ok |-> k]
  BY Zenon DEF CASendBlockMessage, Done
<1>2. ASSUME NEW e PROVE \E x, y, z, k : SendIncomplete(e) =
                              [entry |-> x, items |-> y, up |-> z, ok |-> k]
  BY Zenon DEF SendIncomplete, Done
<1>3. ASSUME NEW x, NEW y, NEW z
      PROVE  \E u, v, w, k : Done(x, y, z) = [entry |-> u, items |-> v, up |-> w, ok |-> k]
  BY Zenon DEF Done
<1>4. \E x, y, z, k : Fail(<<>>) = [entry |-> x, items |-> y, up |-> z, ok |-> k]
  BY Zenon DEF Fail
<1>5. ASSUME NEW e PROVE \E x, y, z, k : Option2Request(p, b, e) =
                              [entry |-> x, items |-> y, up |-> z, ok |-> k]
  BY Zenon DEF Option2Request, Done
<1>6. ASSUME NEW e PROVE \E x, y, z, k : Option2Response(p, b, e) =
                              [entry |-> x, items |-> y, up |-> z, ok |-> k]
  <2>1. PICK status : status = IF p.code = "incomplete" THEN "unknown" ELSE Block2Status(b, e)
    OBVIOUS
  <2>2. PICK f : f = IF status = "unknown" THEN [e EXCEPT !.got = @ \o p.data] ELSE e
    OBVIOUS
  <2>3. PICK n : n = IF p.code = "incomplete" THEN Block(0, b.m) ELSE Block(b.num + 1, FALSE)
    OBVIOUS
  <2>4. status \in {"unknown", "incomplete", "already"}
    BY <2>1 DEF Block2Status
  <2>5. CASE ~b.m /\ status = "unknown"
    <3>1. Option2Response(p, b, e) = Done(<<>>, <<>>, ToApplication(p, f))
      BY <2>1, <2>2, <2>5 DEF Option2Response
    <3> QED
      BY <1>3, <3>1
  <2>6. CASE status = "incomplete"
    <3>1. Option2Response(p, b, e) = SendIncomplete([f EXCEPT !.block2 = b])
      BY <2>1, <2>2, <2>6 DEF Option2Response
    <3> QED
      BY <1>2, <3>1
  <2>7. CASE status = "already"
    <3>1. Option2Response(p, b, e) = Fail(<<>>)
      BY <2>1, <2>7 DEF Option2Response
    <3> QED
      BY <1>4, <3>1
  <2>8. CASE b.m /\ status = "unknown"
    <3>1. Option2Response(p, b, e) = CASendBlockMessage(p, [f EXCEPT !.block2 = n])
      BY <2>1, <2>2, <2>3, <2>8 DEF Option2Response
    <3> QED
      BY <1>1, <3>1
  <2> QED
    BY <2>4, <2>5, <2>6, <2>7, <2>8
<1> QED
  BY <1>5, <1>6 DEF CASetNextBlockOption2

NoGetIn(q) == \A i \in DOMAIN q : q[i].code # "get"

LEMMA ConcatNoGet ==
  ASSUME NEW S, NEW q \in Seq(S), NEW t \in Seq(S), NoGetIn(q), NoGetIn(t)
  PROVE  NoGetIn(q \o t)
<1> DEFINE x == q \o t
           n == Len(q)
           m == Len(t)
<1>1. /\ x \in Seq(S) /\ n \in Nat /\ m \in Nat /\ Len(x) = n + m
      /\ \A i \in 1..Len(x) : x[i] = IF i <= n THEN q[i] ELSE t[i - n]
  BY ConcatProperties, LenProperties
<1>2. DOMAIN x = 1..(n + m) /\ DOMAIN q = 1..n /\ DOMAIN t = 1..m
  BY <1>1, LenProperties
<1> HIDE DEF x, n, m
<1>3. ASSUME NEW i \in DOMAIN x PROVE x[i].code # "get"
  <2>1. CASE i <= n
    BY <1>1, <1>2, <2>1 DEF NoGetIn
  <2>2. CASE ~(i <= n)
    <3>1. i - n \in DOMAIN t
      BY <1>1, <1>2, <2>2
    <3> QED
      BY <1>1, <1>2, <2>2, <3>1 DEF NoGetIn
  <2> QED
    BY <2>1, <2>2
<1> QED
  BY <1>3 DEF NoGetIn, x

LEMMA ReceiveBoth ==
  ASSUME NEW s \in Sides, NEW p \in PdusTo(s), NEW E \in NoneOrOne(EntriesOf(s)),
         p.code # "empty", p.b1 # <<>> \/ p.b2 # <<>>,
         s = "client" /\ Asks(E) => p.code # "get",
         NEW r, r = ReceiveBlocks(p, E)
  PROVE  ReceivedAt(s, p, E, r)
<1>1. p \in Pdus /\ PduTo(s, p) /\ p.b1 \in Options /\ p.b2 \in Options
  BY DEF PdusTo, Pdus
<1>2. (p.b1 # <<>> => p.b1[1] \in Blocks) /\ (p.b2 # <<>> => p.b2[1] \in Blocks)
  BY <1>1 DEF Options
<1>3. /\ IsRequest(p.code) /\ s = "client" => ~Asks(E)
      /\ ~IsRequest(p.code) /\ p.b2 # <<>> =>
            BlockFor(s, p, p.b2[1])
  BY <1>1 DEF PduTo, IsRequest, BlockOfResponse, BlockFor
<1>4. CASE p.b1 = <<>>
  <2>1. r = CASetNextBlockOption2(p, p.b2[1], E) /\ p.b2 # <<>>
    BY <1>4 DEF ReceiveBlocks
  <2> QED
    BY <1>2, <1>3, <2>1, Next2
<1>5. CASE p.b1 # <<>>
  <2>1. PICK r1 : r1 = CASetNextBlockOption1(p, p.b1[1], E)
    OBVIOUS
  <2>2. ~IsRequest(p.code) => s = "client"
    BY <1>1, <1>5, Sides2 DEF PduTo, IsRequest
  <2>3. IsRequest(p.code) => p.b2 = <<>>
    BY <1>1, <1>5 DEF PduTo, BlockOfRequest
  <2>4. p.b1[1] \in Blocks
    BY <1>2, <1>5
  <2>5. ~(~IsRequest(p.code) /\ s = "server")
    BY <2>2
  <2>6. /\ ReceivedAt(s, p, E, r1)
        /\ ~IsRequest(p.code) /\ p.b2 # <<>> =>
              /\ r1.entry # <<>> /\ (E # <<>> => r1.entry[1].sent = E[1].sent)
              /\ r1.up = <<>>
    BY <1>5, <2>1, <2>4, <2>5, Next1
  <2>7. CASE p.b2 = <<>> \/ ~r1.ok
    <3>1. r = r1
      BY <1>5, <2>1, <2>7 DEF ReceiveBlocks
    <3> QED
      BY <2>6, <3>1
  <2>8. CASE p.b2 # <<>> /\ r1.ok
    <3>1. ~IsRequest(p.code) /\ s = "client"
      BY <2>2, <2>3, <2>8
    <3>2. PICK r2 : r2 = CASetNextBlockOption2(p, p.b2[1], r1.entry)
      OBVIOUS
    <3>3. r = [r2 EXCEPT !.items = r1.items \o @, !.up = r1.up \o @]
      BY <1>5, <2>1, <2>8, <3>2 DEF ReceiveBlocks
    <3>4. r1.entry \in NoneOrOne(EntriesOf(s)) /\ r1.items \in Seq(ItemsOf(s))
      BY <2>6 DEF ReceivedAt
    <3>5. p.b2[1] \in Blocks
      BY <1>2, <2>8
    <3>6. BlockFor(s, p, p.b2[1])
      BY <1>3, <2>8, <3>1
    <3>7. ReceivedAt(s, p, r1.entry, r2)
      BY <3>1, <3>2, <3>4, <3>5, <3>6, Next2
    <3>14. PICK b, F : b = p.b2[1] /\ F = r1.entry
      OBVIOUS
    <3>15. r2 = CASetNextBlockOption2(p, b, F)
      BY <3>2, <3>14
    <3>8. PICK x, y, z, k : r2 = [entry |-> x, items |-> y, up |-> z, ok |-> k]
      BY <3>15, Shape
    <3>9. r.entry = r2.entry /\ r.items = r1.items \o r2.items /\ r.up = r1.up \o r2.up
      BY <3>3, <3>8
    <3>16. UpOK(s, Asks(E), r.up)
      <4>1. UpOK(s, Asks(r1.entry), r2.up)
        BY <3>7 DEF ReceivedAt
      <4>2. r1.up = <<>>
        BY <2>6, <2>8, <3>1
      <4>3. r.up = r2.up
        <5>1. CASE r2.up = <<>>
          BY <3>9, <4>2, <5>1
        <5>2. CASE \E u : r2.up = <<u>>
          BY <3>9, <4>2, <5>2
        <5> QED
          BY <4>1, <5>1, <5>2 DEF UpOK
      <4>4. Asks(E) => Asks(r1.entry)
        BY <2>6, <2>8, <3>1 DEF Asks
      <4> QED
        BY <4>1, <4>3, <4>4 DEF UpOK
    <3>10. r2.entry \in NoneOrOne(EntriesOf(s)) /\ r2.items \in Seq(ItemsOf(s))
      BY <3>7 DEF ReceivedAt
    <3>11. r.items \in Seq(ItemsOf(s))
      BY <3>4, <3>9, <3>10
    <3>12. Asks(r.entry) => Asks(E)
      BY <2>6, <3>7, <3>9 DEF ReceivedAt
    <3>13. ASSUME p.code # "get", ~Gets(E), Asks(E) PROVE NoNewGet(r)
      <4>1. NoNewGet(r1)
        BY <2>6, <3>13 DEF ReceivedAt
      <4>2. r1.entry # <<>> /\ r1.entry[1].sent = E[1].sent
        BY <2>6, <2>8, <3>1, <3>13 DEF Asks
      <4>3. Asks(r1.entry) /\ ~Gets(r1.entry)
        BY <3>13, <4>2 DEF Asks, Gets
      <4>4. NoNewGet(r2)
        BY <3>7, <3>13, <4>3 DEF ReceivedAt
      <4>5. NoGetIn(r1.items) /\ NoGetIn(r2.items)
        BY <4>1, <4>4 DEF NoNewGet, NoGetIn
      <4>6. NoGetIn(r1.items \o r2.items)
        BY <3>4, <3>10, <4>5, ConcatNoGet
      <4> QED
        BY <3>9, <4>4, <4>6 DEF NoNewGet, NoGetIn
    <3> QED
      BY <3>1, <3>9, <3>10, <3>11, <3>12, <3>13, <3>16 DEF ReceivedAt
  <2> QED
    BY <2>7, <2>8
<1> QED
  BY <1>4, <1>5

LEMMA Kept ==
  ASSUME NEW s \in Sides, NEW p, NEW E \in NoneOrOne(EntriesOf(s)),
         NEW r, r.items = <<>>, r.entry = E \/ r.entry = <<>>,
         UpOK(s, Asks(E), r.up)
  PROVE  ReceivedAt(s, p, E, r)
<1>1. <<>> \in NoneOrOne(EntriesOf(s))
  BY DEF NoneOrOne
<1>2. <<>> \in Seq(ItemsOf(s)) /\ DOMAIN <<>> = {}
  BY EmptySeq
<1> QED
  BY <1>1, <1>2 DEF ReceivedAt, NoNewGet, Asks, Gets

LEMMA ReceiveFacts ==
  ASSUME NEW s \in Sides, NEW p \in PdusTo(s), NEW E \in NoneOrOne(EntriesOf(s)),
         s = "client" /\ Asks(E) => p.code # "get",
         NEW r, r = CAReceiveBlockWiseData(p, E)
  PROVE  ReceivedAt(s, p, E, r)
<1>1. p \in Pdus /\ PduTo(s, p)
  BY DEF PdusTo
<1>2. CASE p.code = "empty"
  <2>1. r = Done(E, <<>>, <<>>) \/ r = Done(<<>>, <<>>, <<>>)
    BY <1>2 DEF CAReceiveBlockWiseData, ReceiveEmpty
  <2>2. r.items = <<>> /\ (r.entry = E \/ r.entry = <<>>) /\ r.up = <<>>
    BY <2>1, DoneIs
  <2> QED
    BY <2>2, NoUp, Kept
<1>3. CASE p.code # "empty" /\ (p.b1 # <<>> \/ p.b2 # <<>>)
  BY <1>3, ReceiveBoth DEF CAReceiveBlockWiseData
<1>4. CASE p.code = "incomplete" /\ p.b1 = <<>> /\ p.b2 = <<>>
  <2>1. r = ReceiveIncomplete(p, E)
    BY <1>4 DEF CAReceiveBlockWiseData
  <2>2. CASE E = <<>> \/ (E # <<>> /\ E[1].type = 0)
    <3>1. r = Fail(E)
      BY <2>1, <2>2 DEF ReceiveIncomplete
    <3>2. r.items = <<>> /\ r.entry = E /\ r.up = <<>>
      BY <3>1, FailIs
    <3> QED
      BY <3>2, NoUp, Kept
  <2>3. CASE ~(E = <<>> \/ (E # <<>> /\ E[1].type = 0))
    <3>1. E # <<>> /\ E[1] \in EntriesOf(s) /\ ~IsRequest(p.code) /\ p.data = <<>>
      BY <1>1, <1>4, <2>3, OneFacts DEF IsRequest, PduTo
    <3>2. E[1].block1 \in Blocks /\ E[1].block2 \in Blocks
      BY <3>1, Fields DEF EntriesOf
    <3>3. CASE E[1].type = 2
      <4>1. r = CASetNextBlockOption2(p, E[1].block2, E)
        BY <2>1, <2>3, <3>3 DEF ReceiveIncomplete
      <4> QED
        BY <1>4, <3>1, <3>2, <4>1, Next2
    <3>4. CASE E[1].type # 2
      <4>1. r = CASetNextBlockOption1(p, E[1].block1, E)
        BY <2>1, <2>3, <3>4 DEF ReceiveIncomplete
      <4> QED
        BY <1>4, <3>1, <3>2, <4>1, Next1
    <3> QED
      BY <3>3, <3>4
  <2> QED
    BY <2>2, <2>3
<1>5. CASE p.code \notin {"empty", "incomplete"} /\ p.b1 = <<>> /\ p.b2 = <<>>
  <2>1. PICK u : u = [code |-> p.code, data |-> p.data]
    OBVIOUS
  <2>2. r = Done(IF IsRequest(p.code) THEN E ELSE <<>>, <<>>, <<u>>)
    BY <1>5, <2>1 DEF CAReceiveBlockWiseData, ReceivePlain
  <2>3. r.items = <<>> /\ (r.entry = E \/ r.entry = <<>>) /\ r.up = <<u>>
    BY <2>2, DoneIs
  <2>4. GoodUp(u) /\ GoodAnswer(u)
    BY <1>1, <1>5, <2>1 DEF GoodUp, GoodAnswer, PduTo
  <2>5. UpOK(s, Asks(E), r.up)
    BY <2>3, <2>4, OneUp
  <2> QED
    BY <2>3, <2>5, Kept
<1> QED
  BY <1>2, <1>3, <1>4, <1>5

-----------------------------------------------------------------------------
(* The network and the queues.                                             *)

LEMMA BagAdd ==
  ASSUME NEW b, NEW S PROVE BagToSet(b (+) SetToBag(S)) = BagToSet(b) \cup S
  BY DEF BagToSet, SetToBag, (+)

LEMMA BagTake ==
  ASSUME NEW b, NEW S PROVE BagToSet(b (-) SetToBag(S)) \subseteq BagToSet(b)
  BY DEF BagToSet, SetToBag, (-)

LEMMA BagNone == BagToSet(EmptyBag) = {}
  BY DEF BagToSet, EmptyBag, SetToBag

(* Every action leaves each side's part of the state alone or changes it   *)
(* to something of the same kind.                                          *)
SideOK(s, E, q, b) ==
  E \in NoneOrOne(EntriesOf(s)) /\ q \in Seq(ItemsOf(s)) /\ BagToSet(b) \subseteq PdusTo(s)
SideNoGet(E, q, b) ==
  ~Gets(E) /\ NoGetIn(q) /\ \A p \in BagToSet(b) : p.code # "get"

LEMMA TypesIs ==
  Types <=> /\ DOMAIN entry = Sides /\ DOMAIN queue = Sides /\ DOMAIN net = Sides
            /\ \A s \in Sides : SideOK(s, entry[s], queue[s], net[s])
  BY DEF Types, SideOK

LEMMA NoGetIs ==
  NoGet <=> \A s \in Sides : SideNoGet(entry[s], queue[s], net[s])
  BY DEF NoGet, SideNoGet, NoGetIn

-----------------------------------------------------------------------------
(* The applications.                                                       *)

LEMMA EnterFacts ==
  ASSUME NEW s \in Sides, NEW d \in ItemsOf(s), NEW E \in NoneOrOne(EntriesOf(s)),
         s = "client" => E = <<>>, d.code # "get", NEW r, r = Enter(d, E)
  PROVE  r \in NoneOrOne(EntriesOf(s)) /\ ~Gets(r)
<1>1. d \in Items /\ ItemFrom(s, d)
  BY DEF ItemsOf
<1>2. PICK e : e = IF E = <<>> THEN NewEntry(d) ELSE [E[1] EXCEPT !.sent = d]
  OBVIOUS
<1>3. e \in EntriesOf(s) /\ e \in Entries /\ e.sent = d
  <2>1. CASE E = <<>>
    <3>1. e = NewEntry(d)
      BY <1>2, <2>1
    <3>2. /\ e \in Entries /\ e.sent = d /\ e.got = <<>> /\ e.block1.num = 0
          /\ e.block2.num = 0 /\ e.block2.m = FALSE
      BY <1>1, <3>1, NewEntryIs
    <3>3. Collecting(e)
      BY <3>2, NoneYet DEF Collecting
    <3>4. Asking(e)
      BY <3>2, NoneYet DEF Asking
    <3> QED
      BY <1>1, <3>2, <3>3, <3>4 DEF EntriesOf, EntryAt
  <2>2. CASE E # <<>>
    <3>1. PICK f \in EntriesOf(s) : f = E[1]
      BY <2>2, OneFacts
    <3>2. e = [f EXCEPT !.sent = d] /\ f \in Entries /\ s = "server"
      BY <1>2, <2>2, <3>1, Sides2 DEF EntriesOf
    <3>3. /\ e \in Entries /\ e.sent = d /\ e.got = f.got /\ e.block1 = f.block1
      BY <1>1, <3>2, SetSent
    <3>4. Collecting(f) /\ Collecting(e)
      BY <3>1, <3>2, <3>3 DEF EntriesOf, EntryAt, Collecting
    <3> QED
      BY <1>1, <3>2, <3>3, <3>4 DEF EntriesOf, EntryAt
  <2> QED
    BY <2>1, <2>2
<1>4. PICK t : t = IF d.size = 1 THEN 0 ELSE IF IsRequest(d.code) THEN 1 ELSE 2
  OBVIOUS
<1>5. PICK k : k = IF t = 0 THEN e.type ELSE t
  OBVIOUS
<1>6. k \in {0, 1, 2}
  BY <1>3, <1>4, <1>5, Fields
<1>7. PICK f : f = [e EXCEPT !.type = k]
  OBVIOUS
<1>8. r = <<>> \/ r = <<f>>
  BY <1>2, <1>4, <1>5, <1>7 DEF Enter
<1>9. /\ f \in Entries /\ f.block1 = e.block1 /\ f.block2 = e.block2
      /\ f.sent = e.sent /\ f.got = e.got
  BY <1>3, <1>6, <1>7, SetType
<1>10. f \in EntriesOf(s)
  BY <1>3, <1>9, Similarly DEF Similar
<1>11. <<f>> \in NoneOrOne(EntriesOf(s)) /\ <<>> \in NoneOrOne(EntriesOf(s)) /\ <<f>>[1] = f
  BY <1>10, OneIs
<1> QED
  BY <1>3, <1>8, <1>9, <1>11 DEF Gets

LEMMA AppendFacts ==
  ASSUME NEW S, NEW q \in Seq(S), NEW d \in S, d.code # "get"
  PROVE  Append(q, d) \in Seq(S) /\ (NoGetIn(q) => NoGetIn(Append(q, d)))
<1>1. <<d>> \in Seq(S) /\ Append(q, d) = q \o <<d>>
  BY AppendIsConcat
<1>2. NoGetIn(<<d>>)
  BY DEF NoGetIn
<1>3. NoGetIn(q) => NoGetIn(q \o <<d>>)
  BY <1>1, <1>2, ConcatNoGet
<1> QED
  BY <1>1, <1>3

LEMMA InvInit == Init => BlockwiseInv
<1> SUFFICES ASSUME Init PROVE BlockwiseInv
  OBVIOUS
<1>1. ASSUME NEW s \in Sides
      PROVE  entry[s] = <<>> /\ queue[s] = <<>> /\ BagToSet(net[s]) = {}
  BY BagNone DEF Init
<1>2. ASSUME NEW s \in Sides PROVE SideOK(s, entry[s], queue[s], net[s])
  BY <1>1, EmptySeq DEF SideOK, NoneOrOne
<1>3. Types
  BY <1>2, TypesIs DEF Init
<1>4. ~Asks(entry["client"])
  BY <1>1 DEF Asks, Sides
<1>5. Silent
  BY <1>1 DEF Silent, Init
<1>6. UploadWhole
  BY DEF UploadWhole, Init
<1>7. dups \in 0..MaxDups /\ echoes \in 0..MaxEchoes
  BY Constants DEF Init
<1> QED
  BY <1>3, <1>4, <1>5, <1>6, <1>7 DEF BlockwiseInv

LEMMA SendRequestInv ==
  ASSUME BlockwiseInv, SendRequest PROVE BlockwiseInv'
<1>1. PICK d : /\ d = Data("request", Upload)
               /\ entry' = [entry EXCEPT !["client"] = Enter(d, <<>>)]
               /\ queue' = [queue EXCEPT !["client"] = Append(@, d)]
  BY DEF SendRequest
<1>2. "client" \in Sides /\ "request" \in Codes /\ Upload \in Nat
  BY Constants DEF Sides, Codes
<1>3. d \in Items /\ d.code = "request" /\ d.size = Upload
  BY <1>1, <1>2, DataIs
<1>4. d \in ItemsOf("client")
  BY <1>3 DEF ItemsOf, ItemFrom
<1>5. <<>> \in NoneOrOne(EntriesOf("client"))
  BY DEF NoneOrOne
<1>6. PICK r : r = Enter(d, <<>>)
  OBVIOUS
<1>7. r \in NoneOrOne(EntriesOf("client")) /\ ~Gets(r)
  BY <1>2, <1>3, <1>4, <1>5, <1>6, EnterFacts
<1>8. Types /\ Silent
  BY DEF BlockwiseInv, SendRequest
<1>9. PICK q : q = Append(queue["client"], d)
  OBVIOUS
<1>10. q \in Seq(ItemsOf("client")) /\ NoGetIn(q)
  <2>1. queue["client"] \in Seq(ItemsOf("client")) /\ queue["client"] = <<>>
    BY <1>2, <1>8 DEF Types, Silent
  <2>2. NoGetIn(queue["client"])
    BY <2>1 DEF NoGetIn
  <2> QED
    BY <1>3, <1>4, <1>9, <2>1, <2>2, AppendFacts
<1>11. ASSUME NEW t \in Sides
       PROVE  SideOK(t, entry'[t], queue'[t], net'[t]) /\ SideNoGet(entry'[t], queue'[t], net'[t])
  <2>1. net'[t] = net[t] /\ BagToSet(net[t]) = {}
    BY <1>8 DEF SendRequest, Silent
  <2>2. CASE t = "client"
    <3>1. entry'[t] = r /\ queue'[t] = q
      BY <1>1, <1>6, <1>8, <1>9, <2>2 DEF Types
    <3> QED
      BY <1>7, <1>10, <2>1, <2>2, <3>1 DEF SideOK, SideNoGet
  <2>3. CASE t # "client"
    <3>1. entry'[t] = <<>> /\ queue'[t] = <<>>
      BY <1>1, <1>8, <2>3 DEF Types, Silent
    <3>2. NoGetIn(<<>>) /\ ~Gets(<<>>)
      BY DEF NoGetIn, Gets
    <3> QED
      BY <2>1, <3>1, <3>2, EmptySeq DEF SideOK, SideNoGet, NoneOrOne
  <2> QED
    BY <2>2, <2>3
<1>12. Types'
  BY <1>1, <1>8, <1>11 DEF Types, SideOK, SendRequest
<1>13. NoGet'
  BY <1>11 DEF NoGet, SideNoGet, NoGetIn
<1>14. UNCHANGED <<delivered, dups, echoes>> /\ started'
  BY DEF SendRequest
<1> QED
  BY <1>12, <1>13, <1>14 DEF BlockwiseInv, UploadWhole

LEMMA SendResponseInv ==
  ASSUME BlockwiseInv, SendResponse PROVE BlockwiseInv'
<1>1. PICK d : /\ d = Data("content", Download)
               /\ entry' = [entry EXCEPT !["server"] = Enter(d, @)]
               /\ queue' = [queue EXCEPT !["server"] = Append(@, d)]
  BY DEF SendResponse
<1>2. "server" \in Sides /\ "content" \in Codes /\ Download \in Nat
  BY Constants DEF Sides, Codes
<1>3. d \in Items /\ d.code = "content" /\ d.size = Download
  BY <1>1, <1>2, DataIs
<1>4. d \in ItemsOf("server")
  BY <1>3 DEF ItemsOf, ItemFrom
<1>5. Types
  BY DEF BlockwiseInv
<1>6. entry["server"] \in NoneOrOne(EntriesOf("server"))
  BY <1>2, <1>5 DEF Types
<1>7. PICK r : r = Enter(d, entry["server"])
  OBVIOUS
<1>8. r \in NoneOrOne(EntriesOf("server")) /\ ~Gets(r)
  BY <1>2, <1>3, <1>4, <1>6, <1>7, EnterFacts
<1>9. PICK q : q = Append(queue["server"], d)
  OBVIOUS
<1>10. q \in Seq(ItemsOf("server")) /\ (NoGetIn(queue["server"]) => NoGetIn(q))
  <2>1. queue["server"] \in Seq(ItemsOf("server"))
    BY <1>2, <1>5 DEF Types
  <2> QED
    BY <1>3, <1>4, <1>9, <2>1, AppendFacts
<1>11. ASSUME NEW t \in Sides
       PROVE  /\ SideOK(t, entry'[t], queue'[t], net'[t])
              /\ NoGet => SideNoGet(entry'[t], queue'[t], net'[t])
  <2>1. net' = net
    BY DEF SendResponse
  <2>2. SideOK(t, entry[t], queue[t], net[t])
    BY <1>5, TypesIs
  <2>3. NoGet => SideNoGet(entry[t], queue[t], net[t])
    BY NoGetIs
  <2>4. CASE t = "server"
    <3>1. entry'[t] = r /\ queue'[t] = q
      BY <1>1, <1>5, <1>7, <1>9, <2>4 DEF Types
    <3> QED
      BY <1>8, <1>10, <2>1, <2>2, <2>3, <2>4, <3>1 DEF SideOK, SideNoGet
  <2>5. CASE t # "server"
    <3>1. entry'[t] = entry[t] /\ queue'[t] = queue[t]
      BY <1>1, <1>5, <2>5 DEF Types
    <3> QED
      BY <2>1, <2>2, <2>3, <3>1
  <2> QED
    BY <2>4, <2>5
<1>12. Types'
  BY <1>1, <1>5, <1>11 DEF Types, SideOK, SendResponse
<1>13. NoGet => NoGet'
  BY <1>11 DEF NoGet, SideNoGet, NoGetIn
<1>14. entry'["client"] = entry["client"]
  BY <1>1, <1>5 DEF Types, Sides
<1>15. UNCHANGED <<delivered, dups, echoes, started>> /\ started
  BY DEF SendResponse, BlockwiseInv, Silent
<1> QED
  BY <1>12, <1>13, <1>14, <1>15 DEF BlockwiseInv, UploadWhole, Asks

LEMMA SlowResponseInv ==
  ASSUME BlockwiseInv, SlowResponse PROVE BlockwiseInv'
<1>1. PICK p : p = Pdu("empty", <<>>, <<>>, <<>>, 0)
  OBVIOUS
<1>2. net' = [net EXCEPT !["client"] = @ (+) SetToBag({p})]
  BY <1>1 DEF SlowResponse
<1>3. p \in PdusTo("client") /\ p.code = "empty"
  BY <1>1, EmptyPdu
<1>4. Types /\ UNCHANGED <<entry, queue, started, delivered, dups, echoes>>
  BY DEF BlockwiseInv, SlowResponse
<1>5. ASSUME NEW t \in Sides
      PROVE  BagToSet(net'[t]) = BagToSet(net[t]) \cup (IF t = "client" THEN {p} ELSE {})
  <2>1. CASE t = "client"
    <3>1. net'[t] = net[t] (+) SetToBag({p})
      BY <1>2, <1>4, <2>1 DEF Types
    <3> QED
      BY <2>1, <3>1, BagAdd
  <2>2. CASE t # "client"
    BY <1>2, <1>4, <2>2 DEF Types
  <2> QED
    BY <2>1, <2>2
<1>6. Types'
  <2>1. ASSUME NEW t \in Sides PROVE BagToSet(net'[t]) \subseteq PdusTo(t)
    <3>1. BagToSet(net[t]) \subseteq PdusTo(t)
      BY <1>4 DEF Types
    <3> QED
      BY <1>3, <1>5, <3>1
  <2> QED
    BY <1>2, <1>4, <2>1 DEF Types
<1>7. NoGet => NoGet'
  <2>1. ASSUME NoGet, NEW t \in Sides, NEW x \in BagToSet(net'[t]) PROVE x.code # "get"
    <3>1. x \in BagToSet(net[t]) \/ x = p
      BY <1>5
    <3> QED
      BY <1>3, <2>1, <3>1 DEF NoGet
  <2> QED
    BY <1>4, <2>1 DEF NoGet
<1>8. started
  BY DEF SlowResponse, BlockwiseInv, Silent
<1> QED
  BY <1>4, <1>6, <1>7, <1>8 DEF BlockwiseInv, UploadWhole

LEMMA SendThreadInv ==
  ASSUME BlockwiseInv, NEW s \in Sides, SendThread(s) PROVE BlockwiseInv'
<1>1. PICK r : /\ r = CAAddBlockOption(Head(queue[s]), entry[s])
               /\ entry' = [entry EXCEPT ![s] = r.entry]
               /\ net' = [net EXCEPT ![Other(s)] = @ (+) SetToBag(ToSet(r.pdus))]
  BY DEF SendThread
<1>2. /\ Types /\ queue' = [queue EXCEPT ![s] = Tail(@)] /\ queue[s] # <<>>
      /\ UNCHANGED <<started, delivered, dups, echoes>>
  BY DEF BlockwiseInv, SendThread
<1>3. entry[s] \in NoneOrOne(EntriesOf(s)) /\ queue[s] \in Seq(ItemsOf(s))
  BY <1>2 DEF Types
<1>4. PICK d \in ItemsOf(s) : d = Head(queue[s]) /\ d = queue[s][1] /\ 1 \in DOMAIN queue[s]
  BY <1>2, <1>3, HeadTailProperties, LenProperties, EmptySeq
<1>5. PICK q : q = Tail(queue[s])
  OBVIOUS
<1>6. q \in Seq(ItemsOf(s)) /\ (NoGetIn(queue[s]) => NoGetIn(q))
  <2>1. /\ q \in Seq(ItemsOf(s)) /\ Len(q) = Len(queue[s]) - 1 /\ Len(queue[s]) \in Nat
        /\ \A i \in 1..Len(q) : q[i] = queue[s][i + 1]
    BY <1>2, <1>3, <1>5, HeadTailProperties, LenProperties
  <2>2. DOMAIN q = 1..Len(q) /\ DOMAIN queue[s] = 1..Len(queue[s])
    BY <1>3, <2>1, LenProperties
  <2>3. ASSUME NEW i \in DOMAIN q PROVE i + 1 \in DOMAIN queue[s] /\ q[i] = queue[s][i + 1]
    BY <2>1, <2>2
  <2> QED
    BY <2>1, <2>3 DEF NoGetIn
<1>7. SentBy(s, d, entry[s], r)
  BY <1>1, <1>3, <1>4, SendFacts
<1>8. PICK P : P = ToSet(r.pdus)
  OBVIOUS
<1>9. \A p \in P : p \in PdusTo(Other(s)) /\ p.code = d.code
  <2>1. CASE r.pdus = <<>>
    BY <1>8, <2>1, Nobody
  <2>2. CASE \E p \in PdusTo(Other(s)) : p.code = d.code /\ r.pdus = <<p>>
    <3>1. PICK p \in PdusTo(Other(s)) : p.code = d.code /\ r.pdus = <<p>>
      BY <2>2
    <3>2. P = {p}
      BY <1>8, <3>1, Nobody
    <3> QED
      BY <3>1, <3>2
  <2> QED
    BY <1>7, <2>1, <2>2 DEF SentBy
<1>10. Other(s) \in Sides /\ Other(s) # s
  BY Sides2
<1>11. ASSUME NEW t \in Sides
       PROVE  /\ entry'[t] = IF t = s THEN r.entry ELSE entry[t]
              /\ queue'[t] = IF t = s THEN q ELSE queue[t]
              /\ BagToSet(net'[t]) = BagToSet(net[t]) \cup (IF t = Other(s) THEN P ELSE {})
  <2>1. net'[t] = IF t = Other(s) THEN net[t] (+) SetToBag(P) ELSE net[t]
    BY <1>1, <1>2, <1>8, <1>10 DEF Types
  <2>2. BagToSet(net[t] (+) SetToBag(P)) = BagToSet(net[t]) \cup P
    BY BagAdd
  <2>3. BagToSet(net'[t]) = BagToSet(net[t]) \cup (IF t = Other(s) THEN P ELSE {})
    BY <2>1, <2>2
  <2>4. entry'[t] = IF t = s THEN r.entry ELSE entry[t]
    BY <1>1, <1>2 DEF Types
  <2>5. queue'[t] = IF t = s THEN q ELSE queue[t]
    BY <1>2, <1>5 DEF Types
  <2> QED
    BY <2>3, <2>4, <2>5
<1>12. Types'
  <2>1. ASSUME NEW t \in Sides PROVE SideOK(t, entry'[t], queue'[t], net'[t])
    <3>1. SideOK(t, entry[t], queue[t], net[t])
      BY <1>2, TypesIs
    <3>2. entry'[t] \in NoneOrOne(EntriesOf(t))
      BY <1>7, <1>11, <3>1 DEF SideOK, SentBy
    <3>3. queue'[t] \in Seq(ItemsOf(t))
      BY <1>6, <1>11, <3>1 DEF SideOK
    <3>4. BagToSet(net'[t]) \subseteq PdusTo(t)
      BY <1>9, <1>11, <3>1 DEF SideOK
    <3> QED
      BY <3>2, <3>3, <3>4 DEF SideOK
  <2> QED
    BY <1>1, <1>2, <2>1 DEF Types, SideOK
<1>13. NoGet => NoGet'
  <2> SUFFICES ASSUME NoGet, NEW t \in Sides PROVE SideNoGet(entry'[t], queue'[t], net'[t])
    BY DEF NoGet, SideNoGet, NoGetIn
  <2>1. SideNoGet(entry[t], queue[t], net[t]) /\ SideNoGet(entry[s], queue[s], net[s])
    BY NoGetIs
  <2>2. d.code # "get"
    BY <1>4, <2>1 DEF SideNoGet, NoGetIn
  <2>3. ~Gets(r.entry)
    BY <1>7, <2>1 DEF SideNoGet, SentBy, Gets
  <2>4. ~Gets(entry'[t])
    BY <1>11, <2>1, <2>3 DEF SideNoGet
  <2>5. NoGetIn(queue'[t])
    BY <1>6, <1>11, <2>1 DEF SideNoGet
  <2>6. \A p \in BagToSet(net'[t]) : p.code # "get"
    BY <1>9, <1>11, <2>1, <2>2 DEF SideNoGet
  <2> QED
    BY <2>4, <2>5, <2>6 DEF SideNoGet
<1>14. Asks(entry'["client"]) => Asks(entry["client"])
  <2>1. entry'["client"] = IF "client" = s THEN r.entry ELSE entry["client"]
    BY <1>11 DEF Sides
  <2>2. Asks(r.entry) => Asks(entry[s])
    BY <1>7 DEF SentBy, Asks
  <2> QED
    BY <2>1, <2>2
<1>15. Asks(entry["client"])' => NoGet'
  BY <1>13, <1>14 DEF BlockwiseInv, Asks
<1>16. started
  BY <1>2 DEF BlockwiseInv, Silent
<1> QED
  BY <1>2, <1>12, <1>15, <1>16 DEF BlockwiseInv, UploadWhole

LEMMA ReceiveInv ==
  ASSUME BlockwiseInv, NEW s \in Sides, Receive(s) PROVE BlockwiseInv'
<1>1. PICK p \in BagToSet(net[s]) :
        /\ echoes' = echoes + (IF Echoed(p) THEN 1 ELSE 0) /\ echoes' <= MaxEchoes
        /\ \/ net' = [net EXCEPT ![s] = @ (-) SetToBag({p})] /\ UNCHANGED dups
           \/ dups < MaxDups /\ dups' = dups + 1 /\ UNCHANGED net
        /\ \E r \in {CAReceiveBlockWiseData(p, entry[s])} :
               /\ entry' = [entry EXCEPT ![s] = r.entry]
               /\ queue' = [queue EXCEPT ![s] = @ \o r.items]
               /\ GiveUp(s, r.up)
        /\ UNCHANGED started
  BY DEF Receive
<1>2. PICK r : /\ r = CAReceiveBlockWiseData(p, entry[s])
               /\ entry' = [entry EXCEPT ![s] = r.entry]
               /\ queue' = [queue EXCEPT ![s] = @ \o r.items]
               /\ GiveUp(s, r.up)
  BY <1>1
<1>3. Types
  BY DEF BlockwiseInv
<1>4. /\ entry[s] \in NoneOrOne(EntriesOf(s)) /\ queue[s] \in Seq(ItemsOf(s))
      /\ p \in PdusTo(s)
  BY <1>1, <1>3 DEF Types
<1>5. s = "client" /\ Asks(entry[s]) => p.code # "get"
  BY <1>1 DEF BlockwiseInv, NoGet
<1>6. ReceivedAt(s, p, entry[s], r)
  BY <1>2, <1>4, <1>5, ReceiveFacts
<1>7. r.items \in Seq(ItemsOf(s)) /\ r.entry \in NoneOrOne(EntriesOf(s))
  BY <1>6 DEF ReceivedAt
<1>8. PICK q : q = queue[s] \o r.items
  OBVIOUS
<1>9. q \in Seq(ItemsOf(s))
  BY <1>4, <1>7, <1>8
<1>10. NoGetIn(queue[s]) /\ NoGetIn(r.items) => NoGetIn(q)
  BY <1>4, <1>7, <1>8, ConcatNoGet
<1>11. ASSUME NEW t \in Sides
       PROVE  /\ entry'[t] = IF t = s THEN r.entry ELSE entry[t]
              /\ queue'[t] = IF t = s THEN q ELSE queue[t]
              /\ BagToSet(net'[t]) \subseteq BagToSet(net[t])
  <2>1. BagToSet(net[s] (-) SetToBag({p})) \subseteq BagToSet(net[s])
    BY BagTake
  <2>2. BagToSet(net'[t]) \subseteq BagToSet(net[t])
    <3>1. CASE net' = [net EXCEPT ![s] = @ (-) SetToBag({p})]
      <4>1. net'[t] = IF t = s THEN net[s] (-) SetToBag({p}) ELSE net[t]
        BY <1>3, <3>1 DEF Types
      <4> QED
        BY <2>1, <4>1
    <3>2. CASE net' = net
      BY <3>2
    <3> QED
      BY <1>1, <3>1, <3>2
  <2>3. entry'[t] = IF t = s THEN r.entry ELSE entry[t]
    BY <1>2, <1>3 DEF Types
  <2>4. queue'[t] = IF t = s THEN q ELSE queue[t]
    BY <1>2, <1>3, <1>8 DEF Types
  <2> QED
    BY <2>2, <2>3, <2>4
<1>12. Types'
  <2>1. ASSUME NEW t \in Sides PROVE SideOK(t, entry'[t], queue'[t], net'[t])
    <3>1. SideOK(t, entry[t], queue[t], net[t])
      BY <1>3, TypesIs
    <3> QED
      BY <1>7, <1>9, <1>11, <3>1 DEF SideOK
  <2>2. DOMAIN net' = Sides
    BY <1>1, <1>3 DEF Types
  <2> QED
    BY <1>2, <1>3, <2>1, <2>2 DEF Types, SideOK
<1>13. Asks(entry'["client"]) => Asks(entry["client"])
  <2>1. entry'["client"] = IF "client" = s THEN r.entry ELSE entry["client"]
    BY <1>11 DEF Sides
  <2>2. Asks(r.entry) => Asks(entry[s])
    BY <1>6 DEF ReceivedAt
  <2> QED
    BY <2>1, <2>2
<1>14. ASSUME Asks(entry'["client"]) PROVE NoGet'
  <2>1. NoGet /\ Asks(entry["client"])
    BY <1>13, <1>14 DEF BlockwiseInv
  <2> SUFFICES ASSUME NEW t \in Sides PROVE SideNoGet(entry'[t], queue'[t], net'[t])
    BY DEF NoGet, SideNoGet, NoGetIn
  <2>2. SideNoGet(entry[t], queue[t], net[t]) /\ SideNoGet(entry[s], queue[s], net[s])
    BY <2>1, NoGetIs
  <2>3. p.code # "get" /\ ~Gets(entry[s]) /\ (s = "client" => Asks(entry[s]))
    BY <1>1, <2>1, <2>2 DEF SideNoGet
  <2>4. NoNewGet(r)
    BY <1>6, <2>3 DEF ReceivedAt
  <2>5. ~Gets(entry'[t])
    BY <1>11, <2>2, <2>4 DEF SideNoGet, NoNewGet
  <2>6. NoGetIn(r.items)
    BY <2>4 DEF NoNewGet, NoGetIn
  <2>7. NoGetIn(queue'[t])
    BY <1>10, <1>11, <2>2, <2>6 DEF SideNoGet
  <2>8. \A x \in BagToSet(net'[t]) : x.code # "get"
    BY <1>11, <2>2 DEF SideNoGet
  <2> QED
    BY <2>5, <2>7, <2>8 DEF SideNoGet
<1>15. Asks(entry["client"])' => NoGet'
  BY <1>14 DEF Asks
<1>16. started /\ started'
  BY <1>1 DEF BlockwiseInv, Silent
<1>17. Upload # 2 => UploadWhole'
  <2> SUFFICES ASSUME Upload # 2, NEW d \in delivered', d.code = "request"
               PROVE  d.data = Whole(Upload)
    BY DEF UploadWhole
  <2>1. d \in delivered \/ (d \in ToSet(r.up) /\ s = "server")
    BY <1>2 DEF GiveUp
  <2>2. CASE d \in delivered
    BY <2>2 DEF BlockwiseInv, UploadWhole
  <2>3. CASE d \in ToSet(r.up) /\ s = "server"
    BY <1>6, <2>3 DEF ReceivedAt, UpOK, GoodUp
  <2> QED
    BY <2>1, <2>2, <2>3
<1>18. dups' \in 0..MaxDups /\ echoes' \in 0..MaxEchoes
  BY <1>1, Constants DEF BlockwiseInv
<1> QED
  BY <1>12, <1>15, <1>16, <1>17, <1>18 DEF BlockwiseInv

LEMMA TimeoutInv ==
  ASSUME BlockwiseInv, Timeout PROVE BlockwiseInv'
<1>1. /\ Types /\ UNCHANGED <<queue, net, started, delivered, dups, echoes>> /\ started
      /\ entry' = [entry EXCEPT !["client"] = <<>>]
  BY DEF BlockwiseInv, Timeout
<1>2. ASSUME NEW t \in Sides PROVE entry'[t] \in NoneOrOne(EntriesOf(t))
  BY <1>1 DEF Types, NoneOrOne
<1>3. Types'
  BY <1>1, <1>2 DEF Types
<1>4. entry'["client"] = <<>>
  BY <1>1 DEF Types, Sides
<1>5. ~Asks(entry["client"])'
  BY <1>4 DEF Asks
<1> QED
  BY <1>1, <1>3, <1>5 DEF BlockwiseInv, UploadWhole

LEMMA InvStep == BlockwiseInv /\ [Next]_vars => BlockwiseInv'
<1> SUFFICES ASSUME BlockwiseInv, [Next]_vars PROVE BlockwiseInv'
  OBVIOUS
<1>1. CASE SendRequest
  BY <1>1, SendRequestInv
<1>2. CASE SendResponse
  BY <1>2, SendResponseInv
<1>3. CASE SlowResponse
  BY <1>3, SlowResponseInv
<1>4. CASE Timeout
  BY <1>4, TimeoutInv
<1>5. ASSUME NEW s \in Sides, SendThread(s) PROVE BlockwiseInv'
  BY <1>5, SendThreadInv
<1>6. ASSUME NEW s \in Sides, Receive(s) PROVE BlockwiseInv'
  BY <1>6, ReceiveInv
<1>7. CASE UNCHANGED vars
  BY <1>7 DEF vars, BlockwiseInv, Types, NoGet, Silent, UploadWhole, Asks, Gets
<1> QED
  BY <1>1, <1>2, <1>3, <1>4, <1>5, <1>6, <1>7 DEF Next

-----------------------------------------------------------------------------
(* The theorems.                                                           *)

\* The entries, the queues and the network of CABlockwiseTransfer stay as
\* BlockwiseInv says.
THEOREM Invariance == Spec => []BlockwiseInv
  BY InvInit, InvStep, PTL DEF Spec

\* An end has at most one entry for the token in its block data list, every
\* message has one of the codes of the transfer, and the bounds are kept.
THEOREM TypeCorrect == Spec => []TypeOK
<1>1. BlockwiseInv => TypeOK
  <2> SUFFICES ASSUME BlockwiseInv PROVE TypeOK
    OBVIOUS
  <2>1. Types /\ dups \in 0..MaxDups /\ echoes \in 0..MaxEchoes
    BY DEF BlockwiseInv
  <2>2. ASSUME NEW s \in Sides PROVE Len(entry[s]) <= 1
    <3>1. PICK E : E = entry[s] /\ E \in NoneOrOne(EntriesOf(s))
      BY <2>1 DEF Types
    <3>2. CASE E = <<>>
      BY <3>1, <3>2, NoneYet
    <3>3. CASE E # <<>>
      <4>1. PICK e : E = <<e>>
        BY <3>1, <3>3 DEF NoneOrOne
      <4>2. Len(<<e>>) = 1
        OBVIOUS
      <4> QED
        BY <3>1, <4>1, <4>2
    <3> QED
      BY <3>2, <3>3
  <2>3. ASSUME NEW s \in Sides, NEW p \in BagToSet(net[s]) PROVE p.code \in Codes
    BY <2>1 DEF Types, PdusTo, Pdus
  <2> QED
    BY <2>1, <2>2, <2>3 DEF TypeOK
<1> QED
  BY <1>1, Invariance, PTL

\* CASetNextBlockOption1 and CASetNextBlockOption2 add blocks to what has been
\* received in order, without gaps and without repetitions, whatever the
\* network repeats, reorders or loses and however many blocks there are, except
\* in an entry the client made for a response that it did not wait for.
THEOREM ReceivedInOrder == Spec => []InOrder
<1>1. BlockwiseInv => InOrder
  <2> SUFFICES ASSUME BlockwiseInv, NEW s \in Sides, NEW e \in ToSet(entry[s]),
                      s = "server" \/ e.sent.code = "request"
               PROVE  e.got = Whole(Len(e.got))
    BY DEF InOrder
  <2>1. entry[s] \in NoneOrOne(EntriesOf(s))
    BY DEF BlockwiseInv, Types
  <2>2. e \in EntriesOf(s)
    <3>1. entry[s] # <<>>
      BY Nobody
    <3>2. PICK f \in EntriesOf(s) : entry[s] = <<f>>
      BY <2>1, <3>1 DEF NoneOrOne
    <3> QED
      BY <3>2, Nobody
  <2>3. CASE s = "server"
    BY <2>2, <2>3 DEF EntriesOf, EntryAt, Collecting
  <2>4. CASE s # "server"
    <3>1. s = "client" /\ Asking(e) /\ e \in Entries
      BY <2>2, <2>4, Sides2 DEF EntriesOf, EntryAt
    <3>2. PICK n \in Nat : n = e.block2.num
      BY <3>1, Fields
    <3>3. e.got = Whole(n) /\ Len(Whole(n)) = n
      BY <3>1, <3>2, WholeFacts DEF Asking
    <3> QED
      BY <3>3
  <2> QED
    BY <2>3, <2>4
<1> QED
  BY <1>1, Invariance, PTL

\* CAReceiveLastBlock gives the application of the server the whole payload of
\* the request, for every number of blocks but two.  (With exactly two, a last
\* block that comes again after the transfer has ended finds a new entry, whose
\* Block1 number is 0: CACheckBlockErrorType takes it for one received already.)
THEOREM UploadIsWhole ==
  ASSUME Upload # 2 PROVE Spec => []UploadWhole
<1>1. BlockwiseInv => UploadWhole
  BY DEF BlockwiseInv
<1> QED
  BY <1>1, Invariance, PTL

\* CAReceiveLastBlock gives the application of the client the whole payload of
\* the response as long as the client has the entry for its request in the
\* block data list, whatever the network repeats, reorders or loses.
THEOREM AnswerIsWhole == Spec => AskedWhole
<1>1. ASSUME BlockwiseInv, [Next]_vars, NEW a \in answers' \ answers,
             NEW e \in ToSet(entry["client"]), a.code = "content", e.sent.code = "request"
      PROVE  a.data = Whole(Download)
  <2>1. ~(UNCHANGED vars) /\ Next
    BY <1>1 DEF vars
  <2>2. PICK s \in Sides : SendThread(s) \/ Receive(s)
    <3>1. ~SendRequest /\ ~SendResponse /\ ~SlowResponse
      BY <1>1 DEF SendRequest, SendResponse, SlowResponse
    <3>2. ~Timeout
      BY <1>1 DEF Timeout, Answered
    <3> QED
      BY <2>1, <3>1, <3>2 DEF Next
  <2>3. ~SendThread(s)
    BY <1>1 DEF SendThread, Answered
  <2>4. PICK p \in BagToSet(net[s]) :
          \E r \in {CAReceiveBlockWiseData(p, entry[s])} : GiveUp(s, r.up)
    BY <2>2, <2>3 DEF Receive
  <2>11. PICK r : r = CAReceiveBlockWiseData(p, entry[s]) /\ GiveUp(s, r.up)
    BY <2>4
  <2>5. s = "client" /\ a \in ToSet(r.up)
    BY <1>1, <2>11 DEF GiveUp, Answered
  <2>6. Types
    BY <1>1 DEF BlockwiseInv
  <2>7. entry[s] \in NoneOrOne(EntriesOf(s)) /\ p \in PdusTo(s)
    BY <2>4, <2>6 DEF Types
  <2>8. Asks(entry[s])
    <3>1. entry[s] # <<>>
      BY <1>1, <2>5, Nobody
    <3>2. PICK f \in EntriesOf(s) : entry[s] = <<f>>
      BY <2>7, <3>1 DEF NoneOrOne
    <3>3. e = f
      BY <1>1, <2>5, <3>2, Nobody
    <3> QED
      BY <1>1, <3>1, <3>2, <3>3 DEF Asks
  <2>9. p.code # "get"
    BY <1>1, <2>4, <2>5, <2>8 DEF BlockwiseInv, NoGet
  <2>10. ReceivedAt(s, p, entry[s], r)
    BY <2>7, <2>9, <2>11, ReceiveFacts
  <2> QED
    BY <1>1, <2>5, <2>8, <2>10 DEF ReceivedAt, UpOK, GoodAnswer
<1>2. BlockwiseInv /\ [Next]_vars =>
        [\A a \in answers' \ answers : \A e \in ToSet(entry["client"]) :
             a.code = "content" /\ e.sent.code = "request" => a.data = Whole(Download)]_vars
  BY <1>1
<1> QED
  BY <1>2, Invariance, PTL DEF Spec, AskedWhole

=============================================================================
