------------------------- MODULE CABlockwiseTransfer -------------------------
(***************************************************************************)
(* Block-wise transfer (cablockwisetransfer.c) of one request of Upload    *)
(* blocks and its answer of Download blocks, between a client and a server *)
(* that run this stack.  Each keeps at most one entry for the token in its *)
(* block data list.  What is to be sent waits as a clone in the send       *)
(* queue; the block option and the part of the payload are chosen when the *)
(* send thread takes it, from the entry as it is by then.                  *)
(*                                                                         *)
(* Both ends use the default block size, so that sizes are not negotiated  *)
(* and 4.13 does not occur.  Requests are confirmable: the network may     *)
(* delay, reorder and lose messages and deliver them again, which is also  *)
(* what a retransmission does.  A message that is never delivered is lost. *)
(*                                                                         *)
(* A step is one message in the send thread or in the receive thread.  The *)
(* code guards the list with a mutex but uses the entry it found after it  *)
(* released it (CAGetBlockDataFromBlockDataList), so that the two threads  *)
(* of one end can also meet inside these steps; that is not modelled.      *)
(***************************************************************************)
EXTENDS Integers, Sequences, SequencesExt, FiniteSets, Bags

CONSTANTS Upload,     \* number of blocks of the request's payload
          Download,   \* number of blocks of the response's payload
          MaxDups,    \* bound: how often the network repeats a message
          MaxEchoes   \* bound: how often a GET of block 0 is sent back

ASSUME BlockwiseAssumption ==
    /\ Upload \in Nat \ {0} /\ Download \in Nat \ {0}
    /\ MaxDups \in Nat /\ MaxEchoes \in Nat

Sides == {"client", "server"}
Other(s) == IF s = "client" THEN "server" ELSE "client"
Codes == {"request", "get", "empty", "continue", "content", "incomplete"}
IsRequest(code) == code \in {"request", "get"}
Whole(n) == [i \in 1..n |-> i - 1]

VARIABLES entry,     \* entry[s]: dataList for the token, <<>> or one CABlockData_t
          queue,     \* queue[s]: clones in the send queue
          net,       \* net[s]: bag of messages on their way to s
          started,   \* the application of the client has sent its request
          delivered, \* requests given to the application of the server
          pending,   \* how many of them it has not answered
          slow,      \* it has been slow with its answer
          answers,   \* what the application of the client was given: {} or one
          dups,      \* messages repeated so far
          echoes,    \* GETs of block 0 sent back so far
          timeout    \* the client has given up

vars == <<entry, queue, net, started, delivered, pending, slow, answers, dups,
          echoes, timeout>>

(* sentData: what is sent again and again, a block at a time.              *)
Data(code, size) == [code |-> code, size |-> size]
Block(num, m) == [num |-> num, m |-> m]
\* CACreateNewBlockData.  payload is got, payloadLength is total.
NewEntry(sent) ==
    [type |-> 0, block1 |-> Block(0, FALSE), block2 |-> Block(0, FALSE),
     sent |-> sent, got |-> <<>>, total |-> 0]

\* A message.  The size option comes with the first block of a payload.
Pdu(code, b1, b2, data, size) ==
    [code |-> code, b1 |-> b1, b2 |-> b2, data |-> data, size |-> size]

-----------------------------------------------------------------------------
(* The send thread: CAAddBlockOption.  What is sent, if anything, and the  *)
(* entry after it.                                                         *)

Sent(pdus, e) == [pdus |-> pdus, entry |-> e]
SizeOption(num, size) == IF num = 0 THEN size ELSE 0

\* Mutant: the last block is announced as one more to come.
CAAddBlockOption1More(item, e) ==
    IF IsRequest(item.code)
    THEN LET b1 == Block(e.block1.num, e.block1.num < item.size)
         IN  Sent(IF b1.num >= item.size THEN <<>>
                  ELSE <<Pdu(item.code, <<b1>>, <<>>, <<b1.num>>,
                             SizeOption(b1.num, item.size))>>,
                  <<[e EXCEPT !.block1 = b1]>>)
    ELSE IF item.size > 1 THEN Sent(<<>>, <<e>>)
    ELSE Sent(<<Pdu(item.code, <<e.block1>>, <<>>, Whole(item.size), 0)>>,
              IF e.block1.m THEN <<e>> ELSE <<>>)

\* A response block; the entry goes with the last.  coap_add_block fails
\* when there is no such block.
Block2Response(item, e) ==
    LET b2 == Block(e.block2.num, e.block2.num + 1 < item.size)
        b1 == IF e.block1.num = 0 THEN <<>> ELSE <<e.block1>>
        f == [e EXCEPT !.block2 = b2, !.block1.num = 0]
    IN  IF b2.num >= item.size THEN Sent(<<>>, <<f>>)
        ELSE Sent(<<Pdu(item.code, b1, <<b2>>, <<b2.num>>,
                        SizeOption(b2.num, item.size))>>,
                  IF b2.m THEN <<f>> ELSE <<>>)

CAAddBlockOption2(item, e) ==
    IF IsRequest(item.code)
    THEN Sent(<<Pdu(item.code, <<>>, <<e.block2>>, <<>>, 0)>>, <<e>>)
    ELSE Block2Response(item, e)

\* A request block, or the response to one; the entry goes with the response
\* to the last.
CAAddBlockOption1(item, e) ==
    IF IsRequest(item.code)
    THEN LET b1 == Block(e.block1.num, e.block1.num + 1 < item.size)
         IN  Sent(IF b1.num >= item.size THEN <<>>
                  ELSE <<Pdu(item.code, <<b1>>, <<>>, <<b1.num>>,
                             SizeOption(b1.num, item.size))>>,
                  <<[e EXCEPT !.block1 = b1]>>)
    ELSE IF item.size > 1 THEN Sent(<<>>, <<e>>)
    ELSE Sent(<<Pdu(item.code, <<e.block1>>, <<>>, Whole(item.size), 0)>>,
              IF e.block1.m THEN <<e>> ELSE <<>>)

CAAddBlockOption(item, e) ==
    LET type == IF e = <<>> THEN 0 ELSE e[1].type
    IN  CASE item.code = "incomplete" ->
                 Sent(<<Pdu("incomplete", <<>>, <<>>, <<>>, 0)>>, e)
          [] item.code # "incomplete" /\ type = 2 -> CAAddBlockOption2(item, e[1])
          [] item.code # "incomplete" /\ type = 1 -> CAAddBlockOption1(item, e[1])
          [] OTHER ->
                 Sent(IF item.size > 1 THEN <<>>
                      ELSE <<Pdu(item.code, <<>>, <<>>, Whole(item.size), 0)>>, e)

-----------------------------------------------------------------------------
(* Reception: CAReceiveBlockWiseData.  The entry after it, what is added   *)
(* to the send queue and what goes to the application.                     *)

Done(e, items, up) == [entry |-> e, items |-> items, up |-> up, ok |-> TRUE]
Fail(e) == [entry |-> e, items |-> <<>>, up |-> <<>>, ok |-> FALSE]

\* CACreateNewDataSet: what the end that has no entry would send.
Created(p) == NewEntry(Data(IF IsRequest(p.code) THEN "empty" ELSE "get", 0))

\* CACheckTheExistOfBlockData
Existing(p, e, type) ==
    [(IF e = <<>> THEN Created(p) ELSE e[1]) EXCEPT !.type = type]

\* CASendBlockMessage: to a request, the stored response goes out as 2.31;
\* to a response, the stored request is sent for its next block.
CASendBlockMessage(p, e) ==
    LET f == IF IsRequest(p.code) /\ ~IsRequest(e.sent.code)
             THEN [e EXCEPT !.sent.code = "continue"] ELSE e
    IN  Done(<<f>>, <<f.sent>>, <<>>)

\* CASendErrorMessage with 4.08: start over.
SendIncomplete(e) ==
    Done(<<[e EXCEPT !.got = <<>>, !.total = 0, !.block1.num = 0, !.block2.num = 0]>>,
         <<Data("incomplete", 0)>>, <<>>)

\* CAReceiveLastBlock
ToApplication(p, e) ==
    <<[code |-> p.code, data |-> IF e.got = <<>> THEN p.data ELSE e.got]>>

\* CAIsPayloadLengthInPduWithBlockSizeOption
WithTotal(e, p) == IF p.size = 0 THEN e ELSE [e EXCEPT !.total = p.size]

\* CACheckBlockErrorType #3: the last block does not make up the total.
WrongTotal(b, e) == ~b.m /\ e.total # 0 /\ Len(e.got) + 1 # e.total

\* Mutant: a gap before the last block is not seen.
Block1StatusGap(b, e) ==
    IF Len(e.got) # b.num THEN "already"
    ELSE IF WrongTotal(b, e) THEN "incomplete" ELSE "unknown"

\* CACheckBlockErrorType for Block1 counts the bytes received so far.
Block1Status(b, e) ==
    IF Len(e.got) # b.num
    THEN IF b.num > e.block1.num + 1 THEN "incomplete" ELSE "already"
    ELSE IF WrongTotal(b, e) THEN "incomplete" ELSE "unknown"

\* Mutant: the number of a response block is not compared.
Block2StatusAny(b, e) == IF WrongTotal(b, e) THEN "incomplete" ELSE "unknown"

\* ... and for Block2 compares with the block that was asked for.
Block2Status(b, e) ==
    IF b.num # e.block2.num
    THEN IF b.num > e.block2.num THEN "incomplete" ELSE "already"
    ELSE IF WrongTotal(b, e) THEN "incomplete" ELSE "unknown"

\* CASetNextBlockOption1 for a request.
Option1Request(p, b, e) ==
    LET status == Block1Status(b, e)
        f == CASE status = "already" -> e
               [] status = "incomplete" -> [e EXCEPT !.block1 = b]
               [] status = "unknown" -> [e EXCEPT !.block1 = b, !.got = @ \o p.data]
    IN  CASE status = "incomplete" -> SendIncomplete(f)
          [] status # "incomplete" /\ ~b.m -> Done(<<f>>, <<>>, ToApplication(p, f))
          [] status # "incomplete" /\ b.m -> CASendBlockMessage(p, f)

\* CASetNextBlockOption1 for a response: 4.08 restarts with block 0.
Option1Response(p, b, e) ==
    IF ~b.m /\ p.code # "incomplete"
    THEN IF p.b2 # <<>> THEN Done(<<[e EXCEPT !.block1.num = 0]>>, <<>>, <<>>)
         ELSE Done(<<>>, <<>>, ToApplication(p, e))
    ELSE IF p.code = "incomplete"
    THEN CASendBlockMessage(p, [e EXCEPT !.block1 = Block(0, b.m)])
    ELSE IF e.block1.num > b.num THEN Fail(<<e>>)
    ELSE CASendBlockMessage(p, [e EXCEPT !.block1 = Block(b.num + 1, b.m)])

CASetNextBlockOption1(p, b, entries) ==
    LET e == Existing(p, entries, 1)
    IN  IF IsRequest(p.code) THEN Option1Request(p, b, WithTotal(e, p))
        ELSE Option1Response(p, b, e)

\* CASetNextBlockOption2 for a response.  A block older than the one asked for
\* ends the transfer: CAUpdateBlockOptionItems refuses its number.
Option2Response(p, b, e) ==
    LET status == IF p.code = "incomplete" THEN "unknown" ELSE Block2Status(b, e)
        f == IF status = "unknown" THEN [e EXCEPT !.got = @ \o p.data] ELSE e
        next == IF p.code = "incomplete" THEN Block(0, b.m) ELSE Block(b.num + 1, FALSE)
    IN  CASE ~b.m /\ status = "unknown" -> Done(<<>>, <<>>, ToApplication(p, f))
          [] status = "incomplete" -> SendIncomplete([f EXCEPT !.block2 = b])
          [] status = "already" -> Fail(<<>>)
          [] OTHER -> CASendBlockMessage(p, [f EXCEPT !.block2 = next])

\* CASetNextBlockOption2 for a request.  A GET of the first block is not given
\* to the application: it is put into the send queue itself.
Echoed(p) == p.code = "get" /\ p.b2 = <<Block(0, FALSE)>>

Option2Request(p, b, e) ==
    Done(<<[e EXCEPT !.block2 = Block(b.num, FALSE)]>>,
         IF Echoed(p) THEN <<Data("get", 0)>>
         ELSE IF IsRequest(e.sent.code) THEN <<>> ELSE <<e.sent>>, <<>>)

CASetNextBlockOption2(p, b, entries) ==
    LET e == Existing(p, entries, 2)
    IN  IF IsRequest(p.code) THEN Option2Request(p, b, e)
        ELSE Option2Response(p, b, WithTotal(e, p))

\* An acknowledgement without response: the entry stays only if blocks are
\* left to be sent or received.
ReceiveEmpty(entries) ==
    IF entries # <<>> /\ (entries[1].block1.m \/ entries[1].block2.m)
    THEN Done(entries, <<>>, <<>>) ELSE Done(<<>>, <<>>, <<>>)

\* 4.08 carries no block option: that of the entry is used.
ReceiveIncomplete(p, entries) ==
    IF entries = <<>> \/ (entries # <<>> /\ entries[1].type = 0) THEN Fail(entries)
    ELSE IF entries[1].type = 2 THEN CASetNextBlockOption2(p, entries[1].block2, entries)
    ELSE CASetNextBlockOption1(p, entries[1].block1, entries)

ReceivePlain(p, entries) ==
    Done(IF IsRequest(p.code) THEN entries ELSE <<>>, <<>>,
         <<[code |-> p.code, data |-> p.data]>>)

\* A message with both options goes through both steps.
ReceiveBlocks(p, entries) ==
    LET r1 == CASetNextBlockOption1(p, p.b1[1], entries)
        r2 == CASetNextBlockOption2(p, p.b2[1], r1.entry)
    IN  IF p.b1 = <<>> THEN CASetNextBlockOption2(p, p.b2[1], entries)
        ELSE IF p.b2 = <<>> \/ ~r1.ok THEN r1
        ELSE [r2 EXCEPT !.items = r1.items \o @, !.up = r1.up \o @]

CAReceiveBlockWiseData(p, entries) ==
    IF p.code = "empty" THEN ReceiveEmpty(entries)
    ELSE IF p.b1 # <<>> \/ p.b2 # <<>> THEN ReceiveBlocks(p, entries)
    ELSE IF p.code = "incomplete" THEN ReceiveIncomplete(p, entries)
    ELSE ReceivePlain(p, entries)

-----------------------------------------------------------------------------
(* Actions.                                                                *)

TypeOK ==
    /\ \A s \in Sides : Len(entry[s]) <= 1
    /\ \A s \in Sides : \A p \in BagToSet(net[s]) :
           p.code \in Codes
    /\ dups \in 0..MaxDups /\ echoes \in 0..MaxEchoes

Init ==
    /\ entry = [s \in Sides |-> <<>>] /\ queue = [s \in Sides |-> <<>>]
    /\ net = [s \in Sides |-> EmptyBag]
    /\ started = FALSE /\ delivered = {} /\ pending = 0 /\ slow = FALSE
    /\ answers = {} /\ dups = 0 /\ echoes = 0 /\ timeout = FALSE

\* CASendBlockWiseData: the entry that what is to be sent gets or has, by the
\* rule that a payload of more than one block makes a transfer.
Enter(d, entries) ==
    LET type == IF d.size = 1 THEN 0 ELSE IF IsRequest(d.code) THEN 1 ELSE 2
        e == IF entries = <<>> THEN NewEntry(d) ELSE [entries[1] EXCEPT !.sent = d]
    IN  IF entries = <<>> /\ type = 0 /\ ~IsRequest(d.code) THEN <<>>
        ELSE <<[e EXCEPT !.type = IF type = 0 THEN @ ELSE type]>>

\* The application of the client sends its request.
SendRequest ==
    /\ ~started /\ started' = TRUE
    /\ \E d \in {Data("request", Upload)} :
           /\ entry' = [entry EXCEPT !["client"] = Enter(d, <<>>)]
           /\ queue' = [queue EXCEPT !["client"] = Append(@, d)]
    /\ UNCHANGED <<net, delivered, pending, slow, answers, dups, echoes, timeout>>

\* The application of the server answers a request it was given.
SendResponse ==
    /\ pending > 0 /\ pending' = pending - 1
    /\ \E d \in {Data("content", Download)} :
           /\ entry' = [entry EXCEPT !["server"] = Enter(d, @)]
           /\ queue' = [queue EXCEPT !["server"] = Append(@, d)]
    /\ UNCHANGED <<net, started, delivered, slow, answers, dups, echoes, timeout>>

\* ... or is slow, and the stack acknowledges the request.
SlowResponse ==
    /\ pending > 0 /\ ~slow /\ slow' = TRUE
    /\ net' = [net EXCEPT !["client"] = @ (+)
                  SetToBag({Pdu("empty", <<>>, <<>>, <<>>, 0)})]
    /\ UNCHANGED <<entry, queue, started, delivered, pending, answers, dups, echoes,
                   timeout>>

\* OCHandleResponse: a 4.08 is not given to the application and leaves the
\* callback for the request; the first other answer takes it away.
Answering(u) == ~IsRequest(u.code) /\ u.code # "incomplete"
Answered(as) == IF answers = {} THEN as ELSE answers

\* The send thread of s: CASendUnicast.  A failure is reported to the client's
\* application.
SendThread(s) ==
    /\ queue[s] # <<>>
    /\ queue' = [queue EXCEPT ![s] = Tail(@)]
    /\ \E r \in {CAAddBlockOption(Head(queue[s]), entry[s])} :
           /\ entry' = [entry EXCEPT ![s] = r.entry]
           /\ net' = [net EXCEPT ![Other(s)] = @ (+) SetToBag(ToSet(r.pdus))]
           /\ answers' = IF s = "client" /\ r.pdus = <<>>
                         THEN Answered({[code |-> "failed", data |-> <<>>]})
                         ELSE answers
    /\ UNCHANGED <<started, delivered, pending, slow, dups, echoes, timeout>>

\* The receive thread: requests for the application of the server, responses
\* for that of the client.
GiveUp(s, up) ==
    LET requests == {u \in ToSet(up) : s = "server" /\ IsRequest(u.code)}
        responses == {u \in ToSet(up) : s = "client" /\ Answering(u)}
    IN  /\ delivered' = delivered \cup requests
        /\ pending' = pending + Cardinality(requests)
        /\ answers' = Answered(responses)

\* CAReceivedPacketCallback at s.  The network may keep the message and
\* deliver it once more.
Receive(s) ==
    \E p \in BagToSet(net[s]) :
        /\ echoes' = echoes + (IF Echoed(p) THEN 1 ELSE 0)
        /\ echoes' <= MaxEchoes
        /\ \/ net' = [net EXCEPT ![s] = @ (-) SetToBag({p})] /\ UNCHANGED dups
           \/ dups < MaxDups /\ dups' = dups + 1 /\ UNCHANGED net
        /\ \E r \in {CAReceiveBlockWiseData(p, entry[s])} :
               /\ entry' = [entry EXCEPT ![s] = r.entry]
               /\ queue' = [queue EXCEPT ![s] = @ \o r.items]
               /\ GiveUp(s, r.up)
        /\ UNCHANGED <<started, slow, timeout>>

\* CATimeoutCallback: no answer to the request or to one of its blocks.
Timeout ==
    /\ started /\ ~timeout /\ timeout' = TRUE
    /\ entry["client"] # <<>>
    /\ entry' = [entry EXCEPT !["client"] = <<>>]
    /\ answers' = Answered({[code |-> "timeout", data |-> <<>>]})
    /\ UNCHANGED <<queue, net, started, delivered, pending, slow, dups, echoes>>

Next ==
    \/ SendRequest \/ SendResponse \/ SlowResponse \/ Timeout
    \/ \E s \in Sides : SendThread(s) \/ Receive(s)

Spec == Init /\ [][Next]_vars

\* The send threads run, the network delivers and the applications act.
FairSpec ==
    /\ Spec
    /\ WF_vars(SendRequest) /\ WF_vars(SendResponse)
    /\ \A s \in Sides : WF_vars(SendThread(s)) /\ WF_vars(Receive(s))

-----------------------------------------------------------------------------
(* Properties.                                                             *)

\* "total block data have to notify to Application" (CAReceiveLastBlock): the
\* server's application is only ever given the whole payload of the request.
UploadWhole ==
    \A d \in delivered : d.code = "request" => d.data = Whole(Upload)

\* The client's application is only given the whole payload of the response if
\* the network repeats at most one message and the server is not slow.  (With an
\* empty acknowledgement, or with two repetitions, the client's entry goes too
\* early and the one CACreateNewDataSet makes for a response starts anywhere.)
DownloadWhole ==
    ~slow /\ dups <= 1 => \A a \in answers : a.code = "content" => a.data = Whole(Download)

\* As long as the client has the entry for its request, the response it gives
\* to the application is whole, however often messages are repeated and however
\* slow the server is.
AskedWhole ==
    [][\A a \in answers' \ answers : \A e \in ToSet(entry["client"]) :
           a.code = "content" /\ e.sent.code = "request" => a.data = Whole(Download)]_vars

\* What has been received is a beginning of what is sent, in order and without
\* repetitions, whatever arrives again or late, except in an entry the client
\* has made for a response that it did not wait for any more.
InOrder ==
    \A s \in Sides : \A e \in ToSet(entry[s]) :
        s = "server" \/ e.sent.code = "request" => e.got = Whole(Len(e.got))

\* If the network repeats nothing, is not too late and the server not slow, the
\* client's application is given the answer and no entry is left at either end.
Completes ==
    <>[](\/ dups > 0 \/ timeout \/ slow
         \/ /\ answers = {[code |-> "content", data |-> Whole(Download)]}
            /\ \A s \in Sides : entry[s] = <<>>)

=============================================================================
