---------------------------- MODULE CATCPFraming ----------------------------
(***************************************************************************)
(* Reassembly of CoAP messages from a TCP byte stream.  The peer's stack   *)
(* encodes a message (caprotocolmessage.c, libcoap's pdu.c), wraps it in   *)
(* TLS records on a secure connection, and writes it to the socket.  The   *)
(* receive thread (catcpserver.c) reads chunks whose sizes only TCP        *)
(* decides, and CATCPPacketReceivedCB (catcpadapter.c) cuts them into      *)
(* messages, one call of CAConstructCoAP per turn of its loop.             *)
(*                                                                         *)
(* g_mutexObjectList is held from recv() to the end of the loop, so the    *)
(* session is only closed between two reads.  Allocation failures are left *)
(* out.  A second connection to the same peer is a new session record.     *)
(***************************************************************************)
EXTENDS Integers, Sequences, SequencesExt

CONSTANTS Messages,     \* messages a peer may send: [token, code, body]
          MaxSent,      \* bound: messages sent over one connection
          MaxSessions,  \* bound: connections opened
          MaxFragment,  \* bytes of plaintext in a TLS record
          LengthBase    \* smallest length each form of the header can express

Byte == 0..255

Smaller(a, b) == IF a < b THEN a ELSE b

\* coap_transport_t: how many bytes of length field follow the first byte.
Transports == {"TCP", "TCP_8BIT", "TCP_16BIT", "TCP_32BIT"}

\* COAP_TCP_LENGTH_FIELD_*: 13, 269 and 65805 in pdu.h.  They are parameters
\* so that a model can use all four forms on short messages.
ASSUME LengthBaseAssumption ==
    /\ LengthBase \in [Transports -> Nat]
    /\ LengthBase["TCP"] = 0 /\ LengthBase["TCP_8BIT"] \in 1..13
    /\ LengthBase["TCP_8BIT"] < LengthBase["TCP_16BIT"]
    /\ LengthBase["TCP_16BIT"] <= LengthBase["TCP_8BIT"] + 256
    /\ LengthBase["TCP_16BIT"] < LengthBase["TCP_32BIT"]
    /\ LengthBase["TCP_32BIT"] <= LengthBase["TCP_16BIT"] + 65536

\* A record has a 16-bit length; TLS allows less.
ASSUME BoundAssumption ==
    /\ MaxSent \in Nat /\ MaxSessions \in Nat
    /\ MaxFragment \in Nat \ {0} /\ MaxFragment < 65536

\* Messages are shorter than the lengths that LengthFromHeader rounds.
MaxLength == 127 * 16777216

ASSUME MessageAssumption ==
    \A m \in Messages : /\ m.token \in Seq(Byte) /\ Len(m.token) <= 8
                        /\ m.code \in Byte /\ m.body \in Seq(Byte)
                        /\ Len(m.body) < MaxLength

VARIABLES connected,  \* the session is in g_sessionList
          secure,     \* CA_SECURE is set in the flags of its endpoint
          sessions,   \* connections opened so far
          wire,       \* bytes written by the peer and not read yet
          tlsdata,    \* svritem->tlsdata, tlsLen bytes of a TLS record
          sess,       \* the CoAP part of CATCPSessionInfo_t
          buffer,     \* what CATCPPacketReceivedCB still has to process
          sent,       \* messages (bytes) the peer sent on this connection
          delivered,  \* messages (bytes) given to g_networkPacketCallback
          tail        \* a read of this connection ended one byte into a message

vars == <<connected, secure, sessions, wire, tlsdata, sess, buffer, sent,
          delivered, tail>>

-----------------------------------------------------------------------------
(* The encoder.                                                            *)

COAP_MAX_HEADER_SIZE == 6
TLS_HEADER_SIZE == 5

\* coap_get_tcp_header_length_for_transport, without the token.
HeaderLengthForTransport ==
    [TCP |-> 2, TCP_8BIT |-> 3, TCP_16BIT |-> 4, TCP_32BIT |-> 6]

\* coap_get_tcp_header_type_from_size
HeaderTypeFromSize(size) ==
    CASE size < LengthBase.TCP_8BIT -> "TCP"
      [] LengthBase.TCP_8BIT <= size /\ size < LengthBase.TCP_16BIT -> "TCP_8BIT"
      [] LengthBase.TCP_16BIT <= size /\ size < LengthBase.TCP_32BIT -> "TCP_16BIT"
      [] OTHER -> "TCP_32BIT"

\* The header of a message with len bytes of options and payload: the length
\* nibble of coap_pdu_init2 and coap_add_length, the token length of
\* coap_add_token2, the extended length in network order, the code.
Header(len, tkl, code) ==
    LET t == HeaderTypeFromSize(len)
        n == len - LengthBase[t]
    IN  CASE t = "TCP"       -> <<16 * len + tkl, code>>
          [] t = "TCP_8BIT"  -> <<16 * 13 + tkl, n, code>>
          [] t = "TCP_16BIT" -> <<16 * 14 + tkl, n \div 256, n % 256, code>>
          [] t = "TCP_32BIT" -> <<16 * 15 + tkl, n \div 16777216,
                                  (n \div 65536) % 256, (n \div 256) % 256,
                                  n % 256, code>>

Encode(m) == Header(Len(m.body), Len(m.token), m.code) \o m.token \o m.body

\* A TLS record: content type 23, version 3.3, a 16-bit length, the fragment.
Record(fragment) ==
    <<23, 3, 3, Len(fragment) \div 256, Len(fragment) % 256>> \o fragment

\* The records the TLS library makes of one write, MaxFragment bytes at most
\* in each.  The cipher itself is left out.
Records(bytes) ==
    LET n == (Len(bytes) + MaxFragment - 1) \div MaxFragment
        last(i) == IF i = n THEN Len(bytes) ELSE i * MaxFragment
    IN  FlattenSeq([i \in 1..n |->
            Record(SubSeq(bytes, (i - 1) * MaxFragment + 1, last(i)))])

-----------------------------------------------------------------------------
(* The decoder.                                                            *)

\* coap_get_tcp_header_type_from_initbyte
HeaderType(b) ==
    CASE b \div 16 = 13 -> "TCP_8BIT"
      [] b \div 16 = 14 -> "TCP_16BIT"
      [] b \div 16 = 15 -> "TCP_32BIT"
      [] OTHER          -> "TCP"

\* coap_get_length_from_header.  A length of 2^31 or more, which only a session
\* that lost the boundaries reads, is rounded down to stay in TLC's integers;
\* no stream is as long.
LengthFromHeader(h) ==
    CASE HeaderType(h[1]) = "TCP" -> h[1] \div 16
      [] HeaderType(h[1]) = "TCP_8BIT" -> h[2] + LengthBase.TCP_8BIT
      [] HeaderType(h[1]) = "TCP_16BIT" -> h[2] * 256 + h[3] + LengthBase.TCP_16BIT
      [] OTHER -> Smaller(h[2], 126) * 16777216 + h[3] * 65536 + h[4] * 256 + h[5]
                  + LengthBase.TCP_32BIT

\* CAGetTotalLengthFromHeader
TotalLengthFromHeader(h) ==
    HeaderLengthForTransport[HeaderType(h[1])] + (h[1] % 16) + LengthFromHeader(h)

-----------------------------------------------------------------------------
(* The session record.  data = <<>> is the NULL pointer, len is Len(data), *)
(* cap is the size of the allocation data points to.                       *)

CACleanData == [data |-> <<>>, cap |-> 0, totalLen |-> 0]

\* memcpy of at most want bytes of in behind what the session has.
Copy(s, in, want) ==
    [s EXCEPT !.data = @ \o SubSeq(in, 1, Smaller(want, Len(in)))]

\* What is left of in after the session went from s to t.
Rest(in, s, t) == SubSeq(in, Len(t.data) - Len(s.data) + 1, Len(in))

\* The HEADER part of CAConstructCoAP: the call that completes the header
\* computes totalLen, zero until then, and reallocates.
FillHeader(s, in) ==
    LET hlen == HeaderLengthForTransport[HeaderType(s.data[1])]
        h    == Copy(s, in, hlen - Len(s.data))
        tot  == TotalLengthFromHeader(h.data)
    IN  IF Len(s.data) >= hlen THEN s
        ELSE IF Len(h.data) < hlen THEN h
        ELSE [h EXCEPT !.totalLen = tot, !.cap = tot]

\* Mutant of FillPayload: copies all there is.
FillPayloadGreedy(s, in) ==
    IF s.totalLen = 0 THEN s ELSE Copy(s, in, Len(in))

\* Mutant of FillPayload: one byte too few counts as a whole message.
FillPayloadShort(s, in) ==
    IF s.totalLen = 0 THEN s ELSE Copy(s, in, s.totalLen - Len(s.data) - 1)

\* The PAYLOAD part, reached once the header is complete.
FillPayload(s, in) ==
    IF s.totalLen = 0 THEN s ELSE Copy(s, in, s.totalLen - Len(s.data))

\* One call of CAConstructCoAP.  The return between the first byte and the
\* HEADER part leaves *data and *dataLength as the caller had them.
CAConstructCoAP(s, in) ==
    LET new == s.data = <<>>
        s1  == IF new THEN [s EXCEPT !.data = <<Head(in)>>,
                                     !.cap = COAP_MAX_HEADER_SIZE] ELSE s
        in1 == IF new THEN Tail(in) ELSE in
        s2  == FillHeader(s1, in1)
        s3  == FillPayload(s2, Rest(in1, s1, s2))
    IN  IF in1 = <<>> THEN [sess |-> s1, rest |-> in]
        ELSE [sess |-> s3, rest |-> Rest(in1, s1, s3)]

-----------------------------------------------------------------------------
TypeOK ==
    /\ connected \in BOOLEAN /\ secure \in BOOLEAN /\ tail \in BOOLEAN
    /\ sessions \in 0..MaxSessions
    /\ wire \in Seq(Byte) /\ tlsdata \in Seq(Byte) /\ buffer \in Seq(Byte)
    /\ sess \in [data : Seq(Byte), cap : Nat, totalLen : Nat]
    /\ sent \in Seq(Seq(Byte)) /\ delivered \in Seq(Seq(Byte))

Init ==
    /\ connected = FALSE /\ secure = FALSE /\ sessions = 0 /\ tail = FALSE
    /\ wire = <<>> /\ tlsdata = <<>> /\ buffer = <<>>
    /\ sess = CACleanData
    /\ sent = <<>> /\ delivered = <<>>

\* CAAcceptConnection: a session record of zeroes for a new connection on the
\* plain or on the secure port.
CAAcceptConnection ==
    /\ ~connected /\ sessions < MaxSessions
    /\ connected' = TRUE /\ sessions' = sessions + 1
    /\ secure' \in BOOLEAN
    /\ sent' = <<>> /\ delivered' = <<>> /\ tail' = FALSE
    /\ UNCHANGED <<wire, tlsdata, sess, buffer>>

\* The peer encodes a message and writes it to its socket.
PeerSends(m) ==
    /\ connected /\ Len(sent) < MaxSent
    /\ sent' = Append(sent, Encode(m))
    /\ wire' = wire \o (IF secure THEN Records(Encode(m)) ELSE Encode(m))
    /\ UNCHANGED <<connected, secure, sessions, tlsdata, sess, buffer, delivered, tail>>

\* CAReceiveMessage on a plain session: recv() returns any n bytes, and all of
\* them go to CATCPPacketReceivedCB.
ReceivePlain(n) ==
    /\ connected /\ ~secure /\ buffer = <<>>
    /\ n \in 1..Len(wire)
    /\ buffer' = SubSeq(wire, 1, n)
    /\ wire' = SubSeq(wire, n + 1, Len(wire))
    /\ UNCHANGED <<connected, secure, sessions, tlsdata, sess, sent, delivered, tail>>

\* How many bytes of the current TLS record CAReceiveMessage asks recv() for.
TlsLength == TLS_HEADER_SIZE + tlsdata[4] * 256 + tlsdata[5]

\* Mutant of NbRead: the record's length is taken without its header.
NbReadShort ==
    IF Len(tlsdata) < TLS_HEADER_SIZE THEN TLS_HEADER_SIZE - Len(tlsdata)
    ELSE TlsLength - TLS_HEADER_SIZE

NbRead ==
    IF Len(tlsdata) < TLS_HEADER_SIZE THEN TLS_HEADER_SIZE - Len(tlsdata)
    ELSE TlsLength - Len(tlsdata)

\* CAReceiveMessage on a secure session: a whole record is decrypted
\* (CAdecryptSsl, external) and its plaintext goes to CATCPPacketReceivedCB.
ReceiveTLS(n) ==
    /\ connected /\ secure /\ buffer = <<>>
    /\ n \in 1..Smaller(NbRead, Len(wire))
    /\ wire' = SubSeq(wire, n + 1, Len(wire))
    /\ LET got == tlsdata \o SubSeq(wire, 1, n)
       IN  IF Len(tlsdata) >= TLS_HEADER_SIZE /\ Len(got) = TlsLength
           THEN /\ tlsdata' = <<>>
                /\ buffer' = SubSeq(got, TLS_HEADER_SIZE + 1, Len(got))
           ELSE tlsdata' = got /\ UNCHANGED buffer
    /\ UNCHANGED <<connected, secure, sessions, sess, sent, delivered, tail>>

\* One turn of the loop of CATCPPacketReceivedCB: a complete message goes to
\* the upper layer and the session is cleaned.
CATCPPacketReceivedCB ==
    /\ buffer # <<>>
    /\ \E r \in {CAConstructCoAP(sess, buffer)} :
           /\ buffer' = r.rest
           /\ IF Len(r.sess.data) = r.sess.totalLen
              THEN sess' = CACleanData /\ delivered' = Append(delivered, r.sess.data)
              ELSE sess' = r.sess /\ UNCHANGED delivered
    /\ tail' = (tail \/ (sess.data = <<>> /\ Len(buffer) = 1))
    /\ UNCHANGED <<connected, secure, sessions, wire, tlsdata, sent>>

\* Mutant of CADisconnectTCPSession: the record keeps its partial message.
CADisconnectTCPSessionKeep ==
    /\ connected /\ buffer = <<>>
    /\ connected' = FALSE
    /\ wire' = <<>> /\ tlsdata' = <<>>
    /\ UNCHANGED <<secure, sessions, sess, buffer, sent, delivered, tail>>

\* The peer closes or fails, or the stack closes the session
\* (CASearchAndDeleteTCPSession): what is unread is lost with the record.
CADisconnectTCPSession ==
    /\ connected /\ buffer = <<>>
    /\ connected' = FALSE
    /\ wire' = <<>> /\ tlsdata' = <<>> /\ sess' = CACleanData
    /\ UNCHANGED <<secure, sessions, buffer, sent, delivered, tail>>

Receive == \E n \in 1..Len(wire) : ReceivePlain(n) \/ ReceiveTLS(n)

Next ==
    \/ CAAcceptConnection
    \/ \E m \in Messages : PeerSends(m)
    \/ Receive
    \/ CATCPPacketReceivedCB
    \/ CADisconnectTCPSession

Spec == Init /\ [][Next]_vars

\* The receive thread keeps running: select() reports a socket that has data
\* and the loop goes on while there are bytes.
FairSpec == Spec /\ WF_vars(Receive) /\ WF_vars(CATCPPacketReceivedCB)

-----------------------------------------------------------------------------
\* What the upper layer gets are the messages the peer sent, in order, each
\* whole, however TCP cut the stream and whatever an earlier connection left
\* behind (CATCPPacketReceivedCB) -- except on a connection where a plain
\* read ended one byte into a message.
Framed == ~tail => IsPrefix(delivered, sent)

\* The same without the exception, as the comment of CAConstructCoAP has it:
\* the bytes it copies are taken off the caller's buffer.
AlwaysFramed == IsPrefix(delivered, sent)

\* No message is held back: once all the bytes are read and the loop is done,
\* everything sent has been delivered and the session holds nothing.
NothingHeld ==
    (connected /\ wire = <<>> /\ buffer = <<>> /\ ~tail) =>
        delivered = sent /\ sess = CACleanData /\ tlsdata = <<>>

\* CAConstructCoAP never writes behind the allocation, also when the session
\* has lost the message boundaries.
WithinBuffer == Len(sess.data) <= sess.cap

\* The loop of CATCPPacketReceivedCB ends: with the mutex held, a turn that
\* takes nothing off the buffer is never repeated for ever.
LoopEnds == (buffer # <<>>) ~> (buffer = <<>>)

=============================================================================
