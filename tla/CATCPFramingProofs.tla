-------------------------- MODULE CATCPFramingProofs --------------------------
(***************************************************************************)
(* Theorems about CATCPFraming, for every set of messages, every fragment  *)
(* size and every way in which TCP cuts the stream.                        *)
(***************************************************************************)
EXTENDS CATCPFraming, SequenceTheorems, WellFoundedInduction, TLAPS

Bytes == Seq(Byte)

-----------------------------------------------------------------------------
(* Sequences.                                                              *)

(* Cutting a sequence and putting it together again.                       *)
LEMMA CutJoin ==
  ASSUME NEW S, NEW s \in Seq(S), NEW n \in 0 .. Len(s)
  PROVE  /\ SubSeq(s, 1, n) \in Seq(S) /\ Len(SubSeq(s, 1, n)) = n
         /\ SubSeq(s, n + 1, Len(s)) \in Seq(S)
         /\ Len(SubSeq(s, n + 1, Len(s))) = Len(s) - n
         /\ SubSeq(s, 1, n) \o SubSeq(s, n + 1, Len(s)) = s
         /\ \A i \in 1 .. n : SubSeq(s, 1, n)[i] = s[i]
<1>1. Len(s) \in Nat /\ n \in Nat /\ \A i \in 1 .. Len(s) : s[i] \in S
  BY LenProperties, ElementOfSeq
<1>2. /\ SubSeq(s, 1, n) \in Seq(S) /\ Len(SubSeq(s, 1, n)) = n
      /\ \A i \in 1 .. n : SubSeq(s, 1, n)[i] = s[i]
  BY <1>1
<1>3. /\ SubSeq(s, n + 1, Len(s)) \in Seq(S)
      /\ Len(SubSeq(s, n + 1, Len(s))) = Len(s) - n
  BY <1>1
<1>4. SubSeq(s, 1, n) \o SubSeq(s, n + 1, Len(s)) = SubSeq(s, 1, Len(s))
  <2>1. 1 \in 1 .. Len(s) + 1 /\ n \in 1 - 1 .. Len(s) /\ Len(s) \in n .. Len(s)
    BY <1>1
  <2> QED
    BY <2>1, ConcatAdjacentSubSeq
<1>5. SubSeq(s, 1, Len(s)) = s
  BY SubSeqFull
<1> QED
  BY <1>2, <1>3, <1>4, <1>5

(* Two ways to cut one sequence after the same number of elements.         *)
LEMMA SameCut ==
  ASSUME NEW S, NEW s \in Seq(S), NEW t \in Seq(S), NEW u \in Seq(S), NEW v \in Seq(S),
         s \o t = u \o v, Len(s) = Len(u)
  PROVE  s = u /\ t = v
<1>1. Len(s) \in Nat /\ Len(t) \in Nat /\ Len(v) \in Nat
  BY LenProperties
<1>2. \A i \in 1 .. Len(s) : s[i] = u[i]
  <2> TAKE i \in 1 .. Len(s)
  <2>1. (s \o t)[i] = s[i] /\ (u \o v)[i] = u[i]
    BY <1>1, ConcatProperties
  <2> QED
    BY <2>1
<1>3. s = u
  BY <1>2, SeqEqual
<1>4. Len(t) = Len(v)
  <2>1. Len(s \o t) = Len(s) + Len(t) /\ Len(u \o v) = Len(u) + Len(v)
    BY ConcatProperties
  <2> QED
    BY <1>1, <2>1
<1>5. \A i \in 1 .. Len(t) : t[i] = v[i]
  <2> TAKE i \in 1 .. Len(t)
  <2>1. (s \o t)[Len(s) + i] = t[i] /\ (s \o v)[Len(s) + i] = v[i]
    BY <1>1, <1>4, ConcatProperties
  <2> QED
    BY <1>3, <2>1
<1> QED
  BY <1>3, <1>4, <1>5, SeqEqual

LEMMA Assoc ==
  ASSUME NEW s \in Bytes, NEW t \in Bytes, NEW u \in Bytes
  PROVE  s \o (t \o u) = (s \o t) \o u
  BY ConcatAssociative DEF Bytes

LEMMA Joined ==
  ASSUME NEW s \in Bytes, NEW t \in Bytes
  PROVE  /\ s \o t \in Bytes /\ Len(s \o t) = Len(s) + Len(t)
         /\ \A i \in 1 .. Len(s) : (s \o t)[i] = s[i]
<1>1. Len(s) \in Nat /\ Len(t) \in Nat
  BY LenProperties DEF Bytes
<1> QED
  BY <1>1, ConcatProperties DEF Bytes

LEMMA Empty ==
  /\ <<>> \in Bytes /\ Len(<<>>) = 0
  /\ \A s \in Bytes : /\ s \o <<>> = s /\ <<>> \o s = s /\ Len(s) \in Nat
                      /\ (Len(s) = 0 <=> s = <<>>)
<1>1. <<>> \in Bytes /\ Len(<<>>) = 0
  BY EmptySeq DEF Bytes
<1>2. ASSUME NEW s \in Bytes
      PROVE  s \o <<>> = s /\ <<>> \o s = s /\ Len(s) \in Nat
  BY ConcatEmptySeq, LenProperties DEF Bytes
<1>3. ASSUME NEW s \in Bytes PROVE Len(s) = 0 <=> s = <<>>
  BY EmptySeq DEF Bytes
<1> QED
  BY <1>1, <1>2, <1>3

-----------------------------------------------------------------------------
(* The header.                                                             *)

Hlen(b) == HeaderLengthForTransport[HeaderType(b)]

LEMMA Bounds ==
  /\ MaxSessions \in Nat
  /\ MaxFragment \in Nat /\ MaxFragment >= 1 /\ MaxFragment < 65536
  BY BoundAssumption, SMT

LEMMA HlenValues ==
  ASSUME NEW b \in Byte
  PROVE  /\ HeaderType(b) = "TCP" => Hlen(b) = 2
         /\ HeaderType(b) = "TCP_8BIT" => Hlen(b) = 3
         /\ HeaderType(b) = "TCP_16BIT" => Hlen(b) = 4
         /\ HeaderType(b) = "TCP_32BIT" => Hlen(b) = 6
         /\ HeaderType(b) \in Transports
         /\ Hlen(b) \in {2, 3, 4, 6}
<1>1. HeaderType(b) \in Transports
  BY DEF HeaderType, Transports
<1> QED
  BY <1>1 DEF Hlen, HeaderLengthForTransport, Transports

LEMMA Bases ==
  /\ LengthBase["TCP"] = 0 /\ LengthBase["TCP_8BIT"] \in 1 .. 13
  /\ LengthBase["TCP_16BIT"] \in Nat /\ LengthBase["TCP_32BIT"] \in Nat
  /\ LengthBase["TCP_8BIT"] < LengthBase["TCP_16BIT"]
  /\ LengthBase["TCP_16BIT"] <= LengthBase["TCP_8BIT"] + 256
  /\ LengthBase["TCP_16BIT"] < LengthBase["TCP_32BIT"]
  /\ LengthBase["TCP_32BIT"] <= LengthBase["TCP_16BIT"] + 65536
  BY LengthBaseAssumption DEF Transports

(* The total length is that of the header at least, and depends on the     *)
(* header alone.                                                           *)
LEMMA ByteValues ==
  ASSUME NEW b \in Byte
  PROVE  b \in Nat /\ b \in 0 .. 255 /\ b % 16 \in Nat /\ b \div 16 \in Nat
  BY DEF Byte

LEMMA LengthValues ==
  ASSUME NEW h
  PROVE  /\ HeaderType(h[1]) = "TCP" => LengthFromHeader(h) = h[1] \div 16
         /\ HeaderType(h[1]) = "TCP_8BIT" =>
              LengthFromHeader(h) = h[2] + LengthBase["TCP_8BIT"]
         /\ HeaderType(h[1]) = "TCP_16BIT" =>
              LengthFromHeader(h) = h[2] * 256 + h[3] + LengthBase["TCP_16BIT"]
         /\ HeaderType(h[1]) = "TCP_32BIT" =>
              LengthFromHeader(h) = Smaller(h[2], 126) * 16777216 + h[3] * 65536
                                    + h[4] * 256 + h[5] + LengthBase["TCP_32BIT"]
  BY SMT DEF LengthFromHeader

LEMMA TotalType ==
  ASSUME NEW d \in Bytes, Len(d) >= 1, Len(d) >= Hlen(d[1])
  PROVE  TotalLengthFromHeader(d) \in Nat /\ TotalLengthFromHeader(d) >= Hlen(d[1])
<1>1. Len(d) \in Nat /\ \A i \in 1 .. Len(d) : d[i] \in Byte
  BY LenProperties, ElementOfSeq DEF Bytes
<1>2. d[1] \in Byte
  BY <1>1
<1>3. Hlen(d[1]) \in {2, 3, 4, 6}
  BY <1>2, HlenValues
<1>4. d[1] % 16 \in Nat /\ d[1] \div 16 \in Nat
  BY <1>2, ByteValues
<1>5. \A i \in 1 .. Len(d) : d[i] \in Nat
  BY <1>1, ByteValues
<1>6. LengthFromHeader(d) \in Nat
  <2>1. CASE HeaderType(d[1]) = "TCP"
    BY <1>4, <2>1, LengthValues, SMT
  <2>2. CASE HeaderType(d[1]) = "TCP_8BIT"
    <3>1. Hlen(d[1]) = 3
      BY <1>2, <2>2, HlenValues
    <3>2. d[2] \in Nat
      BY <1>1, <1>5, <3>1
    <3>3. LengthFromHeader(d) = d[2] + LengthBase["TCP_8BIT"]
      BY <2>2, LengthValues, SMT
    <3> QED
      <4> DEFINE b == LengthBase["TCP_8BIT"]
                 y == d[2]
      <4>1. b \in Nat /\ y \in Nat
        BY <3>2, Bases, SMTT(60)
      <4> HIDE DEF b, y
      <4>2. y + b \in Nat
        BY <4>1
      <4> QED
        BY <3>3, <4>2 DEF b, y
  <2>3. CASE HeaderType(d[1]) = "TCP_16BIT"
    <3>1. Hlen(d[1]) = 4
      BY <1>2, <2>3, HlenValues
    <3>2. d[2] \in Nat /\ d[3] \in Nat
      BY <1>1, <1>5, <3>1
    <3>3. LengthFromHeader(d) = d[2] * 256 + d[3] + LengthBase["TCP_16BIT"]
      BY <2>3, LengthValues, SMT
    <3> QED
      BY <3>2, <3>3, Bases, SMTT(60)
  <2>4. CASE HeaderType(d[1]) = "TCP_32BIT"
    <3>1. Hlen(d[1]) = 6
      BY <1>2, <2>4, HlenValues
    <3>2. d[2] \in Nat /\ d[3] \in Nat /\ d[4] \in Nat /\ d[5] \in Nat
      BY <1>1, <1>5, <3>1
    <3>3. LengthFromHeader(d) = Smaller(d[2], 126) * 16777216 + d[3] * 65536
                                + d[4] * 256 + d[5] + LengthBase["TCP_32BIT"]
      BY <2>4, LengthValues, SMT
    <3>4. Smaller(d[2], 126) \in Nat
      BY <3>2 DEF Smaller
    <3> QED
      <4> DEFINE b == LengthBase["TCP_32BIT"]
                 x == Smaller(d[2], 126)
                 y == d[3]
                 z == d[4]
                 w == d[5]
      <4>1. b \in Nat /\ x \in Nat /\ y \in Nat /\ z \in Nat /\ w \in Nat
        BY <3>2, <3>4, Bases, SMTT(60)
      <4> HIDE DEF b, x, y, z, w
      <4>2. x * 16777216 + y * 65536 + z * 256 + w + b \in Nat
        BY <4>1, SMT
      <4> QED
        BY <3>3, <4>2, SMT DEF b, x, y, z, w
  <2> QED
    BY <1>2, <2>1, <2>2, <2>3, <2>4, HlenValues DEF Transports
<1>7. TotalLengthFromHeader(d) = Hlen(d[1]) + (d[1] % 16) + LengthFromHeader(d)
  BY DEF TotalLengthFromHeader, Hlen
<1> QED
  BY <1>3, <1>4, <1>6, <1>7

LEMMA TotalOfHeader ==
  ASSUME NEW d \in Bytes, NEW e \in Bytes, Len(d) >= 1, Len(d) >= Hlen(d[1]),
         \A i \in 1 .. Hlen(d[1]) : e[i] = d[i]
  PROVE  TotalLengthFromHeader(e) = TotalLengthFromHeader(d) /\ e[1] = d[1]
<1>1. d[1] \in Byte
  BY ElementOfSeq, LenProperties DEF Bytes
<1>2. e[1] = d[1]
  BY <1>1, HlenValues
<1>3. LengthFromHeader(e) = LengthFromHeader(d)
  <2>1. CASE HeaderType(d[1]) = "TCP"
    BY <1>2, <2>1, SMT DEF LengthFromHeader
  <2>2. CASE HeaderType(d[1]) = "TCP_8BIT"
    <3>1. e[2] = d[2]
      BY <1>1, <2>2, HlenValues
    <3> QED
      BY <1>2, <2>2, <3>1, SMT DEF LengthFromHeader
  <2>3. CASE HeaderType(d[1]) = "TCP_16BIT"
    <3>1. e[2] = d[2] /\ e[3] = d[3]
      BY <1>1, <2>3, HlenValues
    <3> QED
      BY <1>2, <2>3, <3>1, SMT DEF LengthFromHeader
  <2>4. CASE HeaderType(d[1]) = "TCP_32BIT"
    <3>1. e[2] = d[2] /\ e[3] = d[3] /\ e[4] = d[4] /\ e[5] = d[5]
      BY <1>1, <2>4, HlenValues
    <3> QED
      BY <1>2, <2>4, <3>1, SMT DEF LengthFromHeader
  <2> QED
    BY <1>1, <2>1, <2>2, <2>3, <2>4, HlenValues DEF Transports
<1> QED
  BY <1>2, <1>3 DEF TotalLengthFromHeader

(* The first byte: length nibble and token length.                         *)
LEMMA FirstByte ==
  ASSUME NEW l \in 0 .. 15, NEW k \in 0 .. 8
  PROVE  /\ 16 * l + k \in Byte
         /\ (16 * l + k) \div 16 = l /\ (16 * l + k) % 16 = k
  BY DEF Byte

(* The length in network order.                                            *)
LEMMA FourBytes ==
  ASSUME NEW n \in Nat, n < MaxLength
  PROVE  /\ n \div 16777216 \in 0 .. 126 /\ (n \div 65536) % 256 \in 0 .. 255
         /\ (n \div 256) % 256 \in 0 .. 255 /\ n % 256 \in 0 .. 255
         /\ (n \div 16777216) * 16777216 + ((n \div 65536) % 256) * 65536
              + ((n \div 256) % 256) * 256 + (n % 256) = n
<1> DEFINE a == n \div 256
           b == a \div 256
           c == b \div 256
<1>1. a \in Nat /\ n = 256 * a + (n % 256) /\ n % 256 \in 0 .. 255
  OBVIOUS
<1>2. b \in Nat /\ a = 256 * b + (a % 256) /\ a % 256 \in 0 .. 255
  BY <1>1
<1>3. c \in Nat /\ b = 256 * c + (b % 256) /\ b % 256 \in 0 .. 255
  BY <1>2
<1>4. b = n \div 65536
  OBVIOUS
<1>5. c = n \div 16777216
  BY SMT
<1>6. c <= 126
  BY <1>5, SMT DEF MaxLength
<1> HIDE DEF a, b, c
<1>7. c * 16777216 + (b % 256) * 65536 + (a % 256) * 256 + (n % 256) = n
  BY <1>1, <1>2, <1>3, SMT
<1> QED
  BY <1>1, <1>2, <1>3, <1>4, <1>5, <1>6, <1>7, SMT DEF a

LEMMA TwoBytes ==
  ASSUME NEW n \in Nat, n < 65536
  PROVE  /\ n \div 256 \in 0 .. 255 /\ n % 256 \in 0 .. 255
         /\ (n \div 256) * 256 + (n % 256) = n
  OBVIOUS

LEMMA MaxLengthType == MaxLength \in Nat
  BY SMT DEF MaxLength

(* A header says how long it is, and how long its message.                 *)
LEMMA HeaderFacts ==
  ASSUME NEW len \in Nat, len < MaxLength, NEW k \in 0 .. 8, NEW code \in Byte,
         NEW h, h = Header(len, k, code)
  PROVE  /\ h \in Bytes /\ Len(h) >= 1 /\ Len(h) = Hlen(h[1])
         /\ TotalLengthFromHeader(h) = Len(h) + k + len
<1> DEFINE t == HeaderTypeFromSize(len)
           n == len - LengthBase[t]
<1>1. CASE len < LengthBase["TCP_8BIT"]
  <2>1. t = "TCP"
    BY <1>1, Bases DEF HeaderTypeFromSize
  <2>2. h = <<16 * len + k, code>>
    BY <2>1, SMT DEF Header
  <2>3. len \in 0 .. 12
    BY <1>1, Bases, SMTT(60)
  <2>4. h[1] = 16 * len + k /\ h[1] \in Byte /\ h[1] \div 16 = len /\ h[1] % 16 = k
    BY <2>2, <2>3, FirstByte
  <2>5. h \in Bytes /\ Len(h) = 2
    BY <2>2, <2>4 DEF Bytes
  <2>6. HeaderType(h[1]) = "TCP"
    BY <2>3, <2>4 DEF HeaderType
  <2>7. Hlen(h[1]) = 2
    BY <2>4, <2>6, HlenValues
  <2>8. LengthFromHeader(h) = len
    BY <2>4, <2>6, SMT DEF LengthFromHeader
  <2> QED
    BY <2>4, <2>5, <2>7, <2>8 DEF TotalLengthFromHeader, Hlen
<1>2. CASE LengthBase["TCP_8BIT"] <= len /\ len < LengthBase["TCP_16BIT"]
  <2>1. t = "TCP_8BIT"
    BY <1>2, Bases DEF HeaderTypeFromSize
  <2>2. h = <<16 * 13 + k, n, code>>
    BY <2>1, SMT DEF Header
  <2>3. n \in 0 .. 255 /\ n + LengthBase["TCP_8BIT"] = len
    BY <1>2, <2>1, Bases, SMTT(60)
  <2>4. h[1] = 16 * 13 + k /\ h[1] \in Byte /\ h[1] \div 16 = 13 /\ h[1] % 16 = k
        /\ h[2] = n
    BY <2>2, FirstByte
  <2> HIDE DEF n
  <2>5. h \in Bytes /\ Len(h) = 3
    BY <2>2, <2>3, <2>4 DEF Bytes, Byte
  <2>6. HeaderType(h[1]) = "TCP_8BIT"
    BY <2>4 DEF HeaderType
  <2>7. Hlen(h[1]) = 3
    BY <2>4, <2>6, HlenValues
  <2>8. LengthFromHeader(h) = len
    BY <2>3, <2>4, <2>6, SMT DEF LengthFromHeader
  <2> QED
    BY <2>4, <2>5, <2>7, <2>8 DEF TotalLengthFromHeader, Hlen
<1>3. CASE LengthBase["TCP_16BIT"] <= len /\ len < LengthBase["TCP_32BIT"]
  <2>1. t = "TCP_16BIT"
    BY <1>3, Bases DEF HeaderTypeFromSize
  <2>2. h = <<16 * 14 + k, n \div 256, n % 256, code>>
    BY <2>1, SMT DEF Header
  <2>3. n \in Nat /\ n < 65536 /\ n + LengthBase["TCP_16BIT"] = len
    <3> DEFINE a == LengthBase["TCP_16BIT"]
               b == LengthBase["TCP_32BIT"]
    <3>1. a \in Nat /\ b \in Nat /\ b <= a + 65536 /\ a <= len /\ len < b /\ n = len - a
      BY <1>3, <2>1, Bases, SMTT(60)
    <3> HIDE DEF a, b, n
    <3>2. n \in Nat /\ n < 65536 /\ n + a = len
      BY <3>1, SMT
    <3> QED
      BY <3>2, SMT DEF a
  <2>4. h[1] = 16 * 14 + k /\ h[1] \in Byte /\ h[1] \div 16 = 14 /\ h[1] % 16 = k
        /\ h[2] = n \div 256 /\ h[3] = n % 256
    BY <2>2, FirstByte
  <2> HIDE DEF n
  <2>5. h[2] \in Byte /\ h[3] \in Byte /\ h[2] * 256 + h[3] = n
    <3>1. n \div 256 \in 0 .. 255 /\ n % 256 \in 0 .. 255
          /\ (n \div 256) * 256 + (n % 256) = n
      BY <2>3, TwoBytes, SMT
    <3> QED
      BY <2>4, <3>1 DEF Byte
  <2>6. h \in Bytes /\ Len(h) = 4
    BY <2>2, <2>4, <2>5 DEF Bytes
  <2>7. HeaderType(h[1]) = "TCP_16BIT"
    BY <2>4 DEF HeaderType
  <2>8. Hlen(h[1]) = 4
    BY <2>4, <2>7, HlenValues
  <2>9. LengthFromHeader(h) = len
    BY <2>3, <2>5, <2>7, SMT DEF LengthFromHeader
  <2> QED
    BY <2>4, <2>6, <2>8, <2>9 DEF TotalLengthFromHeader, Hlen
<1>4. CASE LengthBase["TCP_32BIT"] <= len
  <2>1. t = "TCP_32BIT"
    BY <1>4, Bases DEF HeaderTypeFromSize
  <2>2. h = <<16 * 15 + k, n \div 16777216, (n \div 65536) % 256, (n \div 256) % 256,
              n % 256, code>>
    BY <2>1, SMT DEF Header
  <2>3. n \in Nat /\ n < MaxLength /\ n + LengthBase["TCP_32BIT"] = len
    <3> DEFINE b == LengthBase["TCP_32BIT"]
    <3>1. b \in Nat /\ b <= len /\ n = len - b
      BY <1>4, <2>1, Bases, SMTT(60)
    <3> HIDE DEF b, n
    <3>2. n \in Nat /\ n < MaxLength /\ n + b = len
      BY <3>1, MaxLengthType
    <3> QED
      BY <3>2 DEF b
  <2>4. h[1] = 16 * 15 + k /\ h[1] \in Byte /\ h[1] \div 16 = 15 /\ h[1] % 16 = k
    BY <2>2, FirstByte, SMT
  <2>5. /\ h[2] = n \div 16777216 /\ h[3] = (n \div 65536) % 256
        /\ h[4] = (n \div 256) % 256 /\ h[5] = n % 256 /\ h[6] = code /\ Len(h) = 6
    BY <2>2, SMT
  <2> HIDE DEF n
  <2>6. /\ h[2] \in Byte /\ h[3] \in Byte /\ h[4] \in Byte /\ h[5] \in Byte
        /\ Smaller(h[2], 126) = h[2]
        /\ h[2] * 16777216 + h[3] * 65536 + h[4] * 256 + h[5] = n
    <3>1. /\ n \div 16777216 \in 0 .. 126 /\ (n \div 65536) % 256 \in 0 .. 255
          /\ (n \div 256) % 256 \in 0 .. 255 /\ n % 256 \in 0 .. 255
          /\ (n \div 16777216) * 16777216 + ((n \div 65536) % 256) * 65536
               + ((n \div 256) % 256) * 256 + (n % 256) = n
      BY <2>3, FourBytes, SMT
    <3>2. /\ h[2] \in 0 .. 126 /\ h[3] \in 0 .. 255 /\ h[4] \in 0 .. 255
          /\ h[5] \in 0 .. 255
          /\ h[2] * 16777216 + h[3] * 65536 + h[4] * 256 + h[5] = n
      BY <2>5, <3>1, SMT
    <3>3. h[2] \in 0 .. 255 /\ Smaller(h[2], 126) = h[2]
      BY <3>2 DEF Smaller
    <3> QED
      BY <3>2, <3>3 DEF Byte
  <2>7. h \in Bytes
    <3>1. h = <<h[1], h[2], h[3], h[4], h[5], h[6]>>
      BY <2>2, SMT
    <3>2. <<h[1], h[2], h[3], h[4], h[5], h[6]>> \in Bytes
      BY <2>4, <2>5, <2>6 DEF Bytes
    <3> QED
      BY <3>1, <3>2
  <2>8. HeaderType(h[1]) = "TCP_32BIT"
    BY <2>4 DEF HeaderType
  <2>9. Hlen(h[1]) = 6
    BY <2>4, <2>8, HlenValues
  <2>10. LengthFromHeader(h) = len
    BY <2>3, <2>6, <2>8, SMT DEF LengthFromHeader
  <2> QED
    BY <2>4, <2>5, <2>7, <2>9, <2>10 DEF TotalLengthFromHeader, Hlen
<1>5. \/ len < LengthBase["TCP_8BIT"]
      \/ LengthBase["TCP_8BIT"] <= len /\ len < LengthBase["TCP_16BIT"]
      \/ LengthBase["TCP_16BIT"] <= len /\ len < LengthBase["TCP_32BIT"]
      \/ LengthBase["TCP_32BIT"] <= len
  BY Bases, SMTT(60)
<1> QED
  BY <1>1, <1>2, <1>3, <1>4, <1>5

(* A message is as long as its header says.                                *)
LEMMA EncodeFacts ==
  ASSUME NEW m \in Messages, NEW e, e = Encode(m)
  PROVE  /\ e \in Bytes /\ Len(e) >= 1 /\ Len(e) >= Hlen(e[1])
         /\ TotalLengthFromHeader(e) = Len(e)
<1> DEFINE h == Header(Len(m.body), Len(m.token), m.code)
<1>1. /\ m.token \in Bytes /\ m.body \in Bytes /\ m.code \in Byte
      /\ Len(m.body) \in Nat /\ Len(m.body) < MaxLength
      /\ Len(m.token) \in 0 .. 8
  <2>1. /\ m.token \in Bytes /\ m.body \in Bytes /\ m.code \in Byte
        /\ Len(m.token) <= 8 /\ Len(m.body) < MaxLength
    BY MessageAssumption, SMTT(60) DEF Bytes
  <2>2. Len(m.body) \in Nat /\ Len(m.token) \in Nat
    BY <2>1, LenProperties DEF Bytes
  <2>3. \A x \in Nat : x <= 8 => x \in 0 .. 8
    OBVIOUS
  <2> QED
    BY <2>1, <2>2, <2>3
<1>2. /\ h \in Bytes /\ Len(h) >= 1 /\ Len(h) = Hlen(h[1])
      /\ TotalLengthFromHeader(h) = Len(h) + Len(m.token) + Len(m.body)
  <2> DEFINE len == Len(m.body)
             k == Len(m.token)
             code == m.code
  <2>1. len \in Nat /\ len < MaxLength /\ k \in 0 .. 8 /\ code \in Byte
        /\ h = Header(len, k, code)
    BY <1>1
  <2> HIDE DEF len, k, code, h
  <2>2. /\ h \in Bytes /\ Len(h) >= 1 /\ Len(h) = Hlen(h[1])
        /\ TotalLengthFromHeader(h) = Len(h) + k + len
    BY <2>1, HeaderFacts
  <2> QED
    BY <2>2 DEF len, k
<1>3. e = (h \o m.token) \o m.body
  BY DEF Encode
<1> HIDE DEF h
<1>4. /\ h \o m.token \in Bytes /\ e \in Bytes
      /\ Len(e) = Len(h) + Len(m.token) + Len(m.body)
      /\ \A i \in 1 .. Len(h) : e[i] = h[i]
  <2>1. /\ h \o m.token \in Bytes /\ Len(h \o m.token) = Len(h) + Len(m.token)
        /\ \A i \in 1 .. Len(h) : (h \o m.token)[i] = h[i]
    BY <1>1, <1>2, ConcatProperties, LenProperties DEF Bytes
  <2>2. e \in Bytes /\ Len(e) = Len(h \o m.token) + Len(m.body)
    BY <1>1, <1>3, <2>1, ConcatProperties DEF Bytes
  <2>3. \A i \in 1 .. Len(h \o m.token) : e[i] = (h \o m.token)[i]
    <3> DEFINE x == h \o m.token
    <3>1. x \in Seq(Byte) /\ m.body \in Seq(Byte) /\ e = x \o m.body
      BY <1>1, <1>3, <2>1 DEF Bytes
    <3>2. Len(x) \in Nat /\ Len(m.body) \in Nat
      BY <3>1, LenProperties
    <3> HIDE DEF x
    <3>3. \A i \in 1 .. Len(x) + Len(m.body) :
            (x \o m.body)[i] = IF i <= Len(x) THEN x[i] ELSE m.body[i - Len(x)]
      BY <3>1, ConcatProperties
    <3>4. \A i \in 1 .. Len(x) : e[i] = x[i]
      BY <3>1, <3>2, <3>3
    <3> QED
      BY <3>4 DEF x
  <2>4. Len(h) \in Nat /\ Len(m.token) \in Nat /\ Len(m.body) \in Nat
    BY <1>1, <1>2, LenProperties DEF Bytes
  <2>5. \A i \in 1 .. Len(h) : e[i] = h[i]
    BY <2>1, <2>3, <2>4
  <2> QED
    BY <2>1, <2>2, <2>4, <2>5
<1>5. TotalLengthFromHeader(e) = TotalLengthFromHeader(h) /\ e[1] = h[1]
  BY <1>2, <1>4, TotalOfHeader
<1>6. Len(h) \in Nat
  BY <1>2, LenProperties DEF Bytes
<1> QED
  BY <1>1, <1>2, <1>4, <1>5, <1>6

-----------------------------------------------------------------------------
(* CAConstructCoAP.                                                        *)

Sessions == [data : Bytes, cap : Nat, totalLen : Nat]

(* A session that has begun a message: the allocation and totalLen are     *)
(* those of the header until it is complete, then those of the message.    *)
Filling(s) ==
  /\ Len(s.data) >= 1
  /\ Len(s.data) < Hlen(s.data[1]) => s.totalLen = 0 /\ s.cap = COAP_MAX_HEADER_SIZE
  /\ Len(s.data) >= Hlen(s.data[1]) => /\ s.totalLen = TotalLengthFromHeader(s.data)
                                       /\ s.cap = s.totalLen
                                       /\ Len(s.data) <= s.totalLen

(* The session between two turns of the loop.                              *)
Partial(s) == s = CACleanData \/ (Filling(s) /\ Len(s.data) # s.totalLen)

LEMMA RestIs ==
  ASSUME NEW in \in Bytes, NEW s \in Sessions, NEW t \in Sessions, NEW u \in Bytes,
         s.data \o in = t.data \o u, Len(s.data) <= Len(t.data)
  PROVE  Rest(in, s, t) = u
<1> DEFINE x == s.data
           y == t.data
           d == Len(y) - Len(x)
           a == SubSeq(in, 1, d)
           b == SubSeq(in, d + 1, Len(in))
<1>1. x \in Bytes /\ y \in Bytes
  BY DEF Sessions
<1>2. Rest(in, s, t) = b
  BY DEF Rest
<1>3. x \o in = y \o u /\ Len(x) <= Len(y)
  OBVIOUS
<1> HIDE DEF x, y
<1>4. Len(x) + Len(in) = Len(y) + Len(u) /\ Len(x) \in Nat /\ Len(y) \in Nat
      /\ Len(in) \in Nat /\ Len(u) \in Nat
  BY <1>1, <1>3, ConcatProperties, LenProperties DEF Bytes
<1>5. d \in 0 .. Len(in)
  BY <1>3, <1>4
<1>6. a \in Bytes /\ Len(a) = d /\ b \in Bytes /\ a \o b = in
  BY <1>5, CutJoin DEF Bytes
<1> HIDE DEF a, b
<1>7. (x \o a) \o b = y \o u /\ x \o a \in Bytes /\ Len(x \o a) = Len(x) + d
  <2>1. x \o (a \o b) = (x \o a) \o b
    BY <1>1, <1>6, Assoc, ZenonT(60)
  <2>2. x \o a \in Bytes /\ Len(x \o a) = Len(x) + Len(a)
    BY <1>1, <1>6, Joined
  <2> QED
    BY <1>3, <1>6, <2>1, <2>2
<1>8. Len(x \o a) = Len(y)
  BY <1>4, <1>7
<1>9. b = u
  BY <1>1, <1>6, <1>7, <1>8, SameCut DEF Bytes
<1> QED
  BY <1>2, <1>9

(* t is s with at most want bytes of in behind its own.                    *)
Copied(s, in, want, t) ==
  /\ t \in Sessions /\ t.cap = s.cap /\ t.totalLen = s.totalLen
  /\ Len(s.data) <= Len(t.data) /\ Len(t.data) <= Len(s.data) + want
  /\ Len(t.data) \in Nat
  /\ \A i \in 1 .. Len(s.data) : t.data[i] = s.data[i]
  /\ Rest(in, s, t) \in Bytes
  /\ s.data \o in = t.data \o Rest(in, s, t)
  /\ Len(t.data) < Len(s.data) + want => Rest(in, s, t) = <<>>

LEMMA CopyFacts ==
  ASSUME NEW s \in Sessions, NEW in \in Bytes, NEW want \in Nat,
         NEW t, t = Copy(s, in, want)
  PROVE  Copied(s, in, want, t)
<1> DEFINE n == Smaller(want, Len(in))
           a == SubSeq(in, 1, n)
           b == SubSeq(in, n + 1, Len(in))
           x == s.data
<1>1. x \in Bytes /\ Len(x) \in Nat /\ Len(in) \in Nat
  BY LenProperties DEF Sessions, Bytes
<1>2. n \in 0 .. Len(in) /\ n <= want /\ (n < want => n = Len(in))
  BY <1>1 DEF Smaller
<1>3. t = [s EXCEPT !.data = x \o a]
  BY DEF Copy
<1> HIDE DEF n
<1>4. a \in Bytes /\ Len(a) = n /\ b \in Bytes /\ a \o b = in /\ Len(b) = Len(in) - n
  BY <1>2, CutJoin DEF Bytes
<1> HIDE DEF a, b
<1>5. /\ x \o a \in Bytes /\ Len(x \o a) = Len(x) + n
      /\ \A i \in 1 .. Len(x) : (x \o a)[i] = x[i]
      /\ x \o in = (x \o a) \o b
  <2>1. x \o (a \o b) = (x \o a) \o b
    BY <1>1, <1>4, Assoc
  <2>2. /\ x \o a \in Bytes /\ Len(x \o a) = Len(x) + Len(a)
        /\ \A i \in 1 .. Len(x) : (x \o a)[i] = x[i]
    BY <1>1, <1>4, Joined
  <2> QED
    BY <1>4, <2>1, <2>2
<1>6. t \in Sessions /\ t.data = x \o a /\ t.cap = s.cap /\ t.totalLen = s.totalLen
  BY <1>3, <1>5 DEF Sessions
<1>7. Rest(in, s, t) = b
  <2>1. s.data \o in = t.data \o b /\ Len(s.data) <= Len(t.data)
    BY <1>1, <1>2, <1>5, <1>6
  <2> QED
    BY <1>4, <1>6, <2>1, RestIs
<1>8. n < want => b = <<>>
  BY <1>1, <1>2, <1>4, EmptySeq DEF Bytes
<1> QED
  BY <1>1, <1>2, <1>4, <1>5, <1>6, <1>7, <1>8 DEF Copied

(* What a call makes of s and in: a message that has begun, with nothing   *)
(* left unless it is complete.                                             *)
Built(s, in, t, rest) ==
  /\ t \in Sessions /\ Filling(t) /\ rest \in Bytes
  /\ s.data \o in = t.data \o rest
  /\ Len(t.data) # t.totalLen => rest = <<>>

(* The call once the session has a first byte.                             *)
LEMMA FillFacts ==
  ASSUME NEW s \in Sessions, Filling(s), Len(s.data) # s.totalLen, NEW in \in Bytes,
         NEW s2, s2 = FillHeader(s, in),
         NEW s3, s3 = FillPayload(s2, Rest(in, s, s2))
  PROVE  Built(s, in, s3, Rest(in, s, s3))
<1> DEFINE hlen == Hlen(s.data[1])
<1>1. /\ s.data \in Bytes /\ Len(s.data) \in Nat /\ Len(s.data) >= 1
      /\ s.data[1] \in Byte /\ hlen \in {2, 3, 4, 6}
  <2>1. s.data \in Bytes /\ Len(s.data) \in Nat /\ Len(s.data) >= 1
    BY LenProperties DEF Sessions, Filling, Bytes
  <2>2. s.data[1] \in Byte
    BY <2>1, ElementOfSeq DEF Bytes
  <2> QED
    BY <2>1, <2>2, HlenValues
<1> HIDE DEF hlen
<1>2. CASE Len(s.data) >= hlen
  <2>1. s2 = s
    BY <1>2 DEF FillHeader, Hlen, hlen
  <2>2. Rest(in, s, s2) = in
    <3>1. Len(s.data) <= Len(s.data)
      BY <1>1
    <3>2. Rest(in, s, s) = in
      BY <3>1, RestIs
    <3> QED
      BY <2>1, <3>2
  <2>3. /\ s.totalLen = TotalLengthFromHeader(s.data) /\ s.cap = s.totalLen
        /\ Len(s.data) <= s.totalLen /\ s.totalLen \in Nat
    BY <1>2 DEF Filling, hlen, Sessions
  <2>4. s.totalLen - Len(s.data) \in Nat /\ s.totalLen # 0
    BY <1>1, <2>3
  <2>5. s3 = Copy(s, in, s.totalLen - Len(s.data))
    BY <2>1, <2>2, <2>4 DEF FillPayload
  <2> DEFINE want == s.totalLen - Len(s.data)
  <2> HIDE DEF want
  <2>6. /\ s3 \in Sessions /\ s3.cap = s.cap /\ s3.totalLen = s.totalLen
        /\ Len(s.data) <= Len(s3.data) /\ Len(s3.data) <= Len(s.data) + want
        /\ Len(s3.data) \in Nat
        /\ \A i \in 1 .. Len(s.data) : s3.data[i] = s.data[i]
        /\ Rest(in, s, s3) \in Bytes
        /\ s.data \o in = s3.data \o Rest(in, s, s3)
        /\ Len(s3.data) < Len(s.data) + want => Rest(in, s, s3) = <<>>
    <3>1. want \in Nat /\ s3 = Copy(s, in, want)
      BY <2>4, <2>5 DEF want
    <3>2. Copied(s, in, want, s3)
      BY <3>1, CopyFacts
    <3> QED
      BY <3>2 DEF Copied
  <2>7. TotalLengthFromHeader(s3.data) = TotalLengthFromHeader(s.data)
        /\ s3.data[1] = s.data[1]
    <3>1. \A i \in 1 .. hlen : s3.data[i] = s.data[i]
      BY <1>1, <1>2, <2>6
    <3>2. s3.data \in Bytes
      BY <2>6 DEF Sessions
    <3> QED
      BY <1>1, <1>2, <3>1, <3>2, TotalOfHeader DEF hlen
  <2>8. Len(s3.data) >= hlen /\ Len(s3.data) <= s.totalLen
    BY <1>1, <1>2, <2>3, <2>6 DEF want
  <2>9. Filling(s3)
    BY <1>1, <2>3, <2>6, <2>7, <2>8 DEF Filling, hlen
  <2>10. Len(s3.data) # s3.totalLen => Len(s3.data) < Len(s.data) + want
    BY <1>1, <2>3, <2>6, <2>8 DEF want
  <2> QED
    BY <2>6, <2>9, <2>10 DEF Built
<1>3. CASE Len(s.data) < hlen
  <2> DEFINE want == hlen - Len(s.data)
             h == Copy(s, in, want)
             tot == TotalLengthFromHeader(h.data)
  <2>0. want \in Nat /\ Len(s.data) + want = hlen
    BY <1>1, <1>3
  <2>1. /\ h \in Sessions /\ h.cap = s.cap /\ h.totalLen = s.totalLen
        /\ Len(s.data) <= Len(h.data) /\ Len(h.data) <= hlen /\ Len(h.data) \in Nat
        /\ \A i \in 1 .. Len(s.data) : h.data[i] = s.data[i]
        /\ Rest(in, s, h) \in Bytes
        /\ s.data \o in = h.data \o Rest(in, s, h)
        /\ Len(h.data) < hlen => Rest(in, s, h) = <<>>
    <3> HIDE DEF want
    <3>0. h = Copy(s, in, want)
      OBVIOUS
    <3> HIDE DEF h
    <3>1. Copied(s, in, want, h)
      BY <2>0, <3>0, CopyFacts
    <3> QED
      BY <2>0, <3>1 DEF Copied
  <2>2. s.totalLen = 0 /\ s.cap = COAP_MAX_HEADER_SIZE
    BY <1>3 DEF Filling, hlen
  <2>3. s2 = IF Len(h.data) < hlen THEN h ELSE [h EXCEPT !.totalLen = tot, !.cap = tot]
    BY <1>1, <1>3 DEF FillHeader, Hlen, hlen
  <2>4. h.data[1] = s.data[1] /\ h.data \in Bytes
    BY <1>1, <2>1 DEF Sessions
  <2> HIDE DEF h
  <2>5. CASE Len(h.data) < hlen
    <3>1. s2 = h /\ s3 = h
      BY <2>1, <2>2, <2>3, <2>5 DEF FillPayload
    <3>2. Filling(h)
      BY <1>1, <2>1, <2>2, <2>4, <2>5 DEF Filling, hlen
    <3> QED
      BY <2>1, <2>5, <3>1, <3>2 DEF Built
  <2>6. CASE Len(h.data) = hlen
    <3> DEFINE in2 == Rest(in, s, s2)
    <3>1. tot \in Nat /\ tot >= hlen
      BY <1>1, <2>4, <2>6, TotalType DEF hlen
    <3> HIDE DEF tot
    <3>2. s2 \in Sessions /\ s2.data = h.data /\ s2.totalLen = tot /\ s2.cap = tot
      <4>1. s2 = [h EXCEPT !.totalLen = tot, !.cap = tot]
        BY <1>1, <2>3, <2>6
      <4>2. h \in Sessions
        BY <2>1
      <4> QED
        BY <3>1, <4>1, <4>2 DEF Sessions
    <3>3. in2 = Rest(in, s, h)
      BY <3>2 DEF Rest
    <3>4. s3 = Copy(s2, in2, tot - hlen)
      BY <1>1, <2>6, <3>1, <3>2 DEF FillPayload
    <3>5. in2 \in Bytes /\ tot - hlen \in Nat
      BY <1>1, <2>1, <3>1, <3>3
    <3> DEFINE more == tot - hlen
    <3> HIDE DEF in2, more
    <3>6. /\ s3 \in Sessions /\ s3.cap = s2.cap /\ s3.totalLen = s2.totalLen
          /\ Len(s2.data) <= Len(s3.data) /\ Len(s3.data) <= Len(s2.data) + more
          /\ Len(s3.data) \in Nat
          /\ \A i \in 1 .. Len(s2.data) : s3.data[i] = s2.data[i]
          /\ Rest(in2, s2, s3) \in Bytes
          /\ s2.data \o in2 = s3.data \o Rest(in2, s2, s3)
          /\ Len(s3.data) < Len(s2.data) + more => Rest(in2, s2, s3) = <<>>
      <4>1. more \in Nat /\ s3 = Copy(s2, in2, more)
        BY <3>4, <3>5 DEF more
      <4>2. Copied(s2, in2, more, s3)
        BY <3>2, <3>5, <4>1, CopyFacts
      <4> QED
        BY <4>2 DEF Copied
    <3>7. Rest(in, s, s3) = Rest(in2, s2, s3)
      <4>1. s.data \o in = s3.data \o Rest(in2, s2, s3)
        BY <2>1, <3>2, <3>3, <3>6
      <4>2. Len(s.data) <= Len(s3.data)
        BY <1>1, <2>1, <3>2, <3>6
      <4> DEFINE u == Rest(in2, s2, s3)
      <4>3. u \in Bytes /\ s3 \in Sessions /\ s.data \o in = s3.data \o u
        BY <3>6, <4>1
      <4> HIDE DEF u
      <4>4. Rest(in, s, s3) = u
        BY <4>2, <4>3, RestIs
      <4> QED
        BY <4>4 DEF u
    <3>8. TotalLengthFromHeader(s3.data) = tot /\ s3.data[1] = s.data[1]
      <4>1. \A i \in 1 .. hlen : s3.data[i] = h.data[i]
        BY <2>6, <3>2, <3>6
      <4>2. s3.data \in Bytes /\ Len(h.data) >= 1
        BY <1>1, <2>6, <3>6 DEF Sessions
      <4> QED
        BY <2>4, <2>6, <4>1, <4>2, TotalOfHeader DEF hlen, tot
    <3>9. Len(s3.data) >= hlen /\ Len(s3.data) <= tot /\ Len(s3.data) >= 1
      BY <1>1, <2>6, <3>1, <3>2, <3>6 DEF more
    <3>10. Filling(s3)
      BY <1>1, <3>2, <3>6, <3>8, <3>9 DEF Filling, hlen
    <3>11. Len(s3.data) # s3.totalLen => Len(s3.data) < Len(s2.data) + more
      BY <1>1, <2>6, <3>1, <3>2, <3>6, <3>9 DEF more
    <3>12. s.data \o in = s3.data \o Rest(in, s, s3)
      BY <2>1, <3>2, <3>3, <3>6, <3>7
    <3> QED
      BY <3>6, <3>7, <3>10, <3>11, <3>12 DEF Built
  <2>7. Len(h.data) < hlen \/ Len(h.data) = hlen
    BY <1>1, <2>1
  <2> QED
    BY <2>5, <2>6, <2>7
<1>4. Len(s.data) < hlen \/ Len(s.data) >= hlen
  BY <1>1
<1> QED
  BY <1>2, <1>3, <1>4

(* One call of CAConstructCoAP neither loses nor repeats a byte, and stops *)
(* before the end of the message only when there are no more bytes; except *)
(* when it is given the first byte of a message alone.                     *)
LEMMA ConstructFacts ==
  ASSUME NEW s \in Sessions, Partial(s), NEW in \in Bytes, in # <<>>,
         NEW r, r = CAConstructCoAP(s, in)
  PROVE  /\ r.sess \in Sessions /\ Filling(r.sess) /\ r.rest \in Bytes
         /\ ~(s.data = <<>> /\ Len(in) = 1) => Built(s, in, r.sess, r.rest)
<1>1. CASE s.data = <<>>
  <2> DEFINE s1 == [s EXCEPT !.data = <<Head(in)>>, !.cap = COAP_MAX_HEADER_SIZE]
             in1 == Tail(in)
             s2 == FillHeader(s1, in1)
             s3 == FillPayload(s2, Rest(in1, s1, s2))
  <2>1. Head(in) \in Byte /\ in1 \in Bytes /\ <<Head(in)>> \o in1 = in
        /\ Len(in) \in Nat /\ Len(in1) = Len(in) - 1
    BY HeadTailProperties, LenProperties DEF Bytes
  <2>2. s.totalLen = 0
    BY <1>1 DEF Partial, Filling, CACleanData
  <2>3. s1 \in Sessions /\ s1.data = <<Head(in)>> /\ s1.totalLen = 0
        /\ s1.cap = COAP_MAX_HEADER_SIZE
    <3>1. <<Head(in)>> \in Bytes
      BY <2>1 DEF Bytes
    <3>2. COAP_MAX_HEADER_SIZE \in Nat
      BY DEF COAP_MAX_HEADER_SIZE
    <3> QED
      BY <2>2, <3>1, <3>2 DEF Sessions
  <2>4. Filling(s1) /\ Len(s1.data) # s1.totalLen
    BY <2>1, <2>3, HlenValues DEF Filling
  <2>5. r = IF in1 = <<>> THEN [sess |-> s1, rest |-> in]
            ELSE [sess |-> s3, rest |-> Rest(in1, s1, s3)]
    BY <1>1 DEF CAConstructCoAP
  <2>6. in1 = <<>> <=> Len(in) = 1
    <3>1. in1 = <<>> <=> Len(in1) = 0
      BY <2>1, Empty
    <3> QED
      BY <2>1, <3>1
  <2>7. s.data \o in = s1.data \o in1
    BY <1>1, <2>1, <2>3, Empty
  <2> HIDE DEF s1, in1
  <2>8. CASE in1 = <<>>
    BY <1>1, <2>3, <2>4, <2>5, <2>6, <2>8
  <2>9. CASE in1 # <<>>
    <3>1. Built(s1, in1, s3, Rest(in1, s1, s3))
      BY <2>1, <2>3, <2>4, FillFacts
    <3> HIDE DEF s3
    <3> QED
      BY <2>5, <2>7, <2>9, <3>1 DEF Built
  <2> QED
    BY <2>8, <2>9
<1>2. CASE s.data # <<>>
  <2> DEFINE s2 == FillHeader(s, in)
             s3 == FillPayload(s2, Rest(in, s, s2))
  <2>1. Filling(s) /\ Len(s.data) # s.totalLen
    BY <1>2 DEF Partial, CACleanData
  <2>2. r = [sess |-> s3, rest |-> Rest(in, s, s3)]
    BY <1>2 DEF CAConstructCoAP
  <2>3. Built(s, in, s3, Rest(in, s, s3))
    BY <2>1, FillFacts
  <2> HIDE DEF s3
  <2> QED
    BY <2>2, <2>3 DEF Built
<1> QED
  BY <1>1, <1>2

-----------------------------------------------------------------------------
(* The stream.                                                             *)

(* h[i] is what follows the first i elements of q in their concatenation.  *)
Follows(q, h) ==
  /\ h \in [0 .. Len(q) -> Bytes]
  /\ h[Len(q)] = <<>>
  /\ \A i \in 1 .. Len(q) : h[i - 1] = q[i] \o h[i]

LEMMA FollowsAppend ==
  ASSUME NEW q \in Seq(Bytes), NEW h, Follows(q, h), NEW x \in Bytes
  PROVE  \E g : /\ Follows(Append(q, x), g)
                /\ \A i \in 0 .. Len(q) : g[i] = h[i] \o x
<1> DEFINE q1 == Append(q, x)
           n == Len(q)
           g == [i \in 0 .. n + 1 |-> IF i = n + 1 THEN <<>> ELSE h[i] \o x]
<1>1. /\ n \in Nat /\ q1 \in Seq(Bytes) /\ Len(q1) = n + 1
      /\ \A i \in 1 .. n : q1[i] = q[i] /\ q[i] \in Bytes
      /\ q1[n + 1] = x
  BY LenProperties, AppendProperties, ElementOfSeq
<1>2. /\ h \in [0 .. n -> Bytes] /\ h[n] = <<>>
      /\ \A i \in 1 .. n : h[i - 1] = q[i] \o h[i]
  BY DEF Follows
<1> HIDE DEF n
<1>3. <<>> \in Bytes
  BY EmptySeq DEF Bytes
<1>4. \A i \in 0 .. n : h[i] \o x \in Bytes
  BY <1>2, Joined
<1>5. g \in [0 .. n + 1 -> Bytes]
  BY <1>1, <1>3, <1>4
<1>6. g[n + 1] = <<>> /\ \A i \in 0 .. n : g[i] = h[i] \o x
  BY <1>1
<1>7. ASSUME NEW i \in 1 .. n + 1 PROVE g[i - 1] = q1[i] \o g[i]
  <2>1. CASE i = n + 1
    <3>0. i - 1 = n /\ n \in 0 .. n
      BY <1>1, <2>1
    <3>1. g[i - 1] = <<>> \o x
      <4>1. g[n] = h[n] \o x
        BY <1>6, <3>0
      <4> QED
        BY <1>2, <3>0, <4>1
    <3>2. q1[i] \o g[i] = x \o <<>>
      BY <1>1, <1>6, <2>1
    <3> QED
      BY <3>1, <3>2, Empty
  <2>2. CASE i # n + 1
    <3>1. i \in 1 .. n /\ i - 1 \in 0 .. n /\ i \in 0 .. n
      BY <1>1, <2>2
    <3>2. g[i - 1] = (q[i] \o h[i]) \o x
      BY <1>2, <1>6, <3>1
    <3>3. q1[i] \o g[i] = q[i] \o (h[i] \o x)
      BY <1>1, <1>6, <3>1
    <3>4. q[i] \in Bytes /\ h[i] \in Bytes
      BY <1>1, <1>2, <3>1
    <3> QED
      BY <3>2, <3>3, <3>4, Assoc
  <2> QED
    BY <2>1, <2>2
<1> HIDE DEF g
<1>8. Follows(q1, g)
  BY <1>1, <1>5, <1>6, <1>7 DEF Follows
<1> QED
  BY <1>6, <1>8 DEF n

-----------------------------------------------------------------------------
(* TLS records.                                                            *)

(* Induction over the natural numbers, for a set.                          *)
LEMMA Induction ==
  ASSUME NEW S, 0 \in S, \A n \in Nat : n \in S => n + 1 \in S
  PROVE  \A n \in Nat : n \in S
<1> DEFINE T == Nat \ S
           R == OpToRel(<, Nat)
<1> SUFFICES ASSUME T # {} PROVE FALSE
  OBVIOUS
<1>1. IsWellFoundedOn(R, Nat) /\ \A x, y \in Nat : y < x => <<y, x>> \in R
  BY NatLessThanWellFounded DEF OpToRel
<1> HIDE DEF R
<1>2. PICK x \in T : \A y \in T : ~ (<<y, x>> \in R)
  BY <1>1, WFMin
<1>3. x \in Nat /\ x \notin S /\ x # 0
  BY <1>2
<1>4. x - 1 \in Nat /\ x - 1 < x /\ (x - 1) + 1 = x
  BY <1>3
<1>5. x - 1 \in S
  BY <1>1, <1>2, <1>3, <1>4
<1> QED
  BY <1>3, <1>4, <1>5

(* f holds the concatenation of the first i elements of q, up to n.        *)
Joins(q, n, f) ==
  /\ f[1] = q[1]
  /\ \A i \in 2 .. n : f[i] = f[i - 1] \o q[i]

LEMMA JoinsExists == ASSUME NEW q PROVE \A n \in Nat : \E f : Joins(q, n, f)
<1> DEFINE S == {n \in Nat : \E f : Joins(q, n, f)}
<1>1. 0 \in S
  <2>1. Joins(q, 0, [i \in 1 .. 1 |-> q[1]])
    BY DEF Joins
  <2> QED
    BY <2>1
<1>2. ASSUME NEW n \in Nat, n \in S PROVE n + 1 \in S
  <2>1. PICK f : Joins(q, n, f)
    BY <1>2
  <2> DEFINE g == [i \in 1 .. n + 1 |->
                     IF i = n + 1 /\ n # 0 THEN f[n] \o q[n + 1] ELSE f[i]]
  <2>2. g[1] = q[1]
    BY <2>1 DEF Joins
  <2>3. ASSUME NEW i \in 2 .. n + 1 PROVE g[i] = g[i - 1] \o q[i]
    <3>1. CASE i = n + 1
      <4>1. n # 0 /\ i - 1 = n /\ n \in 1 .. n + 1 /\ n + 1 \in 1 .. n + 1 /\ n # n + 1
        BY <3>1
      <4>2. g[n + 1] = f[n] \o q[n + 1] /\ g[n] = f[n]
        BY <4>1
      <4> QED
        BY <3>1, <4>1, <4>2
    <3>2. CASE i # n + 1
      <4>1. i \in 2 .. n /\ i \in 1 .. n + 1 /\ i - 1 \in 1 .. n + 1 /\ i - 1 # n + 1
        BY <3>2
      <4>2. f[i] = f[i - 1] \o q[i]
        BY <2>1, <4>1 DEF Joins
      <4>3. g[i] = f[i] /\ g[i - 1] = f[i - 1]
        BY <3>2, <4>1
      <4> QED
        BY <4>2, <4>3
    <3> QED
      BY <3>1, <3>2
  <2> HIDE DEF g
  <2>4. Joins(q, n + 1, g)
    BY <2>2, <2>3 DEF Joins
  <2> QED
    BY <2>4
<1> HIDE DEF S
<1>3. \A n \in Nat : n \in S
  BY <1>1, <1>2, Induction
<1> QED
  BY <1>3 DEF S

(* What FlattenSeq computes.                                               *)
LEMMA FlattenFacts ==
  ASSUME NEW q, Len(q) \in Nat \ {0}
  PROVE  \E f : Joins(q, Len(q), f) /\ FlattenSeq(q) = f[Len(q)]
<1> DEFINE n == Len(q)
           D(f) == [i \in 1 .. n |-> IF i = 1 THEN q[i] ELSE f[i - 1] \o q[i]]
           F == CHOOSE f : f = D(f)
<1>1. PICK f : Joins(q, n, f)
  BY JoinsExists
<1> DEFINE g == [i \in 1 .. n |-> f[i]]
<1>2. g = D(g)
  <2>1. ASSUME NEW i \in 1 .. n PROVE g[i] = D(g)[i]
    <3>1. CASE i = 1
      BY <1>1, <3>1 DEF Joins
    <3>2. CASE i # 1
      <4>1. i \in 2 .. n /\ i - 1 \in 1 .. n
        BY <3>2
      <4>2. f[i] = f[i - 1] \o q[i]
        BY <1>1, <4>1 DEF Joins
      <4> QED
        BY <3>2, <4>1, <4>2
    <3> QED
      BY <3>1, <3>2
  <2> QED
    BY <2>1
<1>3. FlattenSeq(q) = F[n]
  BY DEF FlattenSeq
<1> HIDE DEF D
<1>4. F = D(F)
  BY <1>2
<1> HIDE DEF F
<1>5. Joins(q, n, F)
  <2>1. \A i \in 1 .. n : D(F)[i] = IF i = 1 THEN q[i] ELSE F[i - 1] \o q[i]
    BY DEF D
  <2>2. \A i \in 1 .. n : F[i] = IF i = 1 THEN q[i] ELSE F[i - 1] \o q[i]
    BY <1>4, <2>1
  <2>3. 1 \in 1 .. n /\ \A i \in 2 .. n : i \in 1 .. n /\ i # 1
    OBVIOUS
  <2> QED
    BY <2>2, <2>3 DEF Joins
<1> QED
  BY <1>3, <1>5

Fragments == {f \in Bytes : Len(f) \in 1 .. MaxFragment}

LEMMA RecordFacts ==
  ASSUME NEW x \in Fragments, NEW r, r = Record(x)
  PROVE  /\ x \in Bytes /\ Len(x) \in Nat /\ Len(x) >= 1
         /\ r \in Bytes /\ Len(r) = 5 + Len(x)
         /\ r[4] * 256 + r[5] = Len(x)
         /\ \E hdr \in Bytes : Len(hdr) = 5 /\ r = hdr \o x
<1> DEFINE l == Len(x)
           hdr == <<23, 3, 3, l \div 256, l % 256>>
<1>1. x \in Bytes /\ l \in 1 .. MaxFragment /\ MaxFragment \in Nat /\ MaxFragment < 65536
  <2>1. x \in Bytes /\ l \in 1 .. MaxFragment
    BY DEF Fragments
  <2>2. MaxFragment \in Nat /\ MaxFragment < 65536
    BY Bounds, SMT
  <2> QED
    BY <2>1, <2>2
<1>2. r = hdr \o x
  BY DEF Record
<1> HIDE DEF l
<1>3. l \in Nat /\ l >= 1 /\ l < 65536
  BY <1>1, SMT
<1>4. l \div 256 \in 0 .. 255 /\ l % 256 \in 0 .. 255 /\ (l \div 256) * 256 + (l % 256) = l
  BY <1>3, TwoBytes, SMT
<1>5. hdr \in Bytes /\ Len(hdr) = 5 /\ hdr[4] = l \div 256 /\ hdr[5] = l % 256
  <2>1. 23 \in Byte /\ 3 \in Byte /\ l \div 256 \in Byte /\ l % 256 \in Byte
    BY <1>4 DEF Byte
  <2> QED
    BY <2>1 DEF Bytes
<1> HIDE DEF hdr
<1>6. /\ r \in Bytes /\ Len(r) = Len(hdr) + Len(x)
      /\ \A i \in 1 .. Len(hdr) : r[i] = hdr[i]
  <2>1. /\ hdr \o x \in Bytes /\ Len(hdr \o x) = Len(hdr) + Len(x)
        /\ \A i \in 1 .. Len(hdr) : (hdr \o x)[i] = hdr[i]
    <3>1. hdr \in Bytes /\ x \in Bytes
      BY <1>1, <1>5
    <3> QED
      BY <3>1, Joined
  <2> QED
    BY <1>2, <2>1
<1>7. r[4] = l \div 256 /\ r[5] = l % 256
  BY <1>5, <1>6
<1>8. r[4] * 256 + r[5] = l
  BY <1>4, <1>7
<1>9. x \in Bytes /\ hdr \in Bytes /\ Len(hdr) = 5 /\ r = hdr \o x
  BY <1>1, <1>2, <1>5
<1>10. Len(x) = l
  BY DEF l
<1> HIDE DEF hdr
<1> QED
  BY <1>3, <1>6, <1>8, <1>9, <1>10, SMT

(* fr are the fragments of all records so far, rs the records, hr and hf   *)
(* what follows of each.                                                   *)
Split(fr, rs, hr, hf) ==
  /\ fr \in Seq(Fragments) /\ rs \in Seq(Bytes) /\ Len(rs) = Len(fr)
  /\ \A i \in 1 .. Len(fr) : rs[i] = Record(fr[i])
  /\ Follows(rs, hr) /\ Follows(fr, hf)

(* The bytes tls and w hold the end of a sequence of records, tls less     *)
(* than one of them; p is their plaintext.                                 *)
Feeds(tls, w, p) ==
  \E fr, rs, hr, hf : \E j \in 0 .. Len(fr) :
    /\ Split(fr, rs, hr, hf)
    /\ tls \o w = hr[j] /\ p = hf[j]
    /\ j < Len(fr) => Len(tls) < 5 + Len(fr[j + 1])

LEMMA FeedsAppend ==
  ASSUME NEW tls \in Bytes, NEW w \in Bytes, NEW p, Feeds(tls, w, p), NEW x \in Fragments
  PROVE  Feeds(tls, w \o Record(x), p \o x)
<1> DEFINE r == Record(x)
<1>1. PICK fr, rs, hr, hf : \E j \in 0 .. Len(fr) :
        /\ Split(fr, rs, hr, hf)
        /\ tls \o w = hr[j] /\ p = hf[j]
        /\ j < Len(fr) => Len(tls) < 5 + Len(fr[j + 1])
  BY DEF Feeds
<1>2. PICK j \in 0 .. Len(fr) :
        /\ Split(fr, rs, hr, hf)
        /\ tls \o w = hr[j] /\ p = hf[j]
        /\ j < Len(fr) => Len(tls) < 5 + Len(fr[j + 1])
  BY <1>1
<1>3. x \in Bytes /\ r \in Bytes /\ Len(x) \in Nat
  BY RecordFacts
<1>4. /\ fr \in Seq(Fragments) /\ rs \in Seq(Bytes) /\ Len(rs) = Len(fr)
      /\ \A i \in 1 .. Len(fr) : rs[i] = Record(fr[i])
      /\ Follows(rs, hr) /\ Follows(fr, hf)
  BY <1>2 DEF Split
<1>5. fr \in Seq(Bytes) /\ Len(fr) \in Nat
  <2>1. Fragments \subseteq Bytes
    BY DEF Fragments
  <2> QED
    BY <1>4, <2>1, SeqMonotonic, LenProperties
<1>6. PICK gr : Follows(Append(rs, r), gr) /\ \A i \in 0 .. Len(rs) : gr[i] = hr[i] \o r
  BY <1>3, <1>4, FollowsAppend
<1>7. PICK gf : Follows(Append(fr, x), gf) /\ \A i \in 0 .. Len(fr) : gf[i] = hf[i] \o x
  BY <1>3, <1>4, <1>5, FollowsAppend, ZenonT(60)
<1> DEFINE fr1 == Append(fr, x)
           rs1 == Append(rs, r)
<1>8. /\ fr1 \in Seq(Fragments) /\ Len(fr1) = Len(fr) + 1 /\ fr1[Len(fr) + 1] = x
      /\ \A i \in 1 .. Len(fr) : fr1[i] = fr[i]
  BY <1>4, AppendProperties
<1>9. /\ rs1 \in Seq(Bytes) /\ Len(rs1) = Len(fr) + 1 /\ rs1[Len(fr) + 1] = r
      /\ \A i \in 1 .. Len(fr) : rs1[i] = rs[i]
  BY <1>3, <1>4, AppendProperties
<1> HIDE DEF fr1, rs1
<1>10. \A i \in 1 .. Len(fr1) : rs1[i] = Record(fr1[i])
  <2> TAKE i \in 1 .. Len(fr1)
  <2>1. i \in 1 .. Len(fr) \/ i = Len(fr) + 1
    BY <1>5, <1>8
  <2>2. CASE i \in 1 .. Len(fr)
    BY <1>4, <1>8, <1>9, <2>2
  <2>3. CASE i = Len(fr) + 1
    BY <1>8, <1>9, <2>3
  <2> QED
    BY <2>1, <2>2, <2>3
<1>11. Split(fr1, rs1, gr, gf)
  BY <1>6, <1>7, <1>8, <1>9, <1>10 DEF Split, fr1, rs1
<1>12. tls \o (w \o r) = gr[j]
  <2>1. tls \o (w \o r) = (tls \o w) \o r
    BY <1>3, Assoc
  <2>2. gr[j] = hr[j] \o r
    BY <1>4, <1>6
  <2> QED
    BY <1>2, <2>1, <2>2
<1>13. p \o x = gf[j]
  BY <1>2, <1>7
<1>14. j \in 0 .. Len(fr1) /\ Len(tls) \in Nat
  BY <1>5, <1>8, Empty
<1>15. Len(tls) < 5 + Len(fr1[j + 1])
  <2>1. CASE j < Len(fr)
    <3>1. j + 1 \in 1 .. Len(fr)
      BY <1>5, <2>1
    <3> QED
      BY <1>2, <1>8, <2>1, <3>1
  <2>2. CASE j = Len(fr)
    <3>1. tls \o w = <<>>
      BY <1>2, <1>4, <2>2 DEF Follows
    <3>2. Len(tls \o w) = Len(tls) + Len(w) /\ Len(w) \in Nat /\ Len(tls \o w) = 0
      BY <3>1, Joined, Empty
    <3>3. Len(tls) = 0
      BY <1>14, <3>2
    <3>4. fr1[j + 1] = x
      BY <1>8, <2>2
    <3> QED
      BY <1>3, <3>3, <3>4
  <2> QED
    BY <1>5, <2>1, <2>2
<1> QED
  BY <1>11, <1>12, <1>13, <1>14, <1>15 DEF Feeds

LEMMA Product ==
  ASSUME NEW a \in Nat, NEW b \in Nat, NEW m \in Nat, a <= b
  PROVE  a * m \in Nat /\ a * m <= b * m /\ (a + 1) * m = a * m + m
<1> DEFINE d == b - a
<1>1. d \in Nat /\ b = a + d
  OBVIOUS
<1>2. a * m \in Nat /\ d * m \in Nat /\ (a + 1) * m = a * m + m
  BY <1>1
<1>3. (a + d) * m = a * m + d * m
  BY <1>1
<1> QED
  BY <1>1, <1>2, <1>3

(* Where Records cuts l bytes into n fragments of m bytes at most.         *)
LEMMA Cuts ==
  ASSUME NEW l \in Nat, l >= 1, NEW m \in Nat, m >= 1,
         NEW n, n = (l + m - 1) \div m
  PROVE  /\ n \in Nat /\ n >= 1
         /\ \A i \in Nat : i < n =>
              /\ i * m \in Nat /\ i * m < l
              /\ i + 1 < n => (i + 1) * m = i * m + m /\ (i + 1) * m < l
              /\ i + 1 = n => l <= i * m + m
<1>1. n \in Nat /\ l + m - 1 = m * n + ((l + m - 1) % m) /\ (l + m - 1) % m \in 0 .. m - 1
  <2> DEFINE a == l + m - 1
  <2>1. a \in Nat
    OBVIOUS
  <2> HIDE DEF a
  <2>2. a \div m \in Nat /\ a = m * (a \div m) + (a % m) /\ a % m \in 0 .. m - 1
    BY <2>1
  <2> QED
    BY <2>2 DEF a
<1>2. m * n = n * m
  BY <1>1
<1> DEFINE e == (l + m - 1) % m
           k == n * m
<1>3. k \in Nat /\ e \in Nat /\ l + m - 1 = k + e /\ e <= m - 1
  BY <1>1, <1>2
<1> HIDE DEF e, k
<1>4. l <= k /\ k < l + m
  BY <1>3
<1>5. n >= 1
  <2>1. n = 0 => k = 0
    BY DEF k
  <2> QED
    BY <1>1, <1>3, <1>4, <2>1
<1>6. ASSUME NEW i \in Nat, i < n
      PROVE  /\ i * m \in Nat /\ i * m < l /\ (i + 1) * m = i * m + m
             /\ i + 1 = n => l <= i * m + m
  <2>1. i * m \in Nat /\ (i + 1) * m = i * m + m
    BY <1>6, Product
  <2>2. (i + 1) * m <= n * m
    <3>1. i + 1 \in Nat /\ i + 1 <= n
      BY <1>1, <1>6
    <3> DEFINE c == i + 1
    <3> HIDE DEF c
    <3>2. c * m <= n * m
      BY <1>1, <3>1, Product DEF c
    <3> QED
      BY <3>2 DEF c
  <2>3. i * m < l
    BY <1>3, <1>4, <2>1, <2>2 DEF k
  <2>4. i + 1 = n => l <= i * m + m
    BY <1>4, <2>1 DEF k
  <2> QED
    BY <2>1, <2>3, <2>4
<1>7. \A i \in Nat : i < n /\ i + 1 < n => (i + 1) * m < l
  BY <1>1, <1>6
<1> QED
  BY <1>1, <1>5, <1>6, <1>7

(* The records of one write feed what was written.                         *)
LEMMA RecordsFeed ==
  ASSUME NEW tls \in Bytes, NEW w \in Bytes, NEW p \in Bytes, Feeds(tls, w, p),
         NEW b \in Bytes, Len(b) >= 1
  PROVE  Records(b) \in Bytes /\ Feeds(tls, w \o Records(b), p \o b)
<1> DEFINE L == Len(b)
           M == MaxFragment
           n == (L + M - 1) \div M
           last(i) == IF i = n THEN L ELSE i * M
           frag(i) == SubSeq(b, (i - 1) * M + 1, last(i))
           q == [i \in 1 .. n |-> Record(frag(i))]
<1>1. L \in Nat /\ L >= 1 /\ M \in Nat /\ M >= 1
  BY Bounds, Empty, SMT
<1>2. Records(b) = FlattenSeq(q)
  BY DEF Records
<1> HIDE DEF L, M
<1>3. /\ n \in Nat /\ n >= 1
      /\ \A i \in Nat : i < n =>
           /\ i * M \in Nat /\ i * M < L
           /\ i + 1 < n => (i + 1) * M = i * M + M /\ (i + 1) * M < L
           /\ i + 1 = n => L <= i * M + M
  BY <1>1, Cuts
<1> HIDE DEF n
<1>4. Len(q) = n /\ Len(q) \in Nat \ {0}
  BY <1>3
<1>5. \A i \in Nat : i < n => /\ i * M \in 0 .. L /\ last(i + 1) \in (i * M) + 1 .. L
                              /\ last(i + 1) - i * M \in 1 .. M
                              /\ frag(i + 1) = SubSeq(b, i * M + 1, last(i + 1))
                              /\ i # 0 => last(i) = i * M
  <2> TAKE i \in Nat
  <2> HAVE i < n
  <2> DEFINE a == i * M
  <2>1. a \in Nat /\ a < L /\ (i + 1 < n => (i + 1) * M = a + M /\ a + M < L)
        /\ (i + 1 = n => L <= a + M)
    BY <1>3
  <2>2. (i + 1) - 1 = i /\ i # n
    BY <1>3
  <2>3. frag(i + 1) = SubSeq(b, a + 1, last(i + 1)) /\ (i # 0 => last(i) = a)
    BY <2>2
  <2>4. CASE i + 1 = n
    <3>1. last(i + 1) = L
      BY <2>4
    <3> HIDE DEF a, last, frag
    <3>2. a \in 0 .. L /\ L \in a + 1 .. L /\ L - a \in 1 .. M
      BY <1>1, <2>1, <2>4
    <3> QED
      BY <2>3, <3>1, <3>2 DEF a
  <2>5. CASE i + 1 < n
    <3>1. last(i + 1) = a + M
      BY <1>3, <2>1, <2>5
    <3> HIDE DEF a, last, frag
    <3>2. a \in 0 .. L /\ a + M \in a + 1 .. L /\ (a + M) - a \in 1 .. M
      BY <1>1, <2>1, <2>5
    <3> QED
      BY <2>3, <3>1, <3>2 DEF a
  <2>6. i + 1 = n \/ i + 1 < n
    BY <1>3
  <2> QED
    BY <2>4, <2>5, <2>6
<1>6. \A i \in 1 .. n : q[i] = Record(frag(i))
  OBVIOUS
<1> HIDE DEF q, last, frag
<1>7. PICK f : Joins(q, n, f) /\ Records(b) = f[n]
  BY <1>2, <1>4, FlattenFacts
<1>8. \A i \in Nat : i < n =>
        /\ frag(i + 1) \in Fragments
        /\ frag(i + 1) = SubSeq(b, i * M + 1, last(i + 1))
        /\ i # 0 => SubSeq(b, 1, last(i)) \o frag(i + 1) = SubSeq(b, 1, last(i + 1))
  <2> TAKE i \in Nat
  <2> HAVE i < n
  <2> DEFINE a == i * M
             c == last(i + 1)
  <2>1. a \in 0 .. L /\ c \in a + 1 .. L /\ c - a \in 1 .. M
        /\ frag(i + 1) = SubSeq(b, a + 1, c) /\ (i # 0 => last(i) = a)
    BY <1>5
  <2> HIDE DEF a, c
  <2>2. SubSeq(b, a + 1, c) \in Bytes /\ Len(SubSeq(b, a + 1, c)) = c - a
    <3>1. \A x \in 1 .. L : b[x] \in Byte
      BY ElementOfSeq DEF Bytes, L
    <3>2. \A x \in a + 1 .. c : b[x] \in Byte
      BY <1>1, <2>1, <3>1
    <3>3. a + 1 \in Int /\ c \in Int /\ a + 1 <= c /\ c - (a + 1) + 1 = c - a
      BY <1>1, <2>1
    <3> QED
      BY <3>2, <3>3, SubSeqProperties DEF Bytes
  <2>3. SubSeq(b, a + 1, c) \in Fragments
    BY <2>1, <2>2 DEF Fragments, M
  <2>4. SubSeq(b, 1, a) \o SubSeq(b, a + 1, c) = SubSeq(b, 1, c)
    <3>1. 1 \in 1 .. Len(b) + 1 /\ a \in 1 - 1 .. Len(b) /\ c \in a .. Len(b)
      BY <1>1, <2>1 DEF L
    <3> QED
      BY <3>1, ConcatAdjacentSubSeq DEF Bytes
  <2> QED
    BY <2>1, <2>3, <2>4 DEF a, c
<1> DEFINE S == {i \in Nat : i < n => /\ f[i + 1] \in Bytes
                                      /\ Feeds(tls, w \o f[i + 1], p \o SubSeq(b, 1, last(i + 1)))}
<1>9. 0 \in S
  <2>1. 0 < n /\ 1 \in 1 .. n /\ 0 * M + 1 = 1 /\ 0 + 1 = 1
    BY <1>1, <1>3
  <2>2. frag(1) \in Fragments /\ frag(1) = SubSeq(b, 1, last(1))
    BY <1>8, <2>1
  <2>3. f[1] = Record(frag(1))
    BY <1>6, <1>7, <2>1 DEF Joins
  <2>4. f[1] \in Bytes
    BY <2>2, <2>3, RecordFacts
  <2>5. Feeds(tls, w \o f[1], p \o SubSeq(b, 1, last(1)))
    BY <2>2, <2>3, FeedsAppend
  <2> QED
    BY <2>1, <2>4, <2>5
<1>10. ASSUME NEW i \in Nat, i \in S PROVE i + 1 \in S
  <2> SUFFICES ASSUME i + 1 < n
               PROVE  /\ f[i + 1 + 1] \in Bytes
                      /\ Feeds(tls, w \o f[i + 1 + 1], p \o SubSeq(b, 1, last(i + 1 + 1)))
    OBVIOUS
  <2> DEFINE k == i + 1
             x == frag(k + 1)
             r == Record(x)
  <2>1. k \in Nat /\ k < n /\ k # 0 /\ i < n /\ k + 1 \in 2 .. n /\ k + 1 \in 1 .. n
        /\ (k + 1) - 1 = k
    BY <1>3
  <2>2. f[k] \in Bytes /\ Feeds(tls, w \o f[k], p \o SubSeq(b, 1, last(k)))
    BY <1>10, <2>1
  <2> HIDE DEF k
  <2>3. x \in Fragments /\ SubSeq(b, 1, last(k)) \o x = SubSeq(b, 1, last(k + 1))
    BY <1>8, <2>1
  <2>4. f[k + 1] = f[k] \o r
    BY <1>6, <1>7, <2>1 DEF Joins
  <2>5. x \in Bytes /\ r \in Bytes
    BY <2>3, RecordFacts
  <2>6. f[k] \o r \in Bytes /\ w \o f[k] \in Bytes
    BY <2>2, <2>5, Joined
  <2> DEFINE s == SubSeq(b, 1, last(k))
  <2>7. s \in Bytes
    <3>1. last(k) \in 0 .. L
      <4>1. i * M \in 0 .. L /\ last(i + 1) \in (i * M) + 1 .. L
        BY <1>5, <2>1
      <4> DEFINE a == i * M
      <4> HIDE DEF a
      <4>2. last(i + 1) \in 0 .. L
        BY <1>1, <4>1 DEF a
      <4> QED
        BY <4>2 DEF k
    <3> QED
      BY <3>1, CutJoin DEF L, Bytes
  <2> HIDE DEF x, s
  <2>8. Feeds(tls, (w \o f[k]) \o r, (p \o s) \o x)
    BY <2>2, <2>3, <2>6, FeedsAppend DEF s, x
  <2>9. (w \o f[k]) \o r = w \o (f[k] \o r)
    BY <2>2, <2>5, Assoc, ZenonT(60)
  <2>10. (p \o s) \o x = p \o (s \o x)
    BY <2>5, <2>7, Assoc, ZenonT(60)
  <2>11. Feeds(tls, w \o f[k + 1], p \o SubSeq(b, 1, last(k + 1)))
    BY <2>3, <2>4, <2>8, <2>9, <2>10 DEF s
  <2> QED
    BY <2>4, <2>6, <2>11 DEF k
<1> HIDE DEF S
<1>11. \A i \in Nat : i \in S
  BY <1>9, <1>10, Induction
<1>12. n - 1 \in Nat /\ n - 1 < n /\ (n - 1) + 1 = n
  BY <1>3
<1>13. f[n] \in Bytes /\ Feeds(tls, w \o f[n], p \o SubSeq(b, 1, last(n)))
  BY <1>11, <1>12 DEF S
<1>14. SubSeq(b, 1, last(n)) = b
  BY SubSeqFull DEF last, L, Bytes
<1> QED
  BY <1>7, <1>13, <1>14

(* A read of n bytes from w behind tls: got is what the session then holds *)
(* of the record, w1 what is left.                                         *)
Reads(tls, w, len, n, got, w1) ==
  /\ Len(tls) >= 5 => len = 5 + tls[4] * 256 + tls[5]
  /\ n \in Nat /\ n >= 1 /\ n <= Len(w)
  /\ Len(tls) < 5 => n <= 5 - Len(tls)
  /\ Len(tls) >= 5 => n <= len - Len(tls)
  /\ got = tls \o SubSeq(w, 1, n) /\ w1 = SubSeq(w, n + 1, Len(w))

(* The record goes on, or it is complete and its plaintext is next.        *)
Fed(tls, len, got, w1, p) ==
  /\ got \in Bytes /\ w1 \in Bytes
  /\ Len(tls) >= 5 /\ Len(got) = len =>
       /\ SubSeq(got, 6, Len(got)) \in Bytes
       /\ \E p1 \in Bytes : Feeds(<<>>, w1, p1) /\ SubSeq(got, 6, Len(got)) \o p1 = p
  /\ ~(Len(tls) >= 5 /\ Len(got) = len) => Feeds(got, w1, p)

LEMMA FeedsRead ==
  ASSUME NEW tls \in Bytes, NEW w \in Bytes, NEW p, Feeds(tls, w, p),
         NEW len, NEW n, NEW got, NEW w1, Reads(tls, w, len, n, got, w1)
  PROVE  Fed(tls, len, got, w1, p)
<1>0. /\ Len(tls) >= 5 => len = 5 + tls[4] * 256 + tls[5]
      /\ n \in Nat /\ n >= 1 /\ n <= Len(w)
      /\ Len(tls) < 5 => n <= 5 - Len(tls)
      /\ Len(tls) >= 5 => n <= len - Len(tls)
      /\ got = tls \o SubSeq(w, 1, n) /\ w1 = SubSeq(w, n + 1, Len(w))
  BY DEF Reads
<1> DEFINE a == SubSeq(w, 1, n)
<1>1. Len(tls) \in Nat /\ Len(w) \in Nat /\ n \in 0 .. Len(w)
  BY <1>0, Empty
<1>2. a \in Bytes /\ Len(a) = n /\ w1 \in Bytes /\ a \o w1 = w
  <2>1. w \in Seq(Byte)
    BY DEF Bytes
  <2>2. /\ a \in Seq(Byte) /\ Len(a) = n /\ SubSeq(w, n + 1, Len(w)) \in Seq(Byte)
        /\ a \o SubSeq(w, n + 1, Len(w)) = w
    BY <1>1, <2>1, CutJoin
  <2> QED
    BY <1>0, <2>2 DEF Bytes
<1>3. got = tls \o a
  BY <1>0
<1> HIDE DEF a
<1>4. got \in Bytes /\ Len(got) = Len(tls) + n /\ got \o w1 = tls \o w
  <2>1. tls \o a \in Bytes /\ Len(tls \o a) = Len(tls) + Len(a)
    <3>1. a \in Bytes
      BY <1>2
    <3> QED
      BY <3>1, Joined
  <2>2. tls \o (a \o w1) = (tls \o a) \o w1
    BY <1>2, Assoc
  <2> QED
    BY <1>2, <1>3, <2>1, <2>2
<1>5. PICK fr, rs, hr, hf : \E j \in 0 .. Len(fr) :
        /\ Split(fr, rs, hr, hf)
        /\ tls \o w = hr[j] /\ p = hf[j]
        /\ j < Len(fr) => Len(tls) < 5 + Len(fr[j + 1])
  BY DEF Feeds
<1>6. PICK j \in 0 .. Len(fr) :
        /\ Split(fr, rs, hr, hf)
        /\ tls \o w = hr[j] /\ p = hf[j]
        /\ j < Len(fr) => Len(tls) < 5 + Len(fr[j + 1])
  BY <1>5
<1>7. /\ fr \in Seq(Fragments) /\ Len(fr) \in Nat /\ Len(rs) = Len(fr)
      /\ \A i \in 1 .. Len(fr) : rs[i] = Record(fr[i])
      /\ Follows(rs, hr) /\ Follows(fr, hf)
  <2>1. fr \in Seq(Fragments)
    BY <1>6 DEF Split
  <2> QED
    BY <1>6, <2>1, LenProperties DEF Split
<1>8. j # Len(fr)
  <2> SUFFICES ASSUME j = Len(fr) PROVE FALSE
    OBVIOUS
  <2>1. tls \o w = <<>>
    BY <1>6, <1>7 DEF Follows
  <2>2. Len(tls \o w) = Len(tls) + Len(w)
    BY Joined
  <2>3. Len(tls \o w) = 0
    BY <2>1, Empty
  <2> QED
    BY <1>0, <1>1, <2>2, <2>3
<1> DEFINE x == fr[j + 1]
           r == Record(x)
           k == j + 1
<1>9. k \in 1 .. Len(fr) /\ k \in 0 .. Len(fr) /\ k - 1 = j /\ j < Len(fr)
  BY <1>7, <1>8
<1>10. x \in Fragments /\ rs[k] = r
  BY <1>7, <1>9, ElementOfSeq
<1>11. hr[j] = r \o hr[k] /\ hr[k] \in Bytes
  <2>1. hr[k - 1] = rs[k] \o hr[k] /\ hr[k] \in Bytes
    BY <1>7, <1>9 DEF Follows
  <2> QED
    BY <1>9, <1>10, <2>1
<1>12. hf[j] = x \o hf[k] /\ hf[k] \in Bytes
  <2>1. hf[k - 1] = fr[k] \o hf[k] /\ hf[k] \in Bytes
    BY <1>7, <1>9 DEF Follows
  <2> QED
    BY <1>9, <2>1
<1>13. Len(tls) < 5 + Len(x)
  BY <1>6, <1>9
<1>14. fr[k] = x
  OBVIOUS
<1> HIDE DEF x, r, k
<1>15. /\ x \in Bytes /\ Len(x) \in Nat /\ Len(x) >= 1
       /\ r \in Bytes /\ Len(r) = 5 + Len(x) /\ r[4] * 256 + r[5] = Len(x)
       /\ \E hdr \in Bytes : Len(hdr) = 5 /\ r = hdr \o x
  BY <1>10, RecordFacts, SMTT(60) DEF r
<1>16. Len(tls) >= 5 => len = Len(r)
  <2> SUFFICES ASSUME Len(tls) >= 5 PROVE len = Len(r)
    OBVIOUS
  <2>1. tls \o w = r \o hr[k]
    BY <1>6, <1>11
  <2>2. \A i \in 1 .. Len(tls) : (tls \o w)[i] = tls[i]
    BY Joined
  <2>3. \A i \in 1 .. Len(r) : (r \o hr[k])[i] = r[i]
    BY <1>11, <1>15, Joined
  <2>4. 4 \in 1 .. Len(tls) /\ 5 \in 1 .. Len(tls) /\ 4 \in 1 .. Len(r) /\ 5 \in 1 .. Len(r)
    BY <1>1, <1>15
  <2>5. tls[4] = r[4] /\ tls[5] = r[5]
    BY <2>1, <2>2, <2>3, <2>4
  <2>6. r[4] \in Nat /\ r[5] \in Nat
    BY <1>15, <2>4, ElementOfSeq, ByteValues DEF Bytes
  <2> DEFINE u == r[4]
             v == r[5]
             l == Len(x)
             t == Len(r)
  <2>7. len = 5 + u * 256 + v
    BY <1>0, <2>5
  <2>8. u \in Nat /\ v \in Nat /\ l \in Nat /\ t = 5 + l /\ u * 256 + v = l
    BY <1>15, <2>6
  <2> HIDE DEF u, v, l, t
  <2>9. len = t
    BY <2>7, <2>8
  <2> QED
    BY <2>9 DEF t
<1>17. Len(got) <= Len(r) /\ (Len(tls) < 5 => Len(got) < Len(r))
  <2>1. CASE Len(tls) < 5
    BY <1>0, <1>1, <1>4, <1>15, <2>1, SMTT(60)
  <2>2. CASE Len(tls) >= 5
    BY <1>0, <1>1, <1>4, <1>15, <1>16, <2>2, SMTT(60)
  <2> QED
    BY <1>1, <2>1, <2>2
<1>18. CASE Len(tls) >= 5 /\ Len(got) = len
  <2>1. got = r /\ w1 = hr[k]
    <3>1. got \o w1 = r \o hr[k] /\ Len(got) = Len(r)
      BY <1>4, <1>6, <1>11, <1>16, <1>18
    <3> DEFINE hk == hr[k]
    <3>2. got \in Seq(Byte) /\ w1 \in Seq(Byte) /\ r \in Seq(Byte) /\ hk \in Seq(Byte)
      BY <1>2, <1>4, <1>11, <1>15 DEF Bytes
    <3>3. got \o w1 = r \o hk /\ Len(got) = Len(r)
      BY <3>1
    <3> HIDE DEF hk
    <3>4. got = r /\ w1 = hk
      BY ONLY <3>2, <3>3, SameCut
    <3> QED
      BY <3>4 DEF hk
  <2>2. SubSeq(r, 6, Len(r)) = x
    <3>1. PICK hdr \in Bytes : Len(hdr) = 5 /\ r = hdr \o x
      BY <1>15
    <3>2. 5 \in 0 .. Len(r) /\ 5 + 1 = 6
      BY <1>15
    <3> DEFINE u == SubSeq(r, 1, 5)
               v == SubSeq(r, 6, Len(r))
    <3>3. u \in Bytes /\ Len(u) = 5 /\ v \in Bytes /\ u \o v = r
      <4>1. r \in Seq(Byte)
        BY <1>15 DEF Bytes
      <4>2. /\ SubSeq(r, 1, 5) \in Seq(Byte) /\ Len(SubSeq(r, 1, 5)) = 5
            /\ SubSeq(r, 5 + 1, Len(r)) \in Seq(Byte)
            /\ SubSeq(r, 1, 5) \o SubSeq(r, 5 + 1, Len(r)) = r
        BY <4>1, <3>2, CutJoin
      <4> QED
        BY <3>2, <4>2 DEF Bytes
    <3> HIDE DEF u, v
    <3>4. u \o v = hdr \o x /\ Len(u) = Len(hdr)
      BY <3>1, <3>3
    <3>5. v = x
      BY <1>15, <3>1, <3>3, <3>4, SameCut DEF Bytes
    <3> QED
      BY <3>5 DEF v
  <2>3. Feeds(<<>>, w1, hf[k])
    <3>1. <<>> \o w1 = hr[k]
      BY <1>2, <2>1, Empty
    <3>2. k < Len(fr) => Len(<<>>) < 5 + Len(fr[k + 1])
      <4> SUFFICES ASSUME k < Len(fr) PROVE Len(<<>>) < 5 + Len(fr[k + 1])
        OBVIOUS
      <4>1. k + 1 \in 1 .. Len(fr)
        BY <1>7, <1>9
      <4>2. fr[k + 1] \in Fragments
        BY <1>7, <4>1, ElementOfSeq
      <4>3. Len(fr[k + 1]) \in Nat
        BY <4>2, RecordFacts
      <4> QED
        BY <4>3, Empty
    <3> QED
      BY <1>6, <1>9, <3>1, <3>2 DEF Feeds
  <2>4. SubSeq(got, 6, Len(got)) \o hf[k] = p
    BY <1>6, <1>12, <2>1, <2>2
  <2>5. SubSeq(got, 6, Len(got)) \in Bytes
    BY <1>15, <2>1, <2>2
  <2> QED
    BY <1>2, <1>4, <1>12, <1>18, <2>3, <2>4, <2>5 DEF Fed
<1>19. CASE ~(Len(tls) >= 5 /\ Len(got) = len)
  <2>1. Len(got) < Len(r)
    BY <1>1, <1>4, <1>15, <1>16, <1>17, <1>19
  <2>2. Len(got) < 5 + Len(fr[j + 1])
    BY <1>14, <1>15, <2>1 DEF k
  <2>3. got \o w1 = hr[j]
    BY <1>4, <1>6
  <2>4. Feeds(got, w1, p)
    BY <1>6, <2>2, <2>3 DEF Feeds
  <2> QED
    BY <1>2, <1>4, <1>19, <2>4 DEF Fed
<1> QED
  BY <1>18, <1>19

-----------------------------------------------------------------------------
(* The stream and the session together.                                    *)

Encoded(q) == \A i \in 1 .. Len(q) : \E m \in Messages : q[i] = Encode(m)

(* What a message that has begun knows of its length.                      *)
LEMMA HeadOfStream ==
  ASSUME NEW b \in Bytes, NEW y \in Bytes, NEW m \in Messages, NEW e, e = Encode(m),
         NEW z \in Bytes, b \o y = e \o z, Len(b) >= 1, Len(b) >= Hlen(b[1])
  PROVE  e \in Bytes /\ TotalLengthFromHeader(b) = Len(e)
<1>1. e \in Bytes /\ Len(e) >= 1 /\ Len(e) >= Hlen(e[1]) /\ TotalLengthFromHeader(e) = Len(e)
  BY EncodeFacts
<1>2. Len(b) \in Nat /\ Len(e) \in Nat
  BY <1>1, Empty
<1>3. \A i \in 1 .. Len(b) : (b \o y)[i] = b[i]
  BY Joined
<1>4. \A i \in 1 .. Len(e) : (e \o z)[i] = e[i]
  BY <1>1, Joined
<1>5. b[1] = e[1] /\ e[1] \in Byte
  <2>1. 1 \in 1 .. Len(b) /\ 1 \in 1 .. Len(e)
    BY <1>1, <1>2
  <2>2. e[1] \in Byte
    BY <1>1, <2>1, ElementOfSeq DEF Bytes
  <2> QED
    BY <1>3, <1>4, <2>1, <2>2
<1>6. \A i \in 1 .. Hlen(e[1]) : b[i] = e[i]
  <2> DEFINE l == Hlen(e[1])
  <2>1. l \in Nat /\ l <= Len(b) /\ l <= Len(e)
    BY <1>1, <1>5, HlenValues
  <2> HIDE DEF l
  <2>2. \A i \in 1 .. l : i \in 1 .. Len(b) /\ i \in 1 .. Len(e)
    BY <1>2, <2>1
  <2>3. \A i \in 1 .. l : b[i] = e[i]
    BY <1>3, <1>4, <2>2
  <2> QED
    BY <2>3 DEF l
<1>7. TotalLengthFromHeader(b) = TotalLengthFromHeader(e)
  BY <1>1, <1>6, TotalOfHeader
<1> QED
  BY <1>1, <1>7

(* The session is at message k of snt: what it holds, the buffer and what  *)
(* is still to come are the bytes that follow the first k messages.        *)
Tracks(sec, tls, w, d, buf, snt, k) ==
  \E p \in Bytes : \E h :
    /\ IF sec THEN Feeds(tls, w, p) ELSE p = w
    /\ Follows(snt, h)
    /\ d \o (buf \o p) = h[k]

LEMMA Start == /\ Follows(<<>>, [i \in 0 .. 0 |-> <<>>])
               /\ Feeds(<<>>, <<>>, <<>>)
<1> DEFINE h == [i \in 0 .. 0 |-> <<>>]
<1>1. <<>> \in Bytes /\ Len(<<>>) = 0 /\ <<>> \o <<>> = <<>>
  BY Empty
<1>2. Follows(<<>>, h) /\ h[0] = <<>>
  BY <1>1 DEF Follows
<1> HIDE DEF h
<1>3. Split(<<>>, <<>>, h, h)
  <2>1. <<>> \in Seq(Fragments) /\ <<>> \in Seq(Bytes)
    BY EmptySeq
  <2>2. \A i \in 1 .. Len(<<>>) : <<>>[i] = Record(<<>>[i])
    BY <1>1
  <2> QED
    BY <1>2, <2>1, <2>2 DEF Split
<1>4. Feeds(<<>>, <<>>, <<>>)
  <2>1. 0 \in 0 .. Len(<<>>) /\ ~(0 < Len(<<>>))
    BY <1>1
  <2> QED
    BY <1>1, <1>2, <1>3, <2>1 DEF Feeds
<1> QED
  BY <1>2, <1>4 DEF h

LEMMA TracksStart ==
  ASSUME NEW sec \in BOOLEAN
  PROVE  Tracks(sec, <<>>, <<>>, <<>>, <<>>, <<>>, 0)
<1> DEFINE h == [i \in 0 .. 0 |-> <<>>]
<1>1. <<>> \in Bytes /\ <<>> \o (<<>> \o <<>>) = <<>> /\ h[0] = <<>>
  BY Empty
<1>2. Follows(<<>>, h) /\ Feeds(<<>>, <<>>, <<>>)
  BY Start
<1> HIDE DEF h
<1> QED
  BY <1>1, <1>2 DEF Tracks

LEMMA TracksSend ==
  ASSUME NEW sec \in BOOLEAN, NEW tls \in Bytes, NEW w \in Bytes, NEW d \in Bytes,
         NEW buf \in Bytes, NEW snt \in Seq(Bytes), NEW k \in 0 .. Len(snt),
         Tracks(sec, tls, w, d, buf, snt, k), NEW e \in Bytes, Len(e) >= 1,
         NEW w1, w1 = w \o (IF sec THEN Records(e) ELSE e)
  PROVE  Tracks(sec, tls, w1, d, buf, Append(snt, e), k)
<1>1. PICK p, h : /\ p \in Bytes
                  /\ IF sec THEN Feeds(tls, w, p) ELSE p = w
                  /\ Follows(snt, h)
                  /\ d \o (buf \o p) = h[k]
  BY DEF Tracks
<1>2. PICK g : Follows(Append(snt, e), g) /\ \A i \in 0 .. Len(snt) : g[i] = h[i] \o e
  BY <1>1, FollowsAppend
<1>3. IF sec THEN Feeds(tls, w1, p \o e) ELSE p \o e = w1
  <2>1. CASE sec
    BY <1>1, <2>1, RecordsFeed
  <2>2. CASE ~sec
    BY <1>1, <2>2
  <2> QED
    BY <2>1, <2>2
<1>4. p \o e \in Bytes /\ buf \o p \in Bytes
  BY <1>1, Joined
<1>5. d \o (buf \o (p \o e)) = g[k]
  <2>1. buf \o (p \o e) = (buf \o p) \o e
    BY <1>1, Assoc, ZenonT(60)
  <2>2. d \o ((buf \o p) \o e) = (d \o (buf \o p)) \o e
    <3> DEFINE x == buf \o p
    <3>1. x \in Bytes
      BY <1>4
    <3> HIDE DEF x
    <3>2. d \o (x \o e) = (d \o x) \o e
      BY <3>1, Assoc
    <3> QED
      BY <3>2 DEF x
  <2> QED
    BY <1>1, <1>2, <2>1, <2>2
<1> QED
  BY <1>2, <1>3, <1>4, <1>5 DEF Tracks

LEMMA TracksPlain ==
  ASSUME NEW tls \in Bytes, NEW w \in Bytes, NEW d \in Bytes, NEW snt, NEW k,
         Tracks(FALSE, tls, w, d, <<>>, snt, k), NEW n \in 0 .. Len(w),
         NEW a, a = SubSeq(w, 1, n), NEW w1, w1 = SubSeq(w, n + 1, Len(w))
  PROVE  a \in Bytes /\ w1 \in Bytes /\ Tracks(FALSE, tls, w1, d, a, snt, k)
<1>1. a \in Bytes /\ w1 \in Bytes /\ a \o w1 = w
  <2>1. w \in Seq(Byte)
    BY DEF Bytes
  <2>2. a \in Seq(Byte) /\ w1 \in Seq(Byte) /\ a \o w1 = w
    BY <2>1, CutJoin
  <2> QED
    BY <2>2 DEF Bytes
<1>2. PICK p, h : p \in Bytes /\ p = w /\ Follows(snt, h) /\ d \o (<<>> \o p) = h[k]
  BY DEF Tracks
<1>3. d \o (a \o w1) = h[k]
  BY <1>1, <1>2, Empty
<1> QED
  BY <1>1, <1>2, <1>3 DEF Tracks

LEMMA TracksRecord ==
  ASSUME NEW tls \in Bytes, NEW w \in Bytes, NEW d \in Bytes, NEW snt, NEW k,
         Tracks(TRUE, tls, w, d, <<>>, snt, k),
         NEW len, NEW n, NEW got, NEW w1, Reads(tls, w, len, n, got, w1)
  PROVE  /\ got \in Bytes /\ w1 \in Bytes
         /\ Len(tls) >= 5 /\ Len(got) = len =>
              /\ SubSeq(got, 6, Len(got)) \in Bytes
              /\ Tracks(TRUE, <<>>, w1, d, SubSeq(got, 6, Len(got)), snt, k)
         /\ ~(Len(tls) >= 5 /\ Len(got) = len) => Tracks(TRUE, got, w1, d, <<>>, snt, k)
<1>1. PICK p, h : p \in Bytes /\ Feeds(tls, w, p) /\ Follows(snt, h) /\ d \o (<<>> \o p) = h[k]
  BY DEF Tracks
<1>2. d \o p = h[k]
  BY <1>1, Empty
<1>3. /\ got \in Bytes /\ w1 \in Bytes
      /\ Len(tls) >= 5 /\ Len(got) = len =>
           /\ SubSeq(got, 6, Len(got)) \in Bytes
           /\ \E p1 \in Bytes : Feeds(<<>>, w1, p1) /\ SubSeq(got, 6, Len(got)) \o p1 = p
      /\ ~(Len(tls) >= 5 /\ Len(got) = len) => Feeds(got, w1, p)
  <2>1. Fed(tls, len, got, w1, p)
    BY <1>1, FeedsRead
  <2> QED
    BY <2>1 DEF Fed
<1>4. CASE Len(tls) >= 5 /\ Len(got) = len
  <2>1. PICK p1 \in Bytes : Feeds(<<>>, w1, p1) /\ SubSeq(got, 6, Len(got)) \o p1 = p
    BY <1>3, <1>4
  <2>2. d \o (SubSeq(got, 6, Len(got)) \o p1) = h[k]
    BY <1>2, <2>1
  <2> QED
    BY <1>1, <1>3, <1>4, <2>1, <2>2 DEF Tracks
<1>5. CASE ~(Len(tls) >= 5 /\ Len(got) = len)
  BY <1>1, <1>3, <1>5 DEF Tracks
<1> QED
  BY <1>4, <1>5

(* One turn of the loop: a complete message is message k + 1 of snt, and   *)
(* the session is at the next one.                                         *)
LEMMA TracksTurn ==
  ASSUME NEW sec, NEW tls, NEW w, NEW s \in Sessions, NEW buf \in Bytes,
         NEW snt \in Seq(Bytes), Encoded(snt), NEW k \in 0 .. Len(snt),
         Tracks(sec, tls, w, s.data, buf, snt, k),
         NEW t, NEW rest, Built(s, buf, t, rest)
  PROVE  /\ Len(t.data) # t.totalLen => Tracks(sec, tls, w, t.data, rest, snt, k)
         /\ Len(t.data) = t.totalLen => /\ k < Len(snt) /\ t.data = snt[k + 1]
                                        /\ Tracks(sec, tls, w, <<>>, rest, snt, k + 1)
<1> DEFINE d == s.data
           x == t.data
<1>1. /\ t \in Sessions /\ Filling(t) /\ rest \in Bytes
      /\ d \o buf = x \o rest
  BY DEF Built
<1>2. d \in Bytes /\ x \in Bytes /\ Len(x) \in Nat /\ Len(x) >= 1 /\ Len(snt) \in Nat
  BY <1>1, LenProperties DEF Sessions, Filling, Bytes
<1>3. PICK p, h : /\ p \in Bytes
                  /\ IF sec THEN Feeds(tls, w, p) ELSE p = w
                  /\ Follows(snt, h)
                  /\ d \o (buf \o p) = h[k]
  BY DEF Tracks
<1> HIDE DEF d, x
<1>4. rest \o p \in Bytes
  BY <1>1, <1>3, Joined
<1>5. x \o (rest \o p) = h[k]
  <2>1. d \o (buf \o p) = (d \o buf) \o p
    BY <1>2, <1>3, Assoc
  <2>2. x \o (rest \o p) = (x \o rest) \o p
    BY <1>1, <1>2, <1>3, Assoc
  <2> QED
    BY <1>1, <1>3, <2>1, <2>2
<1>6. Tracks(sec, tls, w, x, rest, snt, k)
  BY <1>3, <1>5 DEF Tracks
<1>7. ASSUME Len(x) = t.totalLen
      PROVE  k < Len(snt) /\ x = snt[k + 1] /\ Tracks(sec, tls, w, <<>>, rest, snt, k + 1)
  <2>1. k < Len(snt)
    <3> SUFFICES ASSUME k = Len(snt) PROVE FALSE
      BY <1>2
    <3>1. x \o (rest \o p) = <<>>
      BY <1>3, <1>5 DEF Follows
    <3>2. Len(x \o (rest \o p)) = Len(x) + Len(rest \o p)
      BY <1>2, <1>4, Joined
    <3>3. Len(rest \o p) \in Nat /\ Len(x \o (rest \o p)) = 0
      BY <1>4, <3>1, Empty
    <3> QED
      BY <1>2, <3>2, <3>3
  <2> DEFINE n == k + 1
             e == snt[n]
             z == h[n]
             y == rest \o p
  <2>2. n \in 1 .. Len(snt) /\ n - 1 = k /\ n \in 0 .. Len(snt)
    BY <1>2, <2>1
  <2>3. h[k] = e \o z /\ z \in Bytes
    <3>1. h[n - 1] = snt[n] \o h[n] /\ h[n] \in Bytes
      BY <1>3, <2>2 DEF Follows
    <3> QED
      BY <2>2, <3>1
  <2>4. PICK m \in Messages : e = Encode(m)
    BY <2>2 DEF Encoded
  <2>5. x \o y = e \o z /\ y \in Bytes
    BY <1>4, <1>5, <2>3
  <2>6. Len(x) >= Hlen(x[1])
    <3>1. Len(x) < Hlen(x[1]) => t.totalLen = 0
      BY <1>1 DEF Filling, x
    <3>2. Hlen(x[1]) \in Nat
      <4>1. x[1] \in Byte
        BY <1>2, ElementOfSeq DEF Bytes
      <4> QED
        BY <4>1, HlenValues
    <3> QED
      BY <1>2, <1>7, <3>1, <3>2
  <2> HIDE DEF n, e, z, y
  <2>7. e \in Bytes /\ TotalLengthFromHeader(x) = Len(e)
    BY <1>2, <2>3, <2>4, <2>5, <2>6, HeadOfStream
  <2>8. t.totalLen = TotalLengthFromHeader(x)
    BY <1>1, <2>6 DEF Filling, x
  <2>9. x = e /\ y = z
    <3>1. Len(x) = Len(e)
      BY <1>7, <2>7, <2>8
    <3>2. x \in Seq(Byte) /\ y \in Seq(Byte) /\ e \in Seq(Byte) /\ z \in Seq(Byte)
      BY <1>2, <2>3, <2>5, <2>7 DEF Bytes
    <3>3. x \o y = e \o z
      BY <2>5
    <3> QED
      BY ONLY <3>1, <3>2, <3>3, SameCut
  <2>10. <<>> \o (rest \o p) = h[n]
    <3>1. <<>> \o y = z
      BY <2>5, <2>9, Empty
    <3> QED
      BY <3>1 DEF y, z
  <2>11. Tracks(sec, tls, w, <<>>, rest, snt, n)
    BY <1>3, <2>10 DEF Tracks
  <2> QED
    BY <2>1, <2>9, <2>11 DEF n, e
<1> QED
  BY <1>6, <1>7 DEF x

(* With nothing to read and nothing to process the session is between two  *)
(* messages, the last of which has been delivered.                         *)
LEMMA TracksDone ==
  ASSUME NEW sec \in BOOLEAN, NEW tls \in Bytes, ~sec => tls = <<>>,
         NEW s \in Sessions, Partial(s),
         NEW snt \in Seq(Bytes), Encoded(snt), NEW k \in 0 .. Len(snt),
         Tracks(sec, tls, <<>>, s.data, <<>>, snt, k)
  PROVE  tls = <<>> /\ s = CACleanData /\ k = Len(snt)
<1> DEFINE d == s.data
<1>1. PICK p, h : /\ p \in Bytes
                  /\ IF sec THEN Feeds(tls, <<>>, p) ELSE p = <<>>
                  /\ Follows(snt, h)
                  /\ d \o (<<>> \o p) = h[k]
  BY DEF Tracks
<1>2. d \in Bytes /\ Len(d) \in Nat /\ Len(snt) \in Nat
  BY LenProperties DEF Sessions, Bytes
<1>3. tls = <<>> /\ p = <<>>
  <2>1. CASE ~sec
    BY <1>1, <2>1
  <2>2. CASE sec
    <3>1. PICK fr, rs, hr, hf : \E j \in 0 .. Len(fr) :
            /\ Split(fr, rs, hr, hf)
            /\ tls \o <<>> = hr[j] /\ p = hf[j]
            /\ j < Len(fr) => Len(tls) < 5 + Len(fr[j + 1])
      BY <1>1, <2>2 DEF Feeds
    <3>2. PICK j \in 0 .. Len(fr) :
            /\ Split(fr, rs, hr, hf)
            /\ tls \o <<>> = hr[j] /\ p = hf[j]
            /\ j < Len(fr) => Len(tls) < 5 + Len(fr[j + 1])
      BY <3>1
    <3>3. /\ fr \in Seq(Fragments) /\ Len(fr) \in Nat /\ Len(rs) = Len(fr)
          /\ \A i \in 1 .. Len(fr) : rs[i] = Record(fr[i])
          /\ Follows(rs, hr) /\ Follows(fr, hf)
      <4>1. fr \in Seq(Fragments)
        BY <3>2 DEF Split
      <4> QED
        BY <3>2, <4>1, LenProperties DEF Split
    <3>4. tls = hr[j]
      BY <3>2, Empty
    <3>5. j = Len(fr)
      <4> SUFFICES ASSUME j # Len(fr) PROVE FALSE
        OBVIOUS
      <4> DEFINE n == j + 1
                 x == fr[n]
                 r == rs[n]
                 z == hr[n]
      <4>1. n \in 1 .. Len(fr) /\ n - 1 = j /\ j < Len(fr) /\ n \in 0 .. Len(fr)
        BY <3>3
      <4>2. x \in Fragments /\ r = Record(x)
        BY <3>3, <4>1, ElementOfSeq
      <4>3. tls = r \o z /\ z \in Bytes
        <5>1. hr[n - 1] = rs[n] \o hr[n] /\ hr[n] \in Bytes
          BY <3>3, <4>1 DEF Follows
        <5> QED
          BY <3>4, <4>1, <5>1
      <4>4. Len(tls) < 5 + Len(x)
        BY <3>2, <4>1
      <4> HIDE DEF n, x, r, z
      <4>5. r \in Bytes /\ Len(r) = 5 + Len(x) /\ Len(x) \in Nat
        BY <4>2, RecordFacts
      <4>6. Len(r \o z) = Len(r) + Len(z) /\ Len(z) \in Nat
        BY <4>3, <4>5, Joined, Empty
      <4>7. Len(tls) = Len(r) + Len(z)
        BY <4>3, <4>6
      <4> QED
        BY <4>4, <4>5, <4>6, <4>7
    <3> QED
      BY <3>2, <3>3, <3>4, <3>5 DEF Follows
  <2> QED
    BY <2>1, <2>2
<1>4. d = h[k]
  BY <1>1, <1>2, <1>3, Empty
<1> HIDE DEF d
<1>5. k = Len(snt)
  <2> SUFFICES ASSUME k < Len(snt) PROVE FALSE
    BY <1>2
  <2> DEFINE n == k + 1
             e == snt[n]
             z == h[n]
  <2>1. n \in 1 .. Len(snt) /\ n - 1 = k /\ n \in 0 .. Len(snt)
    BY <1>2
  <2>2. d = e \o z /\ z \in Bytes
    <3>1. h[n - 1] = snt[n] \o h[n] /\ h[n] \in Bytes
      BY <1>1, <2>1 DEF Follows
    <3> QED
      BY <1>4, <2>1, <3>1
  <2>3. PICK m \in Messages : e = Encode(m)
    BY <2>1 DEF Encoded
  <2> HIDE DEF n, e, z
  <2>4. e \in Bytes /\ Len(e) >= 1 /\ Len(e) >= Hlen(e[1])
    BY <2>3, EncodeFacts
  <2>5. Len(e) \in Nat /\ Len(d) = Len(e) + Len(z) /\ Len(z) \in Nat
    <3>1. Len(e \o z) = Len(e) + Len(z)
      BY <2>2, <2>4, Joined
    <3> QED
      BY <2>2, <2>4, <3>1, Empty
  <2>6. Len(d) >= 1 /\ d[1] = e[1]
    <3>1. 1 \in 1 .. Len(e)
      BY <2>4, <2>5
    <3>2. (e \o z)[1] = e[1]
      BY <2>2, <2>4, <3>1, Joined
    <3> QED
      BY <2>2, <2>4, <2>5, <3>2
  <2>7. Len(d) >= Hlen(d[1])
    <3>1. e[1] \in Byte
      BY <2>4, <2>5, ElementOfSeq DEF Bytes
    <3> DEFINE l == Hlen(e[1])
    <3>2. l \in Nat /\ Len(e) >= l
      BY <2>4, <3>1, HlenValues
    <3> HIDE DEF l
    <3>3. Len(d) >= l
      BY <2>5, <3>2
    <3> QED
      BY <2>6, <3>3 DEF l
  <2>8. TotalLengthFromHeader(d) = Len(e)
    <3> DEFINE y == <<>>
    <3>1. d \o y = e \o z /\ y \in Bytes
      BY <1>2, <2>2, Empty
    <3> HIDE DEF y
    <3>2. d \in Bytes /\ z \in Bytes /\ m \in Messages /\ e = Encode(m)
      BY <1>2, <2>2, <2>3
    <3> QED
      BY ONLY <2>6, <2>7, <3>1, <3>2, HeadOfStream
  <2>9. Filling(s) /\ Len(d) # s.totalLen
    <3>1. d # <<>>
      BY <2>6, Empty
    <3> QED
      BY <3>1 DEF Partial, CACleanData, d
  <2>10. s.totalLen = Len(e) /\ Len(d) <= s.totalLen
    BY <2>7, <2>8, <2>9 DEF Filling, d
  <2> QED
    BY <2>5, <2>9, <2>10
<1>6. d = <<>>
  BY <1>1, <1>4, <1>5 DEF Follows
<1>7. s = CACleanData
  <2>1. ~Filling(s)
    BY <1>6, Empty DEF Filling, d
  <2> QED
    BY <2>1 DEF Partial
<1> QED
  BY <1>3, <1>5, <1>7

-----------------------------------------------------------------------------
(* The specification.                                                      *)

Prefix(del, snt) == /\ Len(del) <= Len(snt)
                    /\ \A i \in 1 .. Len(del) : del[i] = snt[i]

LEMMA PrefixAppend ==
  ASSUME NEW del \in Seq(Bytes), NEW snt \in Seq(Bytes), Prefix(del, snt), NEW e \in Bytes
  PROVE  /\ Prefix(del, Append(snt, e))
         /\ Len(del) < Len(snt) /\ e = snt[Len(del) + 1] => Prefix(Append(del, e), snt)
<1>1. /\ Len(del) \in Nat /\ Len(snt) \in Nat /\ Len(del) <= Len(snt)
      /\ \A i \in 1 .. Len(del) : del[i] = snt[i]
  BY LenProperties DEF Prefix
<1>2. /\ Len(Append(snt, e)) = Len(snt) + 1
      /\ \A i \in 1 .. Len(snt) : Append(snt, e)[i] = snt[i]
  BY AppendProperties
<1>3. /\ Len(Append(del, e)) = Len(del) + 1 /\ Append(del, e)[Len(del) + 1] = e
      /\ \A i \in 1 .. Len(del) : Append(del, e)[i] = del[i]
  BY AppendProperties
<1>4. Prefix(del, Append(snt, e))
  BY <1>1, <1>2 DEF Prefix
<1>5. ASSUME Len(del) < Len(snt), e = snt[Len(del) + 1]
      PROVE  Prefix(Append(del, e), snt)
  <2>1. \A i \in 1 .. Len(del) + 1 : i \in 1 .. Len(del) \/ i = Len(del) + 1
    BY <1>1
  <2> QED
    BY <1>1, <1>3, <1>5, <2>1 DEF Prefix
<1> QED
  BY <1>4, <1>5

LEMMA PrefixIs ==
  ASSUME NEW del \in Seq(Bytes), NEW snt \in Seq(Bytes), Prefix(del, snt)
  PROVE  IsPrefix(del, snt) /\ (Len(del) = Len(snt) => del = snt)
<1>1. /\ Len(del) \in Nat /\ Len(snt) \in Nat /\ Len(del) <= Len(snt)
      /\ \A i \in 1 .. Len(del) : del[i] = snt[i]
  BY LenProperties DEF Prefix
<1>2. Len(del) = Len(snt) => del = snt
  BY <1>1, SeqEqual
<1> DEFINE x == SubSeq(snt, 1, Len(del))
<1>3. x \in Seq(Bytes) /\ Len(x) = Len(del) /\ \A i \in 1 .. Len(del) : x[i] = snt[i]
  BY <1>1, CutJoin
<1> HIDE DEF x
<1>4. x = del
  BY <1>1, <1>3, SeqEqual
<1>5. SubSeq(snt, 1, Len(del)) = del
  BY <1>4 DEF x
<1> QED
  BY <1>1, <1>2, <1>5 DEF IsPrefix

(* A connection begins and ends with an empty record.                      *)
Idle ==
  /\ ~connected => wire = <<>> /\ tlsdata = <<>> /\ buffer = <<>> /\ sess = CACleanData
  /\ ~secure => tlsdata = <<>>

(* The messages delivered are the first of those sent, and the session is  *)
(* at the next one.                                                        *)
InStep ==
  ~tail => /\ Prefix(delivered, sent)
           /\ connected => Tracks(secure, tlsdata, wire, sess.data, buffer, sent, Len(delivered))

FrameInv == TypeOK /\ Idle /\ Partial(sess) /\ Encoded(sent) /\ InStep

LEMMA FrameInit == Init => FrameInv
<1> SUFFICES ASSUME Init PROVE FrameInv
  OBVIOUS
<1>1. <<>> \in Seq(Byte) /\ <<>> \in Seq(Seq(Byte)) /\ Len(<<>>) = 0
  BY EmptySeq
<1>2. TypeOK
  <2>1. 0 \in 0 .. MaxSessions
    BY Bounds
  <2> QED
    BY <1>1, <2>1 DEF Init, TypeOK, CACleanData
<1>3. Idle /\ Partial(sess)
  BY DEF Init, Idle, Partial
<1>4. Encoded(sent)
  BY <1>1 DEF Init, Encoded
<1>5. InStep
  BY <1>1 DEF Init, InStep, Prefix
<1> QED
  BY <1>2, <1>3, <1>4, <1>5 DEF FrameInv

(* What the type invariant says in the terms of the lemmas.                *)
LEMMA Types ==
  ASSUME TypeOK
  PROVE  /\ secure \in BOOLEAN /\ wire \in Bytes /\ tlsdata \in Bytes /\ buffer \in Bytes
         /\ sess \in Sessions /\ sess.data \in Bytes
         /\ sent \in Seq(Bytes) /\ delivered \in Seq(Bytes)
         /\ Len(sent) \in Nat /\ Len(delivered) \in Nat
<1>1. sent \in Seq(Bytes) /\ delivered \in Seq(Bytes)
  BY DEF TypeOK, Bytes
<1> QED
  BY <1>1, LenProperties DEF TypeOK, Bytes, Sessions

LEMMA FrameAccept == FrameInv /\ CAAcceptConnection => FrameInv'
<1> SUFFICES ASSUME FrameInv, CAAcceptConnection PROVE FrameInv'
  OBVIOUS
<1>1. TypeOK /\ Idle /\ Partial(sess)
  BY DEF FrameInv
<1>2. /\ connected' = TRUE /\ secure' \in BOOLEAN /\ tail' = FALSE
      /\ sent' = <<>> /\ delivered' = <<>>
      /\ wire' = <<>> /\ tlsdata' = <<>> /\ sess' = CACleanData /\ buffer' = <<>>
  BY <1>1 DEF CAAcceptConnection, Idle
<1>3. <<>> \in Seq(Byte) /\ <<>> \in Seq(Seq(Byte)) /\ Len(<<>>) = 0
  BY EmptySeq
<1>4. TypeOK'
  <2>1. sessions' \in 0 .. MaxSessions
    <3>1. MaxSessions \in Nat
      BY Bounds
    <3>2. sessions \in 0 .. MaxSessions /\ sessions < MaxSessions /\ sessions' = sessions + 1
      BY <1>1 DEF TypeOK, CAAcceptConnection
    <3> QED
      BY <3>1, <3>2
  <2> QED
    BY <1>2, <1>3, <2>1 DEF TypeOK, CACleanData
<1>5. Idle' /\ Partial(sess)'
  BY <1>2 DEF Idle, Partial
<1>6. Encoded(sent)'
  BY <1>2, <1>3 DEF Encoded
<1>7. InStep'
  <2>1. Tracks(secure', <<>>, <<>>, <<>>, <<>>, <<>>, 0)
    BY <1>2, TracksStart
  <2>2. CACleanData.data = <<>>
    BY DEF CACleanData
  <2>3. Prefix(<<>>, <<>>)
    BY <1>3 DEF Prefix
  <2> QED
    BY <1>2, <1>3, <2>1, <2>2, <2>3 DEF InStep
<1> QED
  BY <1>4, <1>5, <1>6, <1>7 DEF FrameInv

LEMMA FrameSend ==
  ASSUME FrameInv, NEW m \in Messages, PeerSends(m) PROVE FrameInv'
<1> DEFINE e == Encode(m)
           b == IF secure THEN Records(e) ELSE e
<1>1. TypeOK /\ Idle /\ Partial(sess) /\ Encoded(sent) /\ InStep
  BY DEF FrameInv
<1>2. /\ connected /\ sent' = Append(sent, e) /\ wire' = wire \o b
      /\ connected' = connected /\ secure' = secure /\ sessions' = sessions
      /\ tlsdata' = tlsdata /\ sess' = sess /\ buffer' = buffer
      /\ delivered' = delivered /\ tail' = tail
  BY DEF PeerSends
<1>3. e \in Bytes /\ Len(e) >= 1
  BY EncodeFacts
<1>4. /\ secure \in BOOLEAN /\ wire \in Bytes /\ tlsdata \in Bytes /\ buffer \in Bytes
      /\ sess.data \in Bytes /\ sent \in Seq(Bytes) /\ delivered \in Seq(Bytes)
      /\ Len(sent) \in Nat /\ Len(delivered) \in Nat
  BY <1>1, Types
<1> HIDE DEF e
<1>5. b \in Bytes
  <2>1. Feeds(<<>>, <<>>, <<>>)
    BY Start
  <2>2. <<>> \in Bytes
    BY Empty
  <2>3. Records(e) \in Bytes
    BY <1>3, <2>1, <2>2, RecordsFeed
  <2> QED
    BY <1>3, <2>3
<1>6. TypeOK'
  <2>1. Append(sent, e) \in Seq(Bytes) /\ wire \o b \in Bytes
    BY <1>3, <1>4, <1>5, AppendProperties, Joined
  <2>2. sent' \in Seq(Seq(Byte)) /\ wire' \in Seq(Byte)
    BY <1>2, <2>1 DEF Bytes
  <2> QED
    BY <1>1, <1>2, <2>2 DEF TypeOK
<1>7. Idle' /\ Partial(sess)'
  BY <1>1, <1>2 DEF Idle
<1>8. Encoded(sent)'
  <2>1. ASSUME NEW i \in 1 .. Len(sent) + 1
        PROVE  \E x \in Messages : Append(sent, e)[i] = Encode(x)
    <3>1. CASE i = Len(sent) + 1
      <4>1. Append(sent, e)[i] = e
        BY <1>3, <1>4, <3>1, AppendProperties
      <4> QED
        BY <4>1 DEF e
    <3>2. CASE i \in 1 .. Len(sent)
      <4>1. Append(sent, e)[i] = sent[i]
        BY <1>3, <1>4, <3>2, AppendProperties
      <4> QED
        BY <1>1, <3>2, <4>1 DEF Encoded
    <3> QED
      BY <1>4, <3>1, <3>2
  <2>2. Len(Append(sent, e)) = Len(sent) + 1
    BY <1>3, <1>4, AppendProperties
  <2>3. Encoded(Append(sent, e))
    BY <2>1, <2>2 DEF Encoded
  <2> QED
    BY <1>2, <2>3
<1>9. InStep'
  <2> SUFFICES ASSUME ~tail
               PROVE  /\ Prefix(delivered', sent')
                      /\ Tracks(secure', tlsdata', wire', sess'.data, buffer', sent', Len(delivered'))
    BY <1>2 DEF InStep
  <2>1. /\ Prefix(delivered, sent)
        /\ Tracks(secure, tlsdata, wire, sess.data, buffer, sent, Len(delivered))
    BY <1>1, <1>2 DEF InStep
  <2>2. Prefix(delivered, Append(sent, e))
    BY <1>3, <1>4, <2>1, PrefixAppend
  <2>3. Len(delivered) \in 0 .. Len(sent)
    BY <1>4, <2>1 DEF Prefix
  <2> DEFINE w1 == wire \o b
             k == Len(delivered)
             d == sess.data
  <2>4. w1 = wire \o (IF secure THEN Records(e) ELSE e)
    OBVIOUS
  <2>5. k \in 0 .. Len(sent) /\ d \in Bytes /\ Tracks(secure, tlsdata, wire, d, buffer, sent, k)
    BY <1>4, <2>1, <2>3
  <2> HIDE DEF w1, k, d
  <2>6. Tracks(secure, tlsdata, w1, d, buffer, Append(sent, e), k)
    BY <1>3, <1>4, <2>4, <2>5, TracksSend
  <2> QED
    BY <1>2, <2>2, <2>6 DEF w1, k, d
<1> QED
  BY <1>6, <1>7, <1>8, <1>9 DEF FrameInv

LEMMA FramePlain ==
  ASSUME FrameInv, NEW n, ReceivePlain(n) PROVE FrameInv'
<1> DEFINE a == SubSeq(wire, 1, n)
           w1 == SubSeq(wire, n + 1, Len(wire))
<1>1. TypeOK /\ Idle /\ Partial(sess) /\ Encoded(sent) /\ InStep
  BY DEF FrameInv
<1>2. /\ connected /\ ~secure /\ buffer = <<>> /\ n \in 1 .. Len(wire)
      /\ buffer' = a /\ wire' = w1
      /\ connected' = connected /\ secure' = secure /\ sessions' = sessions
      /\ tlsdata' = tlsdata /\ sess' = sess /\ sent' = sent
      /\ delivered' = delivered /\ tail' = tail
  BY DEF ReceivePlain
<1>3. secure = FALSE /\ wire \in Bytes /\ tlsdata \in Bytes /\ sess.data \in Bytes
  BY <1>1, <1>2, Types
<1>4. Len(wire) \in Nat /\ n \in 0 .. Len(wire)
  BY <1>2, <1>3, Empty
<1>5. a \in Bytes /\ w1 \in Bytes
  <2>1. wire \in Seq(Byte)
    BY <1>3 DEF Bytes
  <2>2. a \in Seq(Byte) /\ w1 \in Seq(Byte)
    BY <1>4, <2>1, CutJoin
  <2> QED
    BY <2>2 DEF Bytes
<1>6. TypeOK'
  <2>1. buffer' \in Seq(Byte) /\ wire' \in Seq(Byte)
    BY <1>2, <1>5 DEF Bytes
  <2> HIDE DEF a, w1
  <2> QED
    BY <1>1, <1>2, <2>1 DEF TypeOK
<1>7. Idle' /\ Partial(sess)' /\ Encoded(sent)'
  BY <1>1, <1>2 DEF Idle
<1>8. InStep'
  <2> SUFFICES ASSUME ~tail
               PROVE  /\ Prefix(delivered, sent)
                      /\ Tracks(FALSE, tlsdata, w1, sess.data, a, sent, Len(delivered))
    BY <1>2, <1>3 DEF InStep
  <2> DEFINE k == Len(delivered)
             d == sess.data
             s == sent
  <2>1. Prefix(delivered, sent) /\ d \in Bytes /\ Tracks(FALSE, tlsdata, wire, d, <<>>, s, k)
    BY <1>1, <1>2, <1>3 DEF InStep
  <2>2. a = SubSeq(wire, 1, n) /\ w1 = SubSeq(wire, n + 1, Len(wire))
    OBVIOUS
  <2> HIDE DEF k, d, s, a, w1
  <2>3. Tracks(FALSE, tlsdata, w1, d, a, s, k)
    BY <1>3, <1>4, <2>1, <2>2, TracksPlain
  <2> QED
    BY <2>1, <2>3 DEF k, d, s
<1> QED
  BY <1>6, <1>7, <1>8 DEF FrameInv

(* The bytes CAReceiveMessage asks for are those of the current record.    *)
LEMMA NbReads ==
  ASSUME TypeOK, NEW n, n \in 1 .. Smaller(NbRead, Len(wire)),
         NEW got, got = tlsdata \o SubSeq(wire, 1, n),
         NEW w1, w1 = SubSeq(wire, n + 1, Len(wire))
  PROVE  Reads(tlsdata, wire, TlsLength, n, got, w1)
<1> DEFINE l == Len(tlsdata)
           t == TlsLength
           x == tlsdata[4] * 256 + tlsdata[5]
           lw == Len(wire)
<1>1. l \in Nat /\ lw \in Nat
  BY LenProperties DEF TypeOK
<1>2. l >= 5 => t \in Nat /\ t = 5 + tlsdata[4] * 256 + tlsdata[5]
  <2> SUFFICES ASSUME l >= 5 PROVE t \in Nat /\ t = 5 + tlsdata[4] * 256 + tlsdata[5]
    OBVIOUS
  <2>1. tlsdata \in Seq(Byte) /\ 4 \in 1 .. Len(tlsdata) /\ 5 \in 1 .. Len(tlsdata)
    BY <1>1 DEF TypeOK
  <2>2. tlsdata[4] \in Nat /\ tlsdata[5] \in Nat
    BY <2>1, ElementOfSeq, ByteValues
  <2> QED
    BY <2>2 DEF TlsLength, TLS_HEADER_SIZE
<1>3. NbRead = IF l < 5 THEN 5 - l ELSE t - l
  BY DEF NbRead, TLS_HEADER_SIZE
<1> DEFINE nb == NbRead
<1>4. n \in 1 .. (IF nb < lw THEN nb ELSE lw)
  BY DEF Smaller
<1>5. nb = IF l < 5 THEN 5 - l ELSE t - l
  BY <1>3
<1>6. nb \in Int
  BY <1>1, <1>2, <1>5
<1> HIDE DEF l, t, lw, nb
<1>7. n \in Nat /\ n >= 1 /\ n <= lw /\ n <= nb
  BY <1>1, <1>4, <1>6
<1>8. (l < 5 => n <= 5 - l) /\ (l >= 5 => n <= t - l)
  BY <1>1, <1>5, <1>7
<1> QED
  BY <1>2, <1>7, <1>8 DEF Reads, l, t, lw

LEMMA FrameTLS ==
  ASSUME FrameInv, NEW n, ReceiveTLS(n) PROVE FrameInv'
<1> DEFINE got == tlsdata \o SubSeq(wire, 1, n)
           w1 == SubSeq(wire, n + 1, Len(wire))
           len == TlsLength
           whole == Len(tlsdata) >= 5 /\ Len(got) = len
<1>1. TypeOK /\ Idle /\ Partial(sess) /\ Encoded(sent) /\ InStep
  BY DEF FrameInv
<1>2. /\ connected /\ secure /\ buffer = <<>>
      /\ wire' = w1
      /\ IF whole THEN tlsdata' = <<>> /\ buffer' = SubSeq(got, 6, Len(got))
                  ELSE tlsdata' = got /\ buffer' = buffer
      /\ connected' = connected /\ secure' = secure /\ sessions' = sessions
      /\ sess' = sess /\ sent' = sent
      /\ delivered' = delivered /\ tail' = tail
  BY DEF ReceiveTLS, TLS_HEADER_SIZE
<1>3. Reads(tlsdata, wire, len, n, got, w1)
  <2>1. n \in 1 .. Smaller(NbRead, Len(wire))
    BY DEF ReceiveTLS
  <2> QED
    BY <1>1, <2>1, NbReads
<1>4. secure = TRUE /\ wire \in Bytes /\ tlsdata \in Bytes /\ sess.data \in Bytes
  BY <1>1, <1>2, Types
<1> HIDE DEF got, w1, len
<1>5. got \in Bytes /\ w1 \in Bytes /\ (whole => SubSeq(got, 6, Len(got)) \in Bytes)
  <2> DEFINE a == SubSeq(wire, 1, n)
  <2>1. n \in 0 .. Len(wire) /\ got = tlsdata \o a /\ w1 = SubSeq(wire, n + 1, Len(wire))
    BY <1>3, <1>4, Empty DEF Reads
  <2>2. a \in Bytes /\ w1 \in Bytes
    <3>1. wire \in Seq(Byte)
      BY <1>4 DEF Bytes
    <3>2. a \in Seq(Byte) /\ SubSeq(wire, n + 1, Len(wire)) \in Seq(Byte)
      BY <2>1, <3>1, CutJoin
    <3> QED
      BY <2>1, <3>2 DEF Bytes
  <2> HIDE DEF a
  <2>3. got \in Bytes /\ Len(got) = Len(tlsdata) + Len(a)
    <3>1. tlsdata \o a \in Bytes /\ Len(tlsdata \o a) = Len(tlsdata) + Len(a)
      BY <1>4, <2>2, Joined
    <3> QED
      BY <2>1, <3>1
  <2>4. whole => SubSeq(got, 6, Len(got)) \in Bytes
    <3> SUFFICES ASSUME Len(tlsdata) >= 5 PROVE SubSeq(got, 6, Len(got)) \in Bytes
      OBVIOUS
    <3>1. Len(tlsdata) \in Nat /\ Len(a) \in Nat
      BY <1>4, <2>2, Empty
    <3>2. 5 \in 0 .. Len(got) /\ 5 + 1 = 6
      BY <2>3, <3>1
    <3>3. got \in Seq(Byte)
      BY <2>3 DEF Bytes
    <3>4. SubSeq(got, 5 + 1, Len(got)) \in Seq(Byte)
      BY ONLY <3>2, <3>3, CutJoin
    <3> QED
      BY <3>2, <3>4 DEF Bytes
  <2> QED
    BY <2>2, <2>3, <2>4
<1>6. TypeOK'
  <2>1. buffer' \in Seq(Byte) /\ wire' \in Seq(Byte) /\ tlsdata' \in Seq(Byte)
    BY <1>2, <1>5, Empty DEF Bytes
  <2> QED
    BY <1>1, <1>2, <2>1 DEF TypeOK
<1>7. Idle' /\ Partial(sess)' /\ Encoded(sent)'
  BY <1>1, <1>2 DEF Idle
<1>8. InStep'
  <2> SUFFICES ASSUME ~tail
               PROVE  /\ Prefix(delivered, sent)
                      /\ Tracks(TRUE, tlsdata', w1, sess.data, buffer', sent, Len(delivered))
    BY <1>2, <1>4 DEF InStep
  <2> DEFINE k == Len(delivered)
             d == sess.data
             s == sent
  <2>1. Prefix(delivered, sent) /\ d \in Bytes /\ Tracks(TRUE, tlsdata, wire, d, <<>>, s, k)
    BY <1>1, <1>2, <1>4 DEF InStep
  <2> HIDE DEF k, d, s
  <2>2. /\ whole => Tracks(TRUE, <<>>, w1, d, SubSeq(got, 6, Len(got)), s, k)
        /\ ~whole => Tracks(TRUE, got, w1, d, <<>>, s, k)
    BY <1>3, <1>4, <2>1, TracksRecord
  <2> HIDE DEF whole
  <2>3. Tracks(TRUE, tlsdata', w1, d, buffer', s, k)
    <3>1. CASE whole
      BY <1>2, <2>2, <3>1
    <3>2. CASE ~whole
      BY <1>2, <2>2, <3>2
    <3> QED
      BY <3>1, <3>2
  <2> QED
    BY <2>1, <2>3 DEF k, d, s
<1> QED
  BY <1>6, <1>7, <1>8 DEF FrameInv

LEMMA FrameTurn == FrameInv /\ CATCPPacketReceivedCB => FrameInv'
<1> SUFFICES ASSUME FrameInv, CATCPPacketReceivedCB PROVE FrameInv'
  OBVIOUS
<1>1. TypeOK /\ Idle /\ Partial(sess) /\ Encoded(sent) /\ InStep
  BY DEF FrameInv
<1> DEFINE r == CAConstructCoAP(sess, buffer)
           x == r.sess
           d == sess.data
           y == r.sess.data
           done == Len(y) = x.totalLen
           single == d = <<>> /\ Len(buffer) = 1
<1>2. /\ buffer # <<>> /\ buffer' = r.rest
      /\ IF done THEN sess' = CACleanData /\ delivered' = Append(delivered, y)
                 ELSE sess' = x /\ delivered' = delivered
      /\ tail' = (tail \/ single)
      /\ connected' = connected /\ secure' = secure /\ sessions' = sessions
      /\ wire' = wire /\ tlsdata' = tlsdata /\ sent' = sent
  BY DEF CATCPPacketReceivedCB
<1>3. /\ wire \in Bytes /\ tlsdata \in Bytes /\ buffer \in Bytes
      /\ sess \in Sessions /\ d \in Bytes
      /\ sent \in Seq(Bytes) /\ delivered \in Seq(Bytes)
      /\ Len(sent) \in Nat /\ Len(delivered) \in Nat
  BY <1>1, Types
<1>4. connected
  BY <1>1, <1>2 DEF Idle
<1>5. /\ x \in Sessions /\ Filling(x) /\ r.rest \in Bytes
      /\ ~single => Built(sess, buffer, x, r.rest)
  BY <1>1, <1>2, <1>3, ConstructFacts
<1> HIDE DEF r
<1>6. y \in Bytes
  BY <1>5 DEF Sessions
<1>7. TypeOK'
  <2>1. buffer' \in Seq(Byte)
    BY <1>2, <1>5 DEF Bytes
  <2>2. delivered' \in Seq(Seq(Byte))
    <3>1. Append(delivered, y) \in Seq(Bytes)
      BY <1>3, <1>6, AppendProperties
    <3>2. delivered' \in Seq(Bytes)
      BY <1>2, <1>3, <3>1
    <3> QED
      BY <3>2 DEF Bytes
  <2>3. sess' \in [data : Seq(Byte), cap : Nat, totalLen : Nat]
    <3>1. CACleanData \in Sessions
      BY Empty DEF CACleanData, Sessions
    <3>2. sess' \in Sessions
      BY <1>2, <1>5, <3>1
    <3> QED
      BY <3>2 DEF Sessions, Bytes
  <2>4. tail' \in BOOLEAN
    BY <1>2
  <2> HIDE DEF single, done
  <2> QED
    BY <1>1, <1>2, <2>1, <2>2, <2>3, <2>4 DEF TypeOK
<1>8. Idle' /\ Encoded(sent)'
  BY <1>1, <1>2, <1>4 DEF Idle
<1>9. Partial(sess')
  BY <1>2, <1>5 DEF Partial
<1>10. InStep'
  <2> DEFINE k == Len(delivered)
  <2> SUFFICES ASSUME ~tail, ~single
               PROVE  /\ Prefix(delivered', sent)
                      /\ Tracks(secure, tlsdata, wire, sess'.data, r.rest, sent, Len(delivered'))
    BY <1>2, <1>4 DEF InStep
  <2>1. Prefix(delivered, sent) /\ Tracks(secure, tlsdata, wire, d, buffer, sent, k)
    BY <1>1, <1>4 DEF InStep
  <2>2. k \in 0 .. Len(sent)
    BY <1>3, <2>1 DEF Prefix
  <2>3. Built(sess, buffer, x, r.rest)
    BY <1>5
  <2> DEFINE sec == secure
             snt == sent
             rest == r.rest
  <2>4. /\ ~done => Tracks(sec, tlsdata, wire, y, rest, snt, k)
        /\ done => /\ k < Len(snt) /\ y = snt[k + 1]
                   /\ Tracks(sec, tlsdata, wire, <<>>, rest, snt, k + 1)
    <3> DEFINE t == x
    <3>1. /\ sess \in Sessions /\ buffer \in Bytes /\ snt \in Seq(Bytes) /\ Encoded(snt)
          /\ k \in 0 .. Len(snt)
      BY <1>1, <1>3, <2>2
    <3>2. Tracks(sec, tlsdata, wire, sess.data, buffer, snt, k) /\ Built(sess, buffer, t, rest)
      BY <2>1, <2>3
    <3> HIDE DEF t, k, rest, sec, snt
    <3>3. /\ Len(t.data) # t.totalLen => Tracks(sec, tlsdata, wire, t.data, rest, snt, k)
          /\ Len(t.data) = t.totalLen => /\ k < Len(snt) /\ t.data = snt[k + 1]
                                         /\ Tracks(sec, tlsdata, wire, <<>>, rest, snt, k + 1)
      BY ONLY <3>1, <3>2, TracksTurn, ZenonT(60)
    <3> QED
      BY <3>3 DEF t
  <2>5. CASE done
    <3>1. sess' = CACleanData /\ delivered' = Append(delivered, y)
      BY <1>2, <2>5
    <3>2. sess'.data = <<>>
      BY <3>1 DEF CACleanData
    <3>3. Len(delivered') = k + 1
      BY <1>3, <1>6, <3>1, AppendProperties
    <3>4. Prefix(delivered', sent)
      <4> HIDE DEF y
      <4>1. Len(delivered) < Len(sent) /\ y = sent[Len(delivered) + 1]
        BY <2>4, <2>5
      <4> QED
        BY <1>3, <1>6, <2>1, <3>1, <4>1, PrefixAppend
    <3> QED
      BY <2>4, <2>5, <3>2, <3>3, <3>4
  <2>6. CASE ~done
    BY <1>2, <2>1, <2>4, <2>6
  <2> QED
    BY <2>5, <2>6
<1> QED
  BY <1>7, <1>8, <1>9, <1>10 DEF FrameInv

LEMMA FrameDisconnect == FrameInv /\ CADisconnectTCPSession => FrameInv'
<1> SUFFICES ASSUME FrameInv, CADisconnectTCPSession PROVE FrameInv'
  OBVIOUS
<1>1. TypeOK /\ Encoded(sent) /\ InStep
  BY DEF FrameInv
<1>2. /\ connected' = FALSE /\ wire' = <<>> /\ tlsdata' = <<>> /\ sess' = CACleanData
      /\ buffer = <<>> /\ buffer' = buffer /\ secure' = secure /\ sessions' = sessions
      /\ sent' = sent /\ delivered' = delivered /\ tail' = tail
  BY DEF CADisconnectTCPSession
<1>3. TypeOK'
  <2>1. <<>> \in Seq(Byte) /\ CACleanData \in [data : Seq(Byte), cap : Nat, totalLen : Nat]
    BY EmptySeq DEF CACleanData
  <2> QED
    BY <1>1, <1>2, <2>1 DEF TypeOK
<1>4. Idle' /\ Partial(sess') /\ Encoded(sent)' /\ InStep'
  BY <1>1, <1>2 DEF Idle, Partial, InStep
<1> QED
  BY <1>3, <1>4 DEF FrameInv

(* FrameInv is an inductive invariant: between two steps the record of a   *)
(* session, its buffer and the bytes still to come are exactly what the    *)
(* peer sent behind the messages delivered (CAReceiveMessage,              *)
(* CATCPPacketReceivedCB).                                                 *)
THEOREM Invariance == Spec => []FrameInv
<1>1. FrameInv /\ [Next]_vars => FrameInv'
  <2> SUFFICES ASSUME FrameInv, [Next]_vars PROVE FrameInv'
    OBVIOUS
  <2>1. CASE CAAcceptConnection
    BY <2>1, FrameAccept
  <2>2. ASSUME NEW m \in Messages, PeerSends(m) PROVE FrameInv'
    BY <2>2, FrameSend
  <2>3. ASSUME NEW n \in 1 .. Len(wire), ReceivePlain(n) \/ ReceiveTLS(n) PROVE FrameInv'
    BY <2>3, FramePlain, FrameTLS
  <2>4. CASE CATCPPacketReceivedCB
    BY <2>4, FrameTurn
  <2>5. CASE CADisconnectTCPSession
    BY <2>5, FrameDisconnect
  <2>6. CASE UNCHANGED vars
    <3>1. FrameInv
      OBVIOUS
    <3>2. /\ connected' = connected /\ secure' = secure /\ sessions' = sessions
          /\ wire' = wire /\ tlsdata' = tlsdata /\ sess' = sess /\ buffer' = buffer
          /\ sent' = sent /\ delivered' = delivered /\ tail' = tail
      BY <2>6 DEF vars
    <3> QED
      BY <3>1, <3>2 DEF FrameInv, TypeOK, Idle, InStep
  <2> QED
    BY <2>1, <2>2, <2>3, <2>4, <2>5, <2>6 DEF Next, Receive
<1> QED
  BY FrameInit, <1>1, PTL DEF Spec

(* Every variable keeps its type.                                          *)
THEOREM TypeCorrect == Spec => []TypeOK
<1>1. FrameInv => TypeOK
  BY DEF FrameInv
<1> QED
  BY Invariance, <1>1, PTL

(* The upper layer gets the messages the peer sent, whole and in order,    *)
(* however TCP cuts the stream and whatever the size of the TLS records,   *)
(* unless a read ended one byte into a message (CATCPPacketReceivedCB).    *)
THEOREM MessagesFramed == Spec => []Framed
<1>1. FrameInv => Framed
  <2> SUFFICES ASSUME FrameInv, ~tail PROVE IsPrefix(delivered, sent)
    BY DEF Framed
  <2>1. sent \in Seq(Bytes) /\ delivered \in Seq(Bytes)
    BY Types DEF FrameInv
  <2>2. Prefix(delivered, sent)
    BY DEF FrameInv, InStep
  <2> QED
    BY <2>1, <2>2, PrefixIs
<1> QED
  BY Invariance, <1>1, PTL

(* Once all bytes are read and processed, every message has been delivered *)
(* and the record of the session is empty (CAConstructCoAP, CACleanData).  *)
THEOREM NothingIsHeld == Spec => []NothingHeld
<1>1. FrameInv => NothingHeld
  <2> SUFFICES ASSUME FrameInv, connected, wire = <<>>, buffer = <<>>, ~tail
               PROVE  delivered = sent /\ sess = CACleanData /\ tlsdata = <<>>
    BY DEF NothingHeld
  <2>1. /\ secure \in BOOLEAN /\ tlsdata \in Bytes /\ sess \in Sessions
        /\ sent \in Seq(Bytes) /\ delivered \in Seq(Bytes)
        /\ Len(sent) \in Nat /\ Len(delivered) \in Nat
    BY Types DEF FrameInv
  <2>2. /\ Partial(sess) /\ Encoded(sent) /\ Prefix(delivered, sent)
        /\ ~secure => tlsdata = <<>>
        /\ Tracks(secure, tlsdata, <<>>, sess.data, <<>>, sent, Len(delivered))
    BY DEF FrameInv, InStep, Idle
  <2> DEFINE k == Len(delivered)
  <2>3. k \in 0 .. Len(sent)
    BY <2>1, <2>2 DEF Prefix
  <2>4. Tracks(secure, tlsdata, <<>>, sess.data, <<>>, sent, k)
    BY <2>2
  <2> HIDE DEF k
  <2>5. tlsdata = <<>> /\ sess = CACleanData /\ k = Len(sent)
    BY <2>1, <2>2, <2>3, <2>4, TracksDone
  <2> QED
    BY <2>1, <2>2, <2>5, PrefixIs DEF k
<1> QED
  BY Invariance, <1>1, PTL

(* No copy of CAConstructCoAP passes the end of its allocation, also when  *)
(* the session has lost the boundaries of the messages.                    *)
THEOREM CopyWithinBuffer == Spec => []WithinBuffer
<1>1. FrameInv => WithinBuffer
  <2> SUFFICES ASSUME FrameInv PROVE Len(sess.data) <= sess.cap
    BY DEF WithinBuffer
  <2> DEFINE d == sess.data
             l == Hlen(d[1])
  <2>1. sess \in Sessions /\ d \in Bytes /\ Len(d) \in Nat /\ Partial(sess)
    BY Types, Empty DEF FrameInv
  <2>2. CASE sess = CACleanData
    <3>1. d = <<>> /\ sess.cap = 0
      BY <2>2 DEF CACleanData
    <3> QED
      BY <3>1, Empty
  <2>3. CASE Filling(sess)
    <3>1. /\ Len(d) >= 1
          /\ Len(d) < l => sess.cap = 6
          /\ Len(d) >= l => Len(d) <= sess.cap
      BY <2>3 DEF Filling, COAP_MAX_HEADER_SIZE
    <3>2. l \in {2, 3, 4, 6}
      <4>1. d[1] \in Byte
        BY <2>1, <3>1, ElementOfSeq DEF Bytes
      <4> QED
        BY <4>1, HlenValues
    <3> HIDE DEF l
    <3> QED
      BY <2>1, <3>1, <3>2
  <2> QED
    BY <2>1, <2>2, <2>3 DEF Partial
<1> QED
  BY Invariance, <1>1, PTL

=============================================================================
