---------------------------- MODULE SegmentProofs ----------------------------
(***************************************************************************)
(* Proofs about Segment, for every packet, offset and length, and about    *)
(* Checksum, for bytes of every size and data of every length.             *)
(***************************************************************************)
EXTENDS Segment, Checksum, WellFoundedInduction, TLAPS

\* Division with remainder, and that it is unique.
LEMMA Division ==
    ASSUME NEW s \in Nat \ {0}, NEW x \in Nat
    PROVE  x = s * (x \div s) + (x % s) /\ x % s \in 0..(s - 1) /\ x \div s \in Int
  OBVIOUS

\* See Division.
LEMMA Remainder ==
    ASSUME NEW s \in Nat \ {0}, NEW q \in Int, NEW r \in 0..(s - 1), NEW x \in Int,
           x = s * q + r
    PROVE  x % s = r
  OBVIOUS

\* Adding modulo s in two steps.
LEMMA ModAdd ==
    ASSUME NEW s \in Nat \ {0}, NEW x \in Nat, NEW n \in Nat
    PROVE  ((x % s) + n) % s = (x + n) % s
  <1>1. PICK q \in Int, m \in 0..(s - 1) : x = s * q + m /\ x % s = m
    BY Division
  <1>2. m + n \in Nat
    OBVIOUS
  <1>3. PICK p \in Int, r \in 0..(s - 1) : m + n = s * p + r /\ (m + n) % s = r
    BY <1>2, Division
  <1>4. x + n = s * (q + p) + r
    BY <1>1, <1>3
  <1>5. PICK k \in Int : k = q + p
    OBVIOUS
  <1>6. PICK y \in Int : y = x + n
    OBVIOUS
  <1>7. y = s * k + r
    BY <1>4, <1>5, <1>6
  <1>8. y % s = r
    BY ONLY <1>7
  <1> QED
    BY <1>1, <1>3, <1>6, <1>8

\* A number below s is its own remainder.
LEMMA ModSmall ==
    ASSUME NEW s \in Nat \ {0}, NEW x \in 0..(s - 1)
    PROVE  x % s = x
  <1>1. x = s * 0 + x
    OBVIOUS
  <1> QED
    BY <1>1, Remainder
-----------------------------------------------------------------------------
USE SegmentAssumption

\* The lengths of a packet that was parsed.
LEMMA ParsedLengths ==
    ASSUME NEW p \in Fields, Parsed(p)
    PROVE  /\ IPLen(p) \in 20..60 /\ TCPLen(p) \in 20..60
           /\ PayloadOffset(p) = IPLen(p) + TCPLen(p)
           /\ PayloadLen(p) \in Nat \ {0}
           /\ PayloadOffset(p) + PayloadLen(p) = p.totalLen
           /\ p.totalLen <= p.len /\ p.len < LenSpace /\ p.len \in Nat
  BY DEF Parsed, TCPChecked, HasHeaders, GoodIP, GoodTotal, GoodTCP, HasData,
         IPLen, TCPLen, PayloadOffset, PayloadLen, Fields,
         ipv4MinHeaderLen, tcpMinHeaderLen

\* A packet with the headers of a parsed one and at least a byte of data, whose
\* length was fixed, is parsed with that data, and its slices are in bounds.
LEMMA FixedParses ==
    ASSUME NEW p \in Fields, Parsed(p), NEW n \in Nat \ {0}, n <= p.len - PayloadOffset(p),
           NEW q \in Fields,
           q.len = PayloadOffset(p) + n, q.totalLen = q.len,
           q.version = p.version, q.ihl = p.ihl, q.proto = p.proto,
           q.frag = p.frag, q.doff = p.doff
    PROVE  /\ Parsed(q) /\ PayloadLen(q) = n
           /\ \A s \in PartSlices(q) : 0 <= s[1] /\ s[1] <= s[2] /\ s[2] <= s[3]
  <1>1. /\ IPLen(q) = IPLen(p) /\ TCPLen(q) = TCPLen(p)
        /\ PayloadOffset(q) = PayloadOffset(p)
    BY DEF IPLen, TCPLen, PayloadOffset
  <1>2. /\ IPLen(p) \in 20..60 /\ TCPLen(p) \in 20..60
        /\ PayloadOffset(p) = IPLen(p) + TCPLen(p)
    BY ParsedLengths
  <1>3. PayloadLen(q) = n
    BY <1>1, <1>2 DEF PayloadLen
  <1>4. Parsed(q)
    BY <1>1, <1>2, <1>3
       DEF Parsed, TCPChecked, HasHeaders, GoodIP, GoodTotal, GoodTCP, HasData,
           ipv4MinHeaderLen, tcpMinHeaderLen
  <1>5. \A s \in PartSlices(q) : 0 <= s[1] /\ s[1] <= s[2] /\ s[2] <= s[3]
    BY <1>1, <1>2 DEF PartSlices
  <1> QED
    BY <1>3, <1>4, <1>5

\* Fixing the length of a packet sets the declared length to the real one, and
\* nothing else: 16 bits are enough for it.
LEMMA FixLengthFields ==
    ASSUME NEW a \in Fields
    PROVE  /\ FixLength(a) \in Fields
           /\ FixLength(a).len = a.len /\ FixLength(a).totalLen = a.len
           /\ FixLength(a).version = a.version /\ FixLength(a).ihl = a.ihl
           /\ FixLength(a).proto = a.proto /\ FixLength(a).frag = a.frag
           /\ FixLength(a).doff = a.doff /\ FixLength(a).flags = a.flags
           /\ FixLength(a).seq = a.seq /\ FixLength(a).data = a.data
  <1>1. a.len \in 0..(LenSpace - 1)
    BY DEF Fields
  <1>2. a.len % LenSpace = a.len
    BY <1>1, ModSmall
  <1> QED
    BY <1>1, <1>2 DEF FixLength, Fields

\* The two parts, field by field.
LEMMA PartFields ==
    ASSUME NEW p \in Fields, Parsed(p), NEW at \in Nat \ {0}, at < PayloadLen(p)
    PROVE  /\ First(p, at) \in Fields /\ Second(p, at) \in Fields
           /\ First(p, at).len = PayloadOffset(p) + at
           /\ First(p, at).totalLen = First(p, at).len
           /\ First(p, at).seq = p.seq /\ First(p, at).data = p.data
           /\ First(p, at).flags = p.flags \ {"PSH", "FIN"}
           /\ Second(p, at).len = PayloadOffset(p) + (PayloadLen(p) - at)
           /\ Second(p, at).totalLen = Second(p, at).len
           /\ Second(p, at).seq = (p.seq + at) % SeqSpace
           /\ Second(p, at).data = p.data + at
           /\ Second(p, at).flags = p.flags
           /\ \A q \in {First(p, at), Second(p, at)} :
                /\ q.version = p.version /\ q.ihl = p.ihl /\ q.proto = p.proto
                /\ q.frag = p.frag /\ q.doff = p.doff
  <1>1. /\ PayloadOffset(p) \in Nat /\ PayloadLen(p) \in Nat
        /\ PayloadOffset(p) + PayloadLen(p) < LenSpace
    BY ParsedLengths
  <1>2. p.seq + at \in Nat /\ p.data + at \in Nat
    BY DEF Fields
  <1>3. (p.seq + at) % SeqSpace \in 0..(SeqSpace - 1)
    BY <1>2, Division
  <1>4. /\ PayloadOffset(p) + at \in 0..(LenSpace - 1)
        /\ PayloadOffset(p) + (PayloadLen(p) - at) \in 0..(LenSpace - 1)
    BY <1>1
  <1> DEFINE SameHeader(q) ==
        /\ q.version = p.version /\ q.ihl = p.ihl /\ q.proto = p.proto
        /\ q.frag = p.frag /\ q.doff = p.doff
  \* One field at a time.
  <1> DEFINE a1 == [p EXCEPT !.len = PayloadOffset(p) + at]
             a == [a1 EXCEPT !.flags = p.flags \ {"PSH", "FIN"}]
             b1 == [p EXCEPT !.len = PayloadOffset(p) + (PayloadLen(p) - at)]
             b2 == [b1 EXCEPT !.seq = (p.seq + at) % SeqSpace]
             b == [b2 EXCEPT !.data = p.data + at]
  <1>5. First(p, at) = FixLength(a) /\ Second(p, at) = FixLength(b)
    BY DEF First, Second
  <1>6. /\ a1 \in Fields /\ a1.len = PayloadOffset(p) + at
        /\ a1.seq = p.seq /\ a1.data = p.data /\ SameHeader(a1)
        /\ b1 \in Fields /\ b1.len = PayloadOffset(p) + (PayloadLen(p) - at)
        /\ b1.flags = p.flags /\ b1.data = p.data /\ SameHeader(b1)
    BY <1>4 DEF Fields
  <1> HIDE DEF a1, b1
  <1>7. /\ a \in Fields /\ a.len = PayloadOffset(p) + at
        /\ a.seq = p.seq /\ a.data = p.data /\ a.flags = p.flags \ {"PSH", "FIN"}
        /\ SameHeader(a)
    BY <1>6 DEF Fields
  <1>8. /\ b2 \in Fields /\ b2.len = PayloadOffset(p) + (PayloadLen(p) - at)
        /\ b2.seq = (p.seq + at) % SeqSpace /\ b2.flags = p.flags /\ SameHeader(b2)
    BY <1>3, <1>6 DEF Fields
  <1> HIDE DEF a, b2
  <1>9. /\ b \in Fields /\ b.len = PayloadOffset(p) + (PayloadLen(p) - at)
        /\ b.seq = (p.seq + at) % SeqSpace /\ b.data = p.data + at
        /\ b.flags = p.flags /\ SameHeader(b)
    BY <1>2, <1>8 DEF Fields
  <1> HIDE DEF b
  <1> QED
    BY <1>5, <1>7, <1>9, FixLengthFields

\* The fake, field by field.
LEMMA FakeFields ==
    ASSUME NEW p \in Fields, Parsed(p), NEW n \in Nat
    PROVE  /\ Fake(p, n) \in Fields
           /\ FakeLen(p, n) \in Nat \ {0} /\ FakeLen(p, n) <= p.len - PayloadOffset(p)
           /\ Fake(p, n).len = PayloadOffset(p) + FakeLen(p, n)
           /\ Fake(p, n).totalLen = Fake(p, n).len
           /\ Fake(p, n).seq = p.seq
           /\ Fake(p, n).version = p.version /\ Fake(p, n).ihl = p.ihl
           /\ Fake(p, n).proto = p.proto
           /\ Fake(p, n).frag = p.frag /\ Fake(p, n).doff = p.doff
  <1>1. /\ PayloadOffset(p) \in Nat /\ p.len \in Nat /\ p.len < LenSpace
        /\ p.len - PayloadOffset(p) > 0
    BY ParsedLengths
  <1>2. FakeLen(p, n) \in Nat \ {0} /\ FakeLen(p, n) <= p.len - PayloadOffset(p)
    BY <1>1 DEF FakeLen
  <1> DEFINE a == [p EXCEPT !.len = PayloadOffset(p) + FakeLen(p, n)]
  <1>3. /\ a \in Fields /\ a.len = PayloadOffset(p) + FakeLen(p, n)
        /\ a.seq = p.seq /\ a.version = p.version /\ a.ihl = p.ihl
        /\ a.proto = p.proto /\ a.frag = p.frag /\ a.doff = p.doff
    BY <1>1, <1>2 DEF Fields
  <1>4. Fake(p, n) = FixLength(a)
    BY DEF Fake
  <1> HIDE DEF a
  <1> QED
    BY <1>2, <1>3, <1>4, FixLengthFields
-----------------------------------------------------------------------------
\* What holds of a packet and what was made of it, with the fact the steps after
\* the parser need.
SegmentInv ==
    /\ TypeOK /\ InBounds /\ SameStream /\ PartsParse /\ FakeParses
    /\ stage = "parsed" => Parsed(pkt)

\* The parts carry the bytes of the packet.
LEMMA PartsCarryStream ==
    ASSUME NEW p \in Fields, Parsed(p), NEW at \in Nat \ {0}, at < PayloadLen(p)
    PROVE  Stream(First(p, at)) \cup Stream(Second(p, at)) = Stream(p)
  <1> DEFINE first == First(p, at)
             second == Second(p, at)
             len == PayloadLen(p)
  <1>1. /\ len \in Nat /\ p.seq \in Nat /\ p.data \in Nat
        /\ PayloadLen(first) = at /\ PayloadLen(second) = len - at
    <2>1. /\ PayloadLen(p) \in Nat /\ at <= p.len - PayloadOffset(p)
          /\ PayloadLen(p) - at \in Nat \ {0}
          /\ PayloadLen(p) - at <= p.len - PayloadOffset(p)
      BY ParsedLengths
    <2> QED
      BY <2>1, PartFields, FixedParses DEF Fields
  <1>2. \A i \in Nat : (second.seq + i) % SeqSpace = (p.seq + (at + i)) % SeqSpace
    <2> TAKE i \in Nat
    <2>1. p.seq + at \in Nat /\ p.seq + (at + i) = (p.seq + at) + i
      BY <1>1
    <2>2. (((p.seq + at) % SeqSpace) + i) % SeqSpace = ((p.seq + at) + i) % SeqSpace
      BY <2>1, ModAdd
    <2> QED
      BY <2>1, <2>2, PartFields
  <1>3. /\ first.seq = p.seq /\ first.data = p.data /\ "FIN" \notin first.flags
        /\ second.data = p.data + at /\ second.flags = p.flags
    BY PartFields
  <1> HIDE DEF first, second, len
  <1>4. Stream(first) = {<<(p.seq + i) % SeqSpace, p.data + i>> : i \in 0..(at - 1)}
    BY <1>1, <1>3 DEF Stream
  <1> DEFINE Fin == IF "FIN" \in p.flags THEN {<<(p.seq + len) % SeqSpace, -1>>} ELSE {}
  <1>5. Stream(second) =
          {<<(p.seq + i) % SeqSpace, p.data + i>> : i \in at..(len - 1)} \cup Fin
    <2>1. \A i \in 0..((len - at) - 1) :
            <<(second.seq + i) % SeqSpace, second.data + i>> =
                <<(p.seq + (at + i)) % SeqSpace, p.data + (at + i)>>
      BY <1>1, <1>2, <1>3
    <2>2. {<<(second.seq + i) % SeqSpace, second.data + i>> : i \in 0..((len - at) - 1)}
            = {<<(p.seq + i) % SeqSpace, p.data + i>> : i \in at..(len - 1)}
      <3>1. ASSUME NEW i \in at..(len - 1)
            PROVE  /\ i - at \in 0..((len - at) - 1)
                   /\ <<(p.seq + i) % SeqSpace, p.data + i>> =
                        <<(second.seq + (i - at)) % SeqSpace, second.data + (i - at)>>
        <4>1. i - at \in 0..((len - at) - 1) /\ at + (i - at) = i
          BY <1>1
        <4> QED
          BY <2>1, <4>1
      <3>2. \A i \in 0..((len - at) - 1) : at + i \in at..(len - 1)
        BY <1>1
      <3> QED
        BY <2>1, <3>1, <3>2
    <2>3. (second.seq + (len - at)) % SeqSpace = (p.seq + len) % SeqSpace
      <3>1. len - at \in Nat /\ at + (len - at) = len
        BY <1>1 DEF len
      <3> QED
        BY <1>2, <3>1
    <2> QED
      BY <1>1, <1>3, <2>2, <2>3 DEF Stream
  <1>6. Stream(p) = {<<(p.seq + i) % SeqSpace, p.data + i>> : i \in 0..(len - 1)} \cup Fin
    BY DEF Stream, len
  <1>7. 0..(len - 1) = (0..(at - 1)) \cup (at..(len - 1))
    BY <1>1 DEF len
  <1> QED
    BY <1>4, <1>5, <1>6, <1>7 DEF first, second

\* The steps: the parsers, the splitter, the fake.
LEMMA SegmentStep == SegmentInv /\ [Next]_vars => SegmentInv'
  <1> SUFFICES ASSUME SegmentInv, [Next]_vars PROVE SegmentInv'
    OBVIOUS
  <1>0. TypeOK /\ InBounds /\ pkt \in Fields
    BY DEF SegmentInv, TypeOK
  <1>1. CASE ParseSyn
    <2>1. TypeOK' /\ stage' \in {"syn", "synack", "other"} /\ pkt' = pkt
      <3>1. SynSlices(pkt) \in SUBSET (Int \X Int \X Int)
        BY <1>0 DEF SynSlices, IPLen, Fields
      <3> QED
        BY <1>0, <1>1, <3>1 DEF ParseSyn, Take, TypeOK
    <2>2. InBounds'
      <3>1. slices' = SynSlices(pkt)
        BY <1>1 DEF ParseSyn, Take
      <3>2. \A s \in SynSlices(pkt) : 0 <= s[1] /\ s[1] <= s[2] /\ s[2] <= s[3]
        BY <1>0 DEF SynSlices, SynHeaders, IPLen, Fields
      <3> QED
        BY <3>1, <3>2 DEF InBounds
    <2> QED
      BY <2>1, <2>2 DEF SegmentInv, SameStream, PartsParse, FakeParses
  <1>2. CASE ParsePayload
    <2>1. /\ TypeOK' /\ stage' \in {"parsed", "refused"} /\ pkt' = pkt
          /\ stage' = "parsed" => Parsed(pkt)
      <3>1. ParseSlices(pkt) \in SUBSET (Int \X Int \X Int)
        BY <1>0 DEF ParseSlices, IPLen, Fields, ipv4MinHeaderLen
      <3> QED
        BY <1>0, <1>2, <3>1 DEF ParsePayload, Take, TypeOK
    <2>2. InBounds'
      <3>1. slices' = ParseSlices(pkt)
        BY <1>2 DEF ParsePayload, Take
      <3>2. \A s \in ParseSlices(pkt) : 0 <= s[1] /\ s[1] <= s[2] /\ s[2] <= s[3]
        BY <1>0 DEF ParseSlices, TCPChecked, HasHeaders, GoodIP, GoodTotal, IPLen, Fields,
                    ipv4MinHeaderLen, tcpMinHeaderLen
      <3> QED
        BY <3>1, <3>2 DEF InBounds
    <2>3. stage' = "parsed" => CloneChecked(pkt)
      <3>1. ASSUME Parsed(pkt) PROVE CloneChecked(pkt)
        <4>1. pkt.version = 4 /\ pkt.proto = 6
          BY <3>1 DEF Parsed, TCPChecked, GoodIP
        <4>2. /\ IPLen(pkt) \in 20..60 /\ TCPLen(pkt) \in 20..60
              /\ PayloadOffset(pkt) = IPLen(pkt) + TCPLen(pkt)
              /\ PayloadOffset(pkt) < pkt.len /\ pkt.len \in Nat
          BY <1>0, <3>1, ParsedLengths
        <4> QED
          BY <4>1, <4>2 DEF CloneChecked, ipv4MinHeaderLen, tcpMinHeaderLen
      <3> QED
        BY <2>1, <3>1
    <2> QED
      BY <2>1, <2>2, <2>3 DEF SegmentInv, SameStream, PartsParse, FakeParses
  <1>3. ASSUME NEW at \in Offsets, Split(at) PROVE SegmentInv'
    <2>1. /\ Parsed(pkt) /\ at \in Nat \ {0} /\ at < PayloadLen(pkt)
          /\ stage' = "split" /\ pkt' = pkt /\ slices' = SplitSlices(pkt, at)
          /\ parts' = <<First(pkt, at), Second(pkt, at)>> /\ splitAt' = at
      BY <1>3 DEF SegmentInv, Split, Take
    <2> DEFINE first == First(pkt, at)
               second == Second(pkt, at)
    <2>2. first \in Fields /\ second \in Fields
      BY <1>0, <2>1, PartFields
    <2>3. /\ PayloadLen(pkt) \in Nat /\ at <= pkt.len - PayloadOffset(pkt)
          /\ PayloadLen(pkt) - at \in Nat \ {0}
          /\ PayloadLen(pkt) - at <= pkt.len - PayloadOffset(pkt)
          /\ PayloadOffset(pkt) \in Nat
          /\ PayloadOffset(pkt) + PayloadLen(pkt) = pkt.totalLen
          /\ pkt.totalLen <= pkt.len /\ pkt.len \in Nat
      BY <1>0, <2>1, ParsedLengths
    <2>4. /\ Parsed(first) /\ PayloadLen(first) = at
          /\ \A s \in PartSlices(first) : 0 <= s[1] /\ s[1] <= s[2] /\ s[2] <= s[3]
      BY <1>0, <2>1, <2>2, <2>3, PartFields, FixedParses
    <2>5. /\ Parsed(second) /\ PayloadLen(second) = PayloadLen(pkt) - at
          /\ \A s \in PartSlices(second) : 0 <= s[1] /\ s[1] <= s[2] /\ s[2] <= s[3]
      BY <1>0, <2>1, <2>2, <2>3, PartFields, FixedParses
    <2>6. second.seq = (pkt.seq + at) % SeqSpace
      BY <1>0, <2>1, PartFields
    <2>7. Stream(first) \cup Stream(second) = Stream(pkt)
      BY <1>0, <2>1, PartsCarryStream
    <2> HIDE DEF first, second
    <2>8. \A s \in slices' : 0 <= s[1] /\ s[1] <= s[2] /\ s[2] <= s[3]
      BY <2>1, <2>3, <2>4, <2>5 DEF SplitSlices, first, second
    <2>9. slices' \in SUBSET (Int \X Int \X Int)
      <3>1. PartSlices(first) \cup PartSlices(second) \subseteq Int \X Int \X Int
        BY <2>2 DEF PartSlices, IPLen, Fields
      <3> QED
        BY <2>1, <2>3, <3>1 DEF SplitSlices, first, second
    <2>10. parts' = <<first, second>>
      BY <2>1 DEF first, second
    <2>11. TypeOK'
      BY <1>0, <2>1, <2>2, <2>9, <2>10 DEF TypeOK
    <2>12. InBounds'
      BY <2>8 DEF InBounds
    <2>13. SameStream'
      BY <2>1, <2>7, <2>10 DEF SameStream
    <2>14. PartsParse'
      <3>1. SplitKey(second) = SecondKey(pkt, at)
        BY <2>5, <2>6 DEF SplitKey, SecondKey
      <3>2. SplitKey(first) # SplitKey(pkt)
        BY <2>1, <2>3, <2>4 DEF SplitKey
      <3> QED
        BY <2>1, <2>4, <2>5, <2>10, <3>1, <3>2 DEF PartsParse
    <2> QED
      BY <2>1, <2>11, <2>12, <2>13, <2>14 DEF SegmentInv, FakeParses
  <1>4. ASSUME NEW n \in FakeLengths, NEW tls \in BOOLEAN, Clone(n, tls)
        PROVE  SegmentInv'
    <2>1. /\ Parsed(pkt) /\ n \in Nat
          /\ tls => FakeLen(pkt, n) >= 5
          /\ stage' = "cloned" /\ pkt' = pkt /\ slices' = FakeSlices(pkt, n, tls)
          /\ parts' = <<Fake(pkt, n)>> /\ splitAt' = splitAt
      BY <1>4 DEF SegmentInv, Clone, Take, TLSHeaderLen
    <2> DEFINE fake == Fake(pkt, n)
    <2>2. /\ fake \in Fields /\ fake.len = PayloadOffset(pkt) + FakeLen(pkt, n)
          /\ FakeLen(pkt, n) \in Nat \ {0}
          /\ FakeLen(pkt, n) <= pkt.len - PayloadOffset(pkt)
          /\ fake.seq = pkt.seq
      BY <1>0, <2>1, FakeFields
    <2>3. /\ Parsed(fake)
          /\ \A s \in PartSlices(fake) : 0 <= s[1] /\ s[1] <= s[2] /\ s[2] <= s[3]
      BY <1>0, <2>1, <2>2, FakeFields, FixedParses
    <2>4. PayloadOffset(pkt) \in Nat /\ pkt.len \in Nat
      BY <1>0, <2>1, ParsedLengths
    <2> HIDE DEF fake
    <2>5. \A s \in slices' : 0 <= s[1] /\ s[1] <= s[2] /\ s[2] <= s[3]
      BY <2>1, <2>2, <2>3, <2>4 DEF FakeSlices, TLSHeaderLen, fake
    <2>6. slices' \in SUBSET (Int \X Int \X Int)
      <3>1. PartSlices(fake) \subseteq Int \X Int \X Int
        BY <2>2 DEF PartSlices, IPLen, Fields
      <3> QED
        BY <2>1, <2>2, <2>4, <3>1 DEF FakeSlices, TLSHeaderLen, fake
    <2>7. parts' = <<fake>>
      BY <2>1 DEF fake
    <2> QED
      BY <1>0, <2>1, <2>2, <2>3, <2>5, <2>6, <2>7
         DEF SegmentInv, TypeOK, InBounds, SameStream, PartsParse, FakeParses
  <1>5. CASE UNCHANGED vars
    BY <1>5 DEF vars, SegmentInv, TypeOK, InBounds, SameStream, PartsParse, FakeParses
  <1> QED
    BY <1>1, <1>2, <1>3, <1>4, <1>5 DEF Next

\* All of it, for every packet the kernel may hand over.
THEOREM SegmentsAreRight == Spec => []SegmentInv
  <1>1. Init => SegmentInv
    BY DEF Init, SegmentInv, TypeOK, InBounds, SameStream, PartsParse, FakeParses
  <1> QED
    BY <1>1, SegmentStep, PTL DEF Spec

\* Type correctness: lengths and sequence numbers stay within their widths.
THEOREM TypeCorrect == Spec => []TypeOK
  BY SegmentsAreRight, PTL DEF SegmentInv

\* No slice expression of payload.go, parser.go or the fake of main.go is out of
\* bounds, whatever the headers of a packet say.
THEOREM SlicesInBounds == Spec => []InBounds
  BY SegmentsAreRight, PTL DEF SegmentInv

\* SplitIPv4TCPPacket keeps the stream: every byte, and the end, under its
\* sequence number, for every offset and across the wrap of sequence numbers.
THEOREM SplitKeepsStream == Spec => []SameStream
  BY SegmentsAreRight, PTL DEF SegmentInv

\* Both parts parse: the second one under the key the callback stores for it, the first
\* one under a key that is not stored, but too short for the splitter.
THEOREM PartsAreParsed == Spec => []PartsParse
  BY SegmentsAreRight, PTL DEF SegmentInv

\* cloneWithFakePayloadAndBadTCPChecksum accepts what the parser accepted, and
\* makes a well-formed packet of it.
THEOREM FakesAreParsed == Spec => []FakeParses
  BY SegmentsAreRight, PTL DEF SegmentInv
-----------------------------------------------------------------------------
\* Every set of numbers has a least one: what the inductions below start from.
LEMMA LeastNumber ==
    ASSUME NEW T, T \subseteq Nat, T # {}
    PROVE  \E x \in T : \A y \in T : x <= y
  <1> DEFINE R == {ss \in Nat \X Nat : ss[1] < ss[2]}
  <1>1. IsWellFoundedOn(R, Nat)
    BY NatLessThanWellFounded, Zenon DEF OpToRel
  <1> HIDE DEF R
  <1>2. PICK x \in T : \A y \in T : ~(<<y, x>> \in R)
    BY <1>1, WFMin, Zenon
  <1>3. ASSUME NEW y \in T PROVE x <= y
    <2>1. ~(<<y, x>> \in {ss \in Nat \X Nat : ss[1] < ss[2]})
      BY <1>2 DEF R
    <2> QED
      BY <2>1
  <1> QED
    BY <1>3

\* The running sums of numbers exist: g are those of the first n numbers.
LEMMA SumsExist ==
    ASSUME NEW w \in Seq(Nat)
    PROVE  \E g \in [0..Len(w) -> Nat] :
             g = [i \in 0..Len(w) |-> IF i = 0 THEN 0 ELSE g[i - 1] + w[i]]
  <1> DEFINE Good(g, n) == g \in [0..n -> Nat] /\ g[0] = 0
                           /\ \A i \in 1..n : g[i] = g[i - 1] + w[i]
             Bad == {n \in 0..Len(w) : ~\E g : Good(g, n)}
  <1>0. Len(w) \in Nat
    OBVIOUS
  <1>1. ASSUME Bad # {} PROVE FALSE
    <2>1. Bad \subseteq Nat
      BY <1>0
    <2>2. PICK n \in Bad : \A y \in Bad : n <= y
      <3> HIDE DEF Bad
      <3> QED
        BY <1>1, <2>1, LeastNumber
    <2>3. CASE n = 0
      <3>1. Good([i \in 0..0 |-> 0], 0)
        OBVIOUS
      <3> QED
        BY <2>2, <2>3, <3>1
    <2>4. CASE n # 0
      <3>1. n - 1 \in 0..Len(w) /\ n \in 1..Len(w)
        BY <1>0, <2>4
      <3>2. PICK g : Good(g, n - 1)
        <4>1. n - 1 \notin Bad
          <5> HIDE DEF Bad
          <5> QED
            BY <2>2, <3>1
        <4> HIDE DEF Good
        <4> QED
          BY <3>1, <4>1
      <3> DEFINE h == [i \in 0..n |-> IF i = n THEN g[n - 1] + w[n] ELSE g[i]]
      <3>3. w[n] \in Nat /\ g[n - 1] \in Nat
        BY <3>1, <3>2
      <3>4. \A i \in 0..(n - 1) : h[i] = g[i] /\ g[i] \in Nat
        BY <3>1, <3>2
      <3>5. h \in [0..n -> Nat] /\ h[0] = 0
        BY <3>1, <3>2, <3>3, <3>4
      <3>6. ASSUME NEW i \in 1..n PROVE h[i] = h[i - 1] + w[i]
        <4>1. CASE i = n
          BY <3>1, <4>1, <3>4
        <4>2. CASE i # n
          <5>1. i \in 1..(n - 1) /\ i - 1 \in 0..(n - 1) /\ i \in 0..(n - 1)
            BY <3>1, <4>2
          <5>2. g[i] = g[i - 1] + w[i]
            BY <3>2, <5>1
          <5> HIDE DEF h
          <5> QED
            BY <3>4, <5>1, <5>2
        <4> QED
          BY <4>1, <4>2
      <3>7. Good(h, n)
        BY <3>5, <3>6
      <3> QED
        BY <2>2, <3>7
    <2> QED
      BY <2>3, <2>4
  <1>2. PICK g : Good(g, Len(w))
    <2>1. Len(w) \notin Bad /\ Len(w) \in 0..Len(w)
      <3> HIDE DEF Bad
      <3> QED
        BY <1>0, <1>1
    <2> HIDE DEF Good
    <2> QED
      BY <2>1
  <1>3. g = [i \in 0..Len(w) |-> IF i = 0 THEN 0 ELSE g[i - 1] + w[i]]
    BY <1>0, <1>2
  <1> QED
    BY <1>2, <1>3

\* What Sums computes.
LEMMA SumsFacts ==
    ASSUME NEW w \in Seq(Nat)
    PROVE  /\ Sums(w)[0] = 0
           /\ \A i \in 1..Len(w) : Sums(w)[i] = Sums(w)[i - 1] + w[i]
           /\ \A i \in 0..Len(w) : Sums(w)[i] \in Nat
  <1>0. Len(w) \in Nat
    OBVIOUS
  <1>1. Sums(w) = [i \in 0..Len(w) |-> IF i = 0 THEN 0 ELSE Sums(w)[i - 1] + w[i]]
    <2>1. PICK g : g = [i \in 0..Len(w) |-> IF i = 0 THEN 0 ELSE g[i - 1] + w[i]]
      BY SumsExist
    <2> QED
      BY <2>1, Zenon DEF Sums
  <1> DEFINE S == Sums(w)
  <1> HIDE DEF S
  <1>2. S = [i \in 0..Len(w) |-> IF i = 0 THEN 0 ELSE S[i - 1] + w[i]]
    BY <1>1, Zenon DEF S
  <1>3. S[0] = 0 /\ \A i \in 1..Len(w) : S[i] = S[i - 1] + w[i]
    BY <1>0, <1>2
  <1>4. \A i \in 0..Len(w) : S[i] \in Nat
    <2> DEFINE Bad == {i \in 0..Len(w) : S[i] \notin Nat}
    <2>1. ASSUME Bad # {} PROVE FALSE
      <3>1. Bad \subseteq Nat
        BY <1>0
      <3>2. PICK n \in Bad : \A y \in Bad : n <= y
        <4> HIDE DEF Bad
        <4> QED
          BY <2>1, <3>1, LeastNumber
      <3>3. n # 0 /\ n \in 1..Len(w) /\ n - 1 \in 0..Len(w)
        BY <1>0, <1>3
      <3>4. S[n - 1] \in Nat
        BY <3>2, <3>3
      <3>5. w[n] \in Nat
        BY <3>3
      <3>6. S[n] = S[n - 1] + w[n]
        BY <1>3, <3>3
      <3> QED
        BY <3>4, <3>5, <3>6
    <2> QED
      BY <2>1
  <1> QED
    BY <1>3, <1>4 DEF S

-----------------------------------------------------------------------------
\* The data of a packet, as a sequence.
LEMMA DataFacts ==
    ASSUME NEW d \in Data
    PROVE  Len(d) \in Nat /\ \A i \in 1..Len(d) : d[i] \in Nat
  <1>1. PICK n \in Nat : d \in [1..n -> Bytes]
    BY ChecksumAssumption DEF Data
  <1>2. d \in Seq(Bytes) /\ Len(d) = n
    BY <1>1
  <1>3. Bytes \subseteq Nat
    BY ChecksumAssumption DEF Bytes
  <1> QED
    BY <1>1, <1>2, <1>3

\* Words(d) and Weighted(d) are sequences of numbers.
LEMMA WordsFacts ==
    ASSUME NEW d \in Data
    PROVE  /\ Words(d) \in Seq(Nat)
           /\ Len(Words(d)) = (Len(d) + 1) \div 2
           /\ \A i \in 1..((Len(d) + 1) \div 2) : Words(d)[i] = WordAt(d, i)
           /\ Weighted(d) \in Seq(Nat)
           /\ Len(Weighted(d)) = Len(d)
           /\ \A i \in 1..Len(d) :
                Weighted(d)[i] = IF i % 2 = 1 THEN Byte * d[i] ELSE d[i]
  <1> DEFINE n == (Len(d) + 1) \div 2
  <1>0. Len(d) \in Nat /\ n \in Nat /\ Byte \in Nat
    BY DataFacts, ChecksumAssumption
  <1>1. \A b, c \in Nat : Byte * b + c \in Nat /\ Byte * b \in Nat
    BY <1>0
  <1>2. ASSUME NEW i \in 1..n PROVE WordAt(d, i) \in Nat
    <2>1. 2 * i - 1 \in 1..Len(d) /\ (2 * i <= Len(d) => 2 * i \in 1..Len(d))
      BY <1>0
    <2>2. PICK b \in Nat : b = d[2 * i - 1]
      BY <2>1, DataFacts
    <2>3. PICK c \in Nat : c = IF 2 * i <= Len(d) THEN d[2 * i] ELSE 0
      BY <2>1, DataFacts
    <2>4. WordAt(d, i) = Byte * b + c
      BY <2>2, <2>3 DEF WordAt
    <2> QED
      BY <1>1, <2>4
  <1>3. Words(d) \in [1..n -> Nat] /\ \A i \in 1..n : Words(d)[i] = WordAt(d, i)
    BY <1>2 DEF Words
  <1>4. \A i \in 1..Len(d) : (IF i % 2 = 1 THEN Byte * d[i] ELSE d[i]) \in Nat
    BY <1>1, DataFacts
  <1>5. Weighted(d) \in [1..Len(d) -> Nat]
    BY <1>4 DEF Weighted
  <1> HIDE DEF n
  <1>6. Words(d) \in Seq(Nat) /\ Len(Words(d)) = n
    BY <1>0, <1>3
  <1>7. Weighted(d) \in Seq(Nat) /\ Len(Weighted(d)) = Len(d)
    BY <1>0, <1>5
  <1> QED
    BY <1>3, <1>6, <1>7 DEF n, Weighted

\* The words add up to the bytes by their place, the last odd one included.
LEMMA SumIsTotal ==
    ASSUME NEW d \in Data
    PROVE  Sum(d) \in Nat /\ Sum(d) = Total(d)
  <1> DEFINE n == Len(d)
             k == (n + 1) \div 2
             S == Sums(Words(d))
             T == Sums(Weighted(d))
  <1>0. n \in Nat /\ k \in Nat /\ (n = 2 * k \/ n = 2 * k - 1)
    BY DataFacts
  <1>1. /\ S[0] = 0 /\ \A i \in 1..k : S[i] = S[i - 1] + WordAt(d, i)
        /\ \A i \in 0..k : S[i] \in Nat
    <2>1. /\ Words(d) \in Seq(Nat) /\ Len(Words(d)) = k
          /\ \A i \in 1..k : Words(d)[i] = WordAt(d, i)
      BY WordsFacts
    <2> HIDE DEF k
    <2> QED
      BY <2>1, SumsFacts
  <1>2. /\ T[0] = 0 /\ \A i \in 0..n : T[i] \in Nat
        /\ \A i \in 1..n : T[i] = T[i - 1] + (IF i % 2 = 1 THEN Byte * d[i] ELSE d[i])
    <2>1. Weighted(d) \in Seq(Nat) /\ Len(Weighted(d)) = n
      BY WordsFacts
    <2>2. \A i \in 1..n : Weighted(d)[i] = IF i % 2 = 1 THEN Byte * d[i] ELSE d[i]
      BY WordsFacts
    <2>3. /\ T[0] = 0 /\ \A i \in 0..n : T[i] \in Nat
          /\ \A i \in 1..n : T[i] = T[i - 1] + Weighted(d)[i]
      BY <2>1, SumsFacts
    <2> HIDE DEF T, n
    <2> QED
      BY <2>2, <2>3
  <1>3. \A i \in 1..n : d[i] \in Nat /\ Byte * d[i] \in Nat
    BY DataFacts, ChecksumAssumption
  <1>4. Sum(d) = S[k] /\ Total(d) = T[n]
    BY WordsFacts DEF Sum, Total
  <1> HIDE DEF n, k, S, T
  <1>5. ASSUME NEW i \in 1..k, 2 * i <= n, S[i - 1] = T[2 * i - 2]
        PROVE  S[i] = T[2 * i]
    <2>1. /\ 2 * i \in 1..n /\ 2 * i - 1 \in 1..n /\ 2 * i - 2 \in 0..n
          /\ (2 * i) % 2 = 0 /\ (2 * i - 1) % 2 = 1
          /\ (2 * i) - 1 = 2 * i - 1 /\ (2 * i - 1) - 1 = 2 * i - 2
      BY <1>0, <1>5
    <2>2. T[2 * i] = T[2 * i - 1] + d[2 * i]
      BY <1>2, <2>1
    <2>3. T[2 * i - 1] = T[2 * i - 2] + Byte * d[2 * i - 1]
      BY <1>2, <2>1
    <2>4. WordAt(d, i) = Byte * d[2 * i - 1] + d[2 * i]
      BY <1>5 DEF WordAt, n
    <2>5. S[i] = S[i - 1] + WordAt(d, i)
      BY <1>1
    <2>6. T[2 * i - 2] \in Nat /\ Byte * d[2 * i - 1] \in Nat /\ d[2 * i] \in Nat
      BY <1>2, <1>3, <2>1
    <2> QED
      BY <1>5, <2>2, <2>3, <2>4, <2>5, <2>6
  <1>6. ASSUME NEW i \in 0..k, 2 * i <= n PROVE S[i] = T[2 * i]
    <2> DEFINE Bad == {j \in 0..k : 2 * j <= n /\ S[j] # T[2 * j]}
    <2>1. ASSUME Bad # {} PROVE FALSE
      <3>1. Bad \subseteq Nat
        BY <1>0
      <3>2. PICK j \in Bad : \A y \in Bad : j <= y
        <4> HIDE DEF Bad
        <4> QED
          BY <2>1, <3>1, LeastNumber
      <3>3. j # 0
        BY <1>1, <1>2
      <3>4. j \in 1..k /\ 2 * j <= n /\ S[j] # T[2 * j] /\ j - 1 \in 0..k
            /\ 2 * (j - 1) <= n /\ 2 * (j - 1) = 2 * j - 2 /\ ~(j <= j - 1)
        BY <1>0, <3>3
      <3>5. S[j - 1] = T[2 * (j - 1)]
        BY <3>2, <3>4
      <3> QED
        BY <1>5, <3>4, <3>5
    <2> QED
      BY <1>6, <2>1
  <1>7. CASE n = 2 * k
    <2>1. k \in 0..k /\ 2 * k <= n
      BY <1>0, <1>7
    <2>2. S[k] = T[2 * k]
      BY <1>6, <2>1
    <2> QED
      BY <1>1, <1>4, <1>7, <2>1, <2>2
  <1>8. CASE n = 2 * k - 1
    <2>1. /\ k \in 1..k /\ k - 1 \in 0..k /\ 2 * (k - 1) <= n /\ n \in 1..n
          /\ 2 * (k - 1) = n - 1 /\ n % 2 = 1 /\ ~(2 * k <= n) /\ k \in 0..k
      BY <1>0, <1>8
    <2>2. S[k - 1] = T[n - 1]
      BY <1>6, <2>1
    <2>3. T[n] = T[n - 1] + Byte * d[n]
      BY <1>2, <2>1
    <2>4. WordAt(d, k) = Byte * d[n] + 0
      BY <1>8, <2>1 DEF WordAt, n
    <2>5. S[k] = S[k - 1] + WordAt(d, k)
      BY <1>1, <2>1
    <2>6. Byte * d[n] \in Nat
      BY <1>3, <2>1
    <2> QED
      BY <1>1, <1>4, <2>1, <2>2, <2>3, <2>4, <2>5, <2>6
  <1> QED
    BY <1>0, <1>7, <1>8
-----------------------------------------------------------------------------
\* Sizes.
LEMMA WordSize == Byte \in Nat /\ Word \in Nat /\ Word >= 4
  <1>1. Byte \in Nat /\ Byte >= 2
    BY ChecksumAssumption
  <1>2. Byte * Byte >= 2 * Byte /\ Byte * Byte \in Nat
    BY <1>1
  <1> QED
    BY <1>1, <1>2 DEF Word

\* A round of the folding loop changes the number by a multiple of Word - 1, makes it
\* smaller and not zero.
LEMMA FoldRound ==
    ASSUME NEW x \in Nat, x \div Word # 0
    PROVE  \E q \in Nat \ {0} : /\ (x % Word) + (x \div Word) = x - (Word - 1) * q
                                /\ (x % Word) + (x \div Word) \in 1..(x - 1)
  <1>0. Word \in Nat \ {0} /\ Word >= 4
    BY WordSize
  <1> DEFINE q == x \div Word
             r == x % Word
  <1>1. q \in Int /\ r \in 0..(Word - 1) /\ x = Word * q + r
    BY <1>0, Division
  <1>2. q # 0
    OBVIOUS
  <1> HIDE DEF q, r
  <1>3. q >= 0
    <2> SUFFICES ASSUME q <= -1 PROVE FALSE
      BY <1>1
    <2>1. Word * q <= Word * (-1)
      BY <1>0, <1>1
    <2>2. Word * q \in Int
      BY <1>0, <1>1
    <2> QED
      BY <1>0, <1>1, <2>1, <2>2
  <1>4. q \in Nat \ {0}
    BY <1>1, <1>2, <1>3
  <1>5. (Word - 1) * q = Word * q - q /\ Word * q \in Nat /\ Word * q >= 4 * q
    BY <1>0, <1>4
  <1>6. r + q = x - (Word - 1) * q /\ r + q \in 1..(x - 1)
    BY <1>0, <1>1, <1>4, <1>5
  <1> QED
    BY <1>4, <1>6 DEF q, r

\* A number below Word is not folded.
LEMMA FoldDone ==
    ASSUME NEW x \in Nat
    PROVE  x \div Word = 0 <=> x < Word
  <1>0. Word \in Nat \ {0}
    BY WordSize
  <1> DEFINE q == x \div Word
             r == x % Word
  <1>1. q \in Int /\ r \in 0..(Word - 1) /\ x = Word * q + r
    BY <1>0, Division
  <1> HIDE DEF q, r
  <1>2. CASE q = 0
    BY <1>0, <1>1, <1>2 DEF q
  <1>3. CASE q >= 1
    <2>1. Word * q >= Word * 1 /\ Word * q \in Int
      BY <1>0, <1>1, <1>3
    <2> QED
      BY <1>0, <1>1, <1>3, <2>1 DEF q
  <1>4. CASE q <= -1
    <2>1. Word * q <= Word * (-1) /\ Word * q \in Int
      BY <1>0, <1>1, <1>4
    <2> QED
      BY <1>0, <1>1, <1>4, <2>1 DEF q
  <1> QED
    BY <1>1, <1>2, <1>3, <1>4

\* The folding loop ends: there is a function with the equation of Fold, the
\* remainder from 1 to Word - 1 (and 0 of 0).
LEMMA FoldExists ==
    \E g : g = [sum \in Nat |-> IF sum \div Word = 0 THEN sum
                                ELSE g[(sum % Word) + (sum \div Word)]]
  <1> DEFINE M == Word - 1
             g == [n \in Nat |-> IF n = 0 THEN 0 ELSE ((n - 1) % M) + 1]
  <1>0. Word \in Nat \ {0} /\ Word >= 4 /\ M \in Nat \ {0}
    BY WordSize
  <1>1. ASSUME NEW x \in Nat
        PROVE  g[x] = IF x \div Word = 0 THEN x ELSE g[(x % Word) + (x \div Word)]
    <2>1. CASE x \div Word = 0
      <3>1. x < Word
        BY <2>1, FoldDone
      <3>2. CASE x = 0
        BY <2>1, <3>2
      <3>3. CASE x # 0
        <4>1. x - 1 \in 0..(M - 1) /\ x - 1 = M * 0 + (x - 1)
          BY <1>0, <3>1, <3>3
        <4> HIDE DEF M
        <4>2. (x - 1) % M = x - 1
          BY <1>0, <4>1, Remainder
        <4> QED
          BY <2>1, <3>3, <4>2
      <3> QED
        BY <3>2, <3>3
    <2>2. CASE x \div Word # 0
      <3> DEFINE y == (x % Word) + (x \div Word)
      <3>1. PICK q \in Nat \ {0} : y = x - M * q /\ y \in 1..(x - 1)
        BY <2>2, FoldRound
      <3> HIDE DEF y, M
      <3>2. y - 1 \in Nat /\ y \in Nat /\ y # 0 /\ x # 0
        BY <3>1
      <3>3. PICK p \in Int, r \in 0..(M - 1) : y - 1 = M * p + r /\ (y - 1) % M = r
        BY <1>0, <3>2, Division
      <3>4. x - 1 = M * (p + q) + r
        BY <1>0, <3>1, <3>3
      <3>5. p + q \in Int /\ x - 1 \in Int
        OBVIOUS
      <3>6. (x - 1) % M = r
        <4> DEFINE c == p + q
        <4> HIDE DEF c
        <4>1. c \in Int /\ x - 1 = M * c + r
          BY <3>4, <3>5 DEF c
        <4> QED
          BY <1>0, <3>5, <4>1, Remainder
      <3>7. g[x] = g[y]
        BY <3>2, <3>3, <3>6
      <3> QED
        BY <2>2, <3>7 DEF y
    <2> QED
      BY <2>1, <2>2
  <1>2. g = [n \in Nat |-> g[n]]
    OBVIOUS
  <1> HIDE DEF g
  <1>3. g = [sum \in Nat |-> IF sum \div Word = 0 THEN sum
                             ELSE g[(sum % Word) + (sum \div Word)]]
    BY <1>1, <1>2
  <1> QED
    BY <1>3

\* What the loop computes, however many rounds it takes: a number of 16 bits that
\* differs from the sum by a multiple of Word - 1, and is zero only for zero.
LEMMA FoldFacts ==
    ASSUME NEW x \in Nat
    PROVE  /\ Fold[x] \in 0..(Word - 1) /\ (Fold[x] = 0 <=> x = 0)
           /\ \E q \in Nat : Fold[x] = x - (Word - 1) * q
  <1> DEFINE M == Word - 1
             Right(n) == /\ Fold[n] \in 0..M /\ (Fold[n] = 0 <=> n = 0)
                         /\ \E q \in Nat : Fold[n] = n - M * q
             Bad == {n \in Nat : ~Right(n)}
  <1>0. Word \in Nat \ {0} /\ Word >= 4 /\ M \in Nat \ {0}
    BY WordSize
  <1>1. Fold = [sum \in Nat |-> IF sum \div Word = 0 THEN sum
                                ELSE Fold[(sum % Word) + (sum \div Word)]]
    BY FoldExists, Zenon DEF Fold
  <1>2. ASSUME Bad # {} PROVE FALSE
    <2>1. PICK n \in Bad : \A y \in Bad : n <= y
      <3>1. Bad \subseteq Nat
        OBVIOUS
      <3> HIDE DEF Bad
      <3> QED
        BY <1>2, <3>1, LeastNumber
    <2>2. n \in Nat /\ ~Right(n)
      OBVIOUS
    <2>3. CASE n \div Word = 0
      <3>1. Fold[n] = n /\ n < Word
        BY <1>1, <2>2, <2>3, FoldDone
      <3>2. n = n - M * 0
        BY <1>0, <2>2
      <3> HIDE DEF M
      <3>3. n \in 0..M
        BY <1>0, <2>2, <3>1 DEF M
      <3> QED
        BY <2>2, <3>1, <3>2, <3>3
    <2>4. CASE n \div Word # 0
      <3>1. PICK y \in Nat, q \in Nat \ {0} :
              /\ y = n - M * q /\ y \in 1..(n - 1)
              /\ y = (n % Word) + (n \div Word)
        <4>1. PICK q \in Nat \ {0} :
                /\ (n % Word) + (n \div Word) = n - M * q
                /\ (n % Word) + (n \div Word) \in 1..(n - 1)
          BY <2>2, <2>4, FoldRound
        <4> HIDE DEF M
        <4> QED
          BY <2>2, <4>1
      <3>2. Fold[n] = Fold[y]
        BY <1>1, <2>2, <2>4, <3>1
      <3>3. Right(y)
        <4>1. ~(n <= y)
          BY <2>2, <3>1
        <4>2. y \notin Bad
          <5> HIDE DEF Bad
          <5> QED
            BY <2>1, <4>1
        <4> HIDE DEF Right
        <4> QED
          BY <4>2
      <3> HIDE DEF M
      <3>4. PICK p \in Nat : Fold[y] = y - M * p
        BY <3>3
      <3>5. Fold[n] = n - M * (q + p)
        BY <1>0, <2>2, <3>1, <3>2, <3>4
      <3>6. q + p \in Nat /\ n # 0 /\ y # 0
        BY <3>1, <2>2
      <3> QED
        BY <2>2, <3>2, <3>3, <3>5, <3>6
    <2> QED
      BY <2>3, <2>4
  <1>3. Right(x)
    <2>1. x \notin Bad
      <3> HIDE DEF Bad
      <3> QED
        BY <1>2
    <2> HIDE DEF Right
    <2> QED
      BY <2>1
  <1> QED
    BY <1>3
-----------------------------------------------------------------------------
\* What the receiver adds to the checksum field, and what is left of it.
LEMMA ChecksumFacts ==
    ASSUME NEW d \in Data
    PROVE  \E f \in 0..(Word - 1), q \in Nat, s \in Nat :
             /\ Total(d) = s /\ f = s - (Word - 1) * q /\ (f = 0 <=> s = 0)
             /\ internetChecksum(0, d) = Word - 1 - f
  <1>1. PICK s \in Nat : s = Sum(d) /\ s = Total(d) /\ 0 + Sum(d) = s
    BY SumIsTotal
  <1>2. PICK f \in 0..(Word - 1) : f = Fold[s] /\ (f = 0 <=> s = 0)
    BY FoldFacts
  <1>3. PICK q \in Nat : f = s - (Word - 1) * q
    BY <1>2, FoldFacts
  <1>4. internetChecksum(0, d) = Word - 1 - f
    BY <1>1, <1>2 DEF internetChecksum, Not
  <1> QED
    BY <1>1, <1>2, <1>3, <1>4

\* SumInv is an invariant.
LEMMA SumInvariance == SumSpec => []SumInv
  <1>1. SumInit => SumInv
    BY DEF SumInit, SumInv
  <1>2. SumInv /\ [SumNext]_sumVars => SumInv'
    <2> SUFFICES ASSUME SumInv, [SumNext]_sumVars PROVE SumInv'
      OBVIOUS
    <2>1. CASE Fix
      <3>1. field' = internetChecksum(0, data) /\ sumStage' = "fixed" /\ data' = data
        BY <2>1 DEF Fix, SumInv
      <3> QED
        BY <3>1 DEF SumInv
    <2>2. CASE Corrupt
      <3>1. /\ field' = Corrupted(internetChecksum(0, data)) /\ data' = data
            /\ sumStage' = "corrupted"
        BY <2>2 DEF Corrupt, SumInv
      <3> QED
        BY <3>1 DEF SumInv
    <2>3. CASE UNCHANGED sumVars
      BY <2>3 DEF SumInv, sumVars
    <2> QED
      BY <2>1, <2>2, <2>3 DEF SumNext
  <1> QED
    BY <1>1, <1>2, PTL DEF SumSpec

\* A packet whose checksum was recalculated verifies, for data of every length and
\* bytes of every size.
THEOREM ChecksumsVerify == SumSpec => []FixedVerifies
  <1>1. SumInv => FixedVerifies
    <2> SUFFICES ASSUME SumInv, sumStage = "fixed" PROVE Verifies
      BY DEF FixedVerifies
    <2> DEFINE M == Word - 1
    <2>0. M \in Nat \ {0}
      BY WordSize
    <2>1. PICK f \in 0..M, q \in Nat, s \in Nat :
            /\ Total(data) = s /\ f = s - M * q /\ (f = 0 <=> s = 0)
            /\ internetChecksum(0, data) = M - f
      BY ChecksumFacts DEF SumInv
    <2>2. field = M - f
      BY <2>1 DEF SumInv
    <2> HIDE DEF M
    <2>3. field + s = M * (q + 1) + 0 /\ field + s \in Int /\ field + s > 0
      BY <2>0, <2>1, <2>2
    <2>4. (field + s) % M = 0
      <3> DEFINE c == q + 1
      <3>1. c \in Int /\ 0 \in 0..(M - 1)
        BY <2>0
      <3> HIDE DEF c
      <3>2. field + s = M * c + 0
        BY <2>3 DEF c
      <3> QED
        BY <2>0, <2>3, <3>1, <3>2, Remainder
    <2> QED
      BY <2>1, <2>3, <2>4 DEF Verifies, M
  <1> QED
    BY <1>1, SumInvariance, PTL

\* The corrupted checksum of a fake does not verify, for data of every length and
\* bytes of every size, unless the valid one is a zero of one's complement.
THEOREM FakesAreRefused == SumSpec => []FakeRefusedUnlessZero
  <1>1. SumInv => FakeRefusedUnlessZero
    <2> SUFFICES ASSUME SumInv, sumStage = "corrupted", Total(data) % (Word - 1) # 0,
                        Verifies
                 PROVE  FALSE
      BY DEF FakeRefusedUnlessZero
    <2> DEFINE M == Word - 1
    <2>0. M \in Nat \ {0} /\ M >= 3
      BY WordSize
    <2>1. PICK f \in 0..M, q \in Nat, s \in Nat :
            /\ Total(data) = s /\ f = s - M * q /\ (f = 0 <=> s = 0)
            /\ internetChecksum(0, data) = M - f
      BY ChecksumFacts DEF SumInv
    <2>2. field = Corrupted(M - f)
      BY <2>1 DEF SumInv
    <2>3. (field + s) % M = 0 /\ s % M # 0
      BY <2>1 DEF Verifies
    <2>4. \/ M - (M - f) # M - f /\ field = M - (M - f)
          \/ /\ M - (M - f) = M - f
             /\ field = (M - f) + 1 - 2 * ((M - f) % 2)
      BY <2>2 DEF Corrupted, Not
    <2> HIDE DEF M
    <2>5. f \in 1..(M - 1)
      <3>1. f # 0
        <4>1. CASE f = 0
          <5>1. s = M * 0 + 0 /\ 0 \in 0..(M - 1)
            BY <2>0, <2>1, <4>1
          <5> QED
            BY <2>0, <2>3, <5>1, Remainder
        <4> QED
          BY <4>1
      <3>2. f # M
        <4>1. CASE f = M
          <5> DEFINE c == q + 1
          <5>1. c \in Int /\ s = M * c + 0 /\ 0 \in 0..(M - 1)
            BY <2>0, <2>1, <4>1
          <5> HIDE DEF c
          <5> QED
            BY <2>0, <2>3, <5>1, Remainder
        <4> QED
          BY <4>1
      <3> QED
        BY <2>0, <3>1, <3>2
    <2>6. s = M * q + f /\ M * q \in Int
      BY <2>0, <2>1
    \* field + f is not a multiple of M.
    <2>7. ASSUME NEW e \in Int, e = field + f,
                 \/ e \in 1..(M - 1) \/ e - M \in 1..(M - 1)
          PROVE  FALSE
      <3>1. CASE e \in 1..(M - 1)
        <4>1. field + s \in Int /\ field + s = M * q + e /\ e # 0 /\ e \in 0..(M - 1)
          BY <2>0, <2>4, <2>5, <2>6, <2>7, <3>1
        <4>2. PICK x \in Int : x = field + s
          BY <4>1
        <4>3. x % M = e
          <5>1. M \in Nat \ {0} /\ q \in Int /\ e \in 0..(M - 1) /\ x = M * q + e
            BY <2>0, <4>1, <4>2
          <5> QED
            BY ONLY <5>1
        <4> QED
          BY <2>3, <4>1, <4>2, <4>3
      <3>2. CASE e - M \in 1..(M - 1)
        <4> DEFINE c == q + 1
                   r == e - M
        <4>1. field + s \in Int /\ field + s = M * c + r /\ r # 0 /\ r \in 0..(M - 1)
          BY <2>0, <2>4, <2>5, <2>6, <2>7, <3>2
        <4>2. c \in Int
          OBVIOUS
        <4> HIDE DEF c, r
        <4>3. PICK x \in Int : x = field + s
          BY <4>1
        <4>4. x % M = r
          <5>1. M \in Nat \ {0} /\ c \in Int /\ r \in 0..(M - 1) /\ x = M * c + r
            BY <2>0, <4>1, <4>2, <4>3
          <5> QED
            BY ONLY <5>1
        <4> QED
          BY <2>3, <4>1, <4>3, <4>4
      <3> QED
        BY <2>7, <3>1, <3>2
    <2>8. CASE M - (M - f) # M - f /\ field = M - (M - f)
      <3>1. field = f /\ f + f # M
        BY <2>0, <2>8
      <3>2. f + f \in 1..(M - 1) \/ (f + f) - M \in 1..(M - 1)
        BY <2>0, <2>5, <3>1
      <3> QED
        BY <2>7, <3>1, <3>2
    <2>9. CASE /\ M - (M - f) = M - f
               /\ field = (M - f) + 1 - 2 * ((M - f) % 2)
      <3>1. f + f = M /\ M - f = f
        BY <2>0, <2>9
      <3>2. field = f + 1 \/ field = f - 1
        BY <2>9, <3>1
      <3>3. \/ field + f = M + 1 /\ (M + 1) - M \in 1..(M - 1)
            \/ field + f = M - 1 /\ M - 1 \in 1..(M - 1)
        BY <2>0, <3>1, <3>2
      <3> QED
        BY <2>0, <2>7, <3>3
    <2> QED
      BY <2>4, <2>8, <2>9
  <1> QED
    BY <1>1, SumInvariance, PTL
=============================================================================
