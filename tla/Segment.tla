------------------------------- MODULE Segment -------------------------------
(***************************************************************************)
(* The parsers of internal/payload.go and internal/parser.go, the splitter *)
(* and the lengths of the fake: which bytes of a packet they look at, and  *)
(* which segments they make of it.                                         *)
(*                                                                         *)
(* A packet is the fields that are read, the length of its slice, and the  *)
(* number `data' of its first payload byte, which stands for the bytes.    *)
(* The fields of the TCP header are what lies at the offset the length of  *)
(* the IP header points to.                                                *)
(***************************************************************************)
EXTENDS Integers, Sequences

CONSTANTS
    Packets,        \* the packets the kernel may hand over
    Offsets,        \* values of --split-at, all positive
    FakeLengths,    \* values of --fake-length
    SeqSpace,       \* sequence numbers are uint32: modulo 2^32
    LenSpace        \* lengths in a header are uint16: modulo 2^16

VARIABLES
    pkt,            \* the packet
    stage,          \* what was done with it last
    slices,         \* the slices taken of it: <<from, to, length of the base>>
    parts,          \* <<first, second>>, <<fake>> or <<>>
    splitAt         \* --split-at, once it is used

vars == <<pkt, stage, slices, parts, splitAt>>

ipv4MinHeaderLen == 20
tcpMinHeaderLen == 20
TLSHeaderLen == 5
Flags == {"SYN", "ACK", "RST", "FIN", "PSH"}

\* MaxPacketLen: the kernel copies at most 0xffff bytes of a packet.
Fields == [len : 0..(LenSpace - 1), version : 0..15, ihl : 0..15, proto : 0..255, frag : BOOLEAN,
           totalLen : 0..(LenSpace - 1), doff : 0..15, flags : SUBSET Flags,
           seq : 0..(SeqSpace - 1), data : Nat]

ASSUME SegmentAssumption ==
    /\ SeqSpace \in Nat \ {0} /\ LenSpace \in Nat \ {0}
    /\ Packets \subseteq Fields
    /\ Offsets \subseteq Nat \ {0} /\ FakeLengths \subseteq Nat
-----------------------------------------------------------------------------
IPLen(p) == 4 * p.ihl
TCPLen(p) == 4 * p.doff
PayloadOffset(p) == IPLen(p) + TCPLen(p)
PayloadLen(p) == p.totalLen - PayloadOffset(p)

(***************************************************************************)
(* ParseIPv4TCPPayload: the checks in their order.                         *)
(***************************************************************************)
HasHeaders(p) == p.len >= ipv4MinHeaderLen + tcpMinHeaderLen
GoodIP(p) ==
    /\ p.version = 4
    /\ IPLen(p) >= ipv4MinHeaderLen /\ p.len >= IPLen(p) + tcpMinHeaderLen
    /\ p.proto = 6
    /\ ~p.frag
\* Mutant: the declared length is not compared with the data.
TotalUnchecked(p) == p.totalLen >= IPLen(p) + tcpMinHeaderLen
GoodTotal(p) ==
    p.totalLen >= IPLen(p) + tcpMinHeaderLen /\ p.totalLen <= p.len
GoodTCP(p) ==
    TCPLen(p) >= tcpMinHeaderLen /\ p.totalLen - IPLen(p) >= TCPLen(p)
HasData(p) == PayloadLen(p) > 0

TCPChecked(p) == HasHeaders(p) /\ GoodIP(p) /\ GoodTotal(p)
Parsed(p) == TCPChecked(p) /\ GoodTCP(p) /\ HasData(p)

\* The IP header is read once the packet is long enough, the TCP header once
\* the lengths agree.
ParseSlices(p) ==
    (IF HasHeaders(p) THEN {<<0, ipv4MinHeaderLen, p.len>>} ELSE {})
    \cup (IF TCPChecked(p)
          THEN {<<IPLen(p), p.totalLen, p.len>>, <<0, 14, p.totalLen - IPLen(p)>>}
          ELSE {})

(***************************************************************************)
(* SplitIPv4TCPPacket.  The headers are copied; fixIPv4TCPChecksums sets   *)
(* the length.                                                             *)
(***************************************************************************)
FixLength(p) == [p EXCEPT !.totalLen = p.len % LenSpace]
\* Mutants: FIN stays on the first part; the sequence number does not wrap.
FirstKeepsFin(p, at) == FixLength([p EXCEPT !.len = PayloadOffset(p) + at])
First(p, at) ==
    FixLength([p EXCEPT !.len = PayloadOffset(p) + at, !.flags = @ \ {"PSH", "FIN"}])
Second(p, at) ==
    FixLength([p EXCEPT !.len = PayloadOffset(p) + (PayloadLen(p) - at),
                        !.seq = (@ + at) % SeqSpace,
                        !.data = @ + at])

\* The slices of the packet and of its payload, and those of a part: its TCP
\* header with the flags, the sequence number and the checksum.
PartSlices(p) ==
    {<<IPLen(p), p.len, p.len>>, <<0, IPLen(p), p.len>>, <<10, 20, p.len>>,
     <<16, 18, p.len - IPLen(p)>>}
SplitSlices(p, at) ==
    {<<0, PayloadOffset(p), p.len>>, <<PayloadOffset(p), p.totalLen, p.len>>,
     <<0, at, PayloadLen(p)>>, <<at, PayloadLen(p), PayloadLen(p)>>}
    \cup PartSlices(First(p, at)) \cup PartSlices(Second(p, at))

(***************************************************************************)
(* The lengths of cloneWithFakePayloadAndBadTCPChecksum, which checks the  *)
(* packet again and takes its length from the slice.                       *)
(***************************************************************************)
CloneChecked(p) ==
    /\ p.len >= ipv4MinHeaderLen /\ p.version = 4
    /\ IPLen(p) >= ipv4MinHeaderLen /\ p.len >= IPLen(p) + tcpMinHeaderLen
    /\ p.proto = 6
    /\ TCPLen(p) >= tcpMinHeaderLen /\ PayloadOffset(p) <= p.len
    /\ p.len - PayloadOffset(p) # 0
FakeLen(p, n) ==
    LET payloadLen == p.len - PayloadOffset(p)
    IN  IF n > 0 /\ n < payloadLen THEN n ELSE payloadLen
\* Mutant: a shorter fake declares the length of the original.
FakeKeepsLength(p, n) == [p EXCEPT !.len = PayloadOffset(p) + FakeLen(p, n)]
Fake(p, n) == FixLength([p EXCEPT !.len = PayloadOffset(p) + FakeLen(p, n)])
FakeSlices(p, n, tls) ==
    {<<0, PayloadOffset(p) + FakeLen(p, n), p.len>>}
    \cup PartSlices(Fake(p, n))
    \cup (IF tls THEN {<<PayloadOffset(p), PayloadOffset(p) + TLSHeaderLen,
                         Fake(p, n).len>>} ELSE {})

(***************************************************************************)
(* ParseIPv4PureTCPSYNInfo and ParseIPv4TCPSYNACK.  They do not refuse a   *)
(* short IP header or a fragment.                                          *)
(***************************************************************************)
SynHeaders(p) ==
    p.len >= 40 /\ p.version = 4 /\ p.len >= IPLen(p) + 20 /\ p.proto = 6
SynSlices(p) ==
    (IF p.len >= 40 THEN {<<0, 20, p.len>>} ELSE {})
    \cup (IF SynHeaders(p) THEN {<<IPLen(p), p.len, p.len>>,
                                 <<0, 14, p.len - IPLen(p)>>} ELSE {})
ParseIPv4PureTCPSYN(p) ==
    SynHeaders(p) /\ "SYN" \in p.flags /\ p.flags \cap {"ACK", "RST", "FIN"} = {}
ParseIPv4TCPSYNACK(p) ==
    SynHeaders(p) /\ {"SYN", "ACK"} \subseteq p.flags /\ p.flags \cap {"RST", "FIN"} = {}

(***************************************************************************)
(* What splitSegmentKey takes from a packet that was parsed, and the key   *)
(* under which the callback stores the second part.  (Addresses and ports  *)
(* are those of the packet.)                                               *)
(***************************************************************************)
SplitKey(p) == [seq |-> p.seq, len |-> PayloadLen(p)]
\* Mutant: the second part keeps the length of the packet.
SecondKeyWhole(p, at) == [seq |-> (p.seq + at) % SeqSpace, len |-> PayloadLen(p)]
SecondKey(p, at) == [seq |-> (p.seq + at) % SeqSpace, len |-> PayloadLen(p) - at]
-----------------------------------------------------------------------------
Init ==
    pkt \in Packets /\ stage = "new" /\ slices = {} /\ parts = <<>> /\ splitAt = 0

Take(from, to, S) ==
    stage = from /\ stage' = to /\ slices' = S /\ UNCHANGED pkt

ParseSyn ==
    /\ Take("new", IF ParseIPv4PureTCPSYN(pkt) THEN "syn"
                   ELSE IF ParseIPv4TCPSYNACK(pkt) THEN "synack"
                   ELSE "other", SynSlices(pkt))
    /\ UNCHANGED <<parts, splitAt>>

ParsePayload ==
    /\ Take("new", IF Parsed(pkt) THEN "parsed" ELSE "refused", ParseSlices(pkt))
    /\ UNCHANGED <<parts, splitAt>>

\* Both refuse by an error, without having touched the packet.
Split(at) ==
    /\ at < PayloadLen(pkt)
    /\ Take("parsed", "split", SplitSlices(pkt, at))
    /\ parts' = <<First(pkt, at), Second(pkt, at)>>
    /\ splitAt' = at

Clone(n, tls) ==
    /\ CloneChecked(pkt)
    /\ tls => FakeLen(pkt, n) >= TLSHeaderLen
    /\ Take("parsed", "cloned", FakeSlices(pkt, n, tls))
    /\ parts' = <<Fake(pkt, n)>>
    /\ UNCHANGED splitAt

Next ==
    \/ ParseSyn \/ ParsePayload
    \/ \E at \in Offsets : Split(at)
    \/ \E n \in FakeLengths, tls \in BOOLEAN : Clone(n, tls)

Spec == Init /\ [][Next]_vars
-----------------------------------------------------------------------------
TypeOK ==
    /\ pkt \in Packets
    /\ stage \in {"new", "syn", "synack", "other", "parsed", "refused", "split",
                  "cloned"}
    /\ slices \in SUBSET (Int \X Int \X Int)
    /\ parts \in Seq(Fields)
    /\ splitAt \in Offsets \cup {0}

\* No slice expression of the parsers, the splitter or the fake can panic,
\* whatever lengths the headers declare: also not in the SYN parsers, which let
\* an IP header of less than 20 bytes pass.
InBounds == \A s \in slices : 0 <= s[1] /\ s[1] <= s[2] /\ s[2] <= s[3]

\* The sequence numbers a segment occupies, each with the byte it carries; -1 is
\* the end of the stream.  (A SYN, which both parts would keep, is left out.)
Stream(p) ==
    {<<(p.seq + i) % SeqSpace, p.data + i>> : i \in 0..(PayloadLen(p) - 1)}
    \cup (IF "FIN" \in p.flags THEN {<<(p.seq + PayloadLen(p)) % SeqSpace, -1>>}
                               ELSE {})

\* "two segments covering the same sequence-space interval and carrying exactly
\* the same payload bytes": every byte, and the end of the stream, is carried by
\* one of the parts under the sequence number it had, also where sequence
\* numbers wrap around.
SameStream ==
    stage = "split" => Stream(parts[1]) \cup Stream(parts[2]) = Stream(pkt)

\* What becomes of the parts when they come back to the queue as retransmissions: the
\* parser accepts both.  The second one has the key the callback has stored for it, so
\* it passes.  The first one has not the key that was stored, which is that of the
\* whole packet, but it ends where the packet was cut: the splitter refuses it.
PartsParse ==
    stage = "split" =>
        /\ Parsed(parts[1]) /\ Parsed(parts[2])
        /\ SplitKey(parts[2]) = SecondKey(pkt, splitAt)
        /\ SplitKey(parts[1]) # SplitKey(pkt)
        /\ PayloadLen(parts[1]) = splitAt

\* The checks the fake repeats, with the length of the slice where the parser
\* uses the declared one, never refuse a packet the parser has accepted; and the
\* fake passes for a segment of the same flow: it is a well-formed packet with
\* the sequence number of the original.
FakeParses ==
    /\ stage = "parsed" => CloneChecked(pkt)
    /\ stage = "cloned" => Parsed(parts[1]) /\ parts[1].seq = pkt.seq
=============================================================================
