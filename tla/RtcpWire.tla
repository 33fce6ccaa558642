------------------------------ MODULE RtcpWire ------------------------------
(***************************************************************************)
(* Compound RTCP datagrams (wroom-edge/src/rtcp.rs): the blocks the server *)
(* builds, the walk over a datagram that stops at the first malformed      *)
(* block, and the accessors of each block.  A datagram is a sequence of    *)
(* byte cells; a field of several bytes has its value in the first of its  *)
(* cells and zeros in the others.  What a block of transport-wide feedback *)
(* says is in TwccWire; here is how much of its payload it needs.          *)
(***************************************************************************)
EXTENDS Integers, Sequences, SequencesExt

RtcpHeaderLen == 4
FeedbackHeaderLen == 8
ReportBlockLen == 24
SenderInfoLen == 24
Int24 == 16777216
Type == [sr |-> 200, rr |-> 201, sdes |-> 202, bye |-> 203, rtpfb |-> 205, psfb |-> 206]
RembMagic == 999

Field(value, bytes) == <<value>> \o [i \in 1 .. bytes - 1 |-> 0]
Zeros(n) == [i \in 1 .. n |-> 0]

-----------------------------------------------------------------------------
(* Writing *)

\* write_header over a payload; the first cell is version, padding and count.
Block(count, type, payload) ==
  <<128 + count, type>> \o Field(Len(payload) \div 4, 2) \o payload

\* ReportBlock::write: the low 24 bits of the signed loss.
ReportBlock(r) ==
  Field(r.ssrc, 4) \o <<r.fraction>> \o Field(r.lost % Int24, 3) \o Field(r.highest, 4)
    \o Field(r.jitter, 4) \o Field(r.lsr, 4) \o Field(r.dlsr, 4)
ReportBlocks(reports) == FlattenSeq([i \in DOMAIN reports |-> ReportBlock(reports[i])])

\* The builders refuse more reports than the count has room for.
BuildSr(ssrc, ntp, rtp, packets, octets, reports) ==
  IF Len(reports) > 31 THEN <<>> ELSE
  Block(Len(reports), Type.sr,
        Field(ssrc, 4) \o Field(ntp, 8) \o Field(rtp, 4) \o Field(packets, 4) \o Field(octets, 4)
          \o ReportBlocks(reports))
BuildRr(ssrc, reports) ==
  IF Len(reports) > 31 THEN <<>> ELSE Block(Len(reports), Type.rr, Field(ssrc, 4) \o ReportBlocks(reports))

\* Sdes::build_cname: one chunk, null-terminated and padded to four bytes.
BuildCname(ssrc, cname) ==
  LET chunk == Field(ssrc, 4) \o <<1, Len(cname)>> \o cname \o <<0>>
  IN  Block(1, Type.sdes, chunk \o Zeros((-Len(chunk)) % 4))

Feedback(fmt, type, ssrc, media, fci) == Block(fmt, type, Field(ssrc, 4) \o Field(media, 4) \o fci)
BuildNack(ssrc, media, entries) ==
  Feedback(1, Type.rtpfb, ssrc, media,
           FlattenSeq([i \in DOMAIN entries |-> Field(entries[i].pid, 2) \o Field(entries[i].blp, 2)]))
BuildPli(ssrc, media) == Feedback(1, Type.psfb, ssrc, media, <<>>)
BuildFir(ssrc, media, entries) ==
  Feedback(4, Type.psfb, ssrc, media,
           FlattenSeq([i \in DOMAIN entries |-> Field(entries[i].ssrc, 4) \o Field(entries[i].seq, 4)]))

-----------------------------------------------------------------------------
(* Reading *)

Malformed == [kind |-> "malformed"]

\* Block::parse at the start of what is left of a datagram.
ParseBlock(rest) ==
  LET len     == (rest[3] + 1) * 4
      padded  == (rest[1] \div 32) % 2 = 1
      payload == SubSeq(rest, RtcpHeaderLen + 1, len)
      n       == IF payload = <<>> THEN 0 ELSE payload[Len(payload)]
  IN  IF \/ Len(rest) < RtcpHeaderLen
         \/ rest[1] \div 64 # 2
         \/ len > Len(rest)
         \/ padded /\ (n = 0 \/ n > Len(payload))
      THEN Malformed
      ELSE [kind |-> "block", count |-> rest[1] % 32, type |-> rest[2], len |-> len,
            payload |-> IF padded THEN SubSeq(payload, 1, Len(payload) - n) ELSE payload,
            raw |-> SubSeq(rest, 1, len)]

IsRemb(b) == Len(b.payload) >= FeedbackHeaderLen + 4 /\ b.payload[FeedbackHeaderLen + 1] = RembMagic

KindOf(b) ==
  CASE b.type = Type.sr   -> "sr"
    [] b.type = Type.rr   -> "rr"
    [] b.type = Type.sdes -> "sdes"
    [] b.type = Type.bye  -> "bye"
    [] b.type = Type.rtpfb /\ b.count = 1  -> "nack"
    [] b.type = Type.rtpfb /\ b.count = 15 -> "twcc"
    [] b.type = Type.psfb /\ b.count = 1   -> "pli"
    [] b.type = Type.psfb /\ b.count = 4   -> "fir"
    [] b.type = Type.psfb /\ b.count = 15 /\ IsRemb(b) -> "remb"
    [] OTHER -> "other"

\* The symbols of a packet chunk: a run, or a vector of two bits or of one each.
ChunkSymbols(c) ==
  IF c < 32768 THEN [i \in 1 .. c % 8192 |-> (c \div 8192) % 4]
  ELSE IF (c \div 16384) % 2 = 1 THEN [i \in 1 .. 7 |-> (c \div 2 ^ (14 - 2 * i)) % 4]
  ELSE [i \in 1 .. 14 |-> (c \div 2 ^ (14 - i)) % 2]

\* Twcc::from_block: chunks until every announced status has its symbol, and the
\* deltas of those symbols; more than there is when chunks or symbols run out.
TwccNeeds(p) ==
  LET deltas(syms) == FoldLeft(LAMBDA n, sym : n + IF sym \in {1, 2} THEN sym ELSE 0, 0, syms)
      from[left \in 0 .. p[11], at \in 17 .. (Len(p) + 1)] ==
        IF left = 0 THEN at - 1
        ELSE IF at + 1 > Len(p) \/ ChunkSymbols(p[at]) = <<>> THEN Len(p) + 1
        ELSE LET syms == ChunkSymbols(p[at])
                 take == IF left < Len(syms) THEN left ELSE Len(syms)
             IN  deltas(SubSeq(syms, 1, take)) + from[left - take, at + 2]
  IN  IF Len(p) < 16 THEN 16 ELSE from[p[11], 17]

\* What the from_block of each kind asks of the payload's length.
Needs(b) ==
  CASE KindOf(b) = "sr"   -> SenderInfoLen + ReportBlockLen * b.count
    [] KindOf(b) = "rr"   -> 4 + ReportBlockLen * b.count
    [] KindOf(b) = "bye"  -> 4 * b.count
    [] KindOf(b) \in {"nack", "pli", "fir"} -> FeedbackHeaderLen
    [] KindOf(b) = "twcc" -> TwccNeeds(b.payload)
    [] KindOf(b) = "remb" ->
         FeedbackHeaderLen + 8 + IF Len(b.payload) > FeedbackHeaderLen + 4
                                 THEN 4 * b.payload[FeedbackHeaderLen + 5] ELSE 0
    [] OTHER -> 0

\* RtcpPacket::from_block.
FromBlock(b) ==
  IF b = Malformed \/ Len(b.payload) < Needs(b) THEN Malformed ELSE [b EXCEPT !.kind = KindOf(b)]

\* Fault: the walk goes on behind a block that does not fit its own type.
PacketsGoOn(datagram) ==
  LET from[p \in 1 .. (Len(datagram) + 1)] ==
        IF p > Len(datagram) THEN <<>>
        ELSE LET b == ParseBlock(SubSeq(datagram, p, Len(datagram)))
             IN  IF b = Malformed THEN <<b>> ELSE <<FromBlock(b)>> \o from[p + b.len]
  IN  from[1]

\* PacketIter: blocks in order; a malformed one is the last thing yielded.
Packets(datagram) ==
  LET from[p \in 1 .. (Len(datagram) + 1)] ==
        IF p > Len(datagram) THEN <<>>
        ELSE LET b == FromBlock(ParseBlock(SubSeq(datagram, p, Len(datagram))))
             IN  IF b = Malformed THEN <<b>> ELSE <<b>> \o from[p + b.len]
  IN  from[1]

SenderSsrc(p) == p.payload[1]
MediaSsrc(p) == p.payload[5]

\* ReportBlock::parse extends the sign of the 24 bits.
Lost(value) == IF value >= Int24 \div 2 THEN value - Int24 ELSE value

\* SenderReport::reports and ReceiverReport::reports.
Reports(p) ==
  LET at(i) == (IF p.kind = "sr" THEN SenderInfoLen ELSE 4) + ReportBlockLen * (i - 1)
  IN  [i \in 1 .. p.count |->
         [ssrc |-> p.payload[at(i) + 1], fraction |-> p.payload[at(i) + 5],
          lost |-> Lost(p.payload[at(i) + 6]), highest |-> p.payload[at(i) + 9],
          jitter |-> p.payload[at(i) + 13], lsr |-> p.payload[at(i) + 17],
          dlsr |-> p.payload[at(i) + 21]]]

SenderInfo(p) == [ssrc |-> p.payload[1], ntp |-> p.payload[5], rtp |-> p.payload[13],
                  packets |-> p.payload[17], octets |-> p.payload[21]]

\* SdesChunks: the end of the items that start at a position, 0 when they
\* run out of the payload; chunks are aligned to four bytes.
Chunks(p) ==
  LET data == p.payload
      end[q \in 1 .. (Len(data) + 256)] ==
        IF q > Len(data) THEN 0
        ELSE IF data[q] = 0 THEN q
        ELSE IF q + 1 > Len(data) \/ q + 1 + data[q + 1] > Len(data) THEN 0
        ELSE end[q + 2 + data[q + 1]]
      from[n \in 0 .. p.count, at \in 0 .. (Len(data) + 4)] ==
        IF n = 0 \/ at + 4 > Len(data) \/ end[at + 5] = 0 THEN <<>>
        ELSE <<[ssrc |-> data[at + 1], items |-> SubSeq(data, at + 5, end[at + 5] - 1)]>>
               \o from[n - 1, at + ((end[at + 5] - at + 3) \div 4) * 4]
  IN  from[p.count, 0]

\* Bye::ssrcs and reason.
ByeSsrcs(p) == [i \in 1 .. p.count |-> p.payload[4 * (i - 1) + 1]]
Reason(p) ==
  LET rest == SubSeq(p.payload, 4 * p.count + 1, Len(p.payload))
  IN  IF rest = <<>> \/ rest[1] + 1 > Len(rest) THEN <<>> ELSE SubSeq(rest, 2, rest[1] + 1)

\* Nack::entries, and NackEntry::lost with the 16-bit sequence numbers.
Entries(p) ==
  [i \in 1 .. ((Len(p.payload) - FeedbackHeaderLen) \div 4) |->
     [pid |-> p.payload[4 * i + 5], blp |-> p.payload[4 * i + 7]]]
LostPackets(e) ==
  {e.pid} \cup {(e.pid + i) % 65536 : i \in {j \in 1 .. 16 : (e.blp \div 2 ^ (j - 1)) % 2 = 1}}

FirEntries(p) ==
  [i \in 1 .. ((Len(p.payload) - FeedbackHeaderLen) \div 8) |->
     [ssrc |-> p.payload[8 * i + 1], seq |-> p.payload[8 * i + 5]]]

\* Remb::ssrcs.
RembSsrcs(p) == [i \in 1 .. p.payload[13] |-> p.payload[4 * i + 13]]

\* forward_sub_rtcp: the blocks of a subscriber's datagram that go back to a
\* publisher, each with the source it asks; the rest stays here.
Target(p) ==
  IF p.kind \in {"pli", "nack"} THEN MediaSsrc(p)
  ELSE IF p.kind # "fir" THEN 0
  ELSE IF MediaSsrc(p) # 0 \/ FirEntries(p) = <<>> THEN MediaSsrc(p)
  ELSE FirEntries(p)[1].ssrc

Returned(datagram) ==
  LET asked == SelectSeq(Packets(datagram), LAMBDA p : Target(p) # 0)
  IN  [i \in DOMAIN asked |-> [to |-> Target(asked[i]), raw |-> asked[i].raw]]
=============================================================================
