---------------------------- MODULE WireFormats ----------------------------
(***************************************************************************)
(* What the edge writes is read back as it was meant: transport-wide       *)
(* feedback, STUN replies, rewritten RTP packets, compound RTCP, answers   *)
(* to publishers and offers to subscribers.  The state is one message that *)
(* grows piece by piece; the writers and readers are the modules'.         *)
(***************************************************************************)
EXTENDS Integers, Sequences, FiniteSets, SequencesExt

CONSTANTS
  ByteSpace, Narrow, Wide, DeltaSamples, MaxStatuses,    (* TWCC           *)
  MaxPairs, PairTtl, StunPieces, StunKeys, MaxAttributes, (* STUN          *)
  Sources, Pieces, Rewrites, MaxPieces,                  (* RTP            *)
  Blocks, Cuts, MaxBlocks,                               (* RTCP           *)
  MaxMediaSections, Sessions, Sections, Config,          (* offers in      *)
  Wants                                                  (* offers out     *)

Twcc == INSTANCE TwccWire
Ice  == INSTANCE IceAgent
Rtp  == INSTANCE RtpWire
Rtcp == INSTANCE RtcpWire
Sdp  == INSTANCE SdpWire

VARIABLE item

Nothing == [kind |-> "nothing"]
Init == item = Nothing

Starts(kind) == item.kind \in {"nothing", kind}
Soft(kind, field) == IF item.kind = kind THEN item[field] ELSE <<>>

-----------------------------------------------------------------------------
(* The pieces *)

AddStatus ==
  /\ Starts("twcc")
  /\ Len(Soft("twcc", "statuses")) < MaxStatuses
  /\ \E s \in DeltaSamples : item' = [kind |-> "twcc", statuses |-> Append(Soft("twcc", "statuses"), s)]

\* A browser's check, one attribute or a run of them at a time.
AddAttribute ==
  /\ Starts("stun")
  /\ \E p \in StunPieces, key \in StunKeys :
       /\ item.kind = "stun" => key = item.key
       /\ Len(Soft("stun", "used")) < MaxAttributes
       /\ p \notin ToSet(Soft("stun", "used"))
       /\ item' = [kind |-> "stun", key |-> key, used |-> Append(Soft("stun", "used"), p),
                   attrs |-> Soft("stun", "attrs") \o p]

\* A packet from a publisher, one header extension element at a time.
OpenPacket ==
  /\ item = Nothing
  /\ \E s \in Sources, r \in Rewrites : item' = [kind |-> "rtp", source |-> s, rw |-> r, pieces |-> <<>>]
AddElement ==
  /\ item.kind = "rtp" /\ Len(item.pieces) < MaxPieces
  /\ \E e \in Pieces[item.source.form] : item' = [item EXCEPT !.pieces = Append(@, e)]

\* A compound datagram, whole or with its end cut off.
AddBlock ==
  /\ Starts("rtcp")
  /\ Len(Soft("rtcp", "blocks")) < MaxBlocks
  /\ item.kind = "rtcp" => item.cut = 0
  /\ \E b \in Blocks, c \in Cuts : item' = [kind |-> "rtcp", blocks |-> Append(Soft("rtcp", "blocks"), b), cut |-> c]

\* A publisher's offer, section by section.
AddSection ==
  /\ Starts("offer")
  /\ Len(Soft("offer", "sections")) < MaxMediaSections + 1
  /\ \E s \in Sessions, m \in Sections :
       /\ item.kind = "offer" => s = item.session
       /\ Len(Soft("offer", "sections")) > 1 => m = Head(item.sections)
       /\ item' = [kind |-> "offer", session |-> s, sections |-> Append(Soft("offer", "sections"), m)]

\* offer_subscriber: slots already offered stay where they are, retired when
\* their track is no longer wanted; new tracks are appended, each once.
Maps(kind) == IF kind = "audio" THEN [pt |-> 111, codec |-> "opus"] ELSE [pt |-> 96, codec |-> "VP8"]
Slot(mid, kind, track, retired, first) ==
  [mid |-> mid, kind |-> kind, track |-> track, payloads |-> <<Maps(kind).pt>>, retired |-> retired,
   maps |-> IF retired /\ ~first THEN <<>> ELSE <<Maps(kind)>>]

\* Fault: the slot of a track that is gone is given up.
SlotsOfWanted(mlines, tracks) ==
  [i \in DOMAIN tracks |-> Slot(tracks[i].mid, tracks[i].kind, tracks[i].track, FALSE, FALSE)]

\* The slots of the next offer.
Slots(mlines, tracks) ==
  LET fresh == SelectSeq([i \in DOMAIN tracks |-> i],
                 LAMBDA i : /\ \A j \in DOMAIN mlines : mlines[j].mid # tracks[i].mid
                            /\ \A j \in 1 .. i - 1 : tracks[j].mid # tracks[i].mid)
      wanted(mid) == {t \in ToSet(tracks) : t.mid = mid}
  IN  [i \in DOMAIN mlines |->
         LET w == wanted(mlines[i].mid)
         IN  Slot(mlines[i].mid, mlines[i].kind, IF w = {} THEN "" ELSE (CHOOSE t \in w : TRUE).track, w = {}, i = 1)]
      \o [i \in DOMAIN fresh |-> Slot(tracks[fresh[i]].mid, tracks[fresh[i]].kind, tracks[fresh[i]].track, FALSE, FALSE)]

Reoffer ==
  /\ Starts("slots")
  /\ \E tracks \in Wants :
       LET slots == Slots(Soft("slots", "mlines"), tracks)
           lines == Sdp!SubscriberOffer(Config, slots)
       IN  item' = [kind |-> "slots", tracks |-> tracks, lines |-> lines,
                    mlines |-> IF lines = <<>> THEN Soft("slots", "mlines")
                               ELSE [i \in DOMAIN slots |-> [mid |-> slots[i].mid, kind |-> slots[i].kind]]]

Next == AddStatus \/ AddAttribute \/ OpenPacket \/ AddElement \/ AddBlock \/ AddSection \/ Reoffer
Spec == Init /\ [][Next]_item

-----------------------------------------------------------------------------
(* TWCC *)

\* A reader of a feedback packet gets back the statuses that were written, for
\* every mixture of lost, early and late packets and wherever chunks end.
TwccReadsBack ==
  item.kind = "twcc" =>
    LET pkt == Twcc!Build(0, 0, 0, item.statuses)
    IN  Twcc!Buildable(item.statuses) /\ Twcc!Parses(pkt) /\ Twcc!Statuses(pkt) = item.statuses

-----------------------------------------------------------------------------
(* STUN *)

Agent == Ice!NewAgent(1, 7, 2)
From == [v6 |-> TRUE, at |-> "here"]
Check(key, attrs) == Ice!Message("request", "tid", attrs, key, 2048)

\* Every check gets a reply that fits the response buffer and reads back: it
\* answers this transaction, its checksum holds, it is signed whenever the
\* check was authenticated, a success reports the address the check came from
\* and an error for unknown attributes names the first of them.
StunRepliesReadBack ==
  item.kind = "stun" =>
    LET m     == Ice!Parse(Check(item.key, item.attrs))
        wire  == Ice!Reply(Agent, m, From)
        reply == Ice!Parse(wire)
        vouch == /\ item.key = Agent.pwd /\ Ice!Has(m, "username")
                 /\ Ice!UsernameValid(Agent, Ice!ValueOf(m, "username"))
        odd   == SelectSeq(item.attrs, LAMBDA a : a.type \in Ice!Strange)
    IN  /\ ~m.none /\ Ice!FingerprintValid(m)
        /\ Ice!IntegrityHolds(m, Agent.pwd) = (item.key = Agent.pwd)
        /\ wire # Ice!Nil /\ wire.bytes <= 256
        /\ ~reply.none /\ reply.tid = m.tid
        /\ Ice!Has(reply, "fingerprint") /\ Ice!FingerprintValid(reply)
        /\ vouch <=> Ice!IntegrityHolds(reply, Agent.pwd)
        /\ reply.class = "success" => vouch /\ odd = <<>> /\ Ice!XorMapped(reply) = From
        /\ vouch /\ odd # <<>> =>
             /\ Ice!ValueOf(reply, "error") = 420
             /\ Ice!ValueOf(reply, "unknown") =
                  [i \in 1 .. (IF Len(odd) < 16 THEN Len(odd) ELSE 16) |-> odd[i].type]

-----------------------------------------------------------------------------
(* RTP *)

\* leg_extmap: the ids every leg negotiates.
LegExtmap == Rtp!ExtMap(<<[id |-> 1, kind |-> "audio-level"], [id |-> 2, kind |-> "abs-send-time"],
                          [id |-> 3, kind |-> "twcc"], [id |-> 4, kind |-> "mid"], [id |-> 10, kind |-> "rid"]>>)

\* The datagram a publisher sends: elements, padding bytes as the pieces say.
Datagram(s, pieces) ==
  LET body == FlattenSeq([i \in DOMAIN pieces |-> pieces[i].bytes])
      data == body \o [i \in 1 .. (-Len(body)) % 4 |-> 0]
      ext  == IF s.form = "none" THEN Rtp!Missing ELSE [form |-> s.form, words |-> Len(data) \div 4, data |-> data]
      raw  == [version |-> 2, csrcs |-> s.csrcs, marker |-> s.marker, pt |-> 96, seq |-> 5, ts |-> 6, ssrc |-> 7,
               padded |-> s.padding > 0, last |-> s.padding, ext |-> ext, bytes |-> 0]
  IN  [raw EXCEPT !.bytes = Rtp!HeaderLen(raw) + s.payload + s.padding]

\* What was put in under a negotiated kind, up to a byte that ends the block.
Given(item_, kind) ==
  LET stops == SelectSeq([i \in DOMAIN item_.pieces |-> i], LAMBDA i : item_.pieces[i].stop)
      heard == IF stops = <<>> THEN item_.pieces ELSE SubSeq(item_.pieces, 1, stops[1] - 1)
      mine  == SelectSeq(heard, LAMBDA p : p.id \in DOMAIN item_.rw.inMap.kind /\ item_.rw.inMap.kind[p.id] = kind)
  IN  [i \in DOMAIN mine |-> mine[i].value]

\* A sequence number and a mid are both to be added.  Then the code writes the
\* mid over the number; the shard, the only caller, never sets a number.
AddsBoth(it) ==
  \A kind \in {"twcc", "mid"} :
    it.rw[kind] # <<>> /\ kind \in DOMAIN it.rw.outMap.id /\ Given(it, kind) = <<>>

Carried(it, exts) ==
  LET under(kind) == SelectSeq(exts, LAMBDA e : e.id = it.rw.outMap.id[kind])
      new(kind)   == IF kind \in {"twcc", "mid"} THEN it.rw[kind] ELSE <<>>
  IN  /\ \A e \in ToSet(exts) : \E k \in DOMAIN it.rw.outMap.id : it.rw.outMap.id[k] = e.id
      /\ \A k \in DOMAIN it.rw.outMap.id :
           LET was == Given(it, k)
               now == [i \in DOMAIN under(k) |-> under(k)[i].value]
           IN  now = IF new(k) = <<>> THEN was
                     ELSE IF was = <<>> THEN <<new(k)>> ELSE [i \in DOMAIN was |-> new(k)]

\* out, the rewritten form of d, reads back.
ReadsBack(it, d, out) ==
  /\ Rtp!Parses(d) /\ Rtp!Parses(out)
  /\ Rtp!PayloadLen(out) = it.source.payload /\ Rtp!PaddingLen(out) = it.source.padding
  /\ out.csrcs = d.csrcs /\ out.marker = d.marker /\ out.ssrc = it.rw.ssrc
  /\ Carried(it, Rtp!Extensions(out))
  /\ \A room \in {out.bytes - 1, out.bytes} :
       Rtp!Rewrite(d, it.rw, room) = IF room < out.bytes THEN Rtp!Missing ELSE out
  /\ it.rw.twcc # <<>> /\ "twcc" \in DOMAIN it.rw.outMap.id =>
       Rtp!TwccSeq(out, it.rw.outMap) = (it.rw.twcc[1] * 256) + it.rw.twcc[2]

\* A forwarded packet parses, has the payload, padding, marker and sources of
\* the original, and carries under every id the subscriber negotiated exactly
\* the original's elements of that kind, with the mid (and, where one is given,
\* the sequence number) replaced or added and nothing else: for both element
\* forms, and with the extension map all legs use.  The scratch buffer that is
\* asked for is exactly large enough.
RewritesReadBack ==
  item.kind = "rtp" /\ ~AddsBoth(item) =>
    LET d == Datagram(item.source, item.pieces)
    IN  ReadsBack(item, d, Rtp!Rewrite(d, item.rw, 2048))

-----------------------------------------------------------------------------
(* RTCP *)

Wire(it) ==
  LET all == FlattenSeq([i \in DOMAIN it.blocks |-> it.blocks[i].cells])
  IN  SubSeq(all, 1, Len(all) - it.cut)

\* How many blocks of a datagram are whole, up to the first that is malformed.
Whole(it) ==
  LET upto[k \in 0 .. Len(it.blocks)] == IF k = 0 THEN 0 ELSE upto[k - 1] + Len(it.blocks[k].cells)
      sound(k) == \A i \in 1 .. k : it.blocks[i].reads # "malformed" /\ upto[i] <= Len(Wire(it))
  IN  CHOOSE k \in 0 .. Len(it.blocks) : sound(k) /\ (k = Len(it.blocks) \/ ~sound(k + 1))

\* The walk over a compound datagram yields the blocks up to the first that is
\* cut off or malformed, that one as an error, and nothing behind it.
CompoundIsWalked ==
  item.kind = "rtcp" =>
    LET read == Rtcp!Packets(Wire(item))
        n    == Whole(item)
        rest == n < Len(item.blocks) /\
                  Len(Wire(item)) > Len(FlattenSeq([i \in 1 .. n |-> item.blocks[i].cells]))
    IN  /\ Len(read) = n + (IF rest THEN 1 ELSE 0)
        /\ \A i \in 1 .. n : read[i].kind = item.blocks[i].reads /\ read[i].raw = item.blocks[i].cells
        /\ rest => read[n + 1] = Rtcp!Malformed

SentInfo == [ssrc |-> 1, ntp |-> 2, rtp |-> 3, packets |-> 4, octets |-> 5]

\* The accessors of a block give back what it was built from, the sign of a
\* loss and the end of a name included.
BlocksReadBack ==
  item.kind = "rtcp" =>
    \A i \in 1 .. Whole(item) :
      LET p == Rtcp!Packets(Wire(item))[i]
          b == item.blocks[i]
      IN  CASE b.reads \in {"sr", "rr"} -> 
               /\ Rtcp!Reports(p) = b.of /\ Rtcp!SenderSsrc(p) = 1
               /\ b.reads = "sr" => Rtcp!SenderInfo(p) = SentInfo
            [] b.reads = "sdes" -> Rtcp!Chunks(p) = b.of
            [] b.reads = "bye"  -> Rtcp!ByeSsrcs(p) = b.of /\ Rtcp!Reason(p) = b.reason
            [] b.reads = "nack" -> UNION {Rtcp!LostPackets(e) : e \in ToSet(Rtcp!Entries(p))} = b.of
            [] b.reads = "fir"  -> Rtcp!FirEntries(p) = b.of
            [] b.reads = "remb" -> Rtcp!RembSsrcs(p) = b.of
            [] OTHER -> TRUE

\* Of a subscriber's datagram exactly the requests for a picture or a packet
\* go back, whole and in order, each to the source it names; reports stay.
RequestsReturn ==
  item.kind = "rtcp" =>
    LET asks == SelectSeq([i \in 1 .. Whole(item) |-> i], LAMBDA i : item.blocks[i].asks # 0)
    IN  Rtcp!Returned(Wire(item)) =
          [i \in DOMAIN asks |-> [to |-> item.blocks[asks[i]].asks, raw |-> item.blocks[asks[i]].cells]]

\* A compound datagram, cut anywhere, is read as it was meant: walked to the
\* first broken block, each whole block what it was built from, and its requests
\* passed on (packets, the block types, forward_sub_rtcp).  What transport-wide
\* feedback says is the matter of TwccReadsBack.
CompoundsReadBack == CompoundIsWalked /\ BlocksReadBack /\ RequestsReturn

-----------------------------------------------------------------------------
(* Session descriptions *)

Offer(it) == Sdp!Parse(it.session.lines \o FlattenSeq(it.sections))
Subsequence(s, t) == \E f \in [DOMAIN s -> DOMAIN t] :
                       \A i, j \in DOMAIN s : s[i] = t[f[i]] /\ (i < j => f[i] < f[j])
Accepted(m) ==
  /\ m.port # 0 /\ m.proto = "RTP" /\ m.kind \in DOMAIN Config.codecs
  /\ \E pt \in ToSet(m.formats) \cap DOMAIN m.codec : m.codec[pt] \in Config.codecs[m.kind]

\* The edge is the DTLS server of every leg (PeerTransport), whatever is offered.
ServerRole == "passive"

\* One section of an answer against the section it answers.
Mirrors(a, m, offer) ==
  /\ a.kind = m.kind /\ a.mid = m.mid /\ (a.port # 0) = Accepted(m)
  /\ Subsequence(a.formats, m.formats)
  /\ a.port = 0 =>
       /\ a.dir = "inactive" /\ a.transport.ufrag = Sdp!None
       /\ a.transport.setup = Sdp!None /\ a.transport.fingerprints = <<>>
  /\ a.port # 0 =>
       /\ a.dir = Sdp!Flip(m.dir)
       /\ a.transport.ufrag = Config.ufrag /\ a.transport.pwd = Config.pwd
       /\ a.transport.fingerprints = <<Config.fingerprint>>
       /\ Sdp!FirstOf(offer, "setup") # "passive" => a.transport.setup = ServerRole
       /\ a.candidates = Config.candidates
       /\ \A f \in ToSet(a.fmtps) : f.apt # 0 => f.apt \in ToSet(a.formats)
       /\ ToSet(a.extmaps) = {e \in ToSet(m.extmaps \o offer.extmaps) : e.uri \in ToSet(Config.extensions)}
       /\ \A f \in ToSet(a.feedback) : f.pt \in ToSet(a.formats) /\ f.what \in Config.feedback
       /\ IsInjective(a.feedback)

\* An offer that parses is answered, and the answer parses: section by section
\* it mirrors the offer, its bundle is exactly the accepted sections, no
\* retransmission is accepted without what it retransmits, and every accepted
\* section has the server's fingerprint and the DTLS role the server has.  An
\* offerer that is passive itself is left out: it is told that the server is
\* active, which no leg ever is.
AnswersMirrorOffers ==
  item.kind = "offer" =>
    LET offer  == Offer(item)
        answer == Sdp!Parse(Sdp!Answer(offer, Config))
        live   == SelectSeq(answer.media, LAMBDA m : m.port # 0 /\ m.mid # Sdp!None)
    IN  IF Len(item.sections) > MaxMediaSections \/ ~item.session.sound THEN offer = Sdp!Refused
        ELSE /\ Len(answer.media) = Len(item.sections)
             /\ \A k \in DOMAIN answer.media : Mirrors(answer.media[k], offer.media[k], offer)
             /\ Sdp!BundleMids(answer) = [k \in DOMAIN live |-> live[k].mid]
             /\ answer.transport.lite
             /\ (\E m \in ToSet(answer.media) : m.port # 0) => Sdp!Fingerprint(answer) = Config.fingerprint

\* A subscriber's offer reads back as its slots; a slot is in the bundle with
\* the transport's credentials or rejected, never both or neither, and what is
\* sent is exactly what is wanted.
OffersReadBack ==
  item.kind = "slots" /\ item.lines # <<>> =>
    LET offer == Sdp!Parse(item.lines)
    IN  /\ Len(offer.media) = Len(item.mlines)
        /\ \A k \in DOMAIN offer.media :
             LET m == offer.media[k]
             IN  /\ m.mid = item.mlines[k].mid /\ m.kind = item.mlines[k].kind
                 /\ (m.port # 0) = (m.mid \in ToSet(Sdp!BundleMids(offer)))
                 /\ (m.port # 0) = (m.transport.ufrag = Config.ufrag /\ m.candidates # <<>>)
                 /\ m.port # 0 => Accepted(m)
                 /\ m.dir = IF \E t \in ToSet(item.tracks) : t.mid = m.mid THEN "sendonly" ELSE "inactive"
        /\ \A t \in ToSet(item.tracks) : \E k \in DOMAIN offer.media : offer.media[k].msids = <<t.track>>
        /\ \A e \in ToSet(offer.media[1].extmaps) :
             e.uri \in DOMAIN LegExtmap.id => e.id = LegExtmap.id[e.uri]

\* What the server says of a session, to a publisher or to a subscriber, reads
\* back as what it accepts, is and sends (answer, build_subscriber_offer).
DescriptionsReadBack == AnswersMirrorOffers /\ OffersReadBack

\* From one offer to the next of a subscriber no m-line is lost, moved or
\* changes its kind, and the first, which anchors the bundle, keeps its port.
OfferLinesOnlyGrow ==
  [][item.kind = "slots" /\ item.lines # <<>> =>
       LET old == Sdp!Parse(item.lines)
           new == Sdp!Parse(item'.lines)
       IN  item'.lines # <<>> =>
             /\ Len(old.media) <= Len(new.media)
             /\ \A k \in DOMAIN old.media : new.media[k].mid = old.media[k].mid /\ new.media[k].kind = old.media[k].kind
             /\ Sdp!BundleMids(new)[1] = Sdp!BundleMids(old)[1]
             /\ new.media[1].port # 0]_item
=============================================================================
