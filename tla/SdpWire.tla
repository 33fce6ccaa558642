------------------------------ MODULE SdpWire ------------------------------
(***************************************************************************)
(* Session descriptions (wroom-edge/src/sdp.rs): reading an offer or an    *)
(* answer, answering a publisher's offer and building a subscriber's.      *)
(* A description is a sequence of lines; a line is its type, for an        *)
(* attribute its name, and its value already taken apart, or not ok where  *)
(* the parser of that line refuses it.                                     *)
(***************************************************************************)
EXTENDS Integers, Sequences, SequencesExt

CONSTANT MaxMediaSections    \* MAX_MEDIA_SECTIONS

None == ""
AnyPt == -1                  \* a=rtcp-fb:* and formats that are no payload type
Refused == [refused |-> TRUE]

Line(type, value) == [type |-> type, name |-> None, ok |-> TRUE, value |-> value]
Attr(name, value) == [type |-> "a", name |-> name, ok |-> TRUE, value |-> value]
Bad(line) == [line EXCEPT !.ok = FALSE]

-----------------------------------------------------------------------------
(* Reading *)

TransportAttrs == {"ice-ufrag", "ice-pwd", "ice-options", "fingerprint", "setup"}
SessionAttrs == TransportAttrs \cup {"group", "extmap"}
MediaAttrs == TransportAttrs \cup {"mid", "rtcp", "extmap", "rtpmap", "fmtp", "rtcp-fb", "rid",
                                   "simulcast", "candidate", "ssrc", "ssrc-group", "msid"}
Directions == {"sendrecv", "sendonly", "recvonly", "inactive"}

Lines(seq, Op(_)) == SubSeq([i \in DOMAIN seq |-> Op(seq[i])], 1, Len(seq))
LastOr(s, default) == IF s = <<>> THEN default ELSE s[Len(s)]
FirstOr(s, default) == IF s = <<>> THEN default ELSE s[1]
Values(lines, name) ==
  LET named == SelectSeq(lines, LAMBDA l : l.type = "a" /\ l.name = name)
  IN  Lines(named, LAMBDA l : l.value)
Flag(lines, name) == Values(lines, name) # <<>>

\* transport_attr: the same at session and at media level.
Transport(lines) ==
  [ufrag |-> LastOr(Values(lines, "ice-ufrag"), None), pwd |-> LastOr(Values(lines, "ice-pwd"), None),
   setup |-> LastOr(Values(lines, "setup"), None), fingerprints |-> Values(lines, "fingerprint"),
   lite |-> Flag(lines, "ice-lite")]

\* parse_mline and media_attr: the last of a single-valued attribute counts,
\* the others add up.
Section(m, lines) ==
  LET dirs == SelectSeq(lines, LAMBDA l : l.type = "a" /\ l.name \in Directions)
      maps == Values(lines, "rtpmap")
  IN  [kind |-> m.kind, port |-> m.port, proto |-> m.proto, formats |-> m.formats,
       mid |-> LastOr(Values(lines, "mid"), None),
       dir |-> IF dirs = <<>> THEN "sendrecv" ELSE dirs[Len(dirs)].name,
       transport |-> Transport(lines), candidates |-> Values(lines, "candidate"),
       extmaps |-> Values(lines, "extmap"),
       codec |-> [pt \in {r.pt : r \in ToSet(maps)} |->
                    LastOr(SelectSeq(maps, LAMBDA r : r.pt = pt), None).codec],
       fmtps |-> Values(lines, "fmtp"), feedback |-> Values(lines, "rtcp-fb"),
       rids |-> Values(lines, "rid"), simulcasts |-> Values(lines, "simulcast"),
       msids |-> Values(lines, "msid")]

\* SessionDescription::parse: what comes before the first m= line is the
\* session's; one malformed line that is looked at refuses the whole text, and
\* in a section only its c= and a= lines are (media_line).
Parse(lines) ==
  LET starts == SelectSeq([i \in DOMAIN lines |-> i], LAMBDA i : lines[i].type = "m")
      end(i)  == FirstOr(SelectSeq(starts, LAMBDA j : j > i), Len(lines) + 1) - 1
      first   == FirstOr(starts, Len(lines) + 1)
      head    == SubSeq(lines, 1, first - 1)
      has(t)  == \E i \in DOMAIN head : head[i].type = t
      inSession(l) == l.type \in {"v", "o", "t", "c"} \/ l.name \in SessionAttrs
      inSection(l) == l.type \in {"m", "c"} \/ l.name \in MediaAttrs
  IN  IF \/ \E i \in DOMAIN lines :
              \/ lines[i].type = "no ="
              \/ ~lines[i].ok /\ IF i < first THEN inSession(lines[i]) ELSE inSection(lines[i])
         \/ Len(starts) > MaxMediaSections
         \/ \E t \in {"v", "o", "t"} : ~has(t)
      THEN Refused
      ELSE [groups |-> Values(head, "group"), transport |-> Transport(head),
            extmaps |-> Values(head, "extmap"), mixed |-> Flag(head, "extmap-allow-mixed"),
            media |-> Lines(starts, LAMBDA i : Section(lines[i].value, SubSeq(lines, i + 1, end(i))))]

\* bundle_mids: the first BUNDLE group.
BundleMids(d) == FirstOr(SelectSeq(d.groups, LAMBDA g : g.semantics = "BUNDLE"), [mids |-> <<>>]).mids

\* ice_ufrag, ice_pwd, setup: the first section that has one, then the session.
FirstOf(d, field) ==
  LET all == SelectSeq([k \in DOMAIN d.media |-> d.media[k].transport[field]], LAMBDA v : v # None)
  IN  FirstOr(all, d.transport[field])

\* sha256_fingerprint.
Fingerprint(d) ==
  LET all == FlattenSeq([k \in DOMAIN d.media |-> d.media[k].transport.fingerprints])
  IN  FirstOr(SelectSeq(all \o d.transport.fingerprints, LAMBDA f : f.alg = "sha-256"),
              [alg |-> None, value |-> None])

IsRejected(m) == m.port = 0
PayloadTypes(m) == SelectSeq(m.formats, LAMBDA f : f # AnyPt)

-----------------------------------------------------------------------------
(* Writing *)

\* In the offer's order the supported codecs, and the retransmissions of one.
Supported(m, cfg) ==
  LET mapped == ToSet(PayloadTypes(m)) \cap DOMAIN m.codec
      kept   == {pt \in mapped : m.codec[pt] \in cfg.codecs[m.kind]}
      rtx    == {pt \in mapped : /\ m.codec[pt] = "rtx"
                                 /\ \E f \in ToSet(m.fmtps) : f.pt = pt /\ f.apt \in kept}
  IN  IF m.proto # "RTP" \/ m.kind \notin DOMAIN cfg.codecs THEN <<>>
      ELSE SelectSeq(PayloadTypes(m), LAMBDA pt : pt \in kept \cup rtx)

\* select_payloads: no payload types reject the section.
SelectPayloads(m, cfg) == IF IsRejected(m) THEN <<>> ELSE Supported(m, cfg)

Flip(dir) == IF dir = "sendonly" THEN "recvonly" ELSE IF dir = "recvonly" THEN "sendonly" ELSE dir
FlipRid(dir) == IF dir = "send" THEN "recv" ELSE "send"

SessionPart(cfg, bundled, mixed) ==
  <<Line("v", "0"), Line("o", cfg.version), Line("s", "-"), Line("t", "0 0"), Attr("ice-lite", None)>>
  \o (IF bundled = <<>> THEN <<>> ELSE <<Attr("group", [semantics |-> "BUNDLE", mids |-> bundled])>>)
  \o <<Attr("msid-semantic", "WMS")>>
  \o (IF mixed THEN <<Attr("extmap-allow-mixed", None)>> ELSE <<>>)

MLine(kind, port, proto, formats) ==
  <<Line("m", [kind |-> kind, port |-> port, proto |-> proto, formats |-> formats]),
    Line("c", "0.0.0.0")>>
MidLine(mid) == IF mid = None THEN <<>> ELSE <<Attr("mid", mid)>>
Rejected(kind, proto, formats, mid) ==
  MLine(kind, 0, proto, formats) \o MidLine(mid) \o <<Attr("inactive", None)>>
Credentials(cfg, setup) ==
  <<Attr("rtcp", 9), Attr("ice-ufrag", cfg.ufrag), Attr("ice-pwd", cfg.pwd),
    Attr("ice-options", "trickle"), Attr("fingerprint", cfg.fingerprint), Attr("setup", setup)>>
CandidateLines(cfg) ==
  Lines(cfg.candidates, LAMBDA c : Attr("candidate", c)) \o <<Attr("end-of-candidates", None)>>

\* What of a payload type's feedback is supported, each once.
FeedbackLines(m, pt, cfg) ==
  LET own  == SelectSeq(m.feedback, LAMBDA f : f.pt \in {AnyPt, pt} /\ f.what \in cfg.feedback)
      once == SelectSeq([i \in DOMAIN own |-> i],
                        LAMBDA i : \A j \in 1 .. i - 1 : own[j].what # own[i].what)
  IN  [i \in DOMAIN once |-> Attr("rtcp-fb", [pt |-> pt, what |-> own[once[i]].what])]

PayloadLines(m, pt, cfg) ==
  <<Attr("rtpmap", [pt |-> pt, codec |-> m.codec[pt]])>> \o FeedbackLines(m, pt, cfg)
  \o Lines(SelectSeq(m.fmtps, LAMBDA f : f.pt = pt), LAMBDA f : Attr("fmtp", f))

\* The answer to one section.
AnswerSection(d, m, cfg, setup) ==
  LET pts == SelectPayloads(m, cfg)
      exts == SelectSeq(d.extmaps \o m.extmaps, LAMBDA e : e.uri \in ToSet(cfg.extensions))
  IN  IF pts = <<>> THEN Rejected(m.kind, m.proto, m.formats, m.mid)
      ELSE MLine(m.kind, 9, m.proto, pts) \o Credentials(cfg, setup) \o MidLine(m.mid)
           \o Lines(exts, LAMBDA e : Attr("extmap", e))
           \o <<Attr(Flip(m.dir), None), Attr("rtcp-mux", None)>>
           \o FlattenSeq(Lines(pts, LAMBDA pt : PayloadLines(m, pt, cfg)))
           \o Lines(m.rids, LAMBDA r : Attr("rid", [r EXCEPT !.dir = FlipRid(@)]))
           \o Lines(m.simulcasts, LAMBDA s : Attr("simulcast", [s EXCEPT !.dir = FlipRid(@)]))
           \o CandidateLines(cfg)

Usable(cfg) == cfg.ufrag # None /\ cfg.pwd # None /\ cfg.candidates # <<>>

\* SessionDescription::answer; only accepted sections with a mid are bundled.
Answer(d, cfg) ==
  LET accepted == SelectSeq(d.media, LAMBDA m : SelectPayloads(m, cfg) # <<>> /\ m.mid # None)
      setup    == IF FirstOf(d, "setup") = "passive" THEN "active" ELSE "passive"
  IN  IF d.media = <<>> \/ ~Usable(cfg) THEN <<>>
      ELSE SessionPart(cfg, Lines(accepted, LAMBDA m : m.mid), d.mixed)
           \o FlattenSeq(Lines(d.media, LAMBDA m : AnswerSection(d, m, cfg, setup)))

\* extmap_id: the ids browsers use, so that forwarded packets need no change.
ExtmapId(uri) ==
  CASE uri = "audio-level" -> 1 [] uri = "abs-send-time" -> 2 [] uri = "twcc" -> 3
    [] uri = "mid" -> 4 [] uri = "rid" -> 10 [] uri = "orientation" -> 13 [] uri = "toffset" -> 14
    [] OTHER -> 15

\* Fault: only the live slots are bundled.
AnchoredLive(slots) == {i \in DOMAIN slots : ~slots[i].retired}

\* The slots a subscriber offer keeps in its bundle: the first always, so that
\* the transport survives when its track goes.
Anchored(slots) == {i \in DOMAIN slots : i = 1 \/ ~slots[i].retired}

OfferSection(cfg, slot) ==
  MLine(slot.kind, 9, "RTP", slot.payloads) \o Credentials(cfg, "actpass") \o <<Attr("mid", slot.mid)>>
  \o Lines(cfg.extensions, LAMBDA uri : Attr("extmap", [id |-> ExtmapId(uri), uri |-> uri]))
  \o <<Attr(IF slot.retired THEN "inactive" ELSE "sendonly", None), Attr("rtcp-mux", None)>>
  \o (IF slot.retired THEN <<>> ELSE <<Attr("msid", slot.track)>>)
  \o Lines(slot.maps, LAMBDA r : Attr("rtpmap", r))
  \o FlattenSeq(Lines(SetToSeq(cfg.feedback), LAMBDA f :
                  Lines(slot.payloads, LAMBDA pt : Attr("rtcp-fb", [pt |-> pt, what |-> f]))))
  \o CandidateLines(cfg)

\* build_subscriber_offer.
SubscriberOffer(cfg, slots) ==
  LET bundled == SelectSeq([i \in DOMAIN slots |-> i], LAMBDA i : i \in Anchored(slots))
  IN  IF slots = <<>> \/ ~Usable(cfg) THEN <<>>
      ELSE SessionPart(cfg, Lines(bundled, LAMBDA i : slots[i].mid), TRUE)
           \o FlattenSeq([i \in DOMAIN slots |->
                IF slots[i].retired /\ i # 1
                THEN Rejected(slots[i].kind, "RTP", slots[i].payloads, slots[i].mid)
                ELSE OfferSection(cfg, slots[i])])
=============================================================================
