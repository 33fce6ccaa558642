--------------------------- MODULE MCWireFormats ---------------------------
(* The pieces messages are put together from: for every format the ordinary *)
(* ones and those at the limits of the encoding.                            *)
EXTENDS WireFormats

A(type, len, value) == Ice!Attr(type, len, value)
Checks == { <<A("username", 8, [local |-> 1, remote |-> 2])>>, <<A("username", 8, [local |-> 1, remote |-> 3])>>,
            <<A("controlling", 8, 1)>>, <<A("controlled", 8, 1)>>, <<A("priority", 4, 1), A("use-candidate", 0, 1)>>,
            <<A("strange", 3, 1)>>, [i \in 1 .. 17 |-> A("stranger", 4, i)] }

\* Deltas on both sides of the limits of one and two bytes.
Deltas == { Twcc!NotReceived, 3, 4, -1, -8 }

-----------------------------------------------------------------------------
Source(form, csrcs, payload, padding) ==
  [form |-> form, csrcs |-> csrcs, marker |-> Len(csrcs) = 1, payload |-> payload, padding |-> padding]
Packets == {Source("none", <<8>>, 3, 0), Source("one", <<>>, 4, 4), Source("two", <<8, 9>>, 5, 0)}

El(form, id, value) ==
  [id |-> id, value |-> value, stop |-> FALSE, bytes |-> Rtp!Encoded(form, [id |-> id, value |-> value])]
Filler == [id |-> 0, value |-> <<>>, stop |-> FALSE, bytes |-> <<0>>]
Overrun(form) ==
  [id |-> 0, value |-> <<>>, stop |-> TRUE, bytes |-> IF form = "one" THEN <<240>> ELSE <<9, 200>>]
Ordinary(form) == {El(form, 4, <<109>>), El(form, 3, <<7, 8>>), El(form, 1, <<133>>), El(form, 5, <<1>>),
                   El(form, 10, [i \in 1 .. 16 |-> i]), Filler, Overrun(form)}
Elements == [form \in {"none", "one", "two"} |->
               IF form = "none" THEN {} ELSE Ordinary(form) \cup IF form = "two" THEN {El(form, 2, <<>>)} ELSE {}]

Same == LegExtmap
High == Rtp!ExtMap(<<[id |-> 2, kind |-> "mid"], [id |-> 15, kind |-> "twcc"], [id |-> 6, kind |-> "audio-level"]>>)
Few == Rtp!ExtMap(<<[id |-> 9, kind |-> "rid"], [id |-> 7, kind |-> "mid"], [id |-> 8, kind |-> "rid"]>>)
Rw(out, twcc, mid) ==
  [inMap |-> LegExtmap, outMap |-> out, twcc |-> twcc, mid |-> mid, seq |-> 1, ts |-> 2, ssrc |-> 3, pt |-> -1]
Forwarded == {Rw(out, twcc, mid) : out \in {Same, High, Few}, twcc \in {<<>>, <<1, 2>>},
                                   mid \in {<<>>, <<109, 49>>, [i \in 1 .. 17 |-> 65]}}

-----------------------------------------------------------------------------
R(lost) == [ssrc |-> 7, fraction |-> 3, lost |-> lost, highest |-> 9, jitter |-> 4, lsr |-> 5, dlsr |-> 6]
B(reads, asks, cells, of) == [reads |-> reads, asks |-> asks, cells |-> cells, of |-> of]
Bye == [b \in {1} |-> Rtcp!Block(2, Rtcp!Type.bye, Rtcp!Field(3, 4) \o Rtcp!Field(4, 4) \o <<2, 65, 66, 0>>)][1]

\* Transport-wide feedback: a run, a vector that begins with two symbols, and
\* some bytes of deltas, padded to whole words.
RunOf(sym, n) == 8192 * sym + n
Pair(first, second) == 49152 + 4096 * first + 1024 * second
Twcc15(count, chunks, deltas) ==
  LET fci == Rtcp!Field(65535, 2) \o Rtcp!Field(count, 2) \o Rtcp!Field(1, 3) \o <<0>>
             \o FlattenSeq([i \in DOMAIN chunks |-> Rtcp!Field(chunks[i], 2)]) \o Rtcp!Zeros(deltas)
  IN  Rtcp!Feedback(15, Rtcp!Type.rtpfb, 1, 6, fci \o Rtcp!Zeros((-Len(fci)) % 4))

Compound ==
  { B("sr", 0, Rtcp!BuildSr(1, 2, 3, 4, 5, <<R(-1)>>), <<R(-1)>>),
    B("rr", 0, Rtcp!BuildRr(1, <<R(8388607), R(-8388608)>>), <<R(8388607), R(-8388608)>>),
    B("sdes", 0, Rtcp!BuildCname(3, <<65, 66>>), <<[ssrc |-> 3, items |-> <<1, 2, 65, 66>>]>>),
    B("sdes", 0, Rtcp!Block(2, Rtcp!Type.sdes, Rtcp!Field(3, 4) \o <<1, 1, 65, 0>> \o Rtcp!Field(4, 4) \o <<0, 0, 0, 0>>),
      <<[ssrc |-> 3, items |-> <<1, 1, 65>>], [ssrc |-> 4, items |-> <<>>]>>),
    [reads |-> "bye", asks |-> 0, cells |-> Bye, of |-> <<3, 4>>, reason |-> <<65, 66>>],
    B("nack", 6, Rtcp!BuildNack(1, 6, <<[pid |-> 65534, blp |-> 32771]>>), {65534, 65535, 0, 14}),
    B("pli", 6, Rtcp!BuildPli(1, 6), <<>>),
    B("pli", 0, Rtcp!BuildPli(1, 0), <<>>),
    B("fir", 8, Rtcp!BuildFir(1, 0, <<[ssrc |-> 8, seq |-> 1], [ssrc |-> 9, seq |-> 2]>>),
      <<[ssrc |-> 8, seq |-> 1], [ssrc |-> 9, seq |-> 2]>>),
    B("remb", 0, Rtcp!Feedback(15, Rtcp!Type.psfb, 1, 0, Rtcp!Field(Rtcp!RembMagic, 4) \o <<1, 9, 0, 0>> \o Rtcp!Field(6, 4)), <<6>>),
    B("twcc", 0, Twcc15(9, <<RunOf(1, 2), Pair(2, 1)>>, 5), <<>>),
    B("malformed", 0, Twcc15(10, <<RunOf(1, 2), Pair(2, 1)>>, 5), <<>>),
    B("malformed", 0, Twcc15(5, <<RunOf(2, 5)>>, 6), <<>>),
    B("other", 0, Rtcp!Block(3, 207, Rtcp!Field(1, 4)), <<>>),
    B("malformed", 0, Rtcp!Block(2, Rtcp!Type.rr, Rtcp!Field(1, 4) \o Rtcp!ReportBlock(R(0))), <<>>),
    B("malformed", 0, <<160, 206, 2, 0>> \o Rtcp!Zeros(8), <<>>),
    B("malformed", 0, <<65, 206, 2, 0>> \o Rtcp!Zeros(8), <<>>) }

-----------------------------------------------------------------------------
Cfg == [version |-> 1, ufrag |-> "u", pwd |-> "p", fingerprint |-> [alg |-> "sha-256", value |-> "f"],
        candidates |-> <<"host">>,
        codecs |-> [audio |-> {"opus"}, video |-> {"VP8", "H264", "AV1"}],
        extensions |-> <<"mid", "rid", "twcc", "abs-send-time", "audio-level">>,
        feedback |-> {"nack", "nack pli", "ccm fir", "goog-remb", "transport-cc"}]

Head_(setup, group) ==
  <<Sdp!Line("v", "0"), Sdp!Line("o", 1), Sdp!Line("t", "0 0"),
    Sdp!Attr("group", [semantics |-> "BUNDLE", mids |-> group]), Sdp!Attr("extmap", [id |-> 3, uri |-> "twcc"])>>
  \o IF setup = "" THEN <<>> ELSE <<Sdp!Attr("setup", setup)>>
Texts ==
  {[sound |-> TRUE, lines |-> Head_(s, <<"0", "1">>) \o <<Sdp!Attr("extmap-allow-mixed", "")>>] : s \in {"", "actpass", "active", "passive"}}
  \cup {[sound |-> FALSE, lines |-> SubSeq(Head_("actpass", <<"0">>), 2, 5)],
        [sound |-> FALSE, lines |-> Head_("actpass", <<>>) \o <<Sdp!Bad(Sdp!Attr("ice-ufrag", ""))>>],
        [sound |-> FALSE, lines |-> Head_("actpass", <<>>) \o <<Sdp!Bad(Sdp!Attr("ice-options", ""))>>]}

M(kind, port, formats) == Sdp!Line("m", [kind |-> kind, port |-> port, proto |-> "RTP", formats |-> formats])
Map(pt, codec) == Sdp!Attr("rtpmap", [pt |-> pt, codec |-> codec])
Apt(pt, apt) == Sdp!Attr("fmtp", [pt |-> pt, apt |-> apt])
Fb(pt, what) == Sdp!Attr("rtcp-fb", [pt |-> pt, what |-> what])
Dir(d) == Sdp!Attr(d, "")
Audio(port, dir) == <<M("audio", port, <<63, 111>>), Sdp!Attr("mid", "a"), Dir(dir), Map(111, "opus"), Map(63, "red"),
                      Apt(63, 0), Sdp!Attr("extmap", [id |-> 1, uri |-> "audio-level"])>>
Video(port, dir) == <<M("video", port, <<97, 96, 98, 99>>), Sdp!Attr("mid", "v"), Map(96, "VP8"), Map(97, "rtx"), Apt(97, 96),
                      Map(98, "VP9"), Map(99, "rtx"), Apt(99, 98), Fb(Sdp!AnyPt, "nack"), Fb(96, "nack"), Fb(96, "ccm tmmbr"),
                      Dir(dir), Sdp!Attr("rid", [id |-> "f", dir |-> "send"]), Sdp!Attr("simulcast", [dir |-> "send", list |-> "f"]),
                      Sdp!Attr("extmap", [id |-> 13, uri |-> "orientation"])>>
Foreign == <<M("video", 9, <<98>>), Sdp!Attr("mid", "w"), Map(98, "VP9"), Sdp!Bad(Sdp!Line("o", 1)), Dir("sendonly")>>
Data == <<M("application", 9, <<Sdp!AnyPt>>), Sdp!Attr("mid", "d")>>
Nameless == <<M("audio", 9, <<111>>), Map(111, "OPUS?"), Map(111, "opus")>>
Media == {Audio(p, d) : p \in {0, 9}, d \in {"sendonly", "inactive", "sendrecv"}}
         \cup {Video(p, d) : p \in {0, 9}, d \in {"sendonly", "recvonly"}} \cup {Foreign, Data, Nameless}

Track(mid, kind) == [mid |-> mid, kind |-> kind, track |-> mid]
Tracks == {Track("m1.0", "audio"), Track("m1.1", "video"), Track("m2.0", "video")}
Wanted == UNION {[1 .. n -> Tracks] : n \in 0 .. 3}
=============================================================================
