------------------------------ MODULE RtpWire ------------------------------
(***************************************************************************)
(* RTP packets as the edge reads and forwards them (wroom-edge/src/rtp.rs):*)
(* the header, the RFC 8285 extension elements byte by byte, and the       *)
(* rewrite that carries a packet from a publisher's leg to the legs of the *)
(* subscribers.  Header fields are values; a datagram also says how many   *)
(* of its bytes arrived.                                                   *)
(***************************************************************************)
EXTENDS Integers, Sequences, SequencesExt

FixedHeaderLen == 12
Kinds == {"mid", "rid", "repaired-rid", "twcc", "abs-send-time", "audio-level"}
Missing == [missing |-> TRUE]

\* ExtMap: both directions of what a leg negotiated, as a set of [id, kind].
\* Pairs inserted later replace earlier ones; id 0 is padding.
ExtMap(pairs) ==
  LET valid == SelectSeq(pairs, LAMBDA p : p.id # 0)
      last(field, v) == CHOOSE i \in DOMAIN valid :
                          /\ valid[i][field] = v
                          /\ \A j \in DOMAIN valid : valid[j][field] = v => j <= i
  IN  [kind |-> [id \in {p.id : p \in ToSet(valid)} |-> valid[last("id", id)].kind],
       id   |-> [k \in {p.kind : p \in ToSet(valid)} |-> valid[last("kind", k)].id]]

-----------------------------------------------------------------------------
(* Reading *)

\* RtpPacket::parse: the offsets of a datagram that hangs together.
HeaderLen(d) ==
  FixedHeaderLen + 4 * Len(d.csrcs) + IF d.ext = Missing THEN 0 ELSE 4 + 4 * d.ext.words

Parses(d) ==
  LET off == HeaderLen(d)
  IN  /\ d.bytes >= FixedHeaderLen
      /\ d.version = 2
      /\ off <= d.bytes
      /\ d.padded => /\ d.bytes > off
                     /\ d.last # 0
                     /\ d.last <= d.bytes - off

PaddingLen(d) == IF d.padded THEN d.last ELSE 0
PayloadLen(d) == d.bytes - HeaderLen(d) - PaddingLen(d)

\* ExtIter from a position: padding bytes are skipped; an element that
\* overruns the block, or the reserved id 15, ends the iteration.
Elements(form, data) ==
  LET hdr == IF form = "two" THEN 2 ELSE 1
      id(p)  == IF form = "two" THEN data[p] ELSE data[p] \div 16
      len(p) == IF form = "two" THEN data[p + 1] ELSE (data[p] % 16) + 1
      from[p \in 1 .. (Len(data) + 1)] ==
        IF p > Len(data) THEN <<>>
        ELSE IF form = "one" /\ id(p) = 15 THEN <<>>
        ELSE IF id(p) = 0 THEN from[p + 1]
        ELSE IF p + hdr - 1 > Len(data) \/ p + hdr + len(p) - 1 > Len(data) THEN <<>>
        ELSE <<[id |-> id(p), value |-> SubSeq(data, p + hdr, p + hdr + len(p) - 1)]>>
               \o from[p + hdr + len(p)]
  IN  from[1]

\* RtpPacket::extensions: other profiles than the two forms carry none.
Extensions(d) ==
  IF d.ext = Missing \/ d.ext.form = "other" THEN <<>> ELSE Elements(d.ext.form, d.ext.data)

\* RtpPacket::ext_value: the first element under the negotiated id.
ExtValue(d, map, kind) ==
  LET found == IF kind \in DOMAIN map.id
               THEN SelectSeq(Extensions(d), LAMBDA e : e.id = map.id[kind]) ELSE <<>>
  IN  IF found = <<>> THEN <<>> ELSE found[1].value

\* RtpPacket::twcc_seq: a value of the wrong length is none.
TwccSeq(d, map) ==
  LET v == ExtValue(d, map, "twcc") IN IF Len(v) = 2 THEN (v[1] * 256) + v[2] ELSE -1

-----------------------------------------------------------------------------
(* The forwarded form of a packet *)

\* What the element of a kind carries on the outgoing leg.
NewValue(rw, kind, value) ==
  IF kind = "twcc" /\ rw.twcc # <<>> THEN rw.twcc
  ELSE IF kind = "mid" /\ rw.mid # <<>> THEN rw.mid
  ELSE value

\* The elements whose kind both legs negotiated, under the outgoing id.
Surviving(d, rw) ==
  LET known == SelectSeq(Extensions(d), LAMBDA e : /\ e.id \in DOMAIN rw.inMap.kind
                                                   /\ rw.inMap.kind[e.id] \in DOMAIN rw.outMap.id)
  IN  [i \in DOMAIN known |->
         LET kind == rw.inMap.kind[known[i].id]
         IN  [id |-> rw.outMap.id[kind], value |-> NewValue(rw, kind, known[i].value), kind |-> kind]]

\* An element the packet lacks is added when there is a value for it.
Added(kept, rw, kind, value) ==
  IF /\ value # <<>>
     /\ kind \in DOMAIN rw.outMap.id
     /\ \A e \in ToSet(kept) : e.kind # kind
  THEN <<[id |-> rw.outMap.id[kind], value |-> value, kind |-> kind]>> ELSE <<>>

\* Fault: a long value does not ask for the two-byte form.
FormIgnoresLength(d, out) ==
  IF (d.ext # Missing /\ d.ext.form = "two") \/ \E e \in ToSet(out) : e.id > 14
  THEN "two" ELSE "one"

\* The source's form, unless an id or a length needs two bytes.
Form(d, out) ==
  IF \/ d.ext # Missing /\ d.ext.form = "two"
     \/ \E e \in ToSet(out) : e.id > 14 \/ Len(e.value) > 16
  THEN "two" ELSE "one"

Encoded(form, e) ==
  (IF form = "two" THEN <<e.id, Len(e.value)>>
   ELSE <<e.id * 16 + (IF e.value = <<>> THEN 0 ELSE Len(e.value) - 1)>>) \o e.value

\* Bytes written over an area from a position on.
PutAt(area, at, bytes) ==
  [i \in DOMAIN area |-> IF i > at /\ i <= at + Len(bytes) THEN bytes[i - at] ELSE area[i]]

\* The element area: what survived, then the added elements.  After an added
\* sequence number the write position stays at its value, so an added mid
\* is written over it.
Area(kept, twcc, mid, form) ==
  LET body == FlattenSeq([i \in DOMAIN kept |-> Encoded(form, kept[i])])
      size == Len(body) + Len(FlattenSeq([i \in DOMAIN (twcc \o mid) |-> Encoded(form, (twcc \o mid)[i])]))
      w    == Len(body) + IF twcc = <<>> THEN 0 ELSE IF form = "two" THEN 2 ELSE 1
      one  == PutAt([i \in 1 .. ((size + 3) \div 4) * 4 |-> 0], 0, body)
      two  == IF twcc = <<>> THEN one ELSE PutAt(one, Len(body), Encoded(form, twcc[1]))
  IN  IF mid = <<>> THEN two ELSE PutAt(two, w, Encoded(form, mid[1]))

\* The packet with its new element area.
Rewritten(d, rw, room, form, area) ==
  LET ext  == IF area = <<>> THEN Missing
              ELSE [form |-> form, words |-> Len(area) \div 4, data |-> area]
      next == [d EXCEPT !.ext = ext, !.seq = rw.seq, !.ts = rw.ts, !.ssrc = rw.ssrc,
                        !.pt = IF rw.pt < 0 THEN d.pt ELSE rw.pt % 128]
      needed == HeaderLen(next) + d.bytes - HeaderLen(d)
  IN  IF room < needed THEN Missing ELSE [next EXCEPT !.bytes = needed]

\* RtpPacket::rewrite_into: none when the scratch buffer is too small.
RewriteWith(d, rw, room, kept, twcc, mid) ==
  LET form == Form(d, kept \o twcc \o mid)
  IN  Rewritten(d, rw, room, form, Area(kept, twcc, mid, form))
Rewrite(d, rw, room) ==
  LET kept == Surviving(d, rw)
  IN  RewriteWith(d, rw, room, kept, Added(kept, rw, "twcc", rw.twcc), Added(kept, rw, "mid", rw.mid))
=============================================================================
