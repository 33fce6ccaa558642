-------------------------------- MODULE Srtp --------------------------------
(***************************************************************************)
(* Two SRTP contexts at the ends of one DTLS session (wroom-edge/src/      *)
(* srtp.rs) and the datagrams between them.  Every datagram that was ever  *)
(* sealed may be delivered at any time, again or never; datagrams sealed   *)
(* under no key of the session stand for forgeries and garbage.            *)
(*                                                                         *)
(* Ciphers are ideal: a packet opens under the key and the index it was    *)
(* sealed with and under no other.  In front of each sender is a stream of *)
(* RTP packets with numbers that never wrap; the media shard hands them    *)
(* over in the order they arrived, so some come late, and two publishers   *)
(* may use one source, so some come twice.                                 *)
(***************************************************************************)
EXTENDS IndexWindow, FiniteSets

CONSTANTS
  Ssrcs,        (* synchronisation sources                                 *)
  MaxStreams,   (* MAX_STREAMS                                             *)
  RtcpLimit,    (* SRTCP_INDEX_EXHAUSTED                                   *)
  Starts,       (* bound: first packet number of a source                  *)
  MaxJump,      (* bound: numbers a packet may be ahead of the newest      *)
  MaxLate,      (* bound: numbers a packet may be behind the newest        *)
  MaxSeals      (* bound: packets sealed                                   *)

Ends == {"client", "server"}

ASSUME SrtpAssumption ==
  /\ MaxStreams \in Nat /\ RtcpLimit \in Nat /\ MaxSeals \in Nat
  /\ MaxJump \in Nat /\ MaxLate \in Nat /\ Starts \subseteq Nat

VARIABLES
  profile,      (* the negotiated protection profile                       *)
  tx, rx,       (* end -> ssrc -> stream, of the two directions            *)
  wire,         (* packets sealed so far                                   *)
  opened,       (* end -> packets it accepted (history)                    *)
  reopened,     (* end -> packets it accepted more than once (history)     *)
  newest,       (* end -> ssrc -> highest number handed over (history)     *)
  inOrder,      (* end -> every number was ahead of the ones before        *)
  last          (* end -> ssrc -> the last RTP packet sealed (history)     *)

srtpVars == <<profile, tx, rx, wire, opened, reopened, newest, inOrder, last>>

Other(e) == IF e = "client" THEN "server" ELSE "client"

Stream == [rtp : Window, rtcp : Window, next : Nat]
BlankStream == [rtp |-> Blank, rtcp |-> Blank, next |-> 0]

\* Fault: both ends seal under the client's half of the keying material.
TxKeyOneHalf(e, label) == <<"client", label>>

\* from_keying_material_as and SessionCipher::derive: each end seals under its
\* own half, and RTP and RTCP use keys and salts of their own labels.
TxKey(e, label) == <<e, label>>
RxKey(e, label) == TxKey(Other(e), label)

\* What must never repeat under one key: the parts of an IV.
Iv(p) == <<p.key, p.ssrc, p.index>>

NoPacket == [id |-> 0, key |-> <<"none", "rtp">>, ssrc |-> CHOOSE s \in Ssrcs : TRUE,
             num |-> 0, seq |-> 0, index |-> 0]

\* Anybody can send a datagram that looks like SRTP or SRTCP.
Forged == {[id |-> 0, key |-> <<"none", label>>, ssrc |-> s, num |-> 0, seq |-> q, index |-> q] :
             label \in {"rtp", "rtcp"}, s \in Ssrcs, q \in Seqs}

SrtpInit ==
  /\ profile \in {"gcm", "cm"}
  /\ tx = [e \in Ends |-> [s \in {} |-> BlankStream]]
  /\ rx = [e \in Ends |-> [s \in {} |-> BlankStream]]
  /\ wire = {}
  /\ opened = [e \in Ends |-> {}]
  /\ reopened = [e \in Ends |-> {}]
  /\ newest = [e \in Ends |-> [s \in Ssrcs |-> NoIndex]]
  /\ inOrder = [e \in Ends |-> TRUE]
  /\ last = [e \in Ends |-> [s \in Ssrcs |-> NoPacket]]

-----------------------------------------------------------------------------
(* The table of streams: one direction of one context                      *)

StreamOf(dir, s) == IF s \in DOMAIN dir THEN dir[s] ELSE BlankStream

\* get_mut_or_insert refuses a new source when the table is full.
HasRoom(dir, s) == s \in DOMAIN dir \/ Cardinality(DOMAIN dir) < MaxStreams

With(dir, s, stream) == [x \in DOMAIN dir \cup {s} |-> IF x = s THEN stream ELSE dir[x]]

-----------------------------------------------------------------------------
(* Sealing *)

Seal(e, label, s, num, index) ==
  [id |-> Cardinality(wire) + 1, key |-> TxKey(e, label), ssrc |-> s, num |-> num,
   seq |-> num % SeqSpace, index |-> index]

\* encrypt_rtp_gcm and encrypt_rtp_cm: a packet for which there is no room, no
\* roll-over count or no fresh index is refused and nothing changes.
EncryptRtp(e, s, n) ==
  LET seq    == n % SeqSpace
      stream == StreamOf(tx[e], s)
      index  == SendIndex(stream.rtp, seq)
      p      == Seal(e, "rtp", s, n, index)
  IN  \/ /\ \/ ~HasRoom(tx[e], s)
            \/ Exhausted(stream.rtp, seq)
            \/ ~Check(stream.rtp, index)
         /\ UNCHANGED <<tx, wire, last>>
      \/ /\ HasRoom(tx[e], s)
         /\ ~Exhausted(stream.rtp, seq)
         /\ Check(stream.rtp, index)
         /\ tx' = [tx EXCEPT ![e] = With(@, s, [stream EXCEPT !.rtp = Record(@, index)])]
         /\ wire' = wire \cup {p}
         /\ last' = [last EXCEPT ![e][s] = p]

\* The packet numbers that can come next from a source.
Numbers(e, s) ==
  IF newest[e][s] = NoIndex THEN Starts
  ELSE {n \in (newest[e][s] - MaxLate) .. (newest[e][s] + MaxJump) : n >= 0}

SendRtp(e, s) ==
  /\ Cardinality(wire) < MaxSeals
  /\ \E n \in Numbers(e, s) :
       /\ newest' = [newest EXCEPT ![e][s] = IF n > @ THEN n ELSE @]
       /\ inOrder' = [inOrder EXCEPT ![e] = @ /\ n > newest[e][s]]
       /\ EncryptRtp(e, s, n)
  /\ UNCHANGED <<profile, rx, opened, reopened>>

\* encrypt_rtcp (seal_rtcp_gcm, seal_rtcp_cm): indices are counted per source
\* and end at 2^31; without room or an index the packet is refused.
EncryptRtcp(e, s) ==
  LET stream == StreamOf(tx[e], s)
  IN  \/ /\ ~HasRoom(tx[e], s) \/ stream.next >= RtcpLimit
         /\ UNCHANGED <<tx, wire>>
      \/ /\ HasRoom(tx[e], s) /\ stream.next < RtcpLimit
         /\ tx' = [tx EXCEPT ![e] = With(@, s, [stream EXCEPT !.next = @ + 1])]
         /\ wire' = wire \cup {Seal(e, "rtcp", s, 0, stream.next)}

SendRtcp(e, s) ==
  /\ Cardinality(wire) < MaxSeals
  /\ EncryptRtcp(e, s)
  /\ UNCHANGED <<profile, rx, opened, reopened, newest, inOrder, last>>

-----------------------------------------------------------------------------
(* Opening *)

\* GCM looks for a replay first, CM authenticates first; then a new source
\* needs room in the table.
Verdict(fresh, authentic, room) ==
  IF profile = "gcm"
  THEN IF ~fresh THEN "Replayed" ELSE IF ~authentic THEN "AuthFailed"
       ELSE IF room THEN "Ok" ELSE "TooManyStreams"
  ELSE IF ~authentic THEN "AuthFailed" ELSE IF ~fresh THEN "Replayed"
       ELSE IF room THEN "Ok" ELSE "TooManyStreams"

Accept(e, p) ==
  /\ opened' = [opened EXCEPT ![e] = @ \cup {p}]
  /\ reopened' = [reopened EXCEPT ![e] = @ \cup ({p} \cap opened[e])]

\* The index an SRTP packet is opened with: an estimate, and its own sequence
\* number for the first packet of a source.
RtpIndex(e, p) == Guess(StreamOf(rx[e], p.ssrc).rtp, p.seq)

RtpVerdict(e, p) ==
  LET index == RtpIndex(e, p)
  IN  Verdict(Check(StreamOf(rx[e], p.ssrc).rtp, index),
              p.key = RxKey(e, "rtp") /\ p.index = index,
              HasRoom(rx[e], p.ssrc))

\* Fault: the window is updated before the packet is authenticated.
OpenRtpCommitsEarly(e, p) ==
  LET stream == StreamOf(rx[e], p.ssrc)
  IN  /\ p.key[2] = "rtp"
      /\ rx' = [rx EXCEPT ![e] = With(@, p.ssrc, [stream EXCEPT !.rtp = Record(@, RtpIndex(e, p))])]
      /\ IF RtpVerdict(e, p) = "Ok" THEN Accept(e, p) ELSE UNCHANGED <<opened, reopened>>

\* decrypt_rtp_gcm and decrypt_rtp_cm: only a packet that opens is recorded.
OpenRtp(e, p) ==
  LET stream == StreamOf(rx[e], p.ssrc)
  IN  /\ p.key[2] = "rtp"
      /\ IF RtpVerdict(e, p) = "Ok"
         THEN /\ rx' = [rx EXCEPT ![e] =
                          With(@, p.ssrc, [stream EXCEPT !.rtp = Record(@, RtpIndex(e, p))])]
              /\ Accept(e, p)
         ELSE UNCHANGED <<rx, opened, reopened>>

DecryptRtp(e, p) ==
  /\ OpenRtp(e, p)
  /\ UNCHANGED <<profile, tx, wire, newest, inOrder, last>>

\* Fault: SRTCP indices are not looked up in the window.
RtcpVerdictUnchecked(e, p) ==
  Verdict(TRUE, p.key = RxKey(e, "rtcp"), HasRoom(rx[e], p.ssrc))

RtcpVerdict(e, p) ==
  Verdict(Check(StreamOf(rx[e], p.ssrc).rtcp, p.index),
          p.key = RxKey(e, "rtcp"), HasRoom(rx[e], p.ssrc))

\* decrypt_rtcp_gcm and decrypt_rtcp_cm: the index is in the packet.
DecryptRtcp(e, p) ==
  LET stream == StreamOf(rx[e], p.ssrc)
  IN  /\ p.key[2] = "rtcp"
      /\ IF RtcpVerdict(e, p) = "Ok"
         THEN /\ rx' = [rx EXCEPT ![e] =
                          With(@, p.ssrc, [stream EXCEPT !.rtcp = Record(@, p.index)])]
              /\ Accept(e, p)
         ELSE UNCHANGED <<rx, opened, reopened>>
      /\ UNCHANGED <<profile, tx, wire, newest, inOrder, last>>

-----------------------------------------------------------------------------
\* "A (SSRC, ROC, SEQ) triple must never repeat under one key": no two packets
\* of the session share an IV, whatever numbers the forwarded sources carry,
\* however they wrap, and in whichever direction they go.
NoIvReuse == \A p, q \in wire : Iv(p) = Iv(q) => p = q

\* No packet is accepted twice, however often and late it is delivered, and
\* whatever forgeries are mixed in.
AcceptedOnce == \A e \in Ends : reopened[e] = {}

\* The packets of source s that e sealed, and the one sealed last.
RtpOf(e, s) == {p \in wire : p.key = TxKey(e, "rtp") /\ p.ssrc = s}

\* The other end has everything but the last packet of the source, and opens
\* it under the index it was sealed with.
LastOpens(e, s) ==
  LET missing == RtpOf(e, s) \ opened[Other(e)]
  IN  missing = {last[e][s]} /\ HasRoom(rx[Other(e)], s)
        => RtpVerdict(Other(e), last[e][s]) = "Ok"

\* A source that is handed over in order, with gaps, is followed across every
\* wrap of its sequence numbers: forged packets in between never shift the
\* receiver's estimate, whatever sequence numbers they name.
InOrderStreamsOpen == \A e \in Ends, s \in Ssrcs : inOrder[e] => LastOpens(e, s)
=============================================================================
