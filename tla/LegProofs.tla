------------------------------ MODULE LegProofs ------------------------------
(***************************************************************************)
(* A leg's SRTP contexts and its receiver reports, for every width of      *)
(* sequence numbers and counters, every window, every number of sources    *)
(* and every order and repetition of datagrams: no IV is used twice under  *)
(* one key, no packet is accepted twice, streams in order are followed     *)
(* across wraps, and reports count what is missing.                        *)
(*                                                                         *)
(* The inductive invariant ties the windows to the history they stand for: *)
(* whatever was sealed, or accepted, is marked in the window of its stream,*)
(* or is so old that the window refuses it.  On top of it, the counters of *)
(* a report are those of the set of numbers that arrived.                  *)
(*                                                                         *)
(* The transport feedback comes last: a reader gets back the statuses the  *)
(* writer spelled in runs and deltas, the window of arrival times holds    *)
(* what was noted since the last batch, and so the browser is told of each *)
(* packet that arrived, at its time.                                       *)
(***************************************************************************)
EXTENDS LegMedia, FiniteSetTheorems, SequenceTheorems, TLAPS

AllSsrcs == Ssrcs \cup {PlaneSsrc}
Labels == {"rtp", "rtcp"}

\* The window refuses index i from now on.
Marked(w, i) ==
  /\ i <= w.highest
  /\ w.highest - i < WindowLen => (w.highest - i) \in w.seen

TablesOK ==
  /\ DOMAIN tx = Ends /\ DOMAIN rx = Ends
  /\ DOMAIN opened = Ends /\ DOMAIN reopened = Ends
  /\ \A e \in Ends, s \in AllSsrcs : StreamOf(tx[e], s) \in Stream /\ StreamOf(rx[e], s) \in Stream

WireOK ==
  \A p \in wire : p.key \in Ends \X Labels /\ p.ssrc \in AllSsrcs /\ p.index \in Nat

\* Every packet sealed is behind its sender.
SealedIsMarked ==
  \A p \in wire :
    LET stream == StreamOf(tx[p.key[1]], p.ssrc)
    IN  IF p.key[2] = "rtp" THEN Marked(stream.rtp, p.index) ELSE p.index < stream.next

\* Every packet accepted is behind its receiver.
OpenedIsMarked ==
  \A e \in Ends : \A p \in opened[e] :
    /\ p \in wire
    /\ LET stream == StreamOf(rx[e], p.ssrc)
       IN  IF p.key[2] = "rtp" THEN Marked(stream.rtp, p.index) ELSE Marked(stream.rtcp, p.index)

ContextsInv ==
  /\ TablesOK
  /\ WireOK
  /\ SealedIsMarked
  /\ OpenedIsMarked
  /\ NoIvReuse
  /\ AcceptedOnce

-----------------------------------------------------------------------------
\* The window: what is recorded is marked, and marks are never lost
\* (IndexWindow::record).
LEMMA RecordMarks ==
  ASSUME NEW w \in Window, NEW i \in Nat
  PROVE  /\ Record(w, i) \in Window
         /\ Marked(Record(w, i), i)
         /\ \A j \in Nat : Marked(w, j) => Marked(Record(w, i), j)
<1> USE WindowAssumption
<1>1. CASE w.highest = NoIndex
  BY <1>1 DEF Window, Record, Marked, NoIndex, Distances
<1>2. CASE w.highest # NoIndex /\ i > w.highest
  <2> DEFINE r == [highest |-> i,
                   seen |-> {0} \cup {d \in Distances : d - (i - w.highest) \in w.seen}]
  <2>1. Record(w, i) = r
    BY <1>2 DEF Record
  <2>2. r \in Window /\ Marked(r, i)
    BY <1>2 DEF Window, Marked, Distances
  <2>3. ASSUME NEW j \in Nat, Marked(w, j)
        PROVE  Marked(r, j)
    BY <1>2, <2>3 DEF Window, Marked, Distances, NoIndex
  <2> QED
    BY <2>1, <2>2, <2>3
<1>3. CASE w.highest # NoIndex /\ ~(i > w.highest)
  <2> DEFINE r == [w EXCEPT !.seen = @ \cup (Distances \cap {w.highest - i})]
  <2>1. Record(w, i) = r
    BY <1>3 DEF Record
  <2>2. r \in Window /\ r.highest = w.highest /\ r.seen = w.seen \cup (Distances \cap {w.highest - i})
    BY DEF Window, Distances
  <2>3. Marked(r, i)
    BY <1>3, <2>2 DEF Window, Marked, Distances, NoIndex
  <2>4. \A j \in Nat : Marked(w, j) => Marked(r, j)
    BY <2>2 DEF Marked
  <2> QED
    BY <2>1, <2>2, <2>3, <2>4
<1> QED
  BY <1>1, <1>2, <1>3

\* IndexWindow::check refuses what is marked.
LEMMA MarkedIsRefused ==
  ASSUME NEW w \in Window, NEW i \in Nat, Marked(w, i)
  PROVE  ~Check(w, i)
BY WindowAssumption DEF Window, Marked, Check, NoIndex

\* Indices are natural numbers (IndexWindow::send_index).
LEMMA SendIndexType ==
  ASSUME NEW w \in Window, NEW seq \in Nat
  PROVE  SendIndex(w, seq) \in Nat
<1> USE WindowAssumption
<1>1. CASE w.highest = NoIndex
  BY <1>1 DEF SendIndex
<1>2. CASE w.highest # NoIndex
  <2>1. w.highest \in Nat
    BY <1>2 DEF Window
  <2>2. Roc(w.highest) \in Nat
    BY <2>1 DEF Roc
  <2>3. \A roc \in Nat : roc * SeqSpace + seq \in Nat
    OBVIOUS
  <2> QED
    BY <1>2, <2>2, <2>3 DEF SendIndex
<1> QED
  BY <1>1, <1>2

\* A stream put into a table is the one that is read there
\* (Streams::get_mut_or_insert).
LEMMA WithLookup ==
  ASSUME NEW dir, NEW s, NEW stream, NEW x
  PROVE  StreamOf(With(dir, s, stream), x) = IF x = s THEN stream ELSE StreamOf(dir, x)
BY DEF StreamOf, With

-----------------------------------------------------------------------------
(* Sealing *)

\* Everything ContextsInv says of the sending direction.
SealInv == TablesOK /\ WireOK /\ SealedIsMarked /\ NoIvReuse

\* What either operation does with its table: one packet under a fresh index,
\* which is marked, or counted, in the stream it was sealed with.
LEMMA SealedOnce ==
  ASSUME SealInv, NEW e \in Ends, NEW label \in Labels, NEW s \in AllSsrcs, NEW p,
         NEW stream \in Stream,
         p.key = <<e, label>>, p.ssrc = s, p.index \in Nat,
         tx' = [tx EXCEPT ![e] = With(@, s, stream)],
         wire' = wire \cup {p},
         IF label = "rtp"
         THEN /\ ~Marked(StreamOf(tx[e], s).rtp, p.index)
              /\ Marked(stream.rtp, p.index)
              /\ \A i \in Nat : Marked(StreamOf(tx[e], s).rtp, i) => Marked(stream.rtp, i)
              /\ stream.next = StreamOf(tx[e], s).next
         ELSE /\ p.index = StreamOf(tx[e], s).next
              /\ stream.next = p.index + 1
              /\ stream.rtp = StreamOf(tx[e], s).rtp
  PROVE  /\ DOMAIN tx' = Ends
         /\ \A d \in Ends, x \in AllSsrcs : StreamOf(tx'[d], x) \in Stream
         /\ WireOK' /\ SealedIsMarked' /\ NoIvReuse'
<1>1. DOMAIN tx' = Ends
  BY DEF SealInv, TablesOK
<1>2. \A d \in Ends, x \in AllSsrcs :
        StreamOf(tx'[d], x) = IF d = e /\ x = s THEN stream ELSE StreamOf(tx[d], x)
  BY WithLookup DEF SealInv, TablesOK
<1>3. \A d \in Ends, x \in AllSsrcs : StreamOf(tx'[d], x) \in Stream
  BY <1>2 DEF SealInv, TablesOK
<1>4. WireOK'
  BY DEF SealInv, WireOK
<1>5. \A q \in wire : q.key[1] \in Ends /\ q.key[2] \in Labels /\ q.key = <<q.key[1], q.key[2]>>
                      /\ q.ssrc \in AllSsrcs /\ q.index \in Nat
  BY DEF SealInv, WireOK
<1>6. \A q \in wire : LET old == StreamOf(tx[q.key[1]], q.ssrc)
                      IN  IF q.key[2] = "rtp" THEN Marked(old.rtp, q.index) ELSE q.index < old.next
  BY DEF SealInv, SealedIsMarked
<1>7. StreamOf(tx[e], s).next \in Nat
  BY DEF SealInv, TablesOK, Stream
<1>8. ASSUME NEW q \in wire, q.key = p.key, q.ssrc = p.ssrc
      PROVE  q.index # p.index
  <2>1. CASE label = "rtp"
    BY <1>5, <1>6, <1>8, <2>1
  <2>2. CASE label # "rtp"
    <3>1. q.index < StreamOf(tx[e], s).next /\ q.index \in Nat
      BY <1>5, <1>6, <1>8, <2>2
    <3> QED
      BY <1>7, <2>2, <3>1
  <2> QED
    BY <2>1, <2>2
<1>9. NoIvReuse'
  BY <1>8 DEF SealInv, NoIvReuse, Iv
<1>10. ASSUME NEW q \in wire'
       PROVE  LET new == StreamOf(tx'[q.key[1]], q.ssrc)
              IN  IF q.key[2] = "rtp" THEN Marked(new.rtp, q.index) ELSE q.index < new.next
  <2>1. CASE q = p
    BY <1>2, <1>7, <2>1 DEF Labels
  <2>2. CASE q \in wire /\ q.key[1] = e /\ q.ssrc = s
    <3>1. StreamOf(tx'[q.key[1]], q.ssrc) = stream
      BY <1>2, <2>2
    <3>2. CASE label = "rtp"
      BY <1>5, <1>6, <2>2, <3>1, <3>2
    <3>3. CASE label # "rtp"
      <4>1. q.index \in Nat /\ IF q.key[2] = "rtp" THEN Marked(StreamOf(tx[e], s).rtp, q.index)
                               ELSE q.index < StreamOf(tx[e], s).next
        BY <1>5, <1>6, <2>2
      <4> QED
        BY <1>7, <3>1, <3>3, <4>1
    <3> QED
      BY <3>2, <3>3
  <2>3. CASE q \in wire /\ ~(q.key[1] = e /\ q.ssrc = s)
    BY <1>2, <1>5, <1>6, <2>3
  <2> QED
    BY <2>1, <2>2, <2>3
<1>11. SealedIsMarked'
  BY <1>10 DEF SealedIsMarked
<1> QED
  BY <1>1, <1>3, <1>4, <1>9, <1>11

\* encrypt_rtp keeps the invariant of the sending direction.
LEMMA EncryptRtpStep ==
  ASSUME SealInv, NEW e \in Ends, NEW s \in Ssrcs, NEW n \in Nat, EncryptRtp(e, s, n)
  PROVE  /\ DOMAIN tx' = Ends
         /\ \A d \in Ends, x \in AllSsrcs : StreamOf(tx'[d], x) \in Stream
         /\ WireOK' /\ SealedIsMarked' /\ NoIvReuse' /\ wire \subseteq wire'
<1> DEFINE seq   == n % SeqSpace
           old   == StreamOf(tx[e], s)
           index == SendIndex(old.rtp, seq)
           new   == [old EXCEPT !.rtp = Record(@, index)]
           p     == Seal(e, "rtp", s, n, index)
<1>1. CASE UNCHANGED <<tx, wire>>
  BY <1>1 DEF SealInv, TablesOK, WireOK, SealedIsMarked, NoIvReuse
<1>2. CASE /\ Check(old.rtp, index)
           /\ tx' = [tx EXCEPT ![e] = With(@, s, new)]
           /\ wire' = wire \cup {p}
  <2>1. s \in AllSsrcs /\ old \in Stream /\ old.rtp \in Window
    BY DEF SealInv, TablesOK, AllSsrcs, Stream
  <2>2. seq \in Nat
    BY WindowAssumption
  <2>3. index \in Nat
    BY <2>1, <2>2, SendIndexType
  <2>4. ~Marked(old.rtp, index)
    BY <1>2, <2>1, <2>3, MarkedIsRefused
  <2>5. /\ Record(old.rtp, index) \in Window /\ Marked(Record(old.rtp, index), index)
        /\ \A i \in Nat : Marked(old.rtp, i) => Marked(Record(old.rtp, index), i)
    BY <2>1, <2>3, RecordMarks
  <2>6. new \in Stream /\ new.rtp = Record(old.rtp, index) /\ new.next = old.next
    BY <2>1, <2>5 DEF Stream
  <2>7. p.key = <<e, "rtp">> /\ p.ssrc = s /\ p.index = index
    BY DEF Seal, TxKey
  <2> HIDE DEF seq, index, old, new, p
  <2> QED
    BY <1>2, <2>1, <2>3, <2>4, <2>5, <2>6, <2>7, SealedOnce DEF Labels, old
<1> QED
  BY <1>1, <1>2 DEF EncryptRtp

\* encrypt_rtcp keeps it too.
LEMMA EncryptRtcpStep ==
  ASSUME SealInv, NEW e \in Ends, NEW s \in AllSsrcs, EncryptRtcp(e, s)
  PROVE  /\ DOMAIN tx' = Ends
         /\ \A d \in Ends, x \in AllSsrcs : StreamOf(tx'[d], x) \in Stream
         /\ WireOK' /\ SealedIsMarked' /\ NoIvReuse' /\ wire \subseteq wire'
<1> DEFINE old == StreamOf(tx[e], s)
           new == [old EXCEPT !.next = @ + 1]
           p   == Seal(e, "rtcp", s, 0, old.next)
<1>1. CASE UNCHANGED <<tx, wire>>
  BY <1>1 DEF SealInv, TablesOK, WireOK, SealedIsMarked, NoIvReuse
<1>2. CASE /\ tx' = [tx EXCEPT ![e] = With(@, s, new)]
           /\ wire' = wire \cup {p}
  <2>1. old \in Stream /\ old.next \in Nat
    BY DEF SealInv, TablesOK, Stream
  <2>2. new \in Stream /\ new.next = old.next + 1 /\ new.rtp = old.rtp
    BY <2>1 DEF Stream
  <2>3. p.key = <<e, "rtcp">> /\ p.ssrc = s /\ p.index = old.next
    BY DEF Seal, TxKey
  <2> HIDE DEF old, new, p
  <2> QED
    BY <1>2, <2>1, <2>2, <2>3, SealedOnce DEF Labels, old
<1> QED
  BY <1>1, <1>2 DEF EncryptRtcp


-----------------------------------------------------------------------------
(* Opening *)

\* Everything ContextsInv says of the receiving direction.
OpenInv == TablesOK /\ WireOK /\ OpenedIsMarked /\ AcceptedOnce

OpenGoal ==
  /\ DOMAIN rx' = Ends /\ DOMAIN opened' = Ends /\ DOMAIN reopened' = Ends
  /\ \A d \in Ends, x \in AllSsrcs : StreamOf(rx'[d], x) \in Stream
  /\ OpenedIsMarked' /\ AcceptedOnce'

\* Packets that are only sealed, or left alone, change nothing for a receiver.
LEMMA NothingOpened ==
  ASSUME OpenInv, UNCHANGED <<rx, opened, reopened>>, wire \subseteq wire'
  PROVE  OpenGoal
BY DEF OpenInv, OpenGoal, TablesOK, OpenedIsMarked, AcceptedOnce

\* What opens under the keys of a session was sealed by its other end.
LEMMA AuthenticIsSealed ==
  ASSUME NEW e \in Ends, NEW label \in Labels, NEW p \in wire \cup Forged, p.key = RxKey(e, label)
  PROVE  p \in wire
<1>1. RxKey(e, label)[1] \in Ends
  BY DEF RxKey, TxKey, Other, Ends
<1>2. \A q \in Forged : q.key[1] = "none"
  BY DEF Forged, NoPacket
<1>3. "none" \notin Ends
  BY DEF Ends
<1> QED
  BY <1>1, <1>2, <1>3

\* What either operation does with its table: an accepted packet was not marked
\* before, and is marked in the stream it belongs to.
LEMMA AcceptedIsFresh ==
  ASSUME OpenInv, wire \subseteq wire', NEW e \in Ends, NEW p \in wire, NEW stream \in Stream,
         rx' = [rx EXCEPT ![e] = With(@, p.ssrc, stream)],
         Accept(e, p),
         LET old == StreamOf(rx[e], p.ssrc)
         IN  IF p.key[2] = "rtp"
             THEN /\ ~Marked(old.rtp, p.index) /\ Marked(stream.rtp, p.index)
                  /\ \A i \in Nat : Marked(old.rtp, i) => Marked(stream.rtp, i)
                  /\ stream.rtcp = old.rtcp
             ELSE /\ ~Marked(old.rtcp, p.index) /\ Marked(stream.rtcp, p.index)
                  /\ \A i \in Nat : Marked(old.rtcp, i) => Marked(stream.rtcp, i)
                  /\ stream.rtp = old.rtp
  PROVE  OpenGoal
<1>1. p.ssrc \in AllSsrcs /\ \A q \in wire : q.ssrc \in AllSsrcs /\ q.index \in Nat
  BY DEF OpenInv, WireOK
<1>2. /\ DOMAIN rx' = Ends
      /\ \A d \in Ends, x \in AllSsrcs :
           StreamOf(rx'[d], x) = IF d = e /\ x = p.ssrc THEN stream ELSE StreamOf(rx[d], x)
  BY WithLookup DEF OpenInv, TablesOK
<1>3. \A d \in Ends, x \in AllSsrcs : StreamOf(rx'[d], x) \in Stream
  BY <1>2 DEF OpenInv, TablesOK
<1>4. /\ DOMAIN opened' = Ends /\ DOMAIN reopened' = Ends
      /\ \A d \in Ends : opened'[d] = IF d = e THEN opened[d] \cup {p} ELSE opened[d]
      /\ \A d \in Ends : reopened'[d] = IF d = e THEN reopened[d] \cup ({p} \cap opened[d]) ELSE reopened[d]
  BY DEF Accept, OpenInv, TablesOK
<1>5. \A d \in Ends : \A q \in opened[d] :
        /\ q \in wire
        /\ LET old == StreamOf(rx[d], q.ssrc)
           IN  IF q.key[2] = "rtp" THEN Marked(old.rtp, q.index) ELSE Marked(old.rtcp, q.index)
  BY DEF OpenInv, OpenedIsMarked
<1>6. p \notin opened[e]
  BY <1>5
<1>7. AcceptedOnce'
  BY <1>4, <1>6 DEF OpenInv, AcceptedOnce
<1>8. ASSUME NEW d \in Ends, NEW q \in opened'[d]
      PROVE  /\ q \in wire'
             /\ LET new == StreamOf(rx'[d], q.ssrc)
                IN  IF q.key[2] = "rtp" THEN Marked(new.rtp, q.index) ELSE Marked(new.rtcp, q.index)
  <2>1. q \in wire
    BY <1>4, <1>5, <1>8
  <2>2. CASE d = e /\ q.ssrc = p.ssrc
    <3>1. StreamOf(rx'[d], q.ssrc) = stream
      BY <1>1, <1>2, <2>2
    <3>2. CASE q = p
      BY <2>1, <3>1, <3>2
    <3>3. CASE q # p
      <4>1. q \in opened[e]
        BY <1>4, <1>8, <2>2, <3>3
      <4>2. q.index \in Nat /\ IF q.key[2] = "rtp" THEN Marked(StreamOf(rx[e], p.ssrc).rtp, q.index)
                               ELSE Marked(StreamOf(rx[e], p.ssrc).rtcp, q.index)
        BY <1>1, <1>5, <2>1, <2>2, <4>1
      <4> QED
        BY <2>1, <3>1, <4>2
    <3> QED
      BY <3>2, <3>3
  <2>3. CASE ~(d = e /\ q.ssrc = p.ssrc)
    <3>1. q \in opened[d]
      BY <1>4, <1>8, <2>3
    <3>2. StreamOf(rx'[d], q.ssrc) = StreamOf(rx[d], q.ssrc)
      BY <1>1, <1>2, <2>1, <2>3
    <3> QED
      BY <1>5, <2>1, <3>1, <3>2
  <2> QED
    BY <2>2, <2>3
<1>9. OpenedIsMarked'
  BY <1>8 DEF OpenedIsMarked
<1> QED
  BY <1>2, <1>3, <1>4, <1>7, <1>9 DEF OpenGoal

\* decrypt_rtp keeps the invariant of the receiving direction.
LEMMA OpenRtpStep ==
  ASSUME OpenInv, NEW e \in Ends, NEW p \in wire \cup Forged, OpenRtp(e, p), wire \subseteq wire'
  PROVE  OpenGoal
<1> DEFINE old == StreamOf(rx[e], p.ssrc)
           new == [old EXCEPT !.rtp = Record(@, p.index)]
<1>1. CASE RtpVerdict(e, p) # "Ok"
  BY <1>1, NothingOpened DEF OpenRtp
<1>2. CASE RtpVerdict(e, p) = "Ok"
  <2>1. Check(old.rtp, RtpIndex(e, p)) /\ p.key = RxKey(e, "rtp") /\ p.index = RtpIndex(e, p)
    BY <1>2 DEF RtpVerdict, Verdict
  <2>2. p \in wire /\ p.key[2] = "rtp"
    BY <2>1, AuthenticIsSealed DEF Labels, OpenRtp
  <2>3. p.ssrc \in AllSsrcs /\ p.index \in Nat
    BY <2>2 DEF OpenInv, WireOK
  <2>4. old \in Stream /\ old.rtp \in Window
    BY <2>3 DEF OpenInv, TablesOK, Stream
  <2>5. ~Marked(old.rtp, p.index)
    BY <2>1, <2>3, <2>4, MarkedIsRefused
  <2>6. /\ Record(old.rtp, p.index) \in Window /\ Marked(Record(old.rtp, p.index), p.index)
        /\ \A i \in Nat : Marked(old.rtp, i) => Marked(Record(old.rtp, p.index), i)
    BY <2>3, <2>4, RecordMarks
  <2>7. new \in Stream /\ new.rtp = Record(old.rtp, p.index) /\ new.rtcp = old.rtcp
    BY <2>4, <2>6 DEF Stream
  <2>8. rx' = [rx EXCEPT ![e] = With(@, p.ssrc, new)] /\ Accept(e, p)
    BY <1>2, <2>1 DEF OpenRtp, OpenInv, TablesOK
  <2> HIDE DEF new
  <2> QED
    BY <2>2, <2>5, <2>6, <2>7, <2>8, AcceptedIsFresh
<1> QED
  BY <1>1, <1>2

\* decrypt_rtcp keeps it too.
LEMMA DecryptRtcpStep ==
  ASSUME OpenInv, NEW e \in Ends, NEW p \in wire \cup Forged, DecryptRtcp(e, p)
  PROVE  OpenGoal
<1> DEFINE old == StreamOf(rx[e], p.ssrc)
           new == [old EXCEPT !.rtcp = Record(@, p.index)]
<1>0. wire \subseteq wire'
  BY DEF DecryptRtcp
<1>1. CASE RtcpVerdict(e, p) # "Ok"
  BY <1>0, <1>1, NothingOpened DEF DecryptRtcp
<1>2. CASE RtcpVerdict(e, p) = "Ok"
  <2>1. Check(old.rtcp, p.index) /\ p.key = RxKey(e, "rtcp")
    BY <1>2 DEF RtcpVerdict, Verdict
  <2>2. p \in wire /\ p.key[2] = "rtcp"
    BY <2>1, AuthenticIsSealed DEF Labels, DecryptRtcp
  <2>3. p.ssrc \in AllSsrcs /\ p.index \in Nat
    BY <2>2 DEF OpenInv, WireOK
  <2>4. old \in Stream /\ old.rtcp \in Window
    BY <2>3 DEF OpenInv, TablesOK, Stream
  <2>5. ~Marked(old.rtcp, p.index)
    BY <2>1, <2>3, <2>4, MarkedIsRefused
  <2>6. /\ Record(old.rtcp, p.index) \in Window /\ Marked(Record(old.rtcp, p.index), p.index)
        /\ \A i \in Nat : Marked(old.rtcp, i) => Marked(Record(old.rtcp, p.index), i)
    BY <2>3, <2>4, RecordMarks
  <2>7. new \in Stream /\ new.rtcp = Record(old.rtcp, p.index) /\ new.rtp = old.rtp
    BY <2>4, <2>6 DEF Stream
  <2>8. rx' = [rx EXCEPT ![e] = With(@, p.ssrc, new)] /\ Accept(e, p)
    BY <1>2 DEF DecryptRtcp
  <2> HIDE DEF new
  <2> QED
    BY <1>0, <2>2, <2>5, <2>6, <2>7, <2>8, AcceptedIsFresh
<1> QED
  BY <1>1, <1>2


-----------------------------------------------------------------------------
(* The leg *)

\* The two directions of a leg's step.
SealStep ==
  \/ \E e \in Ends, s \in Ssrcs, n \in Nat : EncryptRtp(e, s, n)
  \/ \E e \in Ends, s \in AllSsrcs : EncryptRtcp(e, s)
  \/ UNCHANGED <<tx, wire>>

OpenStep ==
  \/ \E e \in Ends, p \in wire \cup Forged : OpenRtp(e, p) \/ DecryptRtcp(e, p)
  \/ UNCHANGED <<rx, opened, reopened>>

\* A step that seals keeps what it says of the sender, and removes nothing.
LEMMA SealStepKeeps ==
  ASSUME SealInv, SealStep
  PROVE  /\ DOMAIN tx' = Ends
         /\ \A d \in Ends, x \in AllSsrcs : StreamOf(tx'[d], x) \in Stream
         /\ WireOK' /\ SealedIsMarked' /\ NoIvReuse' /\ wire \subseteq wire'
<1>1. CASE \E e \in Ends, s \in Ssrcs, n \in Nat : EncryptRtp(e, s, n)
  BY <1>1, EncryptRtpStep
<1>2. CASE \E e \in Ends, s \in AllSsrcs : EncryptRtcp(e, s)
  BY <1>2, EncryptRtcpStep
<1>3. CASE UNCHANGED <<tx, wire>>
  BY <1>3 DEF SealInv, TablesOK, WireOK, SealedIsMarked, NoIvReuse
<1> QED
  BY <1>1, <1>2, <1>3 DEF SealStep

\* A step that opens keeps what it says of the receiver.
LEMMA OpenStepKeeps ==
  ASSUME OpenInv, OpenStep, wire \subseteq wire'
  PROVE  OpenGoal
<1>1. ASSUME NEW e \in Ends, NEW p \in wire \cup Forged, OpenRtp(e, p)
      PROVE  OpenGoal
  BY <1>1, OpenRtpStep
<1>2. ASSUME NEW e \in Ends, NEW p \in wire \cup Forged, DecryptRtcp(e, p)
      PROVE  OpenGoal
  BY <1>2, DecryptRtcpStep
<1>3. CASE UNCHANGED <<rx, opened, reopened>>
  BY <1>3, NothingOpened
<1> QED
  BY <1>1, <1>2, <1>3 DEF OpenStep

\* What the next packet of a source is numbered.
LEMMA SendRtpSeals ==
  ASSUME NEW e \in Ends, NEW s \in Ssrcs, SendRtp(e, s)
  PROVE  SealStep /\ UNCHANGED <<rx, opened, reopened>>
<1>1. PICK n \in Numbers(e, s) : EncryptRtp(e, s, n)
  BY DEF SendRtp
<1>2. n \in Nat
  <2>1. CASE newest[e][s] = NoIndex
    <3>1. n \in Starts
      BY <2>1, Zenon DEF Numbers
    <3> QED
      BY <3>1, SrtpAssumption
  <2>2. CASE newest[e][s] # NoIndex
    <3>1. n \in (newest[e][s] - MaxLate) .. (newest[e][s] + MaxJump) /\ n >= 0
      BY <2>2, Zenon DEF Numbers
    <3> QED
      BY <3>1
  <2> QED
    BY <2>1, <2>2
<1> QED
  BY <1>1, <1>2 DEF SealStep, SendRtp

\* Every action of a leg seals and opens, and does nothing else to its contexts.
LEMMA LegStepSplits ==
  ASSUME [LegNext]_legVars
  PROVE  SealStep /\ OpenStep
<1>0. "client" \in Ends /\ "server" \in Ends /\ PlaneSsrc \in AllSsrcs /\ Ssrcs \subseteq AllSsrcs
  BY DEF Ends, AllSsrcs
<1>1. ASSUME NEW e \in Ends, NEW s \in Ssrcs, SendRtp(e, s) \/ SendRtcp(e, s)
      PROVE  SealStep /\ OpenStep
  BY <1>0, <1>1, SendRtpSeals DEF SendRtcp, SealStep, OpenStep
<1>2. ASSUME NEW e \in Ends, NEW p \in wire \cup Forged, DecryptRtp(e, p) \/ DecryptRtcp(e, p)
      PROVE  SealStep /\ OpenStep
  <2>1. UNCHANGED <<tx, wire>>
    BY <1>2 DEF DecryptRtp, DecryptRtcp
  <2>2. OpenRtp(e, p) \/ DecryptRtcp(e, p)
    BY <1>2 DEF DecryptRtp
  <2> QED
    BY <2>1, <2>2 DEF SealStep, OpenStep
<1>3. CASE ByBrowser
  BY <1>0, <1>1, <1>2, <1>3 DEF ByBrowser
<1>4. CASE ByShard
  BY <1>0, <1>1, <1>2, <1>4 DEF ByShard
<1>5. ASSUME NEW p \in wire \cup Forged, ReceiveRtp(p)
      PROVE  SealStep /\ OpenStep
  <2>1. OpenStep
    BY <1>0, <1>5 DEF ReceiveRtp, OpenStep
  <2>2. EncryptRtcp("server", PlaneSsrc) \/ UNCHANGED <<tx, wire>>
    BY <1>5 DEF ReceiveRtp, OnRtp
  <2> QED
    BY <1>0, <2>1, <2>2 DEF SealStep
<1>6. ASSUME NEW p \in wire \cup Forged, ReceiveRtcp(p)
      PROVE  SealStep /\ OpenStep
  BY <1>0, <1>2, <1>6 DEF ReceiveRtcp
<1>7. CASE Pass
  BY <1>7 DEF Pass, srtpVars, SealStep, OpenStep
<1>8. CASE FlushTwcc
  BY <1>0, <1>8 DEF FlushTwcc, SealStep, OpenStep
<1>9. CASE SendReport
  BY <1>0, <1>9 DEF SendReport, SealStep, OpenStep
<1>10. CASE UNCHANGED legVars
  BY <1>10 DEF legVars, srtpVars, SealStep, OpenStep
<1> QED
  BY <1>3, <1>4, <1>5, <1>6, <1>7, <1>8, <1>9, <1>10 DEF LegNext

\* ContextsInv holds of fresh contexts.
LEMMA ContextsInitially == LegInit => ContextsInv
<1> SUFFICES ASSUME LegInit PROVE ContextsInv
  OBVIOUS
<1>1. Blank \in Window
  BY DEF Blank, Window
<1>2. BlankStream \in Stream
  BY <1>1 DEF BlankStream, Stream
<1>3. \A s : StreamOf([x \in {} |-> BlankStream], s) = BlankStream
  BY DEF StreamOf
<1>4. TablesOK
  BY <1>2, <1>3 DEF LegInit, SrtpInit, TablesOK
<1> QED
  BY <1>4 DEF LegInit, SrtpInit, ContextsInv, WireOK, SealedIsMarked, OpenedIsMarked, NoIvReuse,
              AcceptedOnce

\* ContextsInv is inductive: the windows of a leg's contexts know of every
\* packet sealed and every packet accepted (srtp.rs IndexWindow).
THEOREM ContextsInvariant == LegSpec => []ContextsInv
<1>1. ContextsInv /\ [LegNext]_legVars => ContextsInv'
  <2> SUFFICES ASSUME ContextsInv, [LegNext]_legVars PROVE ContextsInv'
    OBVIOUS
  <2>1. SealStep /\ OpenStep
    BY LegStepSplits
  <2>2. SealInv /\ OpenInv
    BY DEF ContextsInv, SealInv, OpenInv
  <2>3. /\ DOMAIN tx' = Ends
        /\ \A d \in Ends, x \in AllSsrcs : StreamOf(tx'[d], x) \in Stream
        /\ WireOK' /\ SealedIsMarked' /\ NoIvReuse' /\ wire \subseteq wire'
    BY <2>1, <2>2, SealStepKeeps
  <2>4. OpenGoal
    BY <2>1, <2>2, <2>3, OpenStepKeeps
  <2> QED
    BY <2>3, <2>4 DEF ContextsInv, OpenGoal, TablesOK
<1> QED
  BY <1>1, ContextsInitially, PTL DEF LegSpec

\* "A (SSRC, ROC, SEQ) triple must never repeat under one key" (srtp.rs), nor an
\* SRTCP index: whatever the senders hand over and however their numbers wrap.
THEOREM NoIvIsReused == LegSpec => []NoIvReuse
BY ContextsInvariant, PTL DEF ContextsInv

\* No datagram is accepted twice, in whatever order and however often datagrams
\* arrive, forged ones among them (decrypt_rtp, decrypt_rtcp).
THEOREM NothingIsReplayed == LegSpec => []AcceptedOnce
BY ContextsInvariant, PTL DEF ContextsInv

-----------------------------------------------------------------------------
(* Indices *)

\* An index is its roll-over count and its sequence number.
LEMMA IndexSplits ==
  ASSUME NEW i \in Nat
  PROVE  /\ Roc(i) \in Nat /\ Seq16(i) \in Nat /\ Seq16(i) < SeqSpace
         /\ i = Roc(i) * SeqSpace + Seq16(i)
BY WindowAssumption DEF Roc, Seq16

LEMMA IndexJoins ==
  ASSUME NEW roc \in Nat, NEW seq \in Nat, seq < SeqSpace
  PROVE  /\ roc * SeqSpace + seq \in Nat
         /\ Roc(roc * SeqSpace + seq) = roc /\ Seq16(roc * SeqSpace + seq) = seq
<1> DEFINE i == roc * SeqSpace + seq
<1> USE WindowAssumption
<1>1. i \in Nat
  OBVIOUS
<1>2. /\ Roc(i) \in Nat /\ Seq16(i) \in Nat /\ Seq16(i) < SeqSpace
      /\ i = Roc(i) * SeqSpace + Seq16(i)
  BY <1>1, IndexSplits
<1>3. \A a, b, x, y, S \in Nat : x < S /\ y < S /\ a * S + x = b * S + y => ~(a < b)
  <2> SUFFICES ASSUME NEW a \in Nat, NEW b \in Nat, NEW x \in Nat, NEW y \in Nat, NEW S \in Nat,
                      x < S, y < S, a * S + x = b * S + y, a < b
               PROVE  FALSE
    OBVIOUS
  <2>1. PICK c \in Nat : b = a + 1 + c
    <3>1. b - a - 1 \in Nat /\ b = a + 1 + (b - a - 1)
      OBVIOUS
    <3> QED
      BY <3>1
  <2>2. b * S = a * S + S + c * S /\ c * S \in Nat
    BY <2>1
  <2> QED
    BY <2>2
<1>4. Roc(i) = roc
  <2>1. ~(Roc(i) < roc) /\ ~(roc < Roc(i))
    <3> HIDE DEF i
    <3>1. roc * SeqSpace + seq = Roc(i) * SeqSpace + Seq16(i) /\ SeqSpace \in Nat
      BY <1>2 DEF i
    <3> QED
      BY ONLY <1>2, <1>3, <3>1, roc \in Nat, seq \in Nat, seq < SeqSpace
  <2> QED
    BY ONLY <2>1, <1>2, roc \in Nat
<1> QED
  BY <1>1, <1>2, <1>4

-----------------------------------------------------------------------------
(* Streams in order *)

\* The packets among these that source s of e sealed.
PacketsOf(packets, e, s) == {p \in packets : p.key = TxKey(e, "rtp") /\ p.ssrc = s}

\* The window marks packets of P and nothing else, and its highest index is
\* that of the newest of them.
Holds(w, P) ==
  IF w.highest = NoIndex THEN P = {}
  ELSE /\ \E p \in P : p.index = w.highest
       /\ \A p \in P : p.index <= w.highest
       /\ \A d \in w.seen : \E p \in P : p.index = w.highest - d

Sent(e, s) == PacketsOf(wire, e, s)

\* The sender's window ends at the newest number n, or the last roll-over count
\* is being used up and what wraps is refused.
Follows(w, n) ==
  \/ w.highest = NoIndex
  \/ /\ n \in Nat
     /\ Roc(w.highest) < RocSpace
     /\ \/ Seq16(w.highest) = n % SeqSpace
        \/ Seq16(w.highest) >= Half /\ Roc(w.highest) = RocSpace - 1

SendersFollow ==
  \A e \in Ends, s \in Ssrcs :
    /\ newest[e][s] \in Nat \cup {NoIndex}
    /\ inOrder[e] => Follows(StreamOf(tx[e], s).rtp, newest[e][s])

\* A receiver that holds P guesses the index of p, which is not too old for it.
Fits(p, P) == \E w \in Window : Holds(w, P) /\ Guess(w, p.seq) = p.index /\ Check(w, p.index)

LastFits ==
  \A e \in Ends, s \in Ssrcs :
    inOrder[e] /\ last[e][s] \in Sent(e, s) => Fits(last[e][s], Sent(e, s) \ {last[e][s]})

\* The sending ends: windows are those of what was sent.
SendersInOrder ==
  /\ DOMAIN newest = Ends /\ DOMAIN inOrder = Ends /\ DOMAIN last = Ends
  /\ \A e \in Ends : DOMAIN newest[e] = Ssrcs /\ DOMAIN last[e] = Ssrcs
  /\ \A e \in Ends, s \in Ssrcs : Holds(StreamOf(tx[e], s).rtp, Sent(e, s))
  /\ SendersFollow
  /\ LastFits

\* The receiving ends: windows are those of what was accepted.
ReceiversHold ==
  \A e \in Ends, s \in Ssrcs : Holds(StreamOf(rx[e], s).rtp, PacketsOf(opened[e], Other(e), s))

-----------------------------------------------------------------------------
(* The window and the numbers *)

\* Recording a packet keeps the window that of its packets (IndexWindow::record).
LEMMA RecordHolds ==
  ASSUME NEW w \in Window, NEW P, NEW q, \A p \in P : p.index \in Nat, q.index \in Nat, Holds(w, P)
  PROVE  Holds(Record(w, q.index), P \cup {q})
<1> DEFINE i == q.index
<1> USE WindowAssumption
<1>1. CASE w.highest = NoIndex
  <2>1. Record(w, i) = [highest |-> i, seen |-> {0}] /\ P = {}
    BY <1>1 DEF Record, Holds
  <2> QED
    BY <2>1 DEF Holds, NoIndex
<1>2. CASE w.highest # NoIndex /\ i > w.highest
  <2> DEFINE r == [highest |-> i,
                   seen |-> {0} \cup {d \in Distances : d - (i - w.highest) \in w.seen}]
  <2>1. Record(w, i) = r
    BY <1>2 DEF Record
  <2>2. w.highest \in Nat /\ \A d \in r.seen : d \in Int /\ (d = 0 \/ d - (i - w.highest) \in w.seen)
    BY <1>2 DEF Window, Distances
  <2>3. \A d \in w.seen : \E p \in P : p.index = w.highest - d
    BY <1>2 DEF Holds
  <2>4. \A p \in P : p.index <= w.highest
    BY <1>2 DEF Holds
  <2>5. \A p \in P \cup {q} : p.index <= i
    BY <1>2, <2>2, <2>4
  <2>6. ASSUME NEW d \in r.seen
        PROVE  \E p \in P \cup {q} : p.index = i - d
    <3>1. CASE d = 0
      BY <3>1
    <3>2. CASE d - (i - w.highest) \in w.seen
      <4>1. PICK p \in P : p.index = w.highest - (d - (i - w.highest))
        BY <2>3, <3>2
      <4>2. \A h, j, x \in Int : h - (x - (j - h)) = j - x
        OBVIOUS
      <4>3. w.highest \in Int /\ d \in Int /\ i \in Int
        <5> HIDE DEF r
        <5> QED
          BY <2>2, <2>6
      <4>4. p.index = i - d
        <5> HIDE DEF r
        <5> QED
          BY <4>1, <4>2, <4>3
      <4> QED
        BY <4>4
    <3> QED
      BY <2>2, <2>6, <3>1, <3>2
  <2>7. r.highest = i /\ i # NoIndex /\ \E p \in P \cup {q} : p.index = i
    BY DEF NoIndex
  <2> HIDE DEF r
  <2> QED
    BY <2>1, <2>5, <2>6, <2>7 DEF Holds
<1>3. CASE w.highest # NoIndex /\ ~(i > w.highest)
  <2> DEFINE r == [w EXCEPT !.seen = @ \cup (Distances \cap {w.highest - i})]
  <2>1. Record(w, i) = r
    BY <1>3 DEF Record
  <2>2. w.highest \in Nat /\ r.highest = w.highest /\ \A d \in r.seen : d \in w.seen \/ d = w.highest - i
    BY <1>3 DEF Window
  <2>3. /\ \E p \in P : p.index = w.highest
        /\ \A p \in P : p.index <= w.highest
        /\ \A d \in w.seen : \E p \in P : p.index = w.highest - d
    BY <1>3 DEF Holds
  <2>4. \A p \in P \cup {q} : p.index <= w.highest
    BY <1>3, <2>2, <2>3
  <2>5. \A d \in r.seen : \E p \in P \cup {q} : p.index = w.highest - d
    <3>1. i = w.highest - (w.highest - i)
      BY <2>2
    <3> HIDE DEF r
    <3> QED
      BY <2>2, <2>3, <3>1
  <2> HIDE DEF r
  <2> QED
    BY <1>3, <2>1, <2>2, <2>3, <2>4, <2>5 DEF Holds
<1> QED
  BY <1>1, <1>2, <1>3

\* Windows of the same packets end at the same index.
LEMMA SameHighest ==
  ASSUME NEW v \in Window, NEW w \in Window, NEW P, \A p \in P : p.index \in Nat,
         Holds(v, P), Holds(w, P)
  PROVE  v.highest = w.highest
BY DEF Holds, Window, NoIndex

LEMMA HalfFits == Half \in Nat /\ 2 * Half <= SeqSpace /\ SeqSpace <= 2 * Half + 1
BY WindowAssumption DEF Half

\* The next number is so many ahead of the last one in sequence numbers too,
\* unless they wrap.
LEMMA NextSeq ==
  ASSUME NEW m \in Nat, NEW j \in Nat, j < SeqSpace
  PROVE  (m + j) % SeqSpace = IF Seq16(m) + j < SeqSpace THEN Seq16(m) + j ELSE Seq16(m) + j - SeqSpace
<1> USE WindowAssumption
<1> DEFINE roc == Roc(m)
           a   == Seq16(m)
<1>1. roc \in Nat /\ a \in Nat /\ a < SeqSpace /\ m = roc * SeqSpace + a
  BY IndexSplits
<1> HIDE DEF roc, a
<1>2. CASE a + j < SeqSpace
  <2>0. a + j \in Nat
    BY <1>1
  <2>1. Seq16(roc * SeqSpace + (a + j)) = a + j
    BY ONLY <1>1, <1>2, <2>0, IndexJoins
  <2>2. roc * SeqSpace + (a + j) = m + j
    <3>1. roc * SeqSpace \in Nat
      BY <1>1
    <3> QED
      BY <1>1, <3>1
  <2> QED
    BY <1>2, <2>1, <2>2 DEF Seq16, a
<1>3. CASE ~(a + j < SeqSpace)
  <2>1. a + j - SeqSpace \in Nat /\ a + j - SeqSpace < SeqSpace /\ roc + 1 \in Nat
    BY <1>1, <1>3
  <2>2. Seq16((roc + 1) * SeqSpace + (a + j - SeqSpace)) = a + j - SeqSpace
    BY <2>1, IndexJoins
  <2>3. (roc + 1) * SeqSpace + (a + j - SeqSpace) = m + j
    <3>1. roc * SeqSpace \in Nat /\ (roc + 1) * SeqSpace = roc * SeqSpace + SeqSpace
      BY <1>1
    <3> QED
      BY <1>1, <3>1
  <2> QED
    BY <1>3, <2>2, <2>3 DEF Seq16, a
<1> QED
  BY <1>2, <1>3

\* The window ends at the highest index recorded (IndexWindow::record).
LEMMA RecordHighest ==
  ASSUME NEW w \in Window, NEW i \in Nat
  PROVE  Record(w, i).highest = IF w.highest = NoIndex \/ i > w.highest THEN i ELSE w.highest
BY DEF Record, Window

\* What a sender in order seals next: the receiver that has what was sent guesses
\* the index it counted, and the sender still follows the numbers, whether the
\* packet is sealed or refused (IndexWindow::send_index, IndexWindow::guess).
\* The guess is right of numbers less than half their space ahead.
LEMMA SendFits ==
  ASSUME MaxJump < Half, NEW w \in Window, NEW m \in Nat \cup {NoIndex}, NEW n \in Nat,
         Follows(w, m), n > m, m # NoIndex => n <= m + MaxJump
  PROVE  LET seq == n % SeqSpace
             i   == SendIndex(w, seq)
         IN  /\ Exhausted(w, seq) => Follows(w, n)
             /\ ~Exhausted(w, seq) => /\ i \in Nat
                                      /\ Guess(w, seq) = i
                                      /\ Follows(Record(w, i), n)
                                      /\ ~Check(w, i) => Follows(w, n)
<1> USE WindowAssumption, SrtpAssumption
<1> DEFINE seq == n % SeqSpace
           i   == SendIndex(w, seq)
           h   == w.highest
           roc == Roc(h)
           a   == Seq16(h)
<1>1. seq \in Nat /\ seq < SeqSpace
  OBVIOUS
<1>2. Half \in Nat /\ 2 * Half <= SeqSpace
  BY HalfFits
<1>3. ASSUME NEW r \in Nat, r < RocSpace, i = r * SeqSpace + seq, h = NoIndex \/ i > h
      PROVE  i \in Nat /\ Follows(Record(w, i), n) /\ Check(w, i)
  <2>1. i \in Nat /\ Roc(i) = r /\ Seq16(i) = seq
    <3>1. r * SeqSpace + seq \in Nat /\ Roc(r * SeqSpace + seq) = r /\ Seq16(r * SeqSpace + seq) = seq
      BY ONLY <1>1, r \in Nat, IndexJoins
    <3> QED
      BY ONLY <1>3, <3>1
  <2>2. Record(w, i).highest = i
    BY <1>3, <2>1, RecordHighest
  <2> QED
    BY <1>3, <2>1, <2>2 DEF Follows, Check
<1>4. CASE h = NoIndex
  <2>1. ~Exhausted(w, seq) /\ i = seq /\ Guess(w, seq) = seq
    BY <1>4 DEF Exhausted, SendIndex, Guess
  <2>2. i = 0 * SeqSpace + seq
    BY <1>1, <2>1
  <2> HIDE DEF seq, i, h
  <2>3. i \in Nat /\ Follows(Record(w, i), n) /\ Check(w, i)
    BY <1>3, <1>4, <2>2
  <2> QED
    BY <2>1, <2>3 DEF seq, i
<1>5. CASE h # NoIndex
  <2>1. h \in Nat
    BY <1>5 DEF Window
  <2>2. roc \in Nat /\ a \in Nat /\ a < SeqSpace /\ h = roc * SeqSpace + a
    BY <2>1, IndexSplits
  <2>3. roc < RocSpace /\ m \in Nat
    BY <1>5 DEF Follows
  <2>4. Wraps(w, seq) <=> seq < a /\ a - seq > Half
    BY DEF Wraps
  <2>5. Exhausted(w, seq) <=> Wraps(w, seq) /\ roc = RocSpace - 1
    BY <1>5 DEF Exhausted
  <2>6. i = (IF Wraps(w, seq) THEN roc + 1 ELSE roc) * SeqSpace + seq
    BY <1>5 DEF SendIndex
  <2>7. Guess(w, seq) = (IF a < Half THEN IF seq - a > Half THEN (roc - 1) % RocSpace ELSE roc
                         ELSE IF a - Half > seq THEN (roc + 1) % RocSpace ELSE roc) * SeqSpace + seq
    BY <1>5 DEF Guess
  <2>8. CASE a = m % SeqSpace
    <3>1. PICK j \in Nat : n = m + j /\ 0 < j /\ j < Half
      <4>1. n - m \in Nat /\ n = m + (n - m) /\ 0 < n - m /\ n - m < Half
        <5>1. n <= m + MaxJump
          BY <2>3, <1>5 DEF NoIndex
        <5> QED
          BY <1>2, <2>3, <5>1
      <4> QED
        BY <4>1
    <3>2. seq = IF a + j < SeqSpace THEN a + j ELSE a + j - SeqSpace
      <4>1. (m + j) % SeqSpace = IF Seq16(m) + j < SeqSpace THEN Seq16(m) + j ELSE Seq16(m) + j - SeqSpace
        <5>1. j < SeqSpace
          BY <1>2, <3>1
        <5> QED
          BY <2>3, <5>1, NextSeq
      <4> QED
        BY <2>8, <3>1, <4>1 DEF Seq16
    <3> HIDE DEF seq, i, h, roc, a
    <3>3. CASE a + j < SeqSpace
      <4>1. seq = a + j /\ ~Wraps(w, seq)
        BY <1>2, <2>2, <2>4, <3>1, <3>2, <3>3
      <4>2. i = roc * SeqSpace + seq /\ ~Exhausted(w, seq)
        BY <2>5, <2>6, <4>1
      <4>3. Guess(w, seq) = i
        <5>1. ~(seq - a > Half) /\ (~(a < Half) => ~(a - Half > seq))
          BY <1>2, <2>2, <3>1, <4>1
        <5> QED
          BY <2>7, <4>2, <5>1
      <4>4. i > h
        <5>1. roc * SeqSpace \in Nat
          BY <2>2
        <5> QED
          BY <2>2, <3>1, <4>1, <4>2, <5>1
      <4>5. i \in Nat /\ Follows(Record(w, i), n) /\ Check(w, i)
        BY <1>3, <2>2, <2>3, <4>2, <4>4
      <4> QED
        BY <4>2, <4>3, <4>5 DEF seq, i
    <3>4. CASE ~(a + j < SeqSpace)
      <4>1. seq = a + j - SeqSpace /\ seq < a /\ a - seq > Half
        BY <1>2, <2>2, <3>1, <3>2, <3>4
      <4>2. Wraps(w, seq) /\ i = (roc + 1) * SeqSpace + seq
        BY <2>4, <2>6, <4>1
      <4>3. a >= Half /\ a - Half > seq
        BY <1>1, <1>2, <2>2, <4>1
      <4>4. CASE roc = RocSpace - 1
        BY <1>5, <2>3, <2>5, <4>2, <4>3, <4>4 DEF Follows, h, roc, a, seq
      <4>5. CASE roc # RocSpace - 1
        <5>1. ~Exhausted(w, seq) /\ roc + 1 < RocSpace /\ roc + 1 \in Nat
          BY <2>2, <2>3, <2>5, <4>5
        <5>2. (roc + 1) % RocSpace = roc + 1
          BY <5>1
        <5>3. Guess(w, seq) = i
          BY <1>2, <2>2, <2>7, <4>2, <4>3, <5>2
        <5>4. i > h
          <6>1. roc * SeqSpace \in Nat /\ (roc + 1) * SeqSpace = roc * SeqSpace + SeqSpace
            BY <2>2
          <6> QED
            BY <1>1, <2>2, <4>2, <6>1
        <5>5. i \in Nat /\ Follows(Record(w, i), n) /\ Check(w, i)
          BY <1>3, <4>2, <5>1, <5>4
        <5> QED
          BY <5>1, <5>3, <5>5 DEF seq, i
      <4> QED
        BY <4>4, <4>5
    <3> QED
      BY <3>3, <3>4
  <2>9. CASE a >= Half /\ roc = RocSpace - 1
    <3>1. Follows(w, n)
      BY <1>5, <2>3, <2>9 DEF Follows
    <3> HIDE DEF seq, i, h, roc, a
    <3>2. ASSUME ~Exhausted(w, seq)
          PROVE  i \in Nat /\ Guess(w, seq) = i /\ Follows(Record(w, i), n)
      <4>1. ~Wraps(w, seq) /\ i = roc * SeqSpace + seq
        BY <2>5, <2>6, <2>9, <3>2
      <4>2. ~(a - Half > seq)
        BY <1>1, <1>2, <2>2, <2>4, <4>1
      <4>3. Guess(w, seq) = i
        BY <1>2, <2>2, <2>7, <2>9, <4>1, <4>2
      <4>4. CASE i > h
        BY <1>3, <2>2, <2>3, <4>1, <4>3, <4>4
      <4>5. CASE ~(i > h)
        <5>1. i \in Nat
          <6>1. roc * SeqSpace \in Nat
            BY <2>2
          <6> QED
            BY <1>1, <4>1, <6>1
        <5>2. Record(w, i).highest = h
          BY <1>5, <4>5, <5>1, RecordHighest DEF h
        <5> QED
          BY <2>3, <2>9, <4>3, <5>1, <5>2 DEF Follows, roc, a
      <4> QED
        BY <4>4, <4>5
    <3> QED
      BY <3>1, <3>2 DEF seq, i
  <2> QED
    BY <1>5, <2>8, <2>9 DEF Follows
<1> QED
  BY <1>4, <1>5

-----------------------------------------------------------------------------
(* Steps and order *)

LEMMA OthersOther ==
  /\ \A e \in Ends : Other(e) \in Ends /\ Other(Other(e)) = e
  /\ \A d, e \in Ends : Other(d) = Other(e) => d = e
BY DEF Ends, Other

\* A step that seals no RTP (encrypt_rtcp, or nothing) leaves order as it is.
QuietStep ==
  /\ UNCHANGED <<newest, inOrder, last>>
  /\ \/ \E e \in Ends, s \in AllSsrcs : EncryptRtcp(e, s)
     \/ UNCHANGED <<tx, wire>>

\* Every step of a leg hands over one RTP packet or none, and a browser's is ahead
\* of what it sent.
LEMMA LegStepNumbers ==
  ASSUME [LegNext]_legVars
  PROVE  \/ QuietStep
         \/ \E s \in Ssrcs : SendRtp("client", s) /\ inOrder'["client"]
         \/ \E s \in Ssrcs : SendRtp("server", s)
<1>0. "client" \in Ends /\ "server" \in Ends /\ PlaneSsrc \in AllSsrcs /\ Ssrcs \subseteq AllSsrcs
  BY DEF Ends, AllSsrcs
<1>1. ASSUME NEW e \in Ends, NEW s \in Ssrcs, SendRtcp(e, s)
      PROVE  QuietStep
  BY <1>0, <1>1 DEF SendRtcp, QuietStep
<1>2. ASSUME NEW e \in Ends, NEW p \in wire \cup Forged, DecryptRtp(e, p) \/ DecryptRtcp(e, p)
      PROVE  QuietStep
  BY <1>2 DEF DecryptRtp, DecryptRtcp, QuietStep
<1>3. CASE ByBrowser
  BY <1>0, <1>1, <1>2, <1>3 DEF ByBrowser
<1>4. CASE ByShard
  BY <1>0, <1>1, <1>2, <1>4 DEF ByShard
<1>5. ASSUME NEW p \in wire \cup Forged, ReceiveRtp(p)
      PROVE  QuietStep
  <2>1. EncryptRtcp("server", PlaneSsrc) \/ UNCHANGED <<tx, wire>>
    BY <1>5 DEF ReceiveRtp, OnRtp
  <2>2. UNCHANGED <<newest, inOrder, last>>
    BY <1>5 DEF ReceiveRtp
  <2> QED
    BY <1>0, <2>1, <2>2 DEF QuietStep
<1>6. ASSUME NEW p \in wire \cup Forged, ReceiveRtcp(p)
      PROVE  QuietStep
  BY <1>0, <1>2, <1>6 DEF ReceiveRtcp
<1>7. CASE Pass
  BY <1>7 DEF Pass, srtpVars, QuietStep
<1>8. CASE FlushTwcc
  BY <1>0, <1>8 DEF FlushTwcc, QuietStep
<1>9. CASE SendReport
  BY <1>0, <1>9 DEF SendReport, QuietStep
<1>10. CASE UNCHANGED legVars
  BY <1>10 DEF legVars, srtpVars, QuietStep
<1> QED
  BY <1>3, <1>4, <1>5, <1>6, <1>7, <1>8, <1>9, <1>10 DEF LegNext

\* Every step of a leg hands over one RTP packet or none.
LEMMA LegStepHandsOver ==
  ASSUME [LegNext]_legVars
  PROVE  QuietStep \/ \E e \in Ends, s \in Ssrcs : SendRtp(e, s)
BY LegStepNumbers DEF Ends

\* Steps without RTP keep the senders in order.
LEMMA QuietKeepsOrder ==
  ASSUME TablesOK, SendersInOrder, QuietStep
  PROVE  SendersInOrder'
<1>1. \A d \in Ends, x \in Ssrcs :
        StreamOf(tx'[d], x).rtp = StreamOf(tx[d], x).rtp /\ PacketsOf(wire', d, x) = PacketsOf(wire, d, x)
  <2>1. CASE UNCHANGED <<tx, wire>>
    BY <2>1
  <2>2. ASSUME NEW e \in Ends, NEW s \in AllSsrcs, EncryptRtcp(e, s), ~UNCHANGED <<tx, wire>>,
               NEW d \in Ends, NEW x \in Ssrcs
        PROVE  /\ StreamOf(tx'[d], x).rtp = StreamOf(tx[d], x).rtp
               /\ PacketsOf(wire', d, x) = PacketsOf(wire, d, x)
    <3> DEFINE old == StreamOf(tx[e], s)
               new == [old EXCEPT !.next = @ + 1]
               p   == Seal(e, "rtcp", s, 0, old.next)
    <3>1. tx' = [tx EXCEPT ![e] = With(@, s, new)] /\ wire' = wire \cup {p}
      BY <2>2 DEF EncryptRtcp
    <3>2. old \in Stream
      BY DEF TablesOK
    <3>3. new.rtp = old.rtp
      BY <3>2 DEF Stream
    <3>4. p.key # TxKey(d, "rtp")
      BY DEF Seal, TxKey
    <3> HIDE DEF new, p
    <3>5. StreamOf(tx'[d], x) = IF d = e /\ x = s THEN new ELSE StreamOf(tx[d], x)
      BY <3>1, WithLookup DEF TablesOK
    <3>6. PacketsOf(wire \cup {p}, d, x) = PacketsOf(wire, d, x)
      BY <3>4 DEF PacketsOf
    <3>7. StreamOf(tx'[d], x).rtp = StreamOf(tx[d], x).rtp
      BY <3>3, <3>5 DEF old
    <3> QED
      BY <3>1, <3>6, <3>7
  <2> QED
    BY <2>1, <2>2 DEF QuietStep
<1>2. \A d \in Ends, x \in Ssrcs : Sent(d, x)' = Sent(d, x)
  BY <1>1 DEF Sent
<1>3. SendersFollow'
  BY <1>1 DEF SendersInOrder, SendersFollow, QuietStep
<1>4. LastFits'
  BY <1>2 DEF SendersInOrder, LastFits, QuietStep
<1> QED
  BY <1>1, <1>2, <1>3, <1>4 DEF SendersInOrder, QuietStep

\* An RTP packet sealed, or refused (encrypt_rtp).
LEMMA SendRtpKeepsOrder ==
  ASSUME ContextsInv, SendersInOrder, MaxJump < Half,
         NEW e \in Ends, NEW s \in Ssrcs, SendRtp(e, s)
  PROVE  SendersInOrder'
<1> DEFINE w == StreamOf(tx[e], s).rtp
           m == newest[e][s]
<1>1. PICK n \in Numbers(e, s) : /\ newest' = [newest EXCEPT ![e][s] = IF n > @ THEN n ELSE @]
                                 /\ inOrder' = [inOrder EXCEPT ![e] = @ /\ n > newest[e][s]]
                                 /\ EncryptRtp(e, s, n)
  BY DEF SendRtp
<1> DEFINE seq == n % SeqSpace
           old == StreamOf(tx[e], s)
           i   == SendIndex(w, seq)
           p   == Seal(e, "rtp", s, n, i)
           new == [old EXCEPT !.rtp = Record(@, i)]
<1>2. n \in Nat /\ m \in Nat \cup {NoIndex} /\ (m # NoIndex => n <= m + MaxJump)
  BY SrtpAssumption DEF Numbers, SendersInOrder, SendersFollow
<1>3. old \in Stream /\ w \in Window
  BY DEF ContextsInv, TablesOK, AllSsrcs, Stream
<1>4. /\ DOMAIN newest' = Ends /\ \A d \in Ends : DOMAIN newest'[d] = Ssrcs
      /\ \A d \in Ends, x \in Ssrcs :
           newest'[d][x] = IF d = e /\ x = s THEN IF n > m THEN n ELSE m ELSE newest[d][x]
  BY <1>1 DEF SendersInOrder
<1>5. /\ DOMAIN inOrder' = Ends
      /\ \A d \in Ends : inOrder'[d] => inOrder[d] /\ (d = e => n > m)
  BY <1>1 DEF SendersInOrder
<1>6. \A d \in Ends, x \in Ssrcs : newest'[d][x] \in Nat \cup {NoIndex}
  BY <1>2, <1>4 DEF SendersInOrder, SendersFollow
<1>7. \A d \in Ends, x \in Ssrcs : inOrder[d] => Follows(StreamOf(tx[d], x).rtp, newest[d][x])
  BY DEF SendersInOrder, SendersFollow
<1>8. ASSUME inOrder'[e]
      PROVE  /\ Exhausted(w, seq) => Follows(w, n)
             /\ ~Exhausted(w, seq) => /\ i \in Nat /\ Guess(w, seq) = i
                                      /\ Follows(Record(w, i), n)
                                      /\ ~Check(w, i) => Follows(w, n)
  <2>1. Follows(w, m) /\ n > m
    BY <1>5, <1>7, <1>8
  <2> HIDE DEF w, m
  <2> QED
    BY <1>2, <1>3, <2>1, SendFits
<1>9. CASE UNCHANGED <<tx, wire, last>> /\ (~HasRoom(tx[e], s) \/ Exhausted(w, seq) \/ ~Check(w, i))
  <2>1. ASSUME inOrder'[e]
        PROVE  Follows(w, n)
    <3>1. CASE ~HasRoom(tx[e], s)
      <4>1. w.highest = NoIndex
        BY <3>1 DEF HasRoom, StreamOf, BlankStream, Blank
      <4> QED
        BY <4>1 DEF Follows
    <3> QED
      BY <1>8, <1>9, <2>1, <3>1
  <2>2. SendersFollow'
    <3> SUFFICES ASSUME NEW d \in Ends, NEW x \in Ssrcs, inOrder'[d]
                 PROVE  Follows(StreamOf(tx'[d], x).rtp, newest'[d][x])
      BY <1>6 DEF SendersFollow
    <3>1. CASE d = e /\ x = s
      BY <1>4, <1>5, <1>9, <2>1, <3>1
    <3>2. CASE ~(d = e /\ x = s)
      BY <1>4, <1>5, <1>7, <1>9, <3>2
    <3> QED
      BY <3>1, <3>2
  <2>3. \A d \in Ends, x \in Ssrcs : Sent(d, x)' = Sent(d, x)
    BY <1>9 DEF Sent
  <2>4. LastFits'
    BY <1>5, <1>9, <2>3 DEF LastFits, SendersInOrder
  <2> QED
    BY <1>4, <1>5, <1>9, <2>2, <2>3, <2>4 DEF SendersInOrder
<1>10. CASE /\ ~Exhausted(w, seq) /\ Check(w, i)
            /\ tx' = [tx EXCEPT ![e] = With(@, s, new)]
            /\ wire' = wire \cup {p}
            /\ last' = [last EXCEPT ![e][s] = p]
  <2>1. i \in Nat /\ seq \in Nat
    <3>1. seq \in Nat
      BY <1>2, WindowAssumption
    <3> QED
      BY <1>3, <3>1, SendIndexType
  <2>2. p.key = TxKey(e, "rtp") /\ p.ssrc = s /\ p.seq = seq /\ p.index = i
    BY DEF Seal
  <2>3. /\ DOMAIN last' = Ends /\ \A d \in Ends : DOMAIN last'[d] = Ssrcs
        /\ \A d \in Ends, x \in Ssrcs : last'[d][x] = IF d = e /\ x = s THEN p ELSE last[d][x]
    BY <1>10 DEF SendersInOrder
  <2>4. new.rtp = Record(w, i)
    BY <1>3 DEF Stream
  <2>5. \A d \in Ends, x \in Ssrcs :
          StreamOf(tx'[d], x).rtp = IF d = e /\ x = s THEN Record(w, i) ELSE StreamOf(tx[d], x).rtp
    <3> HIDE DEF new, p, w, i
    <3>1. \A d \in Ends, x \in Ssrcs :
            StreamOf(tx'[d], x) = IF d = e /\ x = s THEN new ELSE StreamOf(tx[d], x)
      BY <1>10, WithLookup DEF ContextsInv, TablesOK
    <3> QED
      BY <2>4, <3>1
  <2>6. p \notin wire
    <3>1. ASSUME p \in wire
          PROVE  FALSE
      <4>1. p.key[1] = e /\ p.key[2] = "rtp"
        BY <2>2 DEF TxKey
      <4>2. Marked(w, i)
        BY <2>2, <3>1, <4>1 DEF ContextsInv, SealedIsMarked
      <4> QED
        BY <1>3, <1>10, <2>1, <4>2, MarkedIsRefused
    <3> QED
      BY <3>1
  <2>7. \A q \in Sent(e, s) : q.index \in Nat
    BY DEF ContextsInv, WireOK, Sent, PacketsOf
  <2>8. Holds(w, Sent(e, s))
    BY DEF SendersInOrder
  <2> HIDE DEF p, new, w, i, seq, m, old
  <2>9. \A d \in Ends, x \in Ssrcs :
          Sent(d, x)' = IF d = e /\ x = s THEN Sent(d, x) \cup {p} ELSE Sent(d, x)
    <3>1. \A d \in Ends : TxKey(d, "rtp") = TxKey(e, "rtp") => d = e
      BY DEF TxKey
    <3>2. ASSUME NEW d \in Ends, NEW x \in Ssrcs
          PROVE  PacketsOf(wire', d, x) = IF d = e /\ x = s THEN PacketsOf(wire, d, x) \cup {p}
                                          ELSE PacketsOf(wire, d, x)
      <4>1. PacketsOf(wire \cup {p}, d, x) =
              IF p.key = TxKey(d, "rtp") /\ p.ssrc = x THEN PacketsOf(wire, d, x) \cup {p}
              ELSE PacketsOf(wire, d, x)
        BY DEF PacketsOf
      <4> QED
        BY <1>10, <2>2, <3>1, <4>1
    <3> QED
      BY <3>2 DEF Sent
  <2>10. Holds(Record(w, i), Sent(e, s) \cup {p})
    BY <1>3, <2>1, <2>2, <2>7, <2>8, RecordHolds
  <2>11. SendersFollow'
    <3> SUFFICES ASSUME NEW d \in Ends, NEW x \in Ssrcs, inOrder'[d]
                 PROVE  Follows(StreamOf(tx'[d], x).rtp, newest'[d][x])
      BY <1>6 DEF SendersFollow
    <3>1. CASE d = e /\ x = s
      BY <1>4, <1>5, <1>8, <1>10, <2>5, <3>1
    <3>2. CASE ~(d = e /\ x = s)
      BY <1>4, <1>5, <1>7, <2>5, <3>2
    <3> QED
      BY <3>1, <3>2
  <2>12. LastFits'
    <3> SUFFICES ASSUME NEW d \in Ends, NEW x \in Ssrcs, inOrder'[d], last'[d][x] \in Sent(d, x)'
                 PROVE  Fits(last'[d][x], Sent(d, x)' \ {last'[d][x]})
      BY DEF LastFits
    <3>1. CASE d = e /\ x = s
      <4>1. (Sent(e, s) \cup {p}) \ {p} = Sent(e, s)
        BY <2>6 DEF Sent, PacketsOf
      <4>2. Guess(w, p.seq) = p.index /\ Check(w, p.index)
        BY <1>8, <1>10, <2>2, <3>1
      <4>3. Fits(p, Sent(e, s))
        BY <1>3, <2>8, <4>2 DEF Fits
      <4> QED
        BY <2>3, <2>9, <3>1, <4>1, <4>3
    <3>2. CASE ~(d = e /\ x = s)
      BY <1>5, <2>3, <2>9, <3>2 DEF SendersInOrder, LastFits
    <3> QED
      BY <3>1, <3>2
  <2>13. \A d \in Ends, x \in Ssrcs : Holds(StreamOf(tx'[d], x).rtp, Sent(d, x)')
    BY <2>5, <2>9, <2>10 DEF SendersInOrder
  <2> QED
    BY <1>4, <1>5, <2>3, <2>11, <2>12, <2>13 DEF SendersInOrder
<1> QED
  BY <1>1, <1>9, <1>10 DEF EncryptRtp

\* A packet that opens is recorded with the source it was sealed for
\* (decrypt_rtp); nothing else changes what an end has of a source.
LEMMA OpenKeepsOrder ==
  ASSUME ContextsInv, ReceiversHold, OpenStep
  PROVE  ReceiversHold'
<1>1. CASE UNCHANGED <<rx, opened, reopened>>
  BY <1>1 DEF ReceiversHold
<1>2. ASSUME NEW e \in Ends, NEW p \in wire \cup Forged, OpenRtp(e, p), RtpVerdict(e, p) = "Ok"
      PROVE  ReceiversHold'
  <2> DEFINE old == StreamOf(rx[e], p.ssrc)
             new == [old EXCEPT !.rtp = Record(@, p.index)]
  <2>1. p.key = RxKey(e, "rtp") /\ p.index = RtpIndex(e, p)
    BY <1>2 DEF RtpVerdict, Verdict
  <2>2. p \in wire /\ p.ssrc \in AllSsrcs /\ p.index \in Nat
    <3>1. p \in wire
      BY <2>1, AuthenticIsSealed DEF Labels
    <3> QED
      BY <3>1 DEF ContextsInv, WireOK
  <2>3. old \in Stream /\ old.rtp \in Window
    BY <2>2 DEF ContextsInv, TablesOK, Stream
  <2>4. rx' = [rx EXCEPT ![e] = With(@, p.ssrc, new)] /\ opened' = [opened EXCEPT ![e] = @ \cup {p}]
    BY <1>2, <2>1 DEF OpenRtp, Accept, ContextsInv, TablesOK
  <2>5. new.rtp = Record(old.rtp, p.index)
    BY <2>3 DEF Stream
  <2> SUFFICES ASSUME NEW d \in Ends, NEW s \in Ssrcs
               PROVE  Holds(StreamOf(rx'[d], s).rtp, PacketsOf(opened'[d], Other(d), s))
    BY DEF ReceiversHold
  <2>6. Holds(StreamOf(rx[d], s).rtp, PacketsOf(opened[d], Other(d), s))
    BY DEF ReceiversHold
  <2>7. StreamOf(rx'[d], s) = IF d = e /\ s = p.ssrc THEN new ELSE StreamOf(rx[d], s)
    <3> HIDE DEF new
    <3> QED
      BY <2>4, WithLookup DEF ContextsInv, TablesOK
  <2>8. opened'[d] = IF d = e THEN opened[e] \cup {p} ELSE opened[d]
    BY <2>4 DEF ContextsInv, TablesOK
  <2>9. PacketsOf(opened[e] \cup {p}, Other(e), s) =
          IF s = p.ssrc THEN PacketsOf(opened[e], Other(e), s) \cup {p}
          ELSE PacketsOf(opened[e], Other(e), s)
    BY <2>1 DEF PacketsOf, RxKey
  <2>10. \A q \in PacketsOf(opened[e], Other(e), s) : q.index \in Nat
    BY DEF ContextsInv, OpenedIsMarked, WireOK, PacketsOf
  <2> HIDE DEF new
  <2>11. CASE d = e /\ s = p.ssrc
    <3>1. Holds(Record(old.rtp, p.index), PacketsOf(opened[e], Other(e), s) \cup {p})
      BY <2>2, <2>3, <2>6, <2>10, <2>11, RecordHolds
    <3> QED
      BY <2>5, <2>7, <2>8, <2>9, <2>11, <3>1
  <2>12. CASE ~(d = e /\ s = p.ssrc)
    BY <2>6, <2>7, <2>8, <2>9, <2>12
  <2> QED
    BY <2>11, <2>12
<1>3. ASSUME NEW e \in Ends, NEW p \in wire \cup Forged, DecryptRtcp(e, p), RtcpVerdict(e, p) = "Ok"
      PROVE  ReceiversHold'
  <2> DEFINE old == StreamOf(rx[e], p.ssrc)
             new == [old EXCEPT !.rtcp = Record(@, p.index)]
  <2>1. p.key = RxKey(e, "rtcp")
    BY <1>3 DEF RtcpVerdict, Verdict
  <2>2. p \in wire /\ p.ssrc \in AllSsrcs
    <3>1. p \in wire
      BY <2>1, AuthenticIsSealed DEF Labels
    <3> QED
      BY <3>1 DEF ContextsInv, WireOK
  <2>3. old \in Stream
    BY <2>2 DEF ContextsInv, TablesOK
  <2>4. rx' = [rx EXCEPT ![e] = With(@, p.ssrc, new)] /\ opened' = [opened EXCEPT ![e] = @ \cup {p}]
    BY <1>3 DEF DecryptRtcp, Accept
  <2>5. new.rtp = old.rtp
    BY <2>3 DEF Stream
  <2> SUFFICES ASSUME NEW d \in Ends, NEW s \in Ssrcs
               PROVE  Holds(StreamOf(rx'[d], s).rtp, PacketsOf(opened'[d], Other(d), s))
    BY DEF ReceiversHold
  <2>6. Holds(StreamOf(rx[d], s).rtp, PacketsOf(opened[d], Other(d), s))
    BY DEF ReceiversHold
  <2>7. StreamOf(rx'[d], s) = IF d = e /\ s = p.ssrc THEN new ELSE StreamOf(rx[d], s)
    <3> HIDE DEF new
    <3> QED
      BY <2>4, WithLookup DEF ContextsInv, TablesOK
  <2>8. StreamOf(rx'[d], s).rtp = StreamOf(rx[d], s).rtp
    BY <2>5, <2>7
  <2>9. opened'[d] = IF d = e THEN opened[e] \cup {p} ELSE opened[d]
    BY <2>4 DEF ContextsInv, TablesOK
  <2>10. p.key # TxKey(Other(e), "rtp")
    BY <2>1 DEF RxKey, TxKey
  <2>11. PacketsOf(opened[e] \cup {p}, Other(e), s) = PacketsOf(opened[e], Other(e), s)
    BY <2>10 DEF PacketsOf
  <2> QED
    BY <2>6, <2>8, <2>9, <2>11
<1>4. ASSUME NEW e \in Ends, NEW p \in wire \cup Forged, OpenRtp(e, p), RtpVerdict(e, p) # "Ok"
      PROVE  UNCHANGED <<rx, opened, reopened>>
  BY <1>4 DEF OpenRtp
<1>5. ASSUME NEW e \in Ends, NEW p \in wire \cup Forged, DecryptRtcp(e, p), RtcpVerdict(e, p) # "Ok"
      PROVE  UNCHANGED <<rx, opened, reopened>>
  BY <1>5 DEF DecryptRtcp
<1> QED
  BY <1>1, <1>2, <1>3, <1>4, <1>5 DEF OpenStep

-----------------------------------------------------------------------------
(* Orderly streams open *)

\* Fresh contexts hold nothing.
LEMMA OrderInitially == LegInit => SendersInOrder /\ ReceiversHold
<1> SUFFICES ASSUME LegInit PROVE SendersInOrder /\ ReceiversHold
  OBVIOUS
<1>1. \A s : StreamOf([x \in {} |-> BlankStream], s) = BlankStream
  BY DEF StreamOf
<1>2. BlankStream.rtp.highest = NoIndex /\ Holds(BlankStream.rtp, {})
  BY DEF BlankStream, Blank, Holds
<1>3. \A e, s : PacketsOf({}, e, s) = {}
  BY DEF PacketsOf
<1>4. tx = rx /\ \A e \in Ends, s \in Ssrcs : StreamOf(tx[e], s) = BlankStream
  BY <1>1 DEF LegInit, SrtpInit
<1>5. \A e \in Ends, s \in Ssrcs : Sent(e, s) = {} /\ PacketsOf(opened[e], Other(e), s) = {}
  BY <1>3 DEF LegInit, SrtpInit, Sent
<1>6. SendersFollow
  BY <1>2, <1>4 DEF LegInit, SrtpInit, SendersFollow, Follows
<1>7. LastFits
  BY <1>5 DEF LastFits
<1> QED
  BY <1>2, <1>4, <1>5, <1>6, <1>7 DEF LegInit, SrtpInit, SendersInOrder, ReceiversHold

\* What is sent in order opens once everything before it has.
LEMMA OrderImpliesOpens ==
  ASSUME ContextsInv, SendersInOrder, ReceiversHold
  PROVE  InOrderStreamsOpen
<1> SUFFICES ASSUME NEW e \in Ends, NEW s \in Ssrcs, inOrder[e],
                    RtpOf(e, s) \ opened[Other(e)] = {last[e][s]}, HasRoom(rx[Other(e)], s)
             PROVE  RtpVerdict(Other(e), last[e][s]) = "Ok"
  BY DEF InOrderStreamsOpen, LastOpens
<1> DEFINE p == last[e][s]
           w == StreamOf(rx[Other(e)], s).rtp
           P == Sent(e, s) \ {p}
<1>1. Other(e) \in Ends /\ Other(Other(e)) = e
  BY OthersOther
<1>2. \A q : q \in Sent(e, s) => q \in wire /\ q.key = TxKey(e, "rtp") /\ q.ssrc = s /\ q.index \in Nat
  BY DEF Sent, PacketsOf, ContextsInv, WireOK
<1>3. p \in Sent(e, s) /\ P = PacketsOf(opened[Other(e)], e, s)
  <2>1. Sent(e, s) = RtpOf(e, s)
    BY DEF Sent, PacketsOf, RtpOf
  <2>2. opened[Other(e)] \subseteq wire
    BY <1>1 DEF ContextsInv, OpenedIsMarked
  <2> QED
    BY <2>1, <2>2 DEF Sent, PacketsOf
<1>4. Holds(w, P) /\ w \in Window
  <2>1. Holds(w, PacketsOf(opened[Other(e)], Other(Other(e)), s))
    BY <1>1 DEF ReceiversHold
  <2>2. StreamOf(rx[Other(e)], s) \in Stream
    BY <1>1 DEF ContextsInv, TablesOK, AllSsrcs
  <2> QED
    BY <1>1, <1>3, <2>1, <2>2 DEF Stream
<1>5. PICK v \in Window : Holds(v, P) /\ Guess(v, p.seq) = p.index /\ Check(v, p.index)
  BY <1>3 DEF SendersInOrder, LastFits, Fits
<1>6. \A q \in P : q.index \in Nat
  BY <1>2
<1> HIDE DEF p, w, P
<1>7. v.highest = w.highest
  BY <1>4, <1>5, <1>6, SameHighest
<1>8. Guess(w, p.seq) = p.index
  BY <1>5, <1>7 DEF Guess
<1>9. \A q \in P : q.index # p.index
  BY <1>2, <1>3 DEF ContextsInv, NoIvReuse, Iv, P
<1>10. Check(w, p.index)
  <2>1. CASE w.highest = NoIndex
    BY <2>1 DEF Check
  <2>2. CASE w.highest # NoIndex
    <3>1. p.index > w.highest \/ w.highest - p.index < WindowLen
      BY <1>5, <1>7, <2>2 DEF Check
    <3>2. ASSUME w.highest - p.index \in w.seen
          PROVE  FALSE
      <4>1. PICK q \in P : q.index = w.highest - (w.highest - p.index)
        BY <1>4, <2>2, <3>2 DEF Holds
      <4>2. w.highest \in Int /\ p.index \in Int
        BY <1>2, <1>3, <1>4, <2>2 DEF Window
      <4>3. q.index = p.index
        BY <4>1, <4>2
      <4> QED
        BY <1>9, <4>3
    <3> QED
      BY <3>1, <3>2 DEF Check
  <2> QED
    BY <2>1, <2>2
<1>11. p.ssrc = s /\ p.key = RxKey(Other(e), "rtp")
  BY <1>1, <1>2, <1>3 DEF RxKey
<1>12. RtpIndex(Other(e), p) = p.index
  BY <1>8, <1>11 DEF RtpIndex, w
<1> QED
  BY <1>10, <1>11, <1>12 DEF RtpVerdict, Verdict, w, p

\* A source that is handed over in order, with gaps of less than half the number
\* space, is followed across every wrap of its sequence numbers, whatever is
\* forged, lost or repeated in between (IndexWindow::send_index and guess). A
\* larger gap is beyond what a receiver can guess.
THEOREM InOrderStreamsOpenAlways == MaxJump < Half => (LegSpec => []InOrderStreamsOpen)
<1> SUFFICES ASSUME MaxJump < Half PROVE LegSpec => []InOrderStreamsOpen
  OBVIOUS
<1>1. /\ ContextsInv /\ SendersInOrder /\ ReceiversHold
      /\ [LegNext]_legVars
      => SendersInOrder' /\ ReceiversHold'
  <2> SUFFICES ASSUME ContextsInv, SendersInOrder, ReceiversHold, [LegNext]_legVars
               PROVE  SendersInOrder' /\ ReceiversHold'
    OBVIOUS
  <2>1. SendersInOrder'
    BY LegStepHandsOver, QuietKeepsOrder, SendRtpKeepsOrder DEF ContextsInv
  <2>2. ReceiversHold'
    BY LegStepSplits, OpenKeepsOrder
  <2> QED
    BY <2>1, <2>2
<1>2. ContextsInv /\ SendersInOrder /\ ReceiversHold => InOrderStreamsOpen
  BY OrderImpliesOpens
<1> QED
  BY <1>1, <1>2, OrderInitially, ContextsInvariant, PTL DEF LegSpec

-----------------------------------------------------------------------------
(* Sequence numbers and counters *)

\* Remainders of small numbers.
LEMMA SmallRemainder ==
  ASSUME NEW x \in Int, -SeqSpace <= x, x < SeqSpace
  PROVE  x % SeqSpace = IF x < 0 THEN x + SeqSpace ELSE x
<1> USE WindowAssumption
<1>1. CASE x >= 0
  <2>1. Seq16(0 * SeqSpace + x) = x
    BY <1>1, IndexJoins
  <2>2. 0 * SeqSpace + x = x
    OBVIOUS
  <2> QED
    BY <1>1, <2>1, <2>2 DEF Seq16
<1>2. CASE x < 0
  <2> DEFINE q == x \div SeqSpace
             r == x % SeqSpace
  <2>1. q \in Int /\ r \in Nat /\ r < SeqSpace /\ x = SeqSpace * q + r
    OBVIOUS
  <2> HIDE DEF q, r
  <2>2. q < 0
    <3> SUFFICES ASSUME q >= 0 PROVE FALSE
      BY <2>1
    <3>1. SeqSpace * q >= 0
      BY <2>1
    <3> QED
      BY <1>2, <2>1, <3>1
  <2>3. q >= -1
    <3> SUFFICES ASSUME q <= -2 PROVE FALSE
      BY <2>1
    <3>1. PICK c \in Nat : q = -2 - c
      <4>1. -2 - q \in Nat /\ q = -2 - (-2 - q)
        BY <2>1
      <4> QED
        BY <4>1
    <3>2. SeqSpace * q = -SeqSpace - SeqSpace - SeqSpace * c /\ SeqSpace * c \in Nat
      BY <3>1
    <3> QED
      BY <2>1, <3>2
  <2>4. q = -1
    BY <2>1, <2>2, <2>3
  <2>5. SeqSpace * q = -SeqSpace
    BY <2>4
  <2> QED
    BY <1>2, <2>1, <2>5 DEF r
<1> QED
  BY <1>1, <1>2

\* The distance of two sequence numbers is that of the numbers, up to a wrap.
LEMMA AheadIs ==
  ASSUME NEW high \in Nat, NEW num \in Nat, num - high > -SeqSpace, num - high < SeqSpace
  PROVE  LET d == num - high
             a == num % SeqSpace
             b == high % SeqSpace
         IN  /\ a \in Nat /\ b \in Nat
             /\ (a - b) % SeqSpace = IF d < 0 THEN d + SeqSpace ELSE d
             /\ d >= 0 => a - b = IF a < b THEN d - SeqSpace ELSE d
<1> DEFINE d == num - high
           a == num % SeqSpace
           b == high % SeqSpace
<1>1. /\ a \in Nat /\ a < SeqSpace /\ b \in Nat /\ b < SeqSpace
      /\ a = Seq16(num) /\ b = Seq16(high)
  BY IndexSplits DEF Seq16
<1>2. CASE d >= 0
  <2>1. (high + d) % SeqSpace =
          IF Seq16(high) + d < SeqSpace THEN Seq16(high) + d ELSE Seq16(high) + d - SeqSpace
    BY <1>2, NextSeq
  <2>2. high + d = num
    OBVIOUS
  <2>3. a = IF b + d < SeqSpace THEN b + d ELSE b + d - SeqSpace
    BY <1>1, <2>1, <2>2
  <2>4. d \in Nat /\ d < SeqSpace /\ SeqSpace \in Nat
    BY <1>2, WindowAssumption
  <2> HIDE DEF a, b, d
  <2>5. a - b = IF a < b THEN d - SeqSpace ELSE d
    BY <1>1, <2>3, <2>4
  <2>6. a - b \in Int /\ -SeqSpace <= a - b /\ a - b < SeqSpace
    BY <1>1, <2>4
  <2>7. (a - b) % SeqSpace = IF a - b < 0 THEN a - b + SeqSpace ELSE a - b
    BY <2>6, SmallRemainder
  <2>8. (a - b) % SeqSpace = d
    BY <1>1, <2>3, <2>4, <2>5, <2>7
  <2>9. ~(d < 0)
    BY <2>4
  <2> QED
    BY <1>1, <2>5, <2>8, <2>9 DEF a, b, d
<1>3. CASE d < 0
  <2> DEFINE k == high - num
  <2>0. k \in Nat /\ k < SeqSpace /\ k > 0 /\ d = -k
    BY <1>3, WindowAssumption
  <2>1. (num + k) % SeqSpace =
          IF Seq16(num) + k < SeqSpace THEN Seq16(num) + k ELSE Seq16(num) + k - SeqSpace
    BY <2>0, NextSeq
  <2>2. num + k = high
    OBVIOUS
  <2>3. b = IF a + k < SeqSpace THEN a + k ELSE a + k - SeqSpace
    BY <1>1, <2>1, <2>2
  <2> HIDE DEF a, b, k
  <2>5. (a - b) % SeqSpace = SeqSpace - k
    <3>1. a - b \in Int /\ -SeqSpace <= a - b /\ a - b < SeqSpace
      BY <1>1, WindowAssumption
    <3>2. (a - b) % SeqSpace = IF a - b < 0 THEN a - b + SeqSpace ELSE a - b
      BY <3>1, SmallRemainder
    <3> QED
      BY <1>1, <2>0, <2>3, <3>2, WindowAssumption
  <2>6. SeqSpace - k = d + SeqSpace
    BY <2>0, WindowAssumption
  <2> QED
    BY <1>1, <1>3, <2>5, <2>6 DEF a, b
<1> QED
  BY <1>2, <1>3

-----------------------------------------------------------------------------
(* The counters of a source *)

Slot == [max : Nat, cycles : Nat, base : Nat, received : Nat, expPrior : Nat, recPrior : Nat,
         seen : Nat, lsr : Nat]

\* The counters of a source whose first number was f, whose highest is h and
\* whose numbers are N.
Accounts(slot, f, h, N) ==
  /\ slot \in Slot
  /\ slot.base = f % SeqSpace
  /\ slot.max = h % SeqSpace
  /\ slot.cycles + slot.max - slot.base = h - f
  /\ slot.received = Cardinality(N)
  /\ slot.expPrior <= h - f + 1
  /\ slot.recPrior <= slot.received

\* One more packet that is neither late nor far ahead is accounted for
\* (RrSlot::record).
LEMMA CountedAccounts ==
  ASSUME NEW slot, NEW N \in SUBSET Nat, IsFiniteSet(N), NEW f \in N, NEW h \in N, f <= h,
         Accounts(slot, f, h, N), NEW n \in Nat \ N, n - h \in StepsCounted, now \in Nat
  PROVE  Accounts(Counted(slot, n % SeqSpace), f, IF n > h THEN n ELSE h, N \cup {n})
<1> DEFINE d    == n - h
           seq  == n % SeqSpace
           new  == Counted(slot, seq)
           more == [slot EXCEPT !.received = @ + 1, !.seen = now]
           ahead == (seq - slot.max) % SeqCycle
<1> USE WindowAssumption, FeedbackAssumption, LegAssumption
<1>1. /\ slot \in Slot /\ slot.base = f % SeqSpace /\ slot.max = h % SeqSpace
      /\ slot.cycles + slot.max - slot.base = h - f
      /\ slot.received = Cardinality(N) /\ slot.expPrior <= h - f + 1 /\ slot.recPrior <= slot.received
  BY DEF Accounts
<1>2. d \in Int /\ d # 0 /\ (d \in (Advance - SeqSpace) .. -Behind \/ d \in 0 .. (Advance - 1))
  BY DEF StepsCounted
<1>3. d > -SeqSpace /\ d < SeqSpace
  BY <1>2
<1>4. /\ seq \in Nat /\ ahead = IF d < 0 THEN d + SeqSpace ELSE d
      /\ d >= 0 => seq - slot.max = IF seq < slot.max THEN d - SeqSpace ELSE d
  <2>1. h \in Nat /\ n \in Nat
    OBVIOUS
  <2>2. /\ n % SeqSpace \in Nat
        /\ ((n % SeqSpace) - (h % SeqSpace)) % SeqSpace = IF n - h < 0 THEN n - h + SeqSpace ELSE n - h
        /\ n - h >= 0 => (n % SeqSpace) - (h % SeqSpace)
                           = IF n % SeqSpace < h % SeqSpace THEN n - h - SeqSpace ELSE n - h
    BY ONLY <1>3, <2>1, AheadIs
  <2> QED
    BY <1>1, <2>2
<1>5. Cardinality(N \cup {n}) = Cardinality(N) + 1 /\ Cardinality(N) \in Nat
  BY FS_AddElement, FS_CardinalityType
<1>6. /\ slot.max \in Nat /\ slot.cycles \in Nat /\ slot.base \in Nat /\ slot.received \in Nat
      /\ slot.expPrior \in Nat /\ slot.recPrior \in Nat
  BY <1>1 DEF Slot
<1>7. CASE d > 0
  <2>1. ahead < Advance
    BY <1>2, <1>4, <1>7
  <2> DEFINE cyc == IF seq < slot.max THEN slot.cycles + SeqCycle ELSE slot.cycles
  <2>2. new = [more EXCEPT !.max = seq, !.cycles = cyc]
    BY <1>1, <2>1 DEF Counted, Slot
  <2>3. cyc \in Nat /\ cyc + seq - slot.base = slot.cycles + slot.max - slot.base + d
    <3>1. /\ seq \in Nat /\ d \in Int /\ SeqCycle \in Nat
          /\ seq - slot.max = IF seq < slot.max THEN d - SeqCycle ELSE d
      BY <1>4, <1>7
    <3> HIDE DEF seq, d
    <3> QED
      BY ONLY <1>6, <3>1 DEF cyc
  <2>4. n > h /\ slot.cycles + slot.max - slot.base + d = n - f
    BY <1>1, <1>7
  <2> HIDE DEF cyc, seq, d
  <2>5. /\ new \in Slot /\ new.base = slot.base /\ new.max = seq /\ new.cycles = cyc
        /\ new.received = slot.received + 1 /\ new.expPrior = slot.expPrior /\ new.recPrior = slot.recPrior
    <3> DEFINE rec == slot.received + 1
    <3>1. new = [slot EXCEPT !.received = rec, !.seen = now, !.max = seq, !.cycles = cyc]
      BY <1>1, <2>2 DEF Slot
    <3>2. rec \in Nat /\ seq \in Nat /\ cyc \in Nat /\ slot \in Slot
      BY <1>1, <1>4, <1>6, <2>3 DEF seq
    <3> HIDE DEF new, rec
    <3>3. /\ new \in Slot /\ new.base = slot.base /\ new.max = seq /\ new.cycles = cyc
          /\ new.received = rec /\ new.expPrior = slot.expPrior /\ new.recPrior = slot.recPrior
      BY ONLY now \in Nat, <3>1, <3>2 DEF Slot
    <3> QED
      BY <3>3 DEF rec
  <2>6. slot.expPrior <= n - f + 1
    BY <1>1, <1>6, <2>4
  <2>7. slot.recPrior <= slot.received + 1 /\ slot.received + 1 = Cardinality(N \cup {n})
    BY <1>1, <1>5, <1>6
  <2>8. cyc + seq - slot.base = n - f
    BY <2>3, <2>4
  <2> HIDE DEF new
  <2>9. Accounts(new, f, n, N \cup {n})
    BY <1>1, <2>5, <2>6, <2>7, <2>8 DEF Accounts, seq
  <2> QED
    BY <2>4, <2>9 DEF new, seq
<1>8. CASE d < 0
  <2>1. ~(ahead < Advance) /\ ahead <= SeqCycle - Behind /\ ~(n > h)
    BY <1>2, <1>4, <1>8
  <2>2. new = more
    BY <2>1 DEF Counted
  <2>3. /\ more \in Slot /\ more.base = slot.base /\ more.max = slot.max /\ more.cycles = slot.cycles
        /\ more.received = slot.received + 1 /\ more.expPrior = slot.expPrior /\ more.recPrior = slot.recPrior
    <3> DEFINE rec == slot.received + 1
    <3>1. rec \in Nat /\ slot \in Slot
      BY <1>1, <1>6
    <3> HIDE DEF rec
    <3>2. more = [slot EXCEPT !.received = rec, !.seen = now]
      BY DEF rec
    <3> HIDE DEF more
    <3>3. /\ more \in Slot /\ more.base = slot.base /\ more.max = slot.max /\ more.cycles = slot.cycles
          /\ more.received = rec /\ more.expPrior = slot.expPrior /\ more.recPrior = slot.recPrior
      BY ONLY now \in Nat, <3>1, <3>2 DEF Slot
    <3> QED
      BY <3>3 DEF rec
  <2>4. slot.recPrior <= slot.received + 1 /\ slot.received + 1 = Cardinality(N \cup {n})
    BY <1>1, <1>5, <1>6
  <2> HIDE DEF more
  <2>5. Accounts(more, f, h, N \cup {n})
    BY <1>1, <2>3, <2>4 DEF Accounts
  <2> QED
    BY <2>1, <2>2, <2>5
<1> QED
  BY <1>2, <1>7, <1>8

\* A source's first packet is accounted for (RrSlot::new).
LEMMA NewAccounts ==
  ASSUME NEW n \in Nat, now \in Nat
  PROVE  Accounts(NewSlot(n % SeqSpace), n, n, {n})
<1>1. n % SeqSpace \in Nat
  BY WindowAssumption
<1>2. Cardinality({n}) = 1
  BY FS_Singleton
<1> QED
  BY <1>1, <1>2 DEF NewSlot, Accounts, Slot

\* A remainder by the counter's values is the number itself, below them.
LEMMA SmallCount ==
  ASSUME NEW x \in Nat, x < Word
  PROVE  x % Word = x
<1> USE FeedbackAssumption
<1> DEFINE q == x \div Word
           r == x % Word
<1>1. q \in Int /\ r \in Nat /\ r < Word /\ x = Word * q + r /\ Word \in Nat
  OBVIOUS
<1> HIDE DEF q, r
<1>2. q >= 0
  <2> SUFFICES ASSUME q < 0 PROVE FALSE
    BY <1>1
  <2>1. PICK c \in Nat : q = -1 - c
    <3>1. -1 - q \in Nat /\ q = -1 - (-1 - q)
      BY <1>1
    <3> QED
      BY <3>1
  <2>2. Word * q = -Word - Word * c /\ Word * c \in Nat
    BY <1>1, <2>1
  <2> QED
    BY <1>1, <2>2
<1>3. q <= 0
  <2> SUFFICES ASSUME q > 0 PROVE FALSE
    BY <1>1
  <2>1. PICK c \in Nat : q = 1 + c
    <3>1. q - 1 \in Nat /\ q = 1 + (q - 1)
      BY <1>1
    <3> QED
      BY <3>1
  <2>2. Word * q = Word + Word * c /\ Word * c \in Nat
    BY <1>1, <2>1
  <2> QED
    BY <1>1, <2>2
<1>4. q = 0
  BY <1>1, <1>2, <1>3
<1>5. x = r
  BY <1>1, <1>4
<1> QED
  BY <1>5 DEF r

\* What a report says of an account: what is missing from the first number to
\* the highest, less what came from before the first (RrSlot::report).
LEMMA AccountsAreExact ==
  ASSUME NEW slot, NEW N \in SUBSET Nat, IsFiniteSet(N), NEW f \in N, NEW h \in N, f <= h, h < Word,
         \A n \in N : n <= h, Accounts(slot, f, h, N)
  PROVE  /\ Expected(slot) = h - f + 1
         /\ ~Underflows(slot)
         /\ ReportBlock(slot).lost = Cardinality((f .. h) \ N) - Cardinality({n \in N : n < f})
<1> DEFINE I == f .. h
           E == {n \in N : n < f}
<1>1. Expected(slot) = h - f + 1
  <2>1. h - f \in Nat /\ h - f < Word
    BY FeedbackAssumption
  <2>2. (h - f) % Word = h - f
    BY <2>1, SmallCount
  <2> QED
    BY <2>2 DEF Expected, Accounts
<1>2. ~Underflows(slot)
  BY <1>1 DEF Underflows, Accounts, Slot
<1>3. ReportBlock(slot).lost = h - f + 1 - Cardinality(N)
  <2>1. ReportBlock(slot).lost = Expected(slot) - slot.received
    BY DEF ReportBlock
  <2>2. slot.received = Cardinality(N)
    BY DEF Accounts
  <2>3. Cardinality(N) \in Nat /\ h \in Nat /\ f \in Nat
    BY FS_CardinalityType
  <2> QED
    BY ONLY <1>1, <2>1, <2>2, <2>3
<1>4. IsFiniteSet(I) /\ Cardinality(I) = h - f + 1
  BY FS_Interval
<1>5. IsFiniteSet(E) /\ IsFiniteSet(N \cap I)
  <2>1. E \in SUBSET N
    OBVIOUS
  <2> QED
    BY <2>1, FS_Subset, FS_Intersection
<1>6. Cardinality(I \ N) = Cardinality(I) - Cardinality(I \cap N)
  BY <1>4, FS_Difference
<1>7. N = E \cup (I \cap N) /\ E \cap (I \cap N) = {}
  <2>1. f \in Nat /\ \A n \in N : n \in Nat /\ n <= h
    OBVIOUS
  <2>2. \A n \in N : n \in E <=> n < f
    OBVIOUS
  <2>3. \A n \in N : n \in I <=> ~(n < f)
    BY <2>1
  <2>4. E \subseteq N
    OBVIOUS
  <2> HIDE DEF E, I
  <2> QED
    BY <2>2, <2>3, <2>4
<1>8. Cardinality(E \cup (I \cap N)) = Cardinality(E) + Cardinality(I \cap N) - Cardinality(E \cap (I \cap N))
  <2>1. I \cap N = N \cap I
    OBVIOUS
  <2> HIDE DEF E, I
  <2> QED
    BY <1>5, <2>1, FS_Union
<1>9. Cardinality(E \cap (I \cap N)) = 0
  BY <1>7, FS_EmptySet
<1>10. /\ Cardinality(E) \in Nat /\ Cardinality(I \cap N) \in Nat
       /\ Cardinality(I \ N) \in Int /\ Cardinality(N) \in Nat
  <2>1. I \cap N = N \cap I
    OBVIOUS
  <2>2. IsFiniteSet(I \ N)
    BY <1>4, FS_Difference
  <2> HIDE DEF E, I
  <2>3. Cardinality(E) \in Nat
    BY <1>5, FS_CardinalityType
  <2>4. Cardinality(I \cap N) \in Nat
    BY <1>5, <2>1, FS_CardinalityType
  <2>5. Cardinality(I \ N) \in Nat
    BY <2>2, FS_CardinalityType
  <2>6. Cardinality(N) \in Nat
    BY FS_CardinalityType
  <2> QED
    BY <2>3, <2>4, <2>5, <2>6
<1> HIDE DEF E, I
<1>11. h - f + 1 - Cardinality(N) = Cardinality(I \ N) - Cardinality(E)
  <2>1. Cardinality(N) = Cardinality(E \cup (I \cap N))
    BY <1>7, Zenon
  <2>2. Cardinality(I) = h - f + 1
    BY <1>4
  <2> QED
    BY ONLY <1>6, <1>8, <1>9, <1>10, <2>1, <2>2
<1> QED
  BY <1>1, <1>2, <1>3, <1>11 DEF E, I

-----------------------------------------------------------------------------
(* The numbers of a browser *)

\* A browser numbers the packets of a source upwards: none has the number of
\* another.
NumbersRise ==
  /\ DOMAIN newest = Ends /\ DOMAIN inOrder = Ends /\ DOMAIN newest["client"] = Ssrcs
  /\ \A s \in Ssrcs : newest["client"][s] \in Nat \cup {NoIndex}
  /\ \A p \in wire : p.key = TxKey("client", "rtp") =>
       /\ p.ssrc \in Ssrcs /\ p.num \in Nat /\ p.seq = p.num % SeqSpace
       /\ p.num <= newest["client"][p.ssrc]
       /\ \A q \in wire : q.key = p.key /\ q.ssrc = p.ssrc /\ q.num = p.num => q = p

\* A sealed packet of another sender or label.
LEMMA OthersKeepNumbers ==
  ASSUME NumbersRise, newest'["client"] = newest["client"],
         DOMAIN newest' = Ends, DOMAIN inOrder' = Ends,
         \/ wire' = wire
         \/ \E p : wire' = wire \cup {p} /\ p.key # TxKey("client", "rtp")
  PROVE  NumbersRise'
BY DEF NumbersRise

LEMMA NumbersStep ==
  ASSUME NumbersRise, [LegNext]_legVars
  PROVE  NumbersRise'
<1>0. "client" \in Ends /\ "server" \in Ends
  BY DEF Ends
<1>1. CASE QuietStep
  <2>1. newest' = newest /\ inOrder' = inOrder
    BY <1>1 DEF QuietStep
  <2>2. ASSUME NEW e \in Ends, NEW s \in AllSsrcs, EncryptRtcp(e, s)
        PROVE  \/ wire' = wire
               \/ \E p : wire' = wire \cup {p} /\ p.key # TxKey("client", "rtp")
    <3> DEFINE p == Seal(e, "rtcp", s, 0, StreamOf(tx[e], s).next)
    <3>1. p.key = TxKey(e, "rtcp") /\ p.key # TxKey("client", "rtp")
      BY DEF Seal, TxKey
    <3>2. wire' = wire \/ wire' = wire \cup {p}
      BY <2>2 DEF EncryptRtcp
    <3> HIDE DEF p
    <3> QED
      BY <3>1, <3>2
  <2>3. \/ wire' = wire
        \/ \E p : wire' = wire \cup {p} /\ p.key # TxKey("client", "rtp")
    BY <1>1, <2>2 DEF QuietStep
  <2> QED
    BY <2>1, <2>3, OthersKeepNumbers DEF NumbersRise
<1>2. ASSUME NEW s \in Ssrcs, SendRtp("server", s)
      PROVE  NumbersRise'
  <2>1. PICK n \in Numbers("server", s) :
               /\ newest' = [newest EXCEPT !["server"][s] = IF n > @ THEN n ELSE @]
               /\ inOrder' = [inOrder EXCEPT !["server"] = @ /\ n > newest["server"][s]]
               /\ EncryptRtp("server", s, n)
    BY <1>2 DEF SendRtp
  <2>2. DOMAIN newest' = Ends /\ DOMAIN inOrder' = Ends /\ newest'["client"] = newest["client"]
    BY <1>0, <2>1 DEF NumbersRise
  <2> DEFINE p == Seal("server", "rtp", s, n, SendIndex(StreamOf(tx["server"], s).rtp, n % SeqSpace))
  <2>3. p.key # TxKey("client", "rtp")
    BY DEF Seal, TxKey
  <2>4. wire' = wire \/ wire' = wire \cup {p}
    BY <2>1 DEF EncryptRtp
  <2> HIDE DEF p
  <2> QED
    BY <2>2, <2>3, <2>4, OthersKeepNumbers
<1>3. ASSUME NEW s \in Ssrcs, SendRtp("client", s), inOrder'["client"]
      PROVE  NumbersRise'
  <2>1. PICK n \in Numbers("client", s) :
               /\ newest' = [newest EXCEPT !["client"][s] = IF n > @ THEN n ELSE @]
               /\ inOrder' = [inOrder EXCEPT !["client"] = @ /\ n > newest["client"][s]]
               /\ EncryptRtp("client", s, n)
    BY <1>3 DEF SendRtp
  <2>2. n > newest["client"][s]
    BY <1>0, <1>3, <2>1 DEF NumbersRise
  <2>3. n \in Nat
    BY SrtpAssumption DEF Numbers, NumbersRise
  <2>4. /\ DOMAIN newest' = Ends /\ DOMAIN inOrder' = Ends /\ DOMAIN newest'["client"] = Ssrcs
        /\ newest'["client"][s] = n
        /\ \A x \in Ssrcs : x # s => newest'["client"][x] = newest["client"][x]
    BY <1>0, <2>1, <2>2 DEF NumbersRise
  <2> DEFINE p == Seal("client", "rtp", s, n, SendIndex(StreamOf(tx["client"], s).rtp, n % SeqSpace))
  <2>5. p.key = TxKey("client", "rtp") /\ p.ssrc = s /\ p.num = n /\ p.seq = n % SeqSpace
    BY DEF Seal
  <2>6. wire' = wire \/ wire' = wire \cup {p}
    BY <2>1 DEF EncryptRtp
  <2> HIDE DEF p
  <2>7. \A x \in Ssrcs : newest["client"][x] \in Nat \cup {NoIndex}
    BY DEF NumbersRise
  <2>8. \A x \in Ssrcs : newest["client"][x] <= newest'["client"][x]
                         /\ newest'["client"][x] \in Nat \cup {NoIndex}
    BY <2>2, <2>3, <2>4, <2>7 DEF NoIndex
  <2>9. \A q \in wire : q.key = TxKey("client", "rtp") =>
          /\ q.ssrc \in Ssrcs /\ q.num \in Nat /\ q.seq = q.num % SeqSpace
          /\ q.num <= newest["client"][q.ssrc]
          /\ \A r \in wire : r.key = q.key /\ r.ssrc = q.ssrc /\ r.num = q.num => r = q
    BY DEF NumbersRise
  <2>10. \A q \in wire : q.key = TxKey("client", "rtp") /\ q.ssrc = s => q.num < n
    BY <2>2, <2>3, <2>7, <2>9 DEF NoIndex
  <2>11. ASSUME NEW q \in wire', q.key = TxKey("client", "rtp")
         PROVE  /\ q.ssrc \in Ssrcs /\ q.num \in Nat /\ q.seq = q.num % SeqSpace
                /\ q.num <= newest'["client"][q.ssrc]
    <3>1. CASE q \in wire
      <4>1. q.ssrc \in Ssrcs /\ q.num \in Nat /\ q.seq = q.num % SeqSpace
            /\ q.num <= newest["client"][q.ssrc]
        BY <2>9, <2>11, <3>1
      <4>2. newest["client"][q.ssrc] \in Int /\ newest'["client"][q.ssrc] \in Int
            /\ newest["client"][q.ssrc] <= newest'["client"][q.ssrc]
        BY <2>7, <2>8, <4>1 DEF NoIndex
      <4> QED
        BY <4>1, <4>2
    <3>2. CASE q = p
      BY <2>3, <2>4, <2>5, <3>2
    <3> QED
      BY <2>6, <2>11, <3>1, <3>2
  <2>12. ASSUME NEW q \in wire', q.key = TxKey("client", "rtp"),
                NEW r \in wire', r.key = q.key, r.ssrc = q.ssrc, r.num = q.num
         PROVE  r = q
    <3>1. CASE q \in wire /\ r \in wire
      BY <2>9, <2>12, <3>1
    <3>2. \A x \in wire : x.key = TxKey("client", "rtp") /\ x.ssrc = s => x.num # n
      BY <2>3, <2>9, <2>10
    <3>3. CASE q = p \/ r = p
      BY <2>5, <2>6, <2>12, <3>2, <3>3
    <3> QED
      BY <2>6, <3>1, <3>3
  <2> QED
    BY <2>4, <2>8, <2>11, <2>12 DEF NumbersRise
<1> QED
  BY <1>1, <1>2, <1>3, LegStepNumbers

-----------------------------------------------------------------------------
(* The packets that arrived *)

\* What arrived was opened, and nth counts it.
ArrivalsOK ==
  /\ IsFiniteSet(arrived)
  /\ now \in Nat
  /\ \A a \in arrived :
       /\ a.num \in Nat /\ a.nth \in Nat /\ a.nth <= Cardinality(arrived)
       /\ \E p \in opened["server"] :
            p \in wire /\ p.key = TxKey("client", "rtp") /\ p.ssrc = a.ssrc /\ p.num = a.num
  /\ \A a, b \in arrived : a.nth = b.nth => a = b

Sources == {a.ssrc : a \in arrived}
FewNumbers == \A a \in arrived : a.num < Word

\* The packets a report counts: none recorded twice, a little late or far ahead,
\* and no more sources than slots.
Plain == ~recounted /\ ~strayed /\ Cardinality(Sources) <= MaxSlots

First(a, s) == a.ssrc = s /\ \A b \in arrived : b.ssrc = s => a.nth <= b.nth
Highest(h, s) == h \in NumsOf(s) /\ \A n \in NumsOf(s) : n <= h

\* The slot of a source counts what arrived of it.
SourceCounted(s) ==
  \E a \in arrived, h \in NumsOf(s) :
    First(a, s) /\ Highest(h, s) /\ Accounts(slots[s], a.num, h, NumsOf(s))

SlotsCount ==
  /\ IsFiniteSet(Sources)
  /\ \A s \in Sources : IsFiniteSet(NumsOf(s))
  /\ Plain => DOMAIN slots = Sources /\ \A s \in Sources : SourceCounted(s)

\* A packet that arrives is recorded once (on_datagram); other steps record none.
Arrives(p) ==
  /\ ReceiveRtp(p) /\ RtpVerdict("server", p) = "Ok"
  /\ OnRtp(p)

NoneArrives ==
  /\ UNCHANGED <<arrived, recounted, strayed>>
  /\ \/ UNCHANGED slots /\ now' \in {now, now + 1}
     \/ UNCHANGED now /\ \E s \in AllSsrcs : slots' = LearnSenderReport(slots, s, 1)
     \/ UNCHANGED now /\ slots' = [s \in DOMAIN slots |-> Reported(slots[s])]

LEMMA LegStepArrives ==
  ASSUME ContextsInv, [LegNext]_legVars
  PROVE  NoneArrives \/ \E p \in wire : Arrives(p)
<1>1. CASE ByBrowser \/ ByShard
  BY <1>1 DEF ByBrowser, ByShard, feedbackVars, historyVars, NoneArrives
<1>2. ASSUME NEW p \in wire \cup Forged, ReceiveRtp(p)
      PROVE  NoneArrives \/ \E q \in wire : Arrives(q)
  <2>1. CASE RtpVerdict("server", p) = "Ok"
    <3>1. p.key = RxKey("server", "rtp")
      BY <2>1 DEF RtpVerdict, Verdict
    <3>2. p \in wire
      BY <3>1, AuthenticIsSealed DEF Labels, Ends
    <3>3. Arrives(p)
      BY <1>2, <2>1 DEF ReceiveRtp, Arrives
    <3> QED
      BY <3>2, <3>3
  <2>2. CASE RtpVerdict("server", p) # "Ok"
    BY <1>2, <2>2 DEF ReceiveRtp, feedbackVars, historyVars, NoneArrives
  <2> QED
    BY <2>1, <2>2
<1>3. ASSUME NEW p \in wire \cup Forged, ReceiveRtcp(p)
      PROVE  NoneArrives
  <2>1. UNCHANGED <<arrived, recounted, strayed, now>>
    BY <1>3 DEF ReceiveRtcp, historyVars
  <2>2. CASE leg = "pub" /\ RtcpVerdict("server", p) = "Ok"
    <3>1. p.key = RxKey("server", "rtcp")
      BY <2>2 DEF RtcpVerdict, Verdict
    <3>2. p \in wire
      BY <3>1, AuthenticIsSealed DEF Labels, Ends
    <3>3. p.ssrc \in AllSsrcs
      BY <3>2 DEF ContextsInv, WireOK
    <3>4. slots' = LearnSenderReport(slots, p.ssrc, 1)
      BY <1>3, <2>2 DEF ReceiveRtcp
    <3> QED
      BY <2>1, <3>3, <3>4 DEF NoneArrives
  <2>3. CASE ~(leg = "pub" /\ RtcpVerdict("server", p) = "Ok")
    BY <1>3, <2>1, <2>3 DEF ReceiveRtcp, NoneArrives
  <2> QED
    BY <2>2, <2>3
<1>4. CASE Pass
  BY <1>4 DEF Pass, historyVars, NoneArrives
<1>5. CASE FlushTwcc
  BY <1>5 DEF FlushTwcc, NoneArrives
<1>6. CASE SendReport
  BY <1>6 DEF SendReport, SendRr, historyVars, NoneArrives
<1>7. CASE UNCHANGED legVars
  BY <1>7 DEF legVars, feedbackVars, historyVars, NoneArrives
<1> QED
  BY <1>1, <1>2, <1>3, <1>4, <1>5, <1>6, <1>7 DEF LegNext

\* Fresh arrivals: a packet is new to its source (AcceptedOnce).
LEMMA ArrivalIsNew ==
  ASSUME ContextsInv, ContextsInv', NumbersRise, ArrivalsOK, NEW p \in wire, Arrives(p)
  PROVE  /\ p.key = TxKey("client", "rtp") /\ p.ssrc \in Ssrcs
         /\ p.num \in Nat /\ p.seq = p.num % SeqSpace
         /\ p.num \notin NumsOf(p.ssrc)
         /\ opened'["server"] = opened["server"] \cup {p}
<1>0. "server" \in Ends /\ Other("server") = "client"
  BY DEF Ends, Other
<1>1. p.key = TxKey("client", "rtp")
  BY <1>0 DEF Arrives, RtpVerdict, Verdict, RxKey
<1>2. Accept("server", p)
  BY DEF Arrives, ReceiveRtp, OpenRtp
<1>3. opened'["server"] = opened["server"] \cup {p}
  BY <1>0, <1>2 DEF Accept, ContextsInv, TablesOK
<1>4. p \notin opened["server"]
  <2>1. reopened'["server"] = reopened["server"] \cup ({p} \cap opened["server"])
    BY <1>0, <1>2 DEF Accept, ContextsInv, TablesOK
  <2>2. reopened'["server"] = {}
    BY <1>0 DEF ContextsInv, AcceptedOnce
  <2> QED
    BY <2>1, <2>2
<1>5. ASSUME p.num \in NumsOf(p.ssrc)
      PROVE  FALSE
  <2>1. PICK a \in arrived : a.ssrc = p.ssrc /\ a.num = p.num
    BY <1>5 DEF NumsOf
  <2>2. PICK q \in opened["server"] : q \in wire /\ q.key = TxKey("client", "rtp")
                                      /\ q.ssrc = a.ssrc /\ q.num = a.num
    BY DEF ArrivalsOK
  <2>3. q = p
    BY <1>1, <2>1, <2>2 DEF NumbersRise
  <2> QED
    BY <1>4, <2>2, <2>3
<1> QED
  BY <1>1, <1>3, <1>5 DEF NumbersRise

\* What is opened stays opened.
LEMMA OpenedGrows ==
  ASSUME TablesOK, OpenStep
  PROVE  opened["server"] \subseteq opened'["server"]
<1>1. "server" \in Ends
  BY DEF Ends
<1>2. ASSUME NEW e \in Ends, NEW p, Accept(e, p)
      PROVE  opened["server"] \subseteq opened'["server"]
  BY <1>1, <1>2 DEF Accept, TablesOK
<1> QED
  BY <1>2 DEF OpenStep, OpenRtp, DecryptRtcp

\* What one arrival adds to the history.
LEMMA ArrivalAdds ==
  ASSUME ArrivalsOK, NEW p, OnRtp(p)
  PROVE  \E a : /\ arrived' = arrived \cup {a}
                /\ a.ssrc = p.ssrc /\ a.num = p.num /\ a.nth = Cardinality(arrived) + 1
<1> DEFINE a == [id |-> p.id, ssrc |-> p.ssrc, num |-> p.num, tseq |-> TwccSeq(p),
                 at |-> now, nth |-> Cardinality(arrived) + 1,
                 rising |-> \A b \in arrived : b.id < p.id]
<1>1. arrived' = arrived \cup {a}
  BY DEF OnRtp
<1>2. a.ssrc = p.ssrc /\ a.num = p.num /\ a.nth = Cardinality(arrived) + 1
  OBVIOUS
<1> HIDE DEF a
<1> QED
  BY <1>1, <1>2

LEMMA ArrivalsStep ==
  ASSUME ContextsInv, ContextsInv', NumbersRise, ArrivalsOK, [LegNext]_legVars
  PROVE  ArrivalsOK'
<1>1. opened["server"] \subseteq opened'["server"] /\ wire \subseteq wire'
  <2>1. SealStep /\ OpenStep /\ SealInv
    BY LegStepSplits DEF ContextsInv, SealInv
  <2> QED
    BY <2>1, OpenedGrows, SealStepKeeps DEF ContextsInv
<1>2. now' \in Nat
  BY LegStepArrives DEF NoneArrives, Arrives, OnRtp, ArrivalsOK, LearnSenderReport
<1>3. CASE NoneArrives
  BY <1>1, <1>2, <1>3 DEF NoneArrives, ArrivalsOK
<1>4. ASSUME NEW p \in wire, Arrives(p)
      PROVE  ArrivalsOK'
  <2>1. PICK a : /\ arrived' = arrived \cup {a}
                 /\ a.ssrc = p.ssrc /\ a.num = p.num /\ a.nth = Cardinality(arrived) + 1
    BY <1>4, ArrivalAdds DEF Arrives
  <2>2. /\ p.key = TxKey("client", "rtp") /\ p.num \in Nat
        /\ opened'["server"] = opened["server"] \cup {p}
    BY <1>4, ArrivalIsNew
  <2>3. IsFiniteSet(arrived) /\ Cardinality(arrived) \in Nat
    BY FS_CardinalityType DEF ArrivalsOK
  <2>4. a \notin arrived
    <3>1. \A b \in arrived : b.nth \in Nat /\ b.nth <= Cardinality(arrived)
      BY DEF ArrivalsOK
    <3> QED
      BY <2>1, <2>3, <3>1
  <2>5. IsFiniteSet(arrived') /\ Cardinality(arrived') = Cardinality(arrived) + 1
    BY <2>1, <2>3, <2>4, FS_AddElement
  <2>6. \A b \in arrived : b.nth \in Nat /\ b.nth <= Cardinality(arrived)
    BY DEF ArrivalsOK
  <2>7. \A b \in arrived' : b.nth \in Nat /\ b.nth <= Cardinality(arrived')
    BY <2>1, <2>3, <2>5, <2>6
  <2>8. \A b, c \in arrived' : b.nth = c.nth => b = c
    <3>1. \A b \in arrived : b.nth # a.nth
      BY <2>1, <2>3, <2>6
    <3>2. \A b, c \in arrived : b.nth = c.nth => b = c
      BY DEF ArrivalsOK
    <3> QED
      BY <2>1, <3>1, <3>2
  <2>9. \A b \in arrived' : b.num \in Nat
          /\ \E q \in opened'["server"] :
               q \in wire' /\ q.key = TxKey("client", "rtp") /\ q.ssrc = b.ssrc /\ q.num = b.num
    <3>1. \A b \in arrived : b.num \in Nat
          /\ \E q \in opened["server"] :
               q \in wire /\ q.key = TxKey("client", "rtp") /\ q.ssrc = b.ssrc /\ q.num = b.num
      BY DEF ArrivalsOK
    <3> QED
      BY <1>1, <2>1, <2>2, <3>1
  <2> QED
    BY <1>2, <2>5, <2>7, <2>8, <2>9 DEF ArrivalsOK
<1> QED
  BY <1>3, <1>4, LegStepArrives

-----------------------------------------------------------------------------
(* The slots *)

\* Steps that read or mark the slots keep what they count (send_rr, on_rtcp).
LEMMA KeptAccounts ==
  ASSUME NEW slot, NEW f \in Nat, NEW h \in Nat, f <= h, NEW N, Accounts(slot, f, h, N)
  PROVE  /\ Accounts(Reported(slot), f, h, N)
         /\ Accounts([slot EXCEPT !.lsr = 1], f, h, N)
<1>1. Accounts([slot EXCEPT !.lsr = 1], f, h, N)
  BY DEF Accounts, Slot
<1>2. Expected(slot) \in Nat /\ Expected(slot) <= h - f + 1
  <2> DEFINE x == h - f
  <2>0. x \in Nat /\ Expected(slot) = (x % Word) + 1
    BY DEF Expected, Accounts
  <2> HIDE DEF x
  <2>1. x % Word \in Nat /\ x % Word < Word
    BY <2>0, FeedbackAssumption
  <2>2. x % Word <= x
    <3>1. CASE x < Word
      BY <2>0, <3>1, SmallCount
    <3>2. CASE ~(x < Word)
      BY <2>0, <2>1, <3>2, FeedbackAssumption
    <3> QED
      BY <3>1, <3>2
  <2>3. Expected(slot) \in Nat /\ Expected(slot) <= x + 1
    BY <2>0, <2>1, <2>2
  <2> QED
    BY <2>3 DEF x
<1>3. Accounts(Reported(slot), f, h, N)
  <2> DEFINE e == Expected(slot)
             new == Reported(slot)
  <2>1. new = [slot EXCEPT !.expPrior = e, !.recPrior = slot.received]
    BY DEF Reported, Accounts, Slot
  <2>2. slot \in Slot /\ e \in Nat /\ slot.received \in Nat
    BY <1>2 DEF Accounts, Slot
  <2> HIDE DEF e, new
  <2>3. /\ new \in Slot /\ new.base = slot.base /\ new.max = slot.max /\ new.cycles = slot.cycles
        /\ new.received = slot.received /\ new.expPrior = e /\ new.recPrior = slot.received
    BY ONLY <2>1, <2>2 DEF Slot
  <2>4. e <= h - f + 1 /\ slot.received <= slot.received
    BY <1>2, <2>2 DEF e
  <2>5. Accounts(new, f, h, N)
    BY <2>3, <2>4 DEF Accounts
  <2> QED
    BY <2>5 DEF new
<1> QED
  BY <1>1, <1>3

\* A source's slot that no arrival changes.
LEMMA QuietSlots ==
  ASSUME ArrivalsOK, SlotsCount, NoneArrives
  PROVE  SlotsCount'
<1>1. /\ arrived' = arrived /\ recounted' = recounted /\ strayed' = strayed
  BY DEF NoneArrives
<1>2. Sources' = Sources /\ (Plain' <=> Plain) /\ \A s : NumsOf(s)' = NumsOf(s)
  BY <1>1 DEF Sources, Plain, NumsOf
<1>3. ASSUME Plain
      PROVE  DOMAIN slots' = DOMAIN slots
             /\ \A s \in DOMAIN slots : \/ slots'[s] = slots[s]
                                        \/ slots'[s] = Reported(slots[s])
                                        \/ slots'[s] = [slots[s] EXCEPT !.lsr = 1]
  BY DEF NoneArrives, LearnSenderReport
<1>4. ASSUME Plain, NEW s \in Sources
      PROVE  SourceCounted(s)'
  <2>1. s \in DOMAIN slots /\ SourceCounted(s)
    BY <1>4 DEF SlotsCount
  <2>2. PICK a \in arrived, h \in NumsOf(s) :
          First(a, s) /\ Highest(h, s) /\ Accounts(slots[s], a.num, h, NumsOf(s))
    BY <2>1 DEF SourceCounted
  <2>3. a.num \in Nat /\ h \in Nat /\ a.num <= h
    BY <2>2 DEF ArrivalsOK, NumsOf, First, Highest
  <2>4. Accounts(slots'[s], a.num, h, NumsOf(s))
    <3> DEFINE slot == slots[s]
               f == a.num
               N == NumsOf(s)
    <3>1. \/ slots'[s] = slot \/ slots'[s] = Reported(slot) \/ slots'[s] = [slot EXCEPT !.lsr = 1]
      BY <1>3, <1>4, <2>1
    <3>2. f \in Nat /\ h \in Nat /\ f <= h /\ Accounts(slot, f, h, N)
      BY <2>2, <2>3
    <3> HIDE DEF slot, f, N
    <3>3. Accounts(Reported(slot), f, h, N) /\ Accounts([slot EXCEPT !.lsr = 1], f, h, N)
      BY ONLY <3>2, KeptAccounts
    <3>4. Accounts(slots'[s], f, h, N)
      BY <3>1, <3>2, <3>3
    <3> QED
      BY <3>4 DEF f, N
  <2>5. First(a, s)' /\ Highest(h, s)'
    BY <1>1, <1>2, <2>2 DEF First, Highest
  <2> QED
    BY <1>1, <1>2, <2>2, <2>4, <2>5 DEF SourceCounted, Accounts
<1> QED
  BY <1>2, <1>3, <1>4 DEF SlotsCount

\* An arrival is counted in its source's slot, and no source is moved out for
\* another (RecvFeedback::on_rtp).
LEMMA ArrivalSlots ==
  ASSUME ContextsInv, ContextsInv', NumbersRise, ArrivalsOK, SlotsCount, NEW p \in wire, Arrives(p)
  PROVE  SlotsCount'
<1> DEFINE z == p.ssrc
           n == p.num
<1>1. n \in Nat /\ p.seq = n % SeqSpace /\ n \notin NumsOf(z)
  BY ArrivalIsNew
<1>2. PICK a : /\ arrived' = arrived \cup {a}
               /\ a.ssrc = z /\ a.num = n /\ a.nth = Cardinality(arrived) + 1
  BY ArrivalAdds DEF Arrives
<1>3. IsFiniteSet(arrived) /\ Cardinality(arrived) \in Nat /\ now \in Nat
  BY FS_CardinalityType DEF ArrivalsOK
<1>4. Sources' = Sources \cup {z}
  BY <1>2 DEF Sources
<1>5. \A s : NumsOf(s)' = IF s = z THEN NumsOf(s) \cup {n} ELSE NumsOf(s)
  <2> SUFFICES ASSUME NEW s
               PROVE  NumsOf(s)' = IF s = z THEN NumsOf(s) \cup {n} ELSE NumsOf(s)
    OBVIOUS
  <2>1. NumsOf(s)' = {b.num : b \in {c \in arrived \cup {a} : c.ssrc = s}}
    BY <1>2 DEF NumsOf
  <2>2. CASE s = z
    <3>1. {c \in arrived \cup {a} : c.ssrc = s} = {c \in arrived : c.ssrc = s} \cup {a}
      BY <1>2, <2>2
    <3> QED
      BY <1>2, <2>1, <2>2, <3>1 DEF NumsOf
  <2>3. CASE s # z
    <3>1. {c \in arrived \cup {a} : c.ssrc = s} = {c \in arrived : c.ssrc = s}
      BY <1>2, <2>3
    <3> QED
      BY <2>1, <2>3, <3>1 DEF NumsOf
  <2> QED
    BY <2>2, <2>3
<1>6. \A s \in Sources : IsFiniteSet(NumsOf(s))
  BY DEF SlotsCount
<1>7. z \notin Sources => NumsOf(z) = {}
  BY DEF NumsOf, Sources
<1>8. IsFiniteSet(NumsOf(z)) /\ NumsOf(z) \in SUBSET Nat
  <2>1. NumsOf(z) \in SUBSET Nat
    BY DEF NumsOf, ArrivalsOK
  <2> QED
    BY <1>6, <1>7, <2>1, FS_EmptySet
<1>9. IsFiniteSet(Sources') /\ \A s \in Sources' : IsFiniteSet(NumsOf(s)')
  <2>1. IsFiniteSet(Sources \cup {z})
    BY FS_AddElement DEF SlotsCount
  <2>2. IsFiniteSet(NumsOf(z) \cup {n})
    BY <1>8, FS_AddElement
  <2> HIDE DEF z, n
  <2> QED
    BY <1>4, <1>5, <1>6, <2>1, <2>2
<1>10. ASSUME Plain'
       PROVE  DOMAIN slots' = Sources' /\ \A s \in Sources' : SourceCounted(s)'
  <2>1. /\ ~recounted /\ ~strayed
        /\ slots' = CountRtp(slots, z, p.seq)
        /\ \A b \in NewestOf(z) : n - b.num \in StepsCounted
    BY <1>10 DEF Plain, Arrives, OnRtp
  <2>2. Cardinality(Sources) \in Nat
        /\ Cardinality(Sources') = IF z \in Sources THEN Cardinality(Sources) ELSE Cardinality(Sources) + 1
    BY <1>4, FS_AddElement, FS_CardinalityType DEF SlotsCount
  <2>3. Cardinality(Sources') <= MaxSlots
    BY <1>10 DEF Plain
  <2>4. Plain
    BY <2>1, <2>2, <2>3, FeedbackAssumption DEF Plain
  <2>5. DOMAIN slots = Sources /\ \A s \in Sources : SourceCounted(s)
    BY <2>4 DEF SlotsCount
  <2>6. z \in DOMAIN slots \/ Cardinality(DOMAIN slots) < MaxSlots
    BY <2>2, <2>3, <2>5, FeedbackAssumption
  <2>7. /\ DOMAIN slots' = Sources'
        /\ \A s \in Sources : s # z => slots'[s] = slots[s]
        /\ slots'[z] = IF z \in Sources THEN Counted(slots[z], n % SeqSpace) ELSE NewSlot(n % SeqSpace)
    BY <1>1, <1>4, <2>1, <2>5, <2>6 DEF CountRtp
  <2>8. ASSUME NEW s \in Sources, s # z
        PROVE  SourceCounted(s)'
    <3>1. PICK b \in arrived, h \in NumsOf(s) :
            First(b, s) /\ Highest(h, s) /\ Accounts(slots[s], b.num, h, NumsOf(s))
      BY <2>5, <2>8 DEF SourceCounted
    <3>2. NumsOf(s)' = NumsOf(s) /\ slots'[s] = slots[s]
      BY <1>5, <2>7, <2>8
    <3>3. First(b, s)'
      BY <1>2, <2>8, <3>1 DEF First
    <3>4. Highest(h, s)' /\ Accounts(slots[s], b.num, h, NumsOf(s))'
      BY <3>1, <3>2 DEF Highest, Accounts
    <3> QED
      BY <1>2, <3>1, <3>2, <3>3, <3>4 DEF SourceCounted
  <2>9. CASE z \notin Sources
    <3>1. NumsOf(z)' = {n} /\ slots'[z] = NewSlot(n % SeqSpace)
      BY <1>5, <1>7, <2>7, <2>9
    <3>2. Accounts(NewSlot(n % SeqSpace), n, n, {n})
      BY <1>1, <1>3, NewAccounts
    <3>3. \A b \in arrived' : b.ssrc = z => b = a
      BY <1>2, <2>9 DEF Sources
    <3>4. First(a, z)' /\ Highest(n, z)'
      BY <1>1, <1>2, <1>3, <3>1, <3>3 DEF First, Highest
    <3>5. SourceCounted(z)'
      BY <1>2, <3>1, <3>2, <3>4 DEF SourceCounted, Accounts
    <3> QED
      BY <1>4, <2>7, <2>8, <3>5
  <2>10. CASE z \in Sources
    <3>1. PICK b \in arrived, h \in NumsOf(z) :
            First(b, z) /\ Highest(h, z) /\ Accounts(slots[z], b.num, h, NumsOf(z))
      BY <2>5, <2>10 DEF SourceCounted
    <3> DEFINE N == NumsOf(z)
               f == b.num
               k == IF n > h THEN n ELSE h
    <3>2. f \in N /\ h \in N /\ f <= h
      BY <3>1 DEF First, Highest, NumsOf
    <3>3. n - h \in StepsCounted
      <4>1. PICK c \in arrived : c.ssrc = z /\ c.num = h
        BY <3>1 DEF NumsOf
      <4>2. c \in NewestOf(z)
        BY <3>1, <4>1 DEF NewestOf, Highest, NumsOf
      <4> QED
        BY <2>1, <4>1, <4>2
    <3>4. Accounts(Counted(slots[z], n % SeqSpace), f, k, N \cup {n})
      <4> DEFINE slot == slots[z]
      <4>1. Accounts(slot, f, h, N)
        BY <3>1
      <4>2. N \in SUBSET Nat /\ IsFiniteSet(N) /\ n \in Nat \ N
        BY <1>1, <1>8
      <4> HIDE DEF slot, N, f, n
      <4>3. Accounts(Counted(slot, n % SeqSpace), f, IF n > h THEN n ELSE h, N \cup {n})
        BY <1>3, <3>2, <3>3, <4>1, <4>2, CountedAccounts
      <4> QED
        BY <4>3 DEF slot
    <3>5. NumsOf(z)' = N \cup {n} /\ slots'[z] = Counted(slots[z], n % SeqSpace)
      BY <1>5, <2>7, <2>10
    <3>6. First(b, z)'
      <4>1. b.nth \in Nat /\ b.nth <= a.nth
        BY <1>2, <1>3 DEF ArrivalsOK
      <4> QED
        BY <1>2, <3>1, <4>1 DEF First
    <3>7. Highest(k, z)'
      <4>1. \A m \in N : m \in Nat /\ m <= h
        BY <1>8, <3>1 DEF Highest
      <4>2. k \in N \cup {n} /\ \A m \in N \cup {n} : m <= k
        <5> HIDE DEF N, n
        <5> QED
          BY <1>1, <3>2, <4>1
      <4> QED
        BY <3>5, <4>2 DEF Highest
    <3>8. SourceCounted(z)'
      <4>1. b \in arrived' /\ k \in NumsOf(z)'
        BY <1>2, <3>7 DEF Highest
      <4> HIDE DEF N, n, k
      <4> QED
        BY <3>4, <3>5, <3>6, <3>7, <4>1 DEF SourceCounted, Accounts, f
    <3> QED
      BY <1>4, <2>7, <2>8, <2>10, <3>8
  <2> QED
    BY <2>9, <2>10
<1> QED
  BY <1>9, <1>10 DEF SlotsCount

\* What the counters hold is what a report needs.
LEMMA CountsAreExact ==
  ASSUME ArrivalsOK, SlotsCount, FewNumbers
  PROVE  ReportsAreExact
<1> SUFFICES ASSUME Plain, NEW s \in DOMAIN slots
             PROVE  LET first   == FirstOf(s)
                        missing == (first .. HighestOf(NumsOf(s))) \ NumsOf(s)
                        early   == {n \in NumsOf(s) : n < first}
                    IN  /\ ~Underflows(slots[s])
                        /\ ReportBlock(slots[s]).lost = Cardinality(missing) - Cardinality(early)
  BY DEF ReportsAreExact, Plain, Sources
<1>1. s \in Sources /\ SourceCounted(s) /\ IsFiniteSet(NumsOf(s))
  BY DEF SlotsCount
<1>2. PICK a \in arrived, h \in NumsOf(s) :
        First(a, s) /\ Highest(h, s) /\ Accounts(slots[s], a.num, h, NumsOf(s))
  BY <1>1 DEF SourceCounted
<1>3. NumsOf(s) \in SUBSET Nat /\ a.num \in NumsOf(s) /\ a.num <= h /\ \A n \in NumsOf(s) : n <= h
  BY <1>2 DEF ArrivalsOK, NumsOf, First, Highest
<1>4. h < Word
  BY <1>2 DEF NumsOf, FewNumbers
<1>5. FirstOf(s) = a.num
  <2> DEFINE b == CHOOSE b \in arrived : b.ssrc = s /\ \A c \in arrived : c.ssrc = s => b.nth <= c.nth
  <2>1. b \in arrived /\ b.ssrc = s /\ \A c \in arrived : c.ssrc = s => b.nth <= c.nth
    BY <1>2 DEF First
  <2>2. FirstOf(s) = b.num
    BY DEF FirstOf
  <2> HIDE DEF b
  <2>3. b.nth <= a.nth /\ a.nth <= b.nth /\ a.nth \in Nat /\ b.nth \in Nat
    BY <1>2, <2>1 DEF First, ArrivalsOK
  <2>4. a = b
    BY <1>2, <2>1, <2>3 DEF ArrivalsOK
  <2> QED
    BY <2>2, <2>4
<1>6. HighestOf(NumsOf(s)) = h
  <2> DEFINE k == CHOOSE k \in NumsOf(s) : \A n \in NumsOf(s) : k >= n
  <2>1. k \in NumsOf(s) /\ \A n \in NumsOf(s) : k >= n
    BY <1>3
  <2>2. HighestOf(NumsOf(s)) = k
    BY DEF HighestOf
  <2> HIDE DEF k
  <2> QED
    BY <1>3, <2>1, <2>2
<1> DEFINE slot == slots[s]
           N == NumsOf(s)
           f == a.num
<1>7. Accounts(slot, f, h, N) /\ N \in SUBSET Nat /\ IsFiniteSet(N) /\ f \in N /\ h \in N /\ f <= h
      /\ \A n \in N : n <= h
  BY <1>1, <1>2, <1>3
<1> HIDE DEF slot, N, f
<1>8. ~Underflows(slot) /\ ReportBlock(slot).lost = Cardinality((f .. h) \ N) - Cardinality({n \in N : n < f})
  BY <1>4, <1>7, AccountsAreExact
<1> QED
  BY <1>5, <1>6, <1>8 DEF slot, N, f

\* A receiver report counts exactly what is missing of a source, from its first
\* packet to its newest, whatever is lost or reordered, across every wrap of its
\* sequence numbers and any number of reports, while its numbers are fewer than
\* the values of the report's counters (RrSlot::record, RrSlot::report,
\* RecvFeedback::on_rtp).
THEOREM ReportsAreExactHolds == LegSpec => [](FewNumbers => ReportsAreExact)
<1>1. LegInit => NumbersRise /\ ArrivalsOK /\ SlotsCount
  <2> SUFFICES ASSUME LegInit PROVE NumbersRise /\ ArrivalsOK /\ SlotsCount
    OBVIOUS
  <2>1. NumbersRise
    BY DEF LegInit, SrtpInit, NumbersRise, Ends
  <2>2. arrived = {} /\ now = 0 /\ DOMAIN slots = {}
    BY DEF LegInit, FeedbackInit
  <2>3. ArrivalsOK
    BY <2>2, FS_EmptySet DEF ArrivalsOK
  <2>4. Sources = {}
    BY <2>2 DEF Sources
  <2> QED
    BY <2>1, <2>2, <2>3, <2>4, FS_EmptySet DEF SlotsCount
<1>2. /\ ContextsInv /\ ContextsInv' /\ NumbersRise /\ ArrivalsOK /\ SlotsCount
      /\ [LegNext]_legVars
      => NumbersRise' /\ ArrivalsOK' /\ SlotsCount'
  BY NumbersStep, ArrivalsStep, LegStepArrives, QuietSlots, ArrivalSlots
<1>3. ArrivalsOK /\ SlotsCount => (FewNumbers => ReportsAreExact)
  BY CountsAreExact
<1> QED
  BY <1>1, <1>2, <1>3, ContextsInvariant, PTL DEF LegSpec

-----------------------------------------------------------------------------
(* Induction *)

LEMMA LeastNatural ==
  ASSUME NEW S \in SUBSET Nat, S # {}
  PROVE  \E m \in S : \A n \in S : m <= n
<1> DEFINE Below == {0 .. n : n \in S}
           R == StrictSubsetOrdering(Nat)
<1>1. IsWellFoundedOn(R, FiniteSubsetsOf(Nat))
  BY FS_StrictSubsetOrderingWellFounded
<1>2. Below \subseteq FiniteSubsetsOf(Nat) /\ Below # {}
  <2>1. ASSUME NEW n \in S PROVE IsFiniteSet(0 .. n) /\ 0 .. n \in SUBSET Nat
    BY FS_Interval
  <2> QED
    BY <2>1 DEF FiniteSubsetsOf
<1>3. PICK x \in Below : \A y \in Below : ~(<<y, x>> \in R)
  <2> HIDE DEF Below, R
  <2> QED
    BY <1>1, <1>2, WFMin
<1>4. PICK m \in S : x = 0 .. m
  BY <1>3
<1>5. ASSUME NEW n \in S, n < m PROVE FALSE
  <2>1. <<0 .. n, 0 .. m>> \in R
    BY <1>5 DEF StrictSubsetOrdering
  <2> QED
    BY <1>3, <1>4, <2>1
<1> QED
  BY <1>5

\* A set of naturals with 0 and the successor of each of its elements.
LEMMA SetInduction ==
  ASSUME NEW S \in SUBSET Nat, 0 \in S, \A n \in S : n + 1 \in S
  PROVE  S = Nat
<1> SUFFICES ASSUME Nat \ S # {} PROVE FALSE
  OBVIOUS
<1>1. PICK m \in Nat \ S : \A n \in Nat \ S : m <= n
  BY LeastNatural
<1>2. m # 0 /\ m - 1 \in Nat /\ m - 1 < m
  BY <1>1
<1> QED
  BY <1>1, <1>2

-----------------------------------------------------------------------------
(* Recursion *)

\* f starts as c and goes on, up to m, as G says.
Unfolds(f, c, G, m) == f[0] = c /\ \A n \in 0 .. (m - 1) : f[n + 1] = G[<<n, f[n]>>]

LEMMA UnfoldsOnce ==
  ASSUME NEW c, NEW G, NEW m \in Nat, NEW k \in Nat, NEW f, NEW g,
         Unfolds(f, c, G, m), Unfolds(g, c, G, k)
  PROVE  \A n \in Nat : n <= m /\ n <= k => f[n] = g[n]
<1> DEFINE Done == {n \in Nat : n <= m /\ n <= k => f[n] = g[n]}
<1>1. 0 \in Done
  BY DEF Unfolds
<1>2. ASSUME NEW n \in Done PROVE n + 1 \in Done
  <2> SUFFICES ASSUME n + 1 <= m, n + 1 <= k PROVE f[n + 1] = g[n + 1]
    OBVIOUS
  <2>1. n \in 0 .. (m - 1) /\ n \in 0 .. (k - 1) /\ f[n] = g[n]
    OBVIOUS
  <2> QED
    BY <2>1 DEF Unfolds
<1>3. Done = Nat
  <2> HIDE DEF Done
  <2>1. Done \in SUBSET Nat
    BY DEF Done
  <2> QED
    BY <1>1, <1>2, <2>1, SetInduction
<1> QED
  BY <1>3

LEMMA UnfoldsSomeWay ==
  ASSUME NEW V, NEW c \in V, NEW G \in [Nat \X V -> V]
  PROVE  \A m \in Nat : \E f \in [0 .. m -> V] : Unfolds(f, c, G, m)
<1> DEFINE Done == {m \in Nat : \E f \in [0 .. m -> V] : Unfolds(f, c, G, m)}
<1>1. 0 \in Done
  <2>1. [n \in 0 .. 0 |-> c] \in [0 .. 0 -> V] /\ Unfolds([n \in 0 .. 0 |-> c], c, G, 0)
    BY DEF Unfolds
  <2> QED
    BY <2>1
<1>2. ASSUME NEW m \in Done PROVE m + 1 \in Done
  <2>1. PICK f \in [0 .. m -> V] : Unfolds(f, c, G, m)
    OBVIOUS
  <2> DEFINE g == [n \in 0 .. (m + 1) |-> IF n <= m THEN f[n] ELSE G[<<m, f[m]>>]]
  <2>2. m \in Nat /\ m \in 0 .. m /\ f[m] \in V /\ <<m, f[m]>> \in Nat \X V
    OBVIOUS
  <2>3. G[<<m, f[m]>>] \in V
    BY <2>2
  <2>4. g \in [0 .. (m + 1) -> V]
    <3>1. ASSUME NEW n \in 0 .. (m + 1), n <= m PROVE f[n] \in V
      BY <2>2, <3>1
    <3> QED
      BY <2>3, <3>1
  <2>5. g[m + 1] = G[<<m, f[m]>>] /\ \A n \in 0 .. m : g[n] = f[n]
    BY <2>2
  <2> HIDE DEF g
  <2>6. ASSUME NEW n \in 0 .. ((m + 1) - 1) PROVE g[n + 1] = G[<<n, g[n]>>]
    <3>1. CASE n = m
      BY <2>2, <2>5, <3>1
    <3>2. CASE n # m
      <4>1. n \in 0 .. (m - 1) /\ n \in 0 .. m /\ n + 1 \in 0 .. m
        BY <2>2, <3>2
      <4> QED
        BY <2>1, <2>5, <4>1 DEF Unfolds
    <3> QED
      BY <3>1, <3>2
  <2>7. g[0] = c
    BY <2>1, <2>2, <2>5 DEF Unfolds
  <2>8. Unfolds(g, c, G, m + 1)
    BY <2>6, <2>7 DEF Unfolds
  <2> QED
    BY <2>2, <2>4, <2>8
<1>3. Done = Nat
  <2> HIDE DEF Done
  <2>1. Done \in SUBSET Nat
    BY DEF Done
  <2> QED
    BY <1>1, <1>2, <2>1, SetInduction
<1> QED
  BY <1>3

\* f starts as c and goes on as G says.
Runs(f, c, G) == f[0] = c /\ \A n \in Nat : f[n + 1] = G[<<n, f[n]>>]

\* What is defined by its first value and a step from each to the next exists.
LEMMA Recursion ==
  ASSUME NEW V, NEW c \in V, NEW G \in [Nat \X V -> V]
  PROVE  \E f \in [Nat -> V] : Runs(f, c, G)
<1> DEFINE upto(m) == CHOOSE f \in [0 .. m -> V] : Unfolds(f, c, G, m)
           f == [n \in Nat |-> upto(n)[n]]
<1>1. ASSUME NEW m \in Nat PROVE upto(m) \in [0 .. m -> V] /\ Unfolds(upto(m), c, G, m)
  BY UnfoldsSomeWay
<1> HIDE DEF upto
<1>2. f \in [Nat -> V]
  <2>1. ASSUME NEW n \in Nat PROVE upto(n)[n] \in V
    <3>1. n \in 0 .. n
      OBVIOUS
    <3> QED
      BY <1>1, <3>1
  <2> QED
    BY <2>1
<1>3. f[0] = c
  BY <1>1 DEF Unfolds
<1>4. ASSUME NEW n \in Nat PROVE f[n + 1] = G[<<n, f[n]>>]
  <2>1. upto(n + 1)[n + 1] = G[<<n, upto(n + 1)[n]>>]
    <3>1. n + 1 \in Nat /\ n \in 0 .. ((n + 1) - 1)
      OBVIOUS
    <3> QED
      BY <1>1, <3>1 DEF Unfolds
  <2>2. upto(n + 1)[n] = upto(n)[n]
    <3>1. n + 1 \in Nat /\ n <= n + 1 /\ n <= n
      OBVIOUS
    <3>2. Unfolds(upto(n + 1), c, G, n + 1) /\ Unfolds(upto(n), c, G, n)
      BY <1>1, <3>1
    <3> QED
      BY <3>1, <3>2, UnfoldsOnce
  <2> QED
    BY <2>1, <2>2
<1> QED
  BY <1>2, <1>3, <1>4 DEF Runs

-----------------------------------------------------------------------------
(* Sequences of sequences, end to end *)

LEMMA Concatenation ==
  ASSUME NEW S, NEW a \in Seq(S), NEW b \in Seq(S)
  PROVE  /\ a \o b \in Seq(S) /\ Len(a) \in Nat /\ Len(b) \in Nat /\ Len(a \o b) = Len(a) + Len(b)
         /\ \A j \in 1 .. Len(a) : (a \o b)[j] = a[j]
         /\ \A j \in 1 .. Len(b) : (a \o b)[Len(a) + j] = b[j]
<1>1. /\ a \o b \in Seq(S) /\ Len(a \o b) = Len(a) + Len(b)
      /\ \A i \in 1 .. Len(a) + Len(b) : (a \o b)[i] = IF i <= Len(a) THEN a[i] ELSE b[i - Len(a)]
  BY ConcatProperties
<1>2. Len(a) \in Nat /\ Len(b) \in Nat
  OBVIOUS
<1>3. ASSUME NEW j \in 1 .. Len(b) PROVE (a \o b)[Len(a) + j] = b[j]
  <2>1. Len(a) + j \in 1 .. Len(a) + Len(b) /\ ~(Len(a) + j <= Len(a)) /\ (Len(a) + j) - Len(a) = j
    BY <1>2
  <2> QED
    BY <1>1, <2>1
<1>4. ASSUME NEW j \in 1 .. Len(a) PROVE (a \o b)[j] = a[j]
  <2>1. j \in 1 .. Len(a) + Len(b) /\ j <= Len(a)
    BY <1>2
  <2> QED
    BY <1>1, <2>1
<1> QED
  BY <1>1, <1>2, <1>3, <1>4

EndToEnd(a, b, S) ==
  /\ a \o b \in Seq(S) /\ Len(a \o b) = Len(a) + Len(b)
  /\ \A j \in 1 .. Len(a) : (a \o b)[j] = a[j]
  /\ \A j \in 1 .. Len(b) : (a \o b)[Len(a) + j] = b[j]

LEMMA EndsMeet ==
  ASSUME NEW S, NEW a \in Seq(S), NEW b \in Seq(S)
  PROVE  EndToEnd(a, b, S)
BY Concatenation DEF EndToEnd

Slice(s, m, n) ==
  /\ Len(SubSeq(s, m, n)) = IF m <= n THEN n - m + 1 ELSE 0
  /\ \A k \in 1 .. n - m + 1 : SubSeq(s, m, n)[k] = s[m + k - 1]

LEMMA Slices ==
  ASSUME NEW S, NEW s, NEW m \in Int, NEW n \in Int, \A k \in m .. n : s[k] \in S
  PROVE  Slice(s, m, n)
BY SubSeqProperties DEF Slice

\* g has the first i of n sequences, end to end.
Glues(g, seqs, n) == g[0] = <<>> /\ \A i \in 0 .. (n - 1) : g[i + 1] = g[i] \o seqs[i + 1]

LEMMA GlueExists ==
  ASSUME NEW S, NEW n \in Nat, NEW seqs \in [1 .. n -> Seq(S)]
  PROVE  \E g \in [Nat -> Seq(S)] : Glues(g, seqs, n)
<1> DEFINE G == [x \in Nat \X Seq(S) |-> IF x[1] + 1 \in 1 .. n THEN x[2] \o seqs[x[1] + 1] ELSE x[2]]
<1>1. G \in [Nat \X Seq(S) -> Seq(S)]
  <2>1. ASSUME NEW x \in Nat \X Seq(S), x[1] + 1 \in 1 .. n PROVE x[2] \o seqs[x[1] + 1] \in Seq(S)
    <3>1. x[2] \in Seq(S) /\ seqs[x[1] + 1] \in Seq(S)
      BY <2>1
    <3> QED
      BY <3>1, ConcatProperties
  <2> QED
    BY <2>1
<1>2. PICK g \in [Nat -> Seq(S)] : g[0] = <<>> /\ \A i \in Nat : g[i + 1] = G[<<i, g[i]>>]
  <2>1. PICK e \in Seq(S) : e = <<>>
    <3>1. <<>> \in Seq(S)
      BY EmptySeq
    <3> QED
      BY <3>1, Zenon
  <2> HIDE DEF G
  <2>2. \E g \in [Nat -> Seq(S)] : Runs(g, e, G)
    BY <1>1, Recursion, Zenon
  <2> QED
    BY <2>1, <2>2 DEF Runs
<1>3. ASSUME NEW i \in 0 .. (n - 1) PROVE g[i + 1] = g[i] \o seqs[i + 1]
  <2>1. i \in Nat /\ i + 1 \in 1 .. n /\ <<i, g[i]>> \in Nat \X Seq(S)
    <3> HIDE DEF G
    <3>1. i \in Nat /\ i + 1 \in 1 .. n
      OBVIOUS
    <3>2. g[i] \in Seq(S)
      BY <3>1, Zenon
    <3> QED
      BY <3>1, <3>2, Zenon
  <2>2. G[<<i, g[i]>>] = g[i] \o seqs[i + 1]
    BY <2>1
  <2> QED
    BY <1>2, <2>1, <2>2
<1> QED
  BY <1>2, <1>3 DEF Glues

LEMMA FlattenGlues ==
  ASSUME NEW S, NEW n \in Nat, NEW seqs \in [1 .. n -> Seq(S)], NEW g \in [Nat -> Seq(S)], Glues(g, seqs, n)
  PROVE  FlattenSeq(seqs) = g[n]
<1>0. seqs \in Seq(Seq(S)) /\ Len(seqs) = n
  OBVIOUS
<1>1. CASE n = 0
  <2>1. FlattenSeq(seqs) = seqs
    BY <1>0, <1>1 DEF FlattenSeq
  <2>2. seqs = <<>>
    BY <1>0, <1>1
  <2> QED
    BY <1>1, <2>1, <2>2 DEF Glues
<1>2. CASE n # 0
  <2> DEFINE flatten == CHOOSE f : f = [i \in 1 .. Len(seqs) |-> IF i = 1 THEN seqs[i] ELSE f[i - 1] \o seqs[i]]
             h == [i \in 1 .. n |-> g[i]]
  <2>1. FlattenSeq(seqs) = flatten[Len(seqs)]
    BY <1>0, <1>2, Zenon DEF FlattenSeq
  <2>2. h = [i \in 1 .. n |-> IF i = 1 THEN seqs[i] ELSE h[i - 1] \o seqs[i]]
    <3>1. ASSUME NEW i \in 1 .. n PROVE g[i] = IF i = 1 THEN seqs[i] ELSE h[i - 1] \o seqs[i]
      <4>0. i - 1 \in 0 .. (n - 1) /\ (i - 1) + 1 = i /\ seqs[i] \in Seq(S)
        OBVIOUS
      <4>1. g[i] = g[i - 1] \o seqs[i]
        BY <4>0 DEF Glues
      <4>2. CASE i = 1
        <5>1. <<>> \o seqs[i] = seqs[i]
          BY <4>0, ConcatEmptySeq
        <5>2. g[i - 1] = <<>>
          BY <4>2 DEF Glues
        <5> QED
          BY <4>1, <4>2, <5>1, <5>2
      <4>3. CASE i # 1
        <5>1. i - 1 \in 1 .. n
          BY <4>3
        <5>2. h[i - 1] = g[i - 1]
          BY <5>1
        <5> HIDE DEF h
        <5> QED
          BY <4>1, <4>3, <5>2
      <4> QED
        BY <4>2, <4>3
    <3>2. h = [i \in 1 .. n |-> g[i]]
      OBVIOUS
    <3> HIDE DEF h
    <3> QED
      BY <3>1, <3>2
  <2>3. flatten = [i \in 1 .. n |-> IF i = 1 THEN seqs[i] ELSE flatten[i - 1] \o seqs[i]]
    <3> HIDE DEF h
    <3> QED
      BY <1>0, <2>2, Zenon
  <2> HIDE DEF flatten
  <2> DEFINE Done == {i \in Nat : i + 1 <= n => flatten[i + 1] = g[i + 1]}
  <2>4. 0 \in Done
    <3>1. 1 \in 1 .. n /\ 0 \in 0 .. (n - 1)
      BY <1>2
    <3>2. flatten[1] = seqs[1]
      BY <2>3, <3>1
    <3>3. g[0 + 1] = g[0] \o seqs[0 + 1] /\ g[0] = <<>>
      BY <3>1 DEF Glues
    <3>4. <<>> \o seqs[1] = seqs[1]
      BY <3>1, ConcatEmptySeq
    <3>5. flatten[0 + 1] = g[0 + 1]
      BY <3>2, <3>3, <3>4
    <3> QED
      BY <3>5
  <2>5. ASSUME NEW i \in Done PROVE i + 1 \in Done
    <3> SUFFICES ASSUME (i + 1) + 1 <= n PROVE flatten[(i + 1) + 1] = g[(i + 1) + 1]
      OBVIOUS
    <3>1. i \in Nat /\ (i + 1) + 1 \in 1 .. n /\ (i + 1) + 1 # 1 /\ ((i + 1) + 1) - 1 = i + 1
          /\ i + 1 \in 0 .. (n - 1)
      OBVIOUS
    <3>2. flatten[i + 1] = g[i + 1]
      BY <3>1
    <3> HIDE DEF Done
    <3>3. flatten[(i + 1) + 1] = flatten[i + 1] \o seqs[(i + 1) + 1]
      BY <2>3, <3>1
    <3>4. g[(i + 1) + 1] = g[i + 1] \o seqs[(i + 1) + 1]
      BY <3>1 DEF Glues
    <3> QED
      BY <3>2, <3>3, <3>4
  <2>6. Done = Nat
    <3> HIDE DEF Done
    <3>1. Done \in SUBSET Nat
      BY DEF Done
    <3> QED
      BY <2>4, <2>5, <3>1, SetInduction
  <2>7. n - 1 \in Nat /\ (n - 1) + 1 = n
    BY <1>2
  <2>8. n - 1 \in Done
    BY <2>6, <2>7
  <2>9. flatten[(n - 1) + 1] = g[(n - 1) + 1]
    BY <2>7, <2>8
  <2> QED
    BY <1>0, <2>1, <2>7, <2>9
<1> QED
  BY <1>1, <1>2

\* The i-th sequence starts behind O[i - 1] elements.
Offsets(O, seqs, n) == O[0] = 0 /\ \A i \in 1 .. n : O[i] = O[i - 1] + Len(seqs[i])

\* t has the elements of the first m sequences there.
Placed(t, seqs, O, m) ==
  /\ Len(t) = O[m]
  /\ \A i \in 1 .. m : \A k \in 1 .. Len(seqs[i]) : O[i - 1] + k <= O[m] /\ t[O[i - 1] + k] = seqs[i][k]

\* One sequence more.
LEMMA PlacedNext ==
  ASSUME NEW S, NEW n \in Nat, NEW seqs \in [1 .. n -> Seq(S)], NEW O \in [0 .. n -> Nat], Offsets(O, seqs, n),
         NEW m \in 0 .. (n - 1), NEW t \in Seq(S), Placed(t, seqs, O, m)
  PROVE  Placed(t \o seqs[m + 1], seqs, O, m + 1)
<1> DEFINE u == t \o seqs[m + 1]
<1>1. m + 1 \in 1 .. n /\ m \in 0 .. n /\ (m + 1) - 1 = m /\ m \in Nat
  OBVIOUS
<1>2. PICK a \in Nat : a = O[m] /\ a = Len(t)
  BY <1>1 DEF Placed
<1>3. seqs[m + 1] \in Seq(S)
  BY <1>1
<1>4. PICK b \in Nat : b = Len(seqs[m + 1])
  BY <1>3
<1>5. PICK c \in Nat : c = O[m + 1] /\ c = a + b
  <2>1. O[m + 1] = O[m] + Len(seqs[m + 1])
    BY <1>1 DEF Offsets
  <2>2. O[m + 1] = a + b /\ a + b \in Nat
    <3>1. O[m + 1] = a + b
      BY <1>2, <1>4, <2>1, Zenon
    <3> QED
      BY <3>1
  <2> QED
    BY <2>2
<1>6. /\ Len(u) = c
      /\ \A j \in 1 .. a : u[j] = t[j]
      /\ \A j \in 1 .. b : u[a + j] = seqs[m + 1][j]
  <2>1. PICK y \in Seq(S) : y = seqs[m + 1]
    BY <1>3
  <2>2. /\ Len(t \o y) = Len(t) + Len(y)
        /\ \A j \in 1 .. Len(t) : (t \o y)[j] = t[j]
        /\ \A j \in 1 .. Len(y) : (t \o y)[Len(t) + j] = y[j]
    BY Concatenation
  <2>3. u = t \o y /\ a = Len(t) /\ b = Len(y)
    BY <1>2, <1>4, <2>1
  <2> HIDE DEF u
  <2>4. /\ Len(u) = a + b
        /\ \A j \in 1 .. a : u[j] = t[j]
        /\ \A j \in 1 .. b : u[a + j] = y[j]
    BY <2>2, <2>3, Zenon
  <2> QED
    BY <1>5, <2>1, <2>4, Zenon
<1>7. ASSUME NEW i \in 1 .. (m + 1), NEW k \in 1 .. Len(seqs[i])
      PROVE  O[i - 1] + k <= c /\ u[O[i - 1] + k] = seqs[i][k]
  <2> HIDE DEF u
  <2>1. CASE i = m + 1
    <3>1. k \in 1 .. b /\ i - 1 = m
      BY <1>1, <1>4, <1>7, <2>1
    <3>2. a + k <= c
      BY ONLY <1>5, <3>1, a \in Nat, b \in Nat
    <3> QED
      BY <1>2, <1>6, <2>1, <3>1, <3>2
  <2>2. CASE i # m + 1
    <3>1. i \in 1 .. m /\ i \in 1 .. n /\ i - 1 \in 0 .. n
      BY <1>1, <1>7, <2>2
    <3>2. O[i - 1] + k <= O[m] /\ t[O[i - 1] + k] = seqs[i][k]
      BY <1>7, <3>1 DEF Placed
    <3>3. seqs[i] \in Seq(S) /\ O[i - 1] \in Nat
      BY <3>1
    <3>4. k \in Nat /\ k >= 1
      BY <1>7, <3>3
    <3>5. PICK at \in Nat : at = O[i - 1] + k /\ at >= 1
      BY ONLY <3>3, <3>4
    <3>6. at \in 1 .. a
      BY ONLY <1>2, <3>2, <3>5, at \in Nat, a \in Nat
    <3>7. u[at] = t[at]
      BY <1>6, <3>6
    <3>8. at <= c
      BY ONLY <1>5, <3>6, at \in Nat, a \in Nat, b \in Nat
    <3> QED
      BY <3>2, <3>5, <3>7, <3>8
  <2> QED
    BY <2>1, <2>2
<1> QED
  BY <1>5, <1>6, <1>7 DEF Placed

LEMMA FlattenAt ==
  ASSUME NEW S, NEW n \in Nat, NEW seqs \in [1 .. n -> Seq(S)], NEW O \in [0 .. n -> Nat], Offsets(O, seqs, n)
  PROVE  FlattenSeq(seqs) \in Seq(S) /\ Placed(FlattenSeq(seqs), seqs, O, n)
<1>0. PICK g \in [Nat -> Seq(S)] : Glues(g, seqs, n) /\ FlattenSeq(seqs) = g[n]
  <2>1. PICK g \in [Nat -> Seq(S)] : Glues(g, seqs, n)
    BY GlueExists
  <2> QED
    BY <2>1, FlattenGlues
<1> DEFINE Done == {m \in Nat : m <= n => Placed(g[m], seqs, O, m)}
<1>1. 0 \in Done
  <2>1. g[0] = <<>> /\ O[0] = 0
    BY <1>0 DEF Glues, Offsets
  <2> QED
    BY <2>1 DEF Placed
<1>2. ASSUME NEW m \in Done PROVE m + 1 \in Done
  <2> SUFFICES ASSUME m + 1 <= n PROVE Placed(g[m + 1], seqs, O, m + 1)
    OBVIOUS
  <2>1. m \in Nat /\ (m <= n => Placed(g[m], seqs, O, m))
    OBVIOUS
  <2> HIDE DEF Done
  <2>2. m \in 0 .. (n - 1) /\ m <= n
    BY <2>1
  <2>3. g[m + 1] = g[m] \o seqs[m + 1]
    BY <1>0, <2>2 DEF Glues
  <2>4. g[m] \in Seq(S)
    BY <2>1
  <2>5. Placed(g[m] \o seqs[m + 1], seqs, O, m + 1)
    <3>1. Placed(g[m], seqs, O, m)
      BY <2>1, <2>2
    <3> QED
      BY <2>2, <2>4, <3>1, PlacedNext
  <2> QED
    BY <2>3, <2>5
<1>3. Done = Nat
  <2> HIDE DEF Done
  <2>1. Done \in SUBSET Nat
    BY DEF Done
  <2> QED
    BY <1>1, <1>2, <2>1, SetInduction
<1>4. Placed(g[n], seqs, O, n)
  <2>1. n \in Done
    BY <1>3
  <2> QED
    BY <2>1
<1> QED
  BY <1>0, <1>4

Associates(a, b, c) == (a \o b) \o c = a \o (b \o c)

LEMMA Association ==
  ASSUME NEW S, NEW a \in Seq(S), NEW b \in Seq(S), NEW c \in Seq(S)
  PROVE  Associates(a, b, c)
BY ConcatAssociative DEF Associates

\* All but the first of all are seqs.
Pushed(all, seqs, n) == \A i \in 1 .. n : all[i + 1] = seqs[i]

FlattensTo(all, first, seqs) == FlattenSeq(all) = first \o FlattenSeq(seqs)

LEMMA FlattenCons ==
  ASSUME NEW S, NEW n \in Nat, NEW seqs \in [1 .. n -> Seq(S)], NEW all \in [1 .. (n + 1) -> Seq(S)],
         Pushed(all, seqs, n)
  PROVE  FlattensTo(all, all[1], seqs)
<1>1. PICK g \in [Nat -> Seq(S)] : Glues(g, seqs, n) /\ FlattenSeq(seqs) = g[n]
  <2>1. PICK g \in [Nat -> Seq(S)] : Glues(g, seqs, n)
    BY GlueExists
  <2> QED
    BY <2>1, FlattenGlues
<1>2. PICK h \in [Nat -> Seq(S)] : Glues(h, all, n + 1) /\ FlattenSeq(all) = h[n + 1]
  <2>1. n + 1 \in Nat
    OBVIOUS
  <2>2. PICK h \in [Nat -> Seq(S)] : Glues(h, all, n + 1)
    BY <2>1, GlueExists
  <2> QED
    BY <2>1, <2>2, FlattenGlues
<1>3. PICK x \in Seq(S) : x = all[1]
  OBVIOUS
<1> DEFINE Reaches(m) == h[m + 1] = x \o g[m]
           Done == {m \in Nat : m <= n => Reaches(m)}
<1>4. 0 \in Done
  <2>1. h[0 + 1] = h[0] \o all[0 + 1] /\ h[0] = <<>> /\ g[0] = <<>>
    <3>1. 0 \in 0 .. ((n + 1) - 1)
      OBVIOUS
    <3> QED
      BY <1>1, <1>2, <3>1 DEF Glues
  <2>2. <<>> \o x = x /\ x \o <<>> = x
    BY ConcatEmptySeq
  <2>3. h[0 + 1] = x \o g[0]
    BY <1>3, <2>1, <2>2
  <2> QED
    BY <2>3
<1>5. ASSUME NEW m \in Done PROVE m + 1 \in Done
  <2> HIDE DEF Reaches
  <2> SUFFICES ASSUME m + 1 <= n PROVE Reaches(m + 1)
    OBVIOUS
  <2>0. m \in Nat /\ (m <= n => Reaches(m))
    OBVIOUS
  <2> HIDE DEF Done
  <2>1. /\ m + 1 \in 1 .. n /\ m <= n
        /\ m \in 0 .. (n - 1) /\ m + 1 \in 0 .. ((n + 1) - 1)
    BY <2>0
  <2>2. h[(m + 1) + 1] = h[m + 1] \o all[(m + 1) + 1] /\ g[m + 1] = g[m] \o seqs[m + 1]
    BY <1>1, <1>2, <2>1 DEF Glues
  <2>3. all[(m + 1) + 1] = seqs[m + 1] /\ seqs[m + 1] \in Seq(S) /\ g[m] \in Seq(S)
    BY <2>0, <2>1 DEF Pushed
  <2>4. (x \o g[m]) \o seqs[m + 1] = x \o (g[m] \o seqs[m + 1])
    <3>1. PICK y \in Seq(S), z \in Seq(S) : y = g[m] /\ z = seqs[m + 1]
      BY <2>3
    <3>2. Associates(x, y, z)
      BY Association, Zenon
    <3> QED
      BY <3>1, <3>2 DEF Associates
  <2>5. h[m + 1] = x \o g[m]
    BY <2>0, <2>1 DEF Reaches
  <2>6. h[(m + 1) + 1] = x \o g[m + 1]
    BY ONLY <2>2, <2>3, <2>4, <2>5
  <2> QED
    BY <2>6 DEF Reaches
<1>6. Done = Nat
  <2> HIDE DEF Done
  <2>1. Done \in SUBSET Nat
    BY DEF Done
  <2> QED
    BY <1>4, <1>5, <2>1, SetInduction
<1>7. h[n + 1] = x \o g[n]
  <2>1. Reaches(n)
    <3> HIDE DEF Reaches
    <3>1. n \in Done
      BY <1>6
    <3> QED
      BY <3>1
  <2> QED
    BY <2>1
<1> QED
  BY <1>1, <1>2, <1>3, <1>7 DEF FlattensTo

LEMMA OffsetsExist ==
  ASSUME NEW S, NEW n \in Nat, NEW seqs \in [1 .. n -> Seq(S)]
  PROVE  \E O \in [0 .. n -> Nat] : Offsets(O, seqs, n)
<1>1. PICK g \in [Nat -> Seq(S)] : Glues(g, seqs, n)
  BY GlueExists
<1> DEFINE O == [i \in 0 .. n |-> Len(g[i])]
<1>2. O \in [0 .. n -> Nat]
  <2>1. ASSUME NEW i \in 0 .. n PROVE Len(g[i]) \in Nat
    <3>1. g[i] \in Seq(S)
      OBVIOUS
    <3> QED
      BY <3>1
  <2> QED
    BY <2>1
<1>3. O[0] = 0
  <2>1. g[0] = <<>>
    BY <1>1 DEF Glues
  <2> QED
    BY <2>1
<1>4. ASSUME NEW i \in 1 .. n PROVE O[i] = O[i - 1] + Len(seqs[i])
  <2>1. i - 1 \in 0 .. (n - 1) /\ (i - 1) + 1 = i /\ i - 1 \in Nat
    OBVIOUS
  <2>2. g[i] = g[i - 1] \o seqs[i]
    BY <1>1, <2>1 DEF Glues
  <2>3. PICK a \in Seq(S), b \in Seq(S) : a = g[i - 1] /\ b = seqs[i]
    BY <2>1
  <2>4. Len(a \o b) = Len(a) + Len(b)
    BY Concatenation
  <2>5. O[i] = Len(g[i]) /\ O[i - 1] = Len(g[i - 1])
    <3>1. i \in 0 .. n /\ i - 1 \in 0 .. n
      BY <2>1
    <3> QED
      BY <3>1, Zenon
  <2> QED
    BY <2>2, <2>3, <2>4, <2>5, Zenon
<1> QED
  BY <1>2, <1>3, <1>4 DEF Offsets

-----------------------------------------------------------------------------
(* Where a delta starts *)

\* O[i] bytes belong to the first i symbols.
Steps(O, syms, n) == O[0] = 0 /\ \A i \in 1 .. n : O[i] = O[i - 1] + DeltaBytes(syms[i])

LEMMA DeltaAtIs ==
  ASSUME NEW n \in Nat, NEW syms \in [1 .. n -> 0 .. 2], NEW O \in [0 .. n -> Nat], Steps(O, syms, n),
         NEW i \in 1 .. (n + 1)
  PROVE  DeltaAt(syms, i) = O[i - 1] + 1
<1> DEFINE at == CHOOSE f : f = [k \in 1 .. i |-> IF k = 1 THEN 1 ELSE f[k - 1] + DeltaBytes(syms[k - 1])]
           h == [k \in 1 .. i |-> O[k - 1] + 1]
<1>1. DeltaAt(syms, i) = at[i]
  BY Zenon DEF DeltaAt
<1>2. h = [k \in 1 .. i |-> IF k = 1 THEN 1 ELSE h[k - 1] + DeltaBytes(syms[k - 1])]
  <2>1. ASSUME NEW k \in 1 .. i PROVE O[k - 1] + 1 = IF k = 1 THEN 1 ELSE h[k - 1] + DeltaBytes(syms[k - 1])
    <3>1. CASE k = 1
      <4>1. O[k - 1] = 0
        BY <3>1 DEF Steps
      <4> QED
        BY <3>1, <4>1
    <3>2. CASE k # 1
      <4>1. k - 1 \in 1 .. n /\ k - 1 \in 1 .. i /\ (k - 1) - 1 \in 0 .. n /\ k - 1 \in 0 .. n
        BY <3>2
      <4>2. O[k - 1] = O[(k - 1) - 1] + DeltaBytes(syms[k - 1])
        BY <4>1 DEF Steps
      <4>3. h[k - 1] = O[(k - 1) - 1] + 1
        BY <4>1
      <4>4. PICK x \in Nat, y \in Nat, z \in Nat : x = O[k - 1] /\ y = O[(k - 1) - 1] /\ z = DeltaBytes(syms[k - 1])
        <5>1. O[k - 1] \in Nat /\ O[(k - 1) - 1] \in Nat /\ DeltaBytes(syms[k - 1]) \in Nat
          BY <4>1 DEF DeltaBytes
        <5> QED
          BY <5>1
      <4>5. x = y + z /\ h[k - 1] = y + 1
        BY <4>2, <4>3, <4>4, Zenon
      <4>6. x + 1 = (y + 1) + z
        BY <4>5
      <4> HIDE DEF h
      <4>7. O[k - 1] + 1 = h[k - 1] + DeltaBytes(syms[k - 1])
        BY <4>4, <4>5, <4>6, Zenon
      <4> QED
        BY <3>2, <4>7, Zenon
    <3> QED
      BY <3>1, <3>2
  <2>2. h = [k \in 1 .. i |-> O[k - 1] + 1]
    OBVIOUS
  <2> HIDE DEF h
  <2> QED
    BY <2>1, <2>2, Zenon
<1>3. at = [k \in 1 .. i |-> IF k = 1 THEN 1 ELSE at[k - 1] + DeltaBytes(syms[k - 1])]
  <2> HIDE DEF h
  <2> QED
    BY <1>2, Zenon
<1> HIDE DEF at
<1> DEFINE Done == {k \in Nat : k < i => at[k + 1] = O[k] + 1}
<1>4. 0 \in Done
  <2>1. 1 \in 1 .. i /\ O[0] = 0
    BY DEF Steps
  <2>2. at[1] = 1
    BY <1>3, <2>1
  <2> QED
    BY <2>1, <2>2
<1>5. ASSUME NEW k \in Done PROVE k + 1 \in Done
  <2> SUFFICES ASSUME k + 1 < i PROVE at[(k + 1) + 1] = O[k + 1] + 1
    OBVIOUS
  <2>1. at[k + 1] = O[k] + 1 /\ k \in Nat
    OBVIOUS
  <2> HIDE DEF Done
  <2>2. (k + 1) + 1 \in 1 .. i /\ (k + 1) + 1 # 1 /\ ((k + 1) + 1) - 1 = k + 1 /\ k + 1 \in 1 .. n
        /\ (k + 1) - 1 = k /\ k \in 0 .. n /\ k + 1 \in 0 .. n
    BY <2>1
  <2>3. at[(k + 1) + 1] = at[k + 1] + DeltaBytes(syms[k + 1])
    BY <1>3, <2>2, Zenon
  <2>4. O[k + 1] = O[k] + DeltaBytes(syms[k + 1])
    BY <2>2 DEF Steps
  <2>5. PICK x \in Nat, y \in Nat, z \in Nat : x = O[k + 1] /\ y = O[k] /\ z = DeltaBytes(syms[k + 1])
    <3>1. O[k + 1] \in Nat /\ O[k] \in Nat /\ DeltaBytes(syms[k + 1]) \in Nat
      BY <2>2 DEF DeltaBytes
    <3> QED
      BY <3>1
  <2>6. x = y + z /\ at[(k + 1) + 1] = (y + 1) + z
    BY <2>1, <2>3, <2>4, <2>5, Zenon
  <2>7. (y + 1) + z = x + 1
    BY <2>6
  <2> QED
    BY <2>5, <2>6, <2>7, Zenon
<1>6. Done = Nat
  <2> HIDE DEF Done
  <2>1. Done \in SUBSET Nat
    BY DEF Done
  <2> QED
    BY <1>4, <1>5, <2>1, SetInduction
<1>7. i - 1 \in Nat /\ i - 1 < i /\ (i - 1) + 1 = i
  OBVIOUS
<1>8. i - 1 \in Done
  BY <1>6, <1>7
<1>9. at[(i - 1) + 1] = O[i - 1] + 1
  BY <1>7, <1>8
<1> QED
  BY <1>1, <1>7, <1>9, Zenon

-----------------------------------------------------------------------------
(* Chunks *)

\* c spells out the symbols from the i-th on, l of them.
SpellsFrom(c, syms, n, i, l) ==
  /\ Len(c.syms) = l
  /\ \E room \in Nat :
       /\ Spelled(c) \in [1 .. room -> 0 .. 2]
       /\ l <= room /\ (l = room \/ i + l = n + 1)
  /\ \A j \in 1 .. l : Spelled(c)[j] = syms[i + j - 1]

LEMMA ChunkSpells ==
  ASSUME NEW n \in Nat, NEW syms \in [1 .. n -> 0 .. 2], NEW i \in 1 .. n
  PROVE  \E l \in 1 .. ((n + 1) - i) : SpellsFrom(ChunkAt(syms, i), syms, n, i, l)
<1> DEFINE c == ChunkAt(syms, i)
<1>0. Len(syms) = n /\ syms \in Seq(0 .. 2)
  OBVIOUS
<1>1. ASSUME NEW room \in Nat, room # 0, NEW w \in BOOLEAN, room = IF w THEN Wide ELSE Narrow,
             NEW d, d = [wide |-> w, syms |-> SubSeq(syms, i, Least(n, i + room - 1))]
      PROVE  \E l \in 1 .. ((n + 1) - i) : SpellsFrom(d, syms, n, i, l)
  <2> DEFINE m == Least(n, i + room - 1)
             l == m - i + 1
             q == SubSeq(syms, i, m)
  <2>1. m \in i .. n /\ l \in 1 .. ((n + 1) - i) /\ l <= room /\ (l = room \/ i + l = n + 1)
        /\ \A j \in 1 .. l : i + j - 1 \in 1 .. n
    BY <1>1 DEF Least
  <2>2. Len(q) = l /\ \A j \in 1 .. l : q[j] = syms[i + j - 1]
    <3>1. i \in Int /\ m \in Int /\ \A k \in i .. m : syms[k] \in 0 .. 2
      BY <2>1
    <3> HIDE DEF m
    <3>2. Slice(syms, i, m)
      BY <3>1, Slices, Zenon
    <3> QED
      BY ONLY <2>1, <3>1, <3>2 DEF Slice
  <2>3. d.syms = q /\ d.wide = w
    BY <1>1
  <2>4. "run" \notin DOMAIN d
    BY <1>1
  <2> HIDE DEF m, l, q
  <2>5. Spelled(d) = [j \in 1 .. room |-> IF j <= l THEN q[j] ELSE 0]
    BY <1>1, <2>2, <2>3, <2>4 DEF Spelled
  <2>6. \A j \in 1 .. l : q[j] \in 0 .. 2
    BY <2>1, <2>2
  <2>7. Spelled(d) \in [1 .. room -> 0 .. 2]
    <3>1. ASSUME NEW j \in 1 .. room PROVE (IF j <= l THEN q[j] ELSE 0) \in 0 .. 2
      BY <2>1, <2>6, <3>1
    <3> QED
      BY <2>5, <3>1
  <2>8. ASSUME NEW j \in 1 .. l PROVE Spelled(d)[j] = syms[i + j - 1]
    <3>1. j \in 1 .. room /\ j <= l
      BY <2>1, <2>8
    <3> QED
      BY <2>2, <2>5, <3>1
  <2>9. SpellsFrom(d, syms, n, i, l)
    BY <1>1, <2>1, <2>2, <2>3, <2>7, <2>8 DEF SpellsFrom
  <2> QED
    BY <2>1, <2>9
<1>2. \E w \in BOOLEAN : \E room \in Nat \ {0} :
        room = (IF w THEN Wide ELSE Narrow) /\ c = [wide |-> w, syms |-> SubSeq(syms, i, Least(n, i + room - 1))]
  <2> DEFINE narrow == SubSeq(syms, i, Least(n, i + Narrow - 1))
  <2>1. CASE \E k \in DOMAIN narrow : narrow[k] = 2
    <3>1. c = [wide |-> TRUE, syms |-> SubSeq(syms, i, Least(n, i + Wide - 1))]
      BY <1>0, <2>1 DEF ChunkAt
    <3> HIDE DEF c
    <3> QED
      BY <3>1, TwccAssumption
  <2>2. CASE ~\E k \in DOMAIN narrow : narrow[k] = 2
    <3>1. c = [wide |-> FALSE, syms |-> SubSeq(syms, i, Least(n, i + Narrow - 1))]
      BY <1>0, <2>2 DEF ChunkAt
    <3> HIDE DEF c
    <3> QED
      BY <3>1, TwccAssumption
  <2> QED
    BY <2>1, <2>2
<1> HIDE DEF c
<1>3. \E l \in 1 .. ((n + 1) - i) : SpellsFrom(c, syms, n, i, l)
  BY <1>1, <1>2
<1> QED
  BY <1>3 DEF c

ChunkSet(syms) == {ChunkAt(syms, i) : i \in 1 .. Len(syms)}

\* h has the chunks of the symbols from each on, as far as the m last symbols.
Chunked(h, syms, n, m) ==
  /\ h[n + 1] = <<>>
  /\ \A i \in 1 .. n : i > n - m => h[i] = <<ChunkAt(syms, i)>> \o h[i + Len(ChunkAt(syms, i).syms)]

LEMMA ChunksAhead ==
  ASSUME NEW n \in Nat, NEW syms \in [1 .. n -> 0 .. 2], NEW i \in 1 .. n
  PROVE  i + Len(ChunkAt(syms, i).syms) \in (i + 1) .. (n + 1) /\ ChunkAt(syms, i) \in ChunkSet(syms)
<1>1. PICK l \in 1 .. ((n + 1) - i) : SpellsFrom(ChunkAt(syms, i), syms, n, i, l)
  BY ChunkSpells
<1>2. Len(ChunkAt(syms, i).syms) = l
  BY <1>1 DEF SpellsFrom
<1>3. Len(syms) = n
  OBVIOUS
<1> QED
  BY <1>2, <1>3 DEF ChunkSet

LEMMA ChunkedExists ==
  ASSUME NEW n \in Nat, NEW syms \in [1 .. n -> 0 .. 2]
  PROVE  \E h \in [1 .. (n + 1) -> Seq(ChunkSet(syms))] : Chunked(h, syms, n, n)
<1> DEFINE C == ChunkSet(syms)
           Done == {m \in Nat : m <= n => \E h \in [1 .. (n + 1) -> Seq(C)] : Chunked(h, syms, n, m)}
<1> HIDE DEF C
<1>1. 0 \in Done
  <2> DEFINE h == [i \in 1 .. (n + 1) |-> <<>>]
  <2>1. h \in [1 .. (n + 1) -> Seq(C)]
    BY EmptySeq
  <2>2. Chunked(h, syms, n, 0)
    BY DEF Chunked
  <2> HIDE DEF h
  <2> QED
    BY <2>1, <2>2
<1>2. ASSUME NEW m \in Done PROVE m + 1 \in Done
  <2> SUFFICES ASSUME m + 1 <= n PROVE \E h \in [1 .. (n + 1) -> Seq(C)] : Chunked(h, syms, n, m + 1)
    OBVIOUS
  <2>1. m \in Nat /\ m <= n
    OBVIOUS
  <2>2. PICK h \in [1 .. (n + 1) -> Seq(C)] : Chunked(h, syms, n, m)
    BY <2>1
  <2> HIDE DEF Done
  <2> DEFINE i == n - m
             c == ChunkAt(syms, i)
             k == i + Len(c.syms)
             g == [j \in 1 .. (n + 1) |-> IF j = i THEN <<c>> \o h[k] ELSE h[j]]
  <2>3. i \in 1 .. n /\ i \in 1 .. (n + 1)
    BY <2>1
  <2>4. k \in (i + 1) .. (n + 1) /\ c \in C
    BY <2>3, ChunksAhead DEF C
  <2>5. k \in 1 .. (n + 1) /\ k # i
    <3> HIDE DEF k, i
    <3> QED
      BY <2>3, <2>4
  <2>6. <<c>> \o h[k] \in Seq(C)
    <3>1. PICK r \in Seq(C) : r = h[k]
      BY <2>5
    <3>2. <<c>> \in Seq(C)
      <4> HIDE DEF c
      <4> QED
        BY <2>4
    <3> HIDE DEF c, k
    <3>3. <<c>> \o r \in Seq(C)
      BY <3>2, ConcatProperties
    <3> QED
      BY <3>1, <3>3
  <2>7. g \in [1 .. (n + 1) -> Seq(C)]
    <3> HIDE DEF c, k, i
    <3> QED
      BY <2>6
  <2>8. \A j \in 1 .. (n + 1) : j # i => g[j] = h[j]
    <3> HIDE DEF c, k, i
    <3> QED
      OBVIOUS
  <2>9. g[i] = <<c>> \o h[k]
    <3> HIDE DEF c, k, i
    <3> QED
      BY <2>3
  <2>10. g[n + 1] = <<>>
    <3>1. n + 1 \in 1 .. (n + 1) /\ n + 1 # i
      BY <2>3
    <3> QED
      BY <2>2, <2>8, <3>1 DEF Chunked
  <2>11. ASSUME NEW j \in 1 .. n, j > n - (m + 1)
         PROVE  g[j] = <<ChunkAt(syms, j)>> \o g[j + Len(ChunkAt(syms, j).syms)]
    <3>1. CASE j = i
      <4>1. g[k] = h[k]
        <5> HIDE DEF g, k, i
        <5> QED
          BY <2>5, <2>8
      <4> HIDE DEF g
      <4> QED
        BY <2>9, <3>1, <4>1
    <3>2. CASE j # i
      <4>1. j > n - m /\ j \in 1 .. (n + 1)
        BY <2>1, <2>11, <3>2
      <4>2. PICK t : t = j + Len(ChunkAt(syms, j).syms)
        OBVIOUS
      <4>3. t \in (j + 1) .. (n + 1)
        BY <4>2, ChunksAhead
      <4>4. t \in 1 .. (n + 1) /\ t # i
        BY <4>1, <4>3
      <4>5. h[j] = <<ChunkAt(syms, j)>> \o h[t]
        BY <2>2, <4>1, <4>2 DEF Chunked
      <4>6. g[j] = h[j] /\ g[t] = h[t]
        <5> HIDE DEF g, i
        <5> QED
          BY <2>8, <3>2, <4>1, <4>4
      <4> HIDE DEF g
      <4> QED
        BY <4>2, <4>5, <4>6
    <3> QED
      BY <3>1, <3>2
  <2> HIDE DEF g
  <2>12. Chunked(g, syms, n, m + 1)
    BY <2>10, <2>11 DEF Chunked
  <2> QED
    BY <2>7, <2>12
<1>3. Done = Nat
  <2> HIDE DEF Done
  <2>1. Done \in SUBSET Nat
    BY DEF Done
  <2> QED
    BY <1>1, <1>2, <2>1, SetInduction
<1>4. n \in Done
  BY <1>3
<1> QED
  BY <1>4 DEF C

LEMMA ChunksAre ==
  ASSUME NEW n \in Nat, NEW syms \in [1 .. n -> 0 .. 2]
  PROVE  \E f : Chunked(f, syms, n, n) /\ Chunks(syms) = f[1]
<1>0. Len(syms) = n
  OBVIOUS
<1> DEFINE from == CHOOSE f : f = [i \in 1 .. (Len(syms) + 1) |->
                     IF i > Len(syms) THEN <<>>
                     ELSE <<ChunkAt(syms, i)>> \o f[i + Len(ChunkAt(syms, i).syms)]]
<1>1. Chunks(syms) = from[1]
  BY Zenon DEF Chunks
<1>2. PICK h \in [1 .. (n + 1) -> Seq(ChunkSet(syms))] : Chunked(h, syms, n, n)
  BY ChunkedExists
<1>3. h = [i \in 1 .. (n + 1) |-> IF i > n THEN <<>>
             ELSE <<ChunkAt(syms, i)>> \o h[i + Len(ChunkAt(syms, i).syms)]]
  <2>1. ASSUME NEW i \in 1 .. (n + 1)
        PROVE  h[i] = IF i > n THEN <<>> ELSE <<ChunkAt(syms, i)>> \o h[i + Len(ChunkAt(syms, i).syms)]
    <3>1. CASE i > n
      <4>1. i = n + 1
        BY <3>1
      <4> QED
        BY <1>2, <3>1, <4>1 DEF Chunked
    <3>2. CASE ~(i > n)
      <4>1. i \in 1 .. n /\ i > n - n
        BY <3>2
      <4> QED
        BY <1>2, <3>2, <4>1 DEF Chunked
    <3> QED
      BY <3>1, <3>2
  <2>2. h = [i \in 1 .. (n + 1) |-> h[i]]
    OBVIOUS
  <2> QED
    BY <2>1, <2>2, Zenon
<1>4. from = [i \in 1 .. (n + 1) |-> IF i > n THEN <<>>
                ELSE <<ChunkAt(syms, i)>> \o from[i + Len(ChunkAt(syms, i).syms)]]
  BY <1>0, <1>3, Zenon
<1> HIDE DEF from
<1>5. from[n + 1] = <<>>
  <2>1. n + 1 \in 1 .. (n + 1) /\ n + 1 > n
    OBVIOUS
  <2> QED
    BY <1>4, <2>1, Zenon
<1>6. ASSUME NEW i \in 1 .. n, i > n - n
      PROVE  from[i] = <<ChunkAt(syms, i)>> \o from[i + Len(ChunkAt(syms, i).syms)]
  <2>1. i \in 1 .. (n + 1) /\ ~(i > n)
    OBVIOUS
  <2> QED
    BY <1>4, <2>1, Zenon
<1>7. Chunked(from, syms, n, n)
  BY <1>5, <1>6 DEF Chunked
<1> QED
  BY <1>1, <1>7

SpelledOf(cs) == [k \in DOMAIN cs |-> Spelled(cs[k])]

\* cs are chunks, and read end to end they begin with the symbols from the i-th on.
SpellsOut(cs, syms, n, i) ==
  /\ cs \in Seq(ChunkSet(syms))
  /\ FlattenSeq(SpelledOf(cs)) \in Seq(0 .. 2)
  /\ Len(FlattenSeq(SpelledOf(cs))) >= (n + 1) - i
  /\ \A j \in 1 .. ((n + 1) - i) : FlattenSeq(SpelledOf(cs))[j] = syms[i + j - 1]

LEMMA NothingSpelled ==
  ASSUME NEW n \in Nat, NEW syms \in [1 .. n -> 0 .. 2]
  PROVE  SpellsOut(<<>>, syms, n, n + 1)
<1>1. SpelledOf(<<>>) = <<>> /\ <<>> \in Seq(ChunkSet(syms)) /\ <<>> \in Seq(0 .. 2) /\ Len(<<>>) = 0
  BY EmptySeq DEF SpelledOf
<1>2. FlattenSeq(<<>>) = <<>>
  BY DEF FlattenSeq
<1>3. FlattenSeq(SpelledOf(<<>>)) \in Seq(0 .. 2) /\ Len(FlattenSeq(SpelledOf(<<>>))) = 0
  BY <1>1, <1>2
<1>4. (n + 1) - (n + 1) = 0 /\ 0 >= 0 /\ \A j \in 1 .. 0 : FALSE
  OBVIOUS
<1> QED
  BY <1>1, <1>3, <1>4 DEF SpellsOut

LEMMA MoreSpelled ==
  ASSUME NEW n \in Nat, NEW syms \in [1 .. n -> 0 .. 2], NEW i \in 1 .. n, NEW cs,
         SpellsOut(cs, syms, n, i + Len(ChunkAt(syms, i).syms))
  PROVE  SpellsOut(<<ChunkAt(syms, i)>> \o cs, syms, n, i)
<1> DEFINE c == ChunkAt(syms, i)
           all == <<c>> \o cs
<1>1. PICK l \in 1 .. ((n + 1) - i) : SpellsFrom(c, syms, n, i, l)
  BY ChunkSpells
<1>2. c \in ChunkSet(syms) /\ Len(c.syms) = l
  BY <1>1, ChunksAhead DEF SpellsFrom
<1>3. PICK room \in Nat : /\ Spelled(c) \in [1 .. room -> 0 .. 2]
                          /\ l <= room /\ (l = room \/ i + l = n + 1)
                          /\ \A j \in 1 .. l : Spelled(c)[j] = syms[i + j - 1]
  BY <1>1 DEF SpellsFrom
<1> HIDE DEF c
<1>4. /\ cs \in Seq(ChunkSet(syms))
      /\ FlattenSeq(SpelledOf(cs)) \in Seq(0 .. 2)
      /\ Len(FlattenSeq(SpelledOf(cs))) >= (n + 1) - (i + l)
      /\ \A j \in 1 .. ((n + 1) - (i + l)) : FlattenSeq(SpelledOf(cs))[j] = syms[(i + l) + j - 1]
  BY <1>2 DEF SpellsOut, c
<1>5. PICK m \in Nat : m = Len(cs)
  BY <1>4
<1>6. /\ all \in Seq(ChunkSet(syms)) /\ Len(all) = m + 1 /\ all[1] = c
      /\ \A k \in 1 .. m : all[k + 1] = cs[k]
  <2>1. <<c>> \in Seq(ChunkSet(syms)) /\ Len(<<c>>) = 1 /\ <<c>>[1] = c
    BY <1>2
  <2>2. PICK b : b = <<c>>
    OBVIOUS
  <2>3. /\ b \o cs \in Seq(ChunkSet(syms)) /\ Len(b \o cs) = Len(b) + Len(cs)
        /\ \A j \in 1 .. Len(b) : (b \o cs)[j] = b[j]
        /\ \A j \in 1 .. Len(cs) : (b \o cs)[Len(b) + j] = cs[j]
    BY <1>4, <2>1, <2>2, Concatenation
  <2>4. all = b \o cs /\ Len(b) = 1 /\ b[1] = c
    BY <2>1, <2>2
  <2> HIDE DEF all
  <2>5. Len(all) = 1 + m /\ all[1] = c /\ \A j \in 1 .. m : all[1 + j] = cs[j]
    BY <1>5, <2>3, <2>4
  <2> QED
    BY <2>3, <2>4, <2>5
<1> HIDE DEF all
<1>7. \A d \in ChunkSet(syms) : Spelled(d) \in Seq(0 .. 2)
  <2>1. ASSUME NEW k \in 1 .. n PROVE Spelled(ChunkAt(syms, k)) \in Seq(0 .. 2)
    <3>1. PICK r \in Nat : Spelled(ChunkAt(syms, k)) \in [1 .. r -> 0 .. 2]
      BY ChunkSpells DEF SpellsFrom
    <3> QED
      BY <3>1
  <2>2. Len(syms) = n
    OBVIOUS
  <2> QED
    BY <2>1, <2>2 DEF ChunkSet
<1>8. /\ SpelledOf(cs) \in [1 .. m -> Seq(0 .. 2)]
      /\ SpelledOf(all) \in [1 .. (m + 1) -> Seq(0 .. 2)]
      /\ SpelledOf(all)[1] = Spelled(c)
      /\ Pushed(SpelledOf(all), SpelledOf(cs), m)
  <2>1. DOMAIN cs = 1 .. m /\ \A k \in 1 .. m : cs[k] \in ChunkSet(syms)
    BY <1>4, <1>5
  <2>2. DOMAIN all = 1 .. (m + 1) /\ \A k \in 1 .. (m + 1) : all[k] \in ChunkSet(syms)
    BY <1>6
  <2>3. 1 \in 1 .. (m + 1) /\ \A k \in 1 .. m : k + 1 \in 1 .. (m + 1)
    OBVIOUS
  <2> QED
    BY <1>6, <1>7, <2>1, <2>2, <2>3 DEF SpelledOf, Pushed
<1>9. FlattenSeq(SpelledOf(all)) = Spelled(c) \o FlattenSeq(SpelledOf(cs))
  <2>1. PICK u \in [1 .. m -> Seq(0 .. 2)], v \in [1 .. (m + 1) -> Seq(0 .. 2)] :
               u = SpelledOf(cs) /\ v = SpelledOf(all)
    BY <1>8
  <2>2. Pushed(v, u, m) /\ v[1] = Spelled(c)
    BY <1>8, <2>1
  <2>3. FlattensTo(v, v[1], u)
    BY <2>2, FlattenCons, Zenon
  <2> QED
    BY <2>1, <2>2, <2>3, Zenon DEF FlattensTo
<1> DEFINE x == Spelled(c)
           y == FlattenSeq(SpelledOf(cs))
           z == FlattenSeq(SpelledOf(all))
<1>10. x \in Seq(0 .. 2) /\ Len(x) = room /\ \A j \in 1 .. l : x[j] = syms[i + j - 1]
  BY <1>3
<1>11. z = x \o y /\ y \in Seq(0 .. 2)
  BY <1>4, <1>9
<1>12. Len(y) >= (n + 1) - (i + l) /\ \A j \in 1 .. ((n + 1) - (i + l)) : y[j] = syms[(i + l) + j - 1]
  BY <1>4
<1> HIDE DEF x, y, z
<1>13. /\ z \in Seq(0 .. 2) /\ Len(z) = Len(x) + Len(y)
       /\ \A j \in 1 .. Len(x) : z[j] = x[j]
       /\ \A j \in 1 .. Len(y) : z[Len(x) + j] = y[j]
  <2>1. x \in Seq(0 .. 2) /\ y \in Seq(0 .. 2)
    BY <1>10, <1>11
  <2>2. EndToEnd(x, y, 0 .. 2)
    BY <2>1, EndsMeet, Zenon
  <2>3. EndToEnd(x, y, 0 .. 2) /\ z = x \o y =>
          /\ z \in Seq(0 .. 2) /\ Len(z) = Len(x) + Len(y)
          /\ \A j \in 1 .. Len(x) : z[j] = x[j]
          /\ \A j \in 1 .. Len(y) : z[Len(x) + j] = y[j]
    BY Zenon DEF EndToEnd
  <2> QED
    BY <1>11, <2>2, <2>3, Zenon
<1>14. PICK a \in Nat : a = Len(y)
  BY <1>11
<1>15. Len(z) = room + a
  BY <1>10, <1>13, <1>14
<1>16. room + a >= (n + 1) - i
  BY <1>3, <1>12, <1>14
<1>17. ASSUME NEW j \in 1 .. ((n + 1) - i) PROVE z[j] = syms[i + j - 1]
  <2>1. CASE j <= l
    <3>1. j \in 1 .. l /\ j \in 1 .. room
      BY <1>3, <2>1
    <3> QED
      BY <1>10, <1>13, <3>1
  <2>2. CASE ~(j <= l)
    <3>1. l = room
      BY <1>3, <2>2
    <3>2. PICK k \in 1 .. ((n + 1) - (i + l)) : room + k = j
      <4>1. j - l \in 1 .. ((n + 1) - (i + l)) /\ l + (j - l) = j
        BY <2>2
      <4> QED
        BY <3>1, <4>1
    <3>3. k \in 1 .. a
      BY <1>12, <1>14
    <3>4. z[j] = y[k]
      BY <1>10, <1>13, <1>14, <3>2, <3>3
    <3>5. (i + l) + k - 1 = i + j - 1
      BY <3>1, <3>2
    <3> QED
      BY <1>12, <3>4, <3>5
  <2> QED
    BY <2>1, <2>2
<1>18. SpellsOut(all, syms, n, i)
  BY <1>6, <1>13, <1>15, <1>16, <1>17 DEF SpellsOut, z
<1> QED
  BY <1>18 DEF all, c

\* The chunks of the symbols spell them out.
LEMMA ChunksSpellOut ==
  ASSUME NEW n \in Nat, NEW syms \in [1 .. n -> 0 .. 2]
  PROVE  SpellsOut(Chunks(syms), syms, n, 1)
<1>1. PICK f : Chunked(f, syms, n, n) /\ Chunks(syms) = f[1]
  BY ChunksAre
<1> DEFINE Out(k) == \A i \in 1 .. (n + 1) : i >= (n + 1) - k => SpellsOut(f[i], syms, n, i)
           Done == {k \in Nat : Out(k)}
<1>2. 0 \in Done
  <2>1. \A i \in 1 .. (n + 1) : i >= (n + 1) - 0 => i = n + 1
    OBVIOUS
  <2>2. f[n + 1] = <<>>
    BY <1>1 DEF Chunked
  <2>3. SpellsOut(f[n + 1], syms, n, n + 1)
    BY <2>2, NothingSpelled
  <2>4. Out(0)
    BY <2>1, <2>3
  <2> HIDE DEF Out
  <2> QED
    BY <2>4
<1>3. ASSUME NEW k \in Done PROVE k + 1 \in Done
  <2>1. k \in Nat /\ Out(k)
    OBVIOUS
  <2>2. ASSUME NEW i \in 1 .. (n + 1), i >= (n + 1) - (k + 1) PROVE SpellsOut(f[i], syms, n, i)
    <3>1. CASE i >= (n + 1) - k
      BY <2>1, <3>1
    <3>2. CASE ~(i >= (n + 1) - k)
      <4>1. i \in 1 .. n /\ i > n - n /\ i = (n + 1) - (k + 1)
        BY <2>1, <2>2, <3>2
      <4>2. PICK t : t = i + Len(ChunkAt(syms, i).syms)
        OBVIOUS
      <4>3. t \in (i + 1) .. (n + 1)
        BY <4>1, <4>2, ChunksAhead
      <4>4. t \in 1 .. (n + 1) /\ t >= (n + 1) - k
        BY <2>1, <4>1, <4>3
      <4>5. SpellsOut(f[t], syms, n, t)
        BY <2>1, <4>4
      <4>6. SpellsOut(<<ChunkAt(syms, i)>> \o f[t], syms, n, i)
        BY <4>1, <4>2, <4>5, MoreSpelled
      <4>7. f[i] = <<ChunkAt(syms, i)>> \o f[t]
        BY <1>1, <4>1, <4>2 DEF Chunked
      <4> QED
        BY <4>6, <4>7
    <3> QED
      BY <3>1, <3>2
  <2>3. Out(k + 1)
    BY <2>2
  <2> HIDE DEF Out
  <2> QED
    BY <2>1, <2>3
<1>4. Done = Nat
  <2> HIDE DEF Done
  <2>1. Done \in SUBSET Nat
    BY DEF Done
  <2> QED
    BY <1>2, <1>3, <2>1, SetInduction
<1>5. Out(n)
  <2> HIDE DEF Out
  <2> QED
    BY <1>4
<1>6. 1 \in 1 .. (n + 1) /\ 1 >= (n + 1) - n
  OBVIOUS
<1> QED
  BY <1>1, <1>5, <1>6

-----------------------------------------------------------------------------
(* Bytes *)

LEMMA Division ==
  ASSUME NEW m \in Nat \ {0}, NEW q \in Int, NEW r \in 0 .. (m - 1)
  PROVE  (q * m + r) % m = r /\ (q * m + r) \div m = q
<1> DEFINE x == q * m + r
           Q == x \div m
           R == x % m
<1>1. x \in Int /\ Q \in Int /\ R \in Nat /\ R < m /\ x = Q * m + R
  OBVIOUS
<1>2. \A a, b \in Int, y, z \in Nat : y < m /\ z < m /\ a * m + y = b * m + z => ~(a < b)
  <2> SUFFICES ASSUME NEW a \in Int, NEW b \in Int, NEW y \in Nat, NEW z \in Nat,
                      y < m, z < m, a * m + y = b * m + z, a < b
               PROVE  FALSE
    BY ONLY TRUE
  <2>1. PICK c \in Nat : b = a + 1 + c
    <3>1. b - a - 1 \in Nat /\ b = a + 1 + (b - a - 1)
      OBVIOUS
    <3> QED
      BY <3>1
  <2>2. b * m = a * m + m + c * m /\ c * m \in Nat
    BY <2>1
  <2>3. a * m \in Int /\ b * m \in Int
    OBVIOUS
  <2> QED
    BY <2>2, <2>3
<1>3. q * m + r = Q * m + R /\ r \in Nat /\ r < m
  BY <1>1
<1> HIDE DEF Q, R
<1>4. ~(q < Q) /\ ~(Q < q)
  <2> HIDE DEF x
  <2> QED
    BY <1>1, <1>2, <1>3
<1>5. q = Q
  BY <1>1, <1>4
<1>6. r = R
  <2>1. q * m \in Int
    OBVIOUS
  <2> QED
    BY <1>1, <1>3, <1>5, <2>1
<1> QED
  BY <1>5, <1>6 DEF Q, R

\* Two bytes are put together to the delta they were taken from.
LEMMA LargeBytes ==
  ASSUME NEW d \in Int, IsLarge(d)
  PROVE  /\ (d % LargeSpace) \div ByteSpace \in Int /\ d % ByteSpace \in Int
         /\ Signed(((d % LargeSpace) \div ByteSpace) * ByteSpace + (d % ByteSpace)) = d
<1> DEFINE B == ByteSpace
           L == LargeSpace
           h == L \div 2
<1>1. B \in Nat \ {0} /\ L \in Nat /\ L >= 1 /\ L = B * B
  BY TwccAssumption DEF LargeSpace
<1>2. h \in Nat /\ 2 * h <= L
  BY <1>1
<1>3. d >= -h /\ d < h
  BY DEF IsLarge
<1>4. PICK u \in Nat : u = (IF d < 0 THEN d + L ELSE d) /\ u < L
  <2> HIDE DEF h, L
  <2>1. (IF d < 0 THEN d + L ELSE d) \in Nat /\ (IF d < 0 THEN d + L ELSE d) < L
    BY <1>1, <1>2, <1>3
  <2> QED
    BY <2>1
<1>5. d % L = u
  <2>1. L \in Nat \ {0} /\ u \in 0 .. (L - 1)
    BY <1>1, <1>4
  <2> HIDE DEF L, h
  <2>2. CASE d < 0
    <3>1. d = (-1) * L + u
      BY <1>1, <1>4, <2>2
    <3>2. ((-1) * L + u) % L = u
      BY <2>1, Division
    <3> QED
      BY <3>1, <3>2
  <2>3. CASE ~(d < 0)
    <3>1. d = 0 * L + u
      BY <1>1, <1>4, <2>3
    <3>2. (0 * L + u) % L = u
      BY <2>1, Division
    <3> QED
      BY <3>1, <3>2
  <2> QED
    BY <2>2, <2>3
<1>6. PICK q \in Nat, r \in 0 .. (B - 1) : u = q * B + r /\ q = u \div B
  <2>1. u \div B \in Nat /\ u % B \in 0 .. (B - 1) /\ u = (u \div B) * B + (u % B)
    BY <1>1
  <2> QED
    BY <2>1
<1>7. d % B = r
  <2> HIDE DEF h
  <2>1. CASE d < 0
    <3>1. d = (q - B) * B + r
      <4>1. (q - B) * B = q * B - B * B /\ q * B \in Int /\ B * B \in Int
        BY <1>1
      <4> QED
        BY <1>1, <1>4, <1>6, <2>1, <4>1
    <3>2. q - B \in Int
      BY <1>1
    <3>3. ((q - B) * B + r) % B = r
      BY <1>1, <3>2, Division
    <3> QED
      BY <3>1, <3>3
  <2>2. CASE ~(d < 0)
    <3>1. d = q * B + r
      BY <1>4, <1>6, <2>2
    <3>2. (q * B + r) % B = r
      BY <1>1, Division
    <3> QED
      BY <3>1, <3>2
  <2> QED
    BY <2>1, <2>2
<1>8. (d % L) \div B = q /\ d % B = r /\ q * B + r = u
  BY <1>5, <1>6, <1>7
<1>9. Signed(u) = d
  <2>1. (u >= L \div 2) = (d < 0)
    <3>1. h = L \div 2
      OBVIOUS
    <3> HIDE DEF h, L
    <3> QED
      BY <1>1, <1>2, <1>3, <1>4, <3>1
  <2> HIDE DEF h
  <2>2. CASE d < 0
    <3>1. u - L = d
      BY <1>1, <1>4, <2>2
    <3> QED
      BY <2>1, <2>2, <3>1 DEF Signed
  <2>3. CASE ~(d < 0)
    BY <1>4, <2>1, <2>3 DEF Signed
  <2> QED
    BY <2>2, <2>3
<1>10. Signed(((d % L) \div B) * B + (d % B)) = d
  BY <1>8, <1>9, Zenon
<1> QED
  BY <1>8, <1>10, <1>1

-----------------------------------------------------------------------------
(* Reading what was built *)

StatusBytes(s) == IF s = NotReceived THEN <<>> ELSE Bytes(s)

LEMMA StatusBytesAre ==
  ASSUME NEW s \in Int, s # NotReceived => IsLarge(s)
  PROVE  /\ StatusBytes(s) \in Seq(Int) /\ Symbol(s) \in 0 .. 2
         /\ Len(StatusBytes(s)) = DeltaBytes(Symbol(s))
         /\ Symbol(s) = 1 => Len(StatusBytes(s)) = 1 /\ StatusBytes(s)[1] = s
         /\ Symbol(s) = 2 =>
              /\ Len(StatusBytes(s)) = 2
              /\ Signed(StatusBytes(s)[1] * ByteSpace + StatusBytes(s)[2]) = s
         /\ Symbol(s) = 0 => s = NotReceived
<1>1. CASE s = NotReceived
  BY <1>1 DEF StatusBytes, Symbol, DeltaBytes
<1>2. CASE s # NotReceived /\ IsSmall(s)
  BY <1>2 DEF StatusBytes, Symbol, DeltaBytes, Bytes
<1>3. CASE s # NotReceived /\ ~IsSmall(s)
  <2> DEFINE hi == (s % LargeSpace) \div ByteSpace
             lo == s % ByteSpace
  <2>1. hi \in Int /\ lo \in Int /\ Signed(hi * ByteSpace + lo) = s
    BY <1>3, LargeBytes
  <2>2. StatusBytes(s) = <<hi, lo>>
    BY <1>3 DEF StatusBytes, Bytes
  <2>3. Symbol(s) = 2
    BY <1>3 DEF Symbol
  <2> HIDE DEF hi, lo
  <2>4. Len(<<hi, lo>>) = 2 /\ <<hi, lo>>[1] = hi /\ <<hi, lo>>[2] = lo /\ <<hi, lo>> \in Seq(Int)
    BY <2>1
  <2> QED
    BY <2>1, <2>2, <2>3, <2>4 DEF DeltaBytes
<1> QED
  BY <1>1, <1>2, <1>3

\* A packet that was built is accepted by its reader, and what the reader sees are
\* the statuses it was built from, for any number of them, every mixture of lost,
\* early and late packets and wherever chunks end, as long as each delta fits two
\* bytes (Twcc::build, Twcc::from_block, TwccPackets::next).
THEOREM FeedbackReadsBack ==
  ASSUME NEW n \in Nat, NEW st \in [1 .. n -> Int], Buildable(st), NEW base, NEW ref, NEW fb
  PROVE  Parses(Build(base, ref, fb, st)) /\ Statuses(Build(base, ref, fb, st)) = st
<1> DEFINE syms == [i \in 1 .. n |-> Symbol(st[i])]
           seqs == [i \in 1 .. n |-> StatusBytes(st[i])]
           pkt  == Build(base, ref, fb, st)
<1>1. Len(st) = n /\ DOMAIN st = 1 .. n
  OBVIOUS
<1>2. \A i \in 1 .. n : st[i] \in Int /\ (st[i] # NotReceived => IsLarge(st[i]))
  BY <1>1 DEF Buildable
<1>3. syms \in [1 .. n -> 0 .. 2] /\ \A i \in 1 .. n : syms[i] = Symbol(st[i])
  BY <1>2, StatusBytesAre
<1>4. seqs \in [1 .. n -> Seq(Int)] /\ \A i \in 1 .. n : seqs[i] = StatusBytes(st[i])
  BY <1>2, StatusBytesAre
<1>5. pkt.count = n /\ pkt.chunks = Chunks(syms) /\ pkt.deltas = FlattenSeq(seqs)
  BY <1>1 DEF Build, StatusBytes
<1> HIDE DEF syms, seqs, pkt
<1>0. SpellsOut(Chunks(syms), syms, n, 1)
  BY <1>3, ChunksSpellOut
<1>6. Symbols(pkt) = syms
  <2> DEFINE cs == Chunks(syms)
             y  == FlattenSeq(SpelledOf(cs))
  <2>1. SpellsOut(cs, syms, n, 1)
    BY <1>0
  <2>2. Symbols(pkt) = SubSeq(y, 1, n)
    BY <1>5, Zenon DEF Symbols, SpelledOf
  <2>3. y \in Seq(0 .. 2) /\ Len(y) >= n /\ \A j \in 1 .. n : y[j] = syms[j]
    <3>1. (n + 1) - 1 = n /\ \A j \in 1 .. n : 1 + j - 1 = j
      OBVIOUS
    <3> HIDE DEF cs
    <3> QED
      BY <2>1, <3>1 DEF SpellsOut
  <2> HIDE DEF y
  <2>4. SubSeq(y, 1, n) \in [1 .. n -> 0 .. 2] /\ \A j \in 1 .. n : SubSeq(y, 1, n)[j] = y[j]
    <3>1. \A j \in 1 .. n : y[j] \in 0 .. 2
      BY <1>3, <2>3
    <3>2. SubSeq(y, 1, n) = [j \in 1 .. n |-> y[1 + j - 1]]
      BY <2>3
    <3>3. \A j \in 1 .. n : 1 + j - 1 = j
      OBVIOUS
    <3> QED
      BY <3>1, <3>2, <3>3
  <2>5. \A j \in 1 .. n : SubSeq(y, 1, n)[j] = syms[j]
    BY <2>3, <2>4
  <2>6. PICK z \in [1 .. n -> 0 .. 2] : z = SubSeq(y, 1, n)
    BY <2>4
  <2>7. z = syms
    BY <1>3, <2>5, <2>6
  <2> QED
    BY <2>2, <2>6, <2>7
<1>7. PICK O \in [0 .. n -> Nat] : Offsets(O, seqs, n)
  BY <1>4, OffsetsExist
<1>8. Steps(O, syms, n)
  <2>1. ASSUME NEW i \in 1 .. n PROVE Len(seqs[i]) = DeltaBytes(syms[i])
    BY <1>2, <1>3, <1>4, StatusBytesAre
  <2> QED
    BY <1>7, <2>1 DEF Offsets, Steps
<1>9. ASSUME NEW i \in 1 .. n PROVE DeltaAt(syms, i) = O[i - 1] + 1 /\ O[i - 1] \in Nat
  <2>1. i \in 1 .. (n + 1) /\ i - 1 \in 0 .. n
    OBVIOUS
  <2> QED
    BY <1>3, <1>8, <2>1, DeltaAtIs
<1>10. /\ Len(pkt.deltas) = O[n]
       /\ \A i \in 1 .. n : \A k \in 1 .. Len(seqs[i]) : pkt.deltas[O[i - 1] + k] = seqs[i][k]
  <2>1. Placed(pkt.deltas, seqs, O, n)
    <3>1. PICK sq \in [1 .. n -> Seq(Int)] : sq = seqs
      BY <1>4
    <3>2. Offsets(O, sq, n)
      BY <1>7, <3>1
    <3>3. Placed(FlattenSeq(sq), sq, O, n)
      BY <3>2, FlattenAt
    <3> QED
      BY <1>5, <3>1, <3>3
  <2> QED
    BY <2>1, Zenon DEF Placed
<1>11. ASSUME NEW i \in 1 .. n
       PROVE  (IF syms[i] = 1 THEN pkt.deltas[DeltaAt(syms, i)]
               ELSE IF syms[i] = 2 THEN Signed(pkt.deltas[DeltaAt(syms, i)] * ByteSpace
                                               + pkt.deltas[DeltaAt(syms, i) + 1])
               ELSE NotReceived) = st[i]
  <2>1. PICK o \in Nat : o = O[i - 1] /\ DeltaAt(syms, i) = o + 1
    BY <1>9
  <2>2. syms[i] = Symbol(st[i]) /\ seqs[i] = StatusBytes(st[i]) /\ syms[i] \in 0 .. 2
    BY <1>3, <1>4
  <2>3. CASE syms[i] = 1
    <3>1. Len(seqs[i]) = 1 /\ seqs[i][1] = st[i]
      BY <1>2, <2>2, <2>3, StatusBytesAre
    <3>2. pkt.deltas[o + 1] = st[i]
      <4>1. 1 \in 1 .. Len(seqs[i])
        BY <3>1
      <4> QED
        BY <1>10, <2>1, <3>1, <4>1, Zenon
    <3> QED
      BY <2>1, <2>3, <3>2
  <2>4. CASE syms[i] = 2
    <3>1. Len(seqs[i]) = 2 /\ Signed(seqs[i][1] * ByteSpace + seqs[i][2]) = st[i]
      BY <1>2, <2>2, <2>4, StatusBytesAre
    <3>2. pkt.deltas[o + 1] = seqs[i][1] /\ pkt.deltas[o + 2] = seqs[i][2]
      <4>1. 1 \in 1 .. Len(seqs[i]) /\ 2 \in 1 .. Len(seqs[i])
        BY <3>1
      <4> QED
        BY <1>10, <2>1, <4>1, Zenon
    <3>3. (o + 1) + 1 = o + 2
      OBVIOUS
    <3>4. Signed(pkt.deltas[DeltaAt(syms, i)] * ByteSpace + pkt.deltas[DeltaAt(syms, i) + 1]) = st[i]
      BY <2>1, <3>1, <3>2, <3>3, Zenon
    <3> QED
      BY <2>4, <3>4
  <2>5. CASE syms[i] = 0
    <3>1. st[i] = NotReceived
      BY <1>2, <2>2, <2>5, StatusBytesAre
    <3>2. syms[i] # 1 /\ syms[i] # 2
      BY <2>5
    <3> QED
      BY <3>1, <3>2, Zenon
  <2> QED
    BY <2>2, <2>3, <2>4, <2>5
<1>12. Statuses(pkt) = [i \in 1 .. n |->
         IF syms[i] = 1 THEN pkt.deltas[DeltaAt(syms, i)]
         ELSE IF syms[i] = 2 THEN Signed(pkt.deltas[DeltaAt(syms, i)] * ByteSpace
                                         + pkt.deltas[DeltaAt(syms, i) + 1])
         ELSE NotReceived]
  BY <1>5, <1>6, Zenon DEF Statuses
<1>13. Statuses(pkt) = [i \in 1 .. n |-> st[i]]
  BY <1>11, <1>12, Zenon
<1>14. st = [i \in 1 .. n |-> st[i]]
  OBVIOUS
<1>15. Parses(pkt)
  <2>1. ASSUME NEW c \in ChunkSet(syms) PROVE "run" \notin DOMAIN c
    BY <2>1 DEF ChunkSet, ChunkAt
  <2>2. \A i \in DOMAIN pkt.chunks : "run" \notin DOMAIN pkt.chunks[i]
    <3>1. PICK cs \in Seq(ChunkSet(syms)) : cs = pkt.chunks
      BY <1>0, <1>5 DEF SpellsOut
    <3>2. \A i \in DOMAIN cs : cs[i] \in ChunkSet(syms)
      <4> HIDE <2>1
      <4> QED
        BY <3>1
    <3> QED
      BY <2>1, <3>1, <3>2, Zenon
  <2>3. pkt.count <= Len(FlattenSeq([i \in DOMAIN pkt.chunks |-> Spelled(pkt.chunks[i])]))
    <3>1. (n + 1) - 1 = n
      OBVIOUS
    <3>2. Len(FlattenSeq(SpelledOf(pkt.chunks))) >= (n + 1) - 1
      BY <1>0, <1>5, Zenon DEF SpellsOut
    <3>3. PICK len : len = Len(FlattenSeq(SpelledOf(pkt.chunks)))
      OBVIOUS
    <3>4. len \in Nat
      BY <1>0, <1>5, <3>3 DEF SpellsOut
    <3>5. n <= len
      BY <3>1, <3>2, <3>3, <3>4
    <3> QED
      BY <1>5, <3>3, <3>5, Zenon DEF SpelledOf
  <2>4. DeltaAt(Symbols(pkt), pkt.count + 1) <= Len(pkt.deltas) + 1
    <3>1. n + 1 \in 1 .. (n + 1) /\ (n + 1) - 1 = n /\ n \in 0 .. n
      OBVIOUS
    <3>2. DeltaAt(syms, n + 1) = O[(n + 1) - 1] + 1
      BY <1>3, <1>8, <3>1, DeltaAtIs
    <3>3. O[n] \in Nat
      BY <3>1
    <3>4. PICK o \in Nat : o = O[n]
      BY <3>3
    <3>5. DeltaAt(Symbols(pkt), pkt.count + 1) = o + 1 /\ Len(pkt.deltas) = o
      BY <1>5, <1>6, <1>10, <3>1, <3>2, <3>4, Zenon
    <3> QED
      BY <3>5
  <2> QED
    BY <2>2, <2>3, <2>4, Zenon DEF Parses
<1> QED
  BY <1>13, <1>14, <1>15 DEF pkt

-----------------------------------------------------------------------------
(* What a reader of the feedback hears *)

\* Of numbers up to n, one is the highest.
LEMMA HighestExists ==
  ASSUME NEW n \in Nat, NEW S \in SUBSET (1 .. n), S # {}
  PROVE  HighestOf(S) \in S /\ \A j \in S : HighestOf(S) >= j
<1> DEFINE T == {n - j : j \in S}
<1>1. T \in SUBSET Nat /\ T # {}
  <2>1. \A j \in S : n - j \in Nat
    OBVIOUS
  <2>2. PICK j \in S : TRUE
    OBVIOUS
  <2> QED
    BY <2>1, <2>2, Zenon
<1>2. PICK m \in T : \A k \in T : m <= k
  <2> HIDE DEF T
  <2> QED
    BY <1>1, LeastNatural
<1>3. PICK i \in S : m = n - i
  BY <1>2
<1>4. \A j \in S : i >= j
  BY <1>2, <1>3
<1> QED
  BY <1>4 DEF HighestOf

LEMMA LowestExists ==
  ASSUME NEW n \in Nat, NEW S \in SUBSET (1 .. n), S # {}
  PROVE  LowestOf(S) \in S /\ \A j \in S : LowestOf(S) <= j
<1>1. S \in SUBSET Nat
  OBVIOUS
<1>2. \E i \in S : \A j \in S : i <= j
  BY <1>1, LeastNatural
<1> QED
  BY <1>2 DEF LowestOf

\* The time the i-th status is told relative to.
Earlier(a, i) == {j \in ReceivedAt(a) : j < i}
PrevTime(a, i) == IF Earlier(a, i) = {} THEN RefTime(a) * RefUnit ELSE a[HighestOf(Earlier(a, i))]

\* The arrivals of a window that a feedback packet can tell exactly.
TimesFit(a, n) ==
  /\ a \in [1 .. n -> Int]
  /\ \A i, j \in ReceivedAt(a) : j < i => IsLarge(a[i] - a[j])

LEMMA PrevTimes ==
  ASSUME NEW n \in Nat, NEW a, TimesFit(a, n)
  PROVE  /\ PrevTime(a, 1) = RefTime(a) * RefUnit
         /\ RefTime(a) \in Int
         /\ \A i \in 1 .. (n + 1) : PrevTime(a, i) \in Int
         /\ \A i \in 1 .. n :
              IF a[i] = NotReceived THEN PrevTime(a, i + 1) = PrevTime(a, i)
              ELSE PrevTime(a, i + 1) = a[i] /\ IsLarge(a[i] - PrevTime(a, i))
<1>0. a \in [1 .. n -> Int] /\ DOMAIN a = 1 .. n
  BY DEF TimesFit
<1>1. ReceivedAt(a) \in SUBSET (1 .. n)
  BY <1>0 DEF ReceivedAt
<1>2. RefUnit \in Nat \ {0} /\ LargeSpace \in Nat /\ RefUnit <= LargeSpace \div 2
  BY FeedbackAssumption, TwccAssumption DEF LargeSpace
<1>3. RefTime(a) \in Int
  <2>1. CASE ReceivedAt(a) = {}
    BY <2>1 DEF RefTime
  <2>2. CASE ReceivedAt(a) # {}
    <3>1. LowestOf(ReceivedAt(a)) \in 1 .. n
      BY <1>1, <2>2, LowestExists
    <3> QED
      BY <1>0, <1>2, <2>2, <3>1 DEF RefTime
  <2> QED
    BY <2>1, <2>2
<1>4. PrevTime(a, 1) = RefTime(a) * RefUnit
  <2>1. Earlier(a, 1) = {}
    BY <1>1 DEF Earlier
  <2> QED
    BY <2>1 DEF PrevTime
<1>5. ASSUME NEW i \in 1 .. (n + 1) PROVE PrevTime(a, i) \in Int
  <2>1. CASE Earlier(a, i) = {}
    <3>1. RefTime(a) * RefUnit \in Int
      BY <1>2, <1>3
    <3> QED
      BY <2>1, <3>1 DEF PrevTime
  <2>2. CASE Earlier(a, i) # {}
    <3>1. HighestOf(Earlier(a, i)) \in 1 .. n
      BY <1>1, <2>2, HighestExists DEF Earlier
    <3> QED
      BY <1>0, <2>2, <3>1 DEF PrevTime
  <2> QED
    BY <2>1, <2>2
<1>6. ASSUME NEW i \in 1 .. n, a[i] = NotReceived
      PROVE  PrevTime(a, i + 1) = PrevTime(a, i)
  <2>1. Earlier(a, i + 1) = Earlier(a, i)
    <3>1. i \notin ReceivedAt(a)
      BY <1>6 DEF ReceivedAt
    <3>2. \A j \in ReceivedAt(a) : j < i + 1 <=> j < i
      BY <1>1, <3>1
    <3> QED
      BY <3>2 DEF Earlier
  <2> QED
    BY <2>1 DEF PrevTime
<1>7. ASSUME NEW i \in 1 .. n, a[i] # NotReceived
      PROVE  PrevTime(a, i + 1) = a[i] /\ IsLarge(a[i] - PrevTime(a, i))
  <2>0. i \in ReceivedAt(a)
    BY <1>0, <1>7 DEF ReceivedAt
  <2>1. PrevTime(a, i + 1) = a[i]
    <3>1. i \in Earlier(a, i + 1) /\ Earlier(a, i + 1) \in SUBSET (1 .. n) /\ \A j \in Earlier(a, i + 1) : j <= i
      BY <1>1, <2>0 DEF Earlier
    <3>2. HighestOf(Earlier(a, i + 1)) \in Earlier(a, i + 1) /\ HighestOf(Earlier(a, i + 1)) >= i
      BY <3>1, HighestExists
    <3>3. HighestOf(Earlier(a, i + 1)) = i
      BY <3>1, <3>2
    <3> QED
      BY <3>1, <3>3 DEF PrevTime
  <2>2. CASE Earlier(a, i) = {}
    <3>1. LowestOf(ReceivedAt(a)) \in ReceivedAt(a) /\ \A j \in ReceivedAt(a) : LowestOf(ReceivedAt(a)) <= j
      BY <1>1, <2>0, LowestExists
    <3>2. \A j \in ReceivedAt(a) : ~(j < i)
      BY <2>2 DEF Earlier
    <3>3. LowestOf(ReceivedAt(a)) = i
      BY <1>1, <2>0, <3>1, <3>2
    <3>4. RefTime(a) = a[i] \div RefUnit
      BY <2>0, <3>3 DEF RefTime
    <3>5. PICK x \in Int : x = a[i]
      BY <1>0
    <3>6. PICK q \in Int, r \in Nat : q = x \div RefUnit /\ x = q * RefUnit + r /\ r < RefUnit
      <4>1. x \div RefUnit \in Int /\ x % RefUnit \in Nat /\ x % RefUnit < RefUnit
            /\ x = (x \div RefUnit) * RefUnit + (x % RefUnit)
        BY <1>2
      <4> QED
        BY <4>1
    <3>7. PrevTime(a, i) = q * RefUnit
      BY <2>2, <3>4, <3>5, <3>6 DEF PrevTime
    <3>8. x - q * RefUnit = r
      <4>1. q * RefUnit \in Int
        BY <1>2
      <4> QED
        BY <3>6, <4>1
    <3>9. a[i] - PrevTime(a, i) = r
      BY <3>5, <3>7, <3>8, Zenon
    <3>10. LargeSpace \div 2 \in Nat
      BY <1>2
    <3>11. IsLarge(r)
      BY <1>2, <3>6, <3>10 DEF IsLarge
    <3> QED
      BY <2>1, <3>9, <3>11
  <2>3. CASE Earlier(a, i) # {}
    <3>1. HighestOf(Earlier(a, i)) \in Earlier(a, i)
      BY <1>1, <2>3, HighestExists DEF Earlier
    <3>2. HighestOf(Earlier(a, i)) \in ReceivedAt(a) /\ HighestOf(Earlier(a, i)) < i
      BY <3>1 DEF Earlier
    <3>3. IsLarge(a[i] - a[HighestOf(Earlier(a, i))])
      BY <2>0, <3>2 DEF TimesFit
    <3> QED
      BY <2>1, <2>3, <3>3 DEF PrevTime
  <2> QED
    BY <2>1, <2>2, <2>3
<1> QED
  BY <1>3, <1>4, <1>5, <1>6, <1>7

\* The status of each packet of a window, when no delta is clamped.
LEMMA DeltasAre ==
  ASSUME NEW n \in Nat, NEW a, TimesFit(a, n)
  PROVE  /\ Deltas(a) \in [1 .. n -> Int] /\ Buildable(Deltas(a))
         /\ \A i \in 1 .. n : Deltas(a)[i] = IF a[i] = NotReceived THEN NotReceived ELSE a[i] - PrevTime(a, i)
         /\ ReceivedAt(Deltas(a)) = ReceivedAt(a)
<1> DEFINE st == Deltas(a)
<1>0. a \in [1 .. n -> Int] /\ DOMAIN a = 1 .. n
  BY DEF TimesFit
<1>1. st = [i \in 1 .. n |-> IF a[i] = NotReceived THEN a[i] ELSE Clamped(a[i] - PrevTime(a, i))]
  BY <1>0 DEF Deltas, PrevTime, Earlier
<1>2. LargeSpace \in Nat \ {0} /\ LargeSpace \div 2 \in Nat /\ LargeSpace \div 2 < LargeSpace
  <2>1. LargeSpace \in Nat \ {0}
    BY TwccAssumption DEF LargeSpace
  <2> QED
    BY <2>1
<1>3. ASSUME NEW i \in 1 .. n, a[i] # NotReceived
      PROVE  st[i] = a[i] - PrevTime(a, i) /\ IsLarge(st[i]) /\ st[i] \in Int /\ st[i] # NotReceived
  <2>1. IsLarge(a[i] - PrevTime(a, i)) /\ PrevTime(a, i) \in Int
    <3>1. i \in 1 .. (n + 1)
      OBVIOUS
    <3> QED
      BY <1>3, <3>1, PrevTimes
  <2>2. PICK d \in Int : d = a[i] - PrevTime(a, i)
    BY <1>0, <2>1
  <2>3. Clamped(d) = d /\ d # NotReceived
    BY <1>2, <2>1, <2>2 DEF Clamped, IsLarge, NotReceived
  <2>4. st[i] = Clamped(a[i] - PrevTime(a, i))
    BY <1>1, <1>3
  <2> HIDE DEF st
  <2> QED
    BY <2>1, <2>2, <2>3, <2>4
<1>4. ASSUME NEW i \in 1 .. n, a[i] = NotReceived
      PROVE  st[i] = NotReceived /\ st[i] \in Int
  BY <1>0, <1>1, <1>4
<1>5. st = [i \in 1 .. n |-> st[i]]
  BY <1>1
<1> HIDE DEF st
<1>6. st \in [1 .. n -> Int]
  BY <1>3, <1>4, <1>5
<1>7. ReceivedAt(st) = ReceivedAt(a)
  BY <1>0, <1>3, <1>4, <1>6 DEF ReceivedAt
<1>8. Buildable(st)
  <2>1. DOMAIN st = 1 .. n
    BY <1>6
  <2>2. ASSUME NEW i \in 1 .. n, st[i] # NotReceived PROVE IsLarge(st[i])
    BY <1>3, <1>4, <2>2
  <2> QED
    BY <2>1, <2>2, Zenon DEF Buildable
<1> QED
  BY <1>3, <1>4, <1>6, <1>7, <1>8 DEF st

\* sum has the time of the last packet up to each status.
Sums(sum, st, first, n) ==
  sum = [i \in 0 .. n |-> IF i = 0 THEN first
                          ELSE IF st[i] = NotReceived THEN sum[i - 1] ELSE sum[i - 1] + st[i]]

LEMMA SumsAre ==
  ASSUME NEW n \in Nat, NEW a, TimesFit(a, n)
  PROVE  \E sum : /\ sum = CHOOSE f : Sums(f, Deltas(a), RefTime(a) * RefUnit, n)
                  /\ \A i \in 1 .. n : a[i] # NotReceived => sum[i] = a[i]
<1> DEFINE st == Deltas(a)
           first == RefTime(a) * RefUnit
           h == [i \in 0 .. n |-> PrevTime(a, i + 1)]
           sum == CHOOSE f : Sums(f, st, first, n)
<1>0. /\ st \in [1 .. n -> Int] /\ a \in [1 .. n -> Int]
      /\ \A i \in 1 .. n : st[i] = IF a[i] = NotReceived THEN NotReceived ELSE a[i] - PrevTime(a, i)
      /\ \A i \in 1 .. n : st[i] = NotReceived <=> a[i] = NotReceived
      /\ PrevTime(a, 1) = first
      /\ \A i \in 1 .. (n + 1) : PrevTime(a, i) \in Int
      /\ \A i \in 1 .. n : PrevTime(a, i + 1) = IF a[i] = NotReceived THEN PrevTime(a, i) ELSE a[i]
  <2>1. /\ st \in [1 .. n -> Int] /\ ReceivedAt(st) = ReceivedAt(a)
        /\ \A i \in 1 .. n : st[i] = IF a[i] = NotReceived THEN NotReceived ELSE a[i] - PrevTime(a, i)
    BY DeltasAre
  <2>2. /\ PrevTime(a, 1) = first
        /\ \A i \in 1 .. (n + 1) : PrevTime(a, i) \in Int
        /\ \A i \in 1 .. n : PrevTime(a, i + 1) = IF a[i] = NotReceived THEN PrevTime(a, i) ELSE a[i]
    BY PrevTimes
  <2>3. a \in [1 .. n -> Int]
    BY DEF TimesFit
  <2> HIDE DEF st, first
  <2>4. \A i \in 1 .. n : st[i] = NotReceived <=> a[i] = NotReceived
    <3>1. \A i \in 1 .. n : (i \in ReceivedAt(st) <=> st[i] # NotReceived)
                            /\ (i \in ReceivedAt(a) <=> a[i] # NotReceived)
      BY <2>1, <2>3 DEF ReceivedAt
    <3> QED
      BY <2>1, <3>1
  <2> QED
    BY <2>1, <2>2, <2>3, <2>4
<1> HIDE DEF st, first
<1>1. Sums(h, st, first, n)
  <2>1. ASSUME NEW i \in 0 .. n
        PROVE  PrevTime(a, i + 1) = IF i = 0 THEN first
                 ELSE IF st[i] = NotReceived THEN h[i - 1] ELSE h[i - 1] + st[i]
    <3>1. CASE i = 0
      <4>1. i + 1 = 1
        BY <3>1
      <4> QED
        BY <1>0, <3>1, <4>1
    <3>2. CASE i # 0
      <4>1. i \in 1 .. n /\ i - 1 \in 0 .. n /\ (i - 1) + 1 = i /\ i \in 1 .. (n + 1)
        BY <3>2
      <4>2. h[i - 1] = PrevTime(a, i)
        <5>1. h[i - 1] = PrevTime(a, (i - 1) + 1)
          BY <4>1
        <5> QED
          BY <4>1, <5>1
      <4> HIDE DEF h
      <4>3. PICK x \in Int, y \in Int : x = PrevTime(a, i) /\ y = a[i]
        BY <1>0, <4>1
      <4>4. CASE a[i] = NotReceived
        BY <1>0, <3>2, <4>1, <4>2, <4>4
      <4>5. CASE a[i] # NotReceived
        <5>1. st[i] = y - x /\ PrevTime(a, i + 1) = y /\ st[i] # NotReceived
          BY <1>0, <4>1, <4>3, <4>5
        <5>2. h[i - 1] + st[i] = y
          <6>1. h[i - 1] = x
            BY <4>2, <4>3
          <6>2. x + (y - x) = y
            OBVIOUS
          <6> QED
            BY <5>1, <6>1, <6>2, Zenon
        <5> QED
          BY <3>2, <5>1, <5>2, Zenon
      <4> QED
        BY <4>4, <4>5
    <3> QED
      BY <3>1, <3>2
  <2>2. h = [i \in 0 .. n |-> PrevTime(a, i + 1)]
    OBVIOUS
  <2> HIDE DEF h
  <2> QED
    BY <2>1, <2>2, Zenon DEF Sums
<1>2. Sums(sum, st, first, n)
  <2> HIDE DEF h
  <2> QED
    BY <1>1, Zenon
<1> HIDE DEF sum
<1>3. \A i \in 0 .. n : sum[i] = IF i = 0 THEN first
                                 ELSE IF st[i] = NotReceived THEN sum[i - 1] ELSE sum[i - 1] + st[i]
  BY <1>2, Zenon DEF Sums
<1>4. \A i \in 0 .. n : h[i] = PrevTime(a, i + 1)
                        /\ h[i] = IF i = 0 THEN first
                                  ELSE IF st[i] = NotReceived THEN h[i - 1] ELSE h[i - 1] + st[i]
  <2>1. \A i \in 0 .. n : h[i] = PrevTime(a, i + 1)
    OBVIOUS
  <2> HIDE DEF h
  <2> QED
    BY <1>1, <2>1, Zenon DEF Sums
<1> HIDE DEF h
<1> DEFINE Same(i) == i <= n => sum[i] = h[i]
           Done == {i \in Nat : Same(i)}
<1>5. 0 \in Done
  <2>1. 0 \in 0 .. n
    OBVIOUS
  <2>2. sum[0] = h[0]
    BY <1>3, <1>4, <2>1, Zenon
  <2> QED
    BY <2>2
<1>6. ASSUME NEW i \in Done PROVE i + 1 \in Done
  <2>1. i \in Nat /\ Same(i)
    OBVIOUS
  <2>2. ASSUME i + 1 <= n PROVE sum[i + 1] = h[i + 1]
    <3>1. i + 1 \in 0 .. n /\ i + 1 # 0 /\ (i + 1) - 1 = i /\ sum[i] = h[i]
      BY <2>1, <2>2
    <3>2. sum[i + 1] = IF st[i + 1] = NotReceived THEN sum[i] ELSE sum[i] + st[i + 1]
      BY <1>3, <3>1, Zenon
    <3>3. h[i + 1] = IF st[i + 1] = NotReceived THEN h[i] ELSE h[i] + st[i + 1]
      BY <1>4, <3>1, Zenon
    <3> QED
      BY <3>1, <3>2, <3>3, Zenon
  <2> QED
    BY <2>1, <2>2
<1>7. Done = Nat
  <2> HIDE DEF Done
  <2>1. Done \in SUBSET Nat
    BY DEF Done
  <2> QED
    BY <1>5, <1>6, <2>1, SetInduction
<1>8. ASSUME NEW i \in 1 .. n, a[i] # NotReceived PROVE sum[i] = a[i]
  <2>1. i \in Nat /\ i <= n /\ i \in 0 .. n
    OBVIOUS
  <2>2. Same(i)
    <3> HIDE DEF Same
    <3> QED
      BY <1>7, <2>1
  <2>3. sum[i] = PrevTime(a, i + 1)
    BY <1>4, <2>1, <2>2
  <2> QED
    BY <1>0, <1>8, <2>3
<1> QED
  BY <1>8 DEF sum, st, first

HeardWith(sum, st, base) == {<<(base + i - 1) % SeqCycle, sum[i]>> : i \in ReceivedAt(st)}

\* What the publisher hears are the arrivals of the window (flush_twcc).
LEMMA HeardAre ==
  ASSUME NEW w, NEW n \in Nat, w.len = n, TimesFit(Arrivals(w), n)
  PROVE  Heard(Feedback(w)) =
           {<<(w.base + i - 1) % SeqCycle, Arrivals(w)[i]>> : i \in ReceivedAt(Arrivals(w))}
<1> DEFINE a == Arrivals(w)
           st == Deltas(a)
           pkt == Feedback(w)
<1>1. Statuses(pkt) = st
  <2>1. st \in [1 .. n -> Int] /\ Buildable(st)
    BY DeltasAre
  <2> HIDE DEF st, a
  <2>2. pkt = Build(w.base, RefTime(a), w.fb, st)
    BY DEF Feedback, a, st
  <2> HIDE DEF pkt
  <2>3. \A b, r, f : Statuses(Build(b, r, f, st)) = st
    BY <2>1, FeedbackReadsBack
  <2> QED
    BY <2>2, <2>3, Zenon
<1>2. Len(st) = n /\ ReceivedAt(st) = ReceivedAt(a)
  <2>1. st \in [1 .. n -> Int] /\ ReceivedAt(st) = ReceivedAt(a)
    BY DeltasAre
  <2> HIDE DEF st, a
  <2> QED
    BY <2>1
<1>3. pkt.base = w.base /\ pkt.ref = RefTime(a)
  BY DEF Feedback, Build
<1>4. PICK sum : /\ sum = CHOOSE f : Sums(f, st, RefTime(a) * RefUnit, n)
                 /\ \A i \in 1 .. n : a[i] # NotReceived => sum[i] = a[i]
  BY SumsAre
<1> HIDE DEF a, st, pkt
<1>5. Heard(pkt) = {<<(pkt.base + i - 1) % SeqCycle, sum[i]>> : i \in ReceivedAt(st)}
  <2>1. Heard(pkt) = HeardWith(CHOOSE f : Sums(f, Statuses(pkt), pkt.ref * RefUnit, Len(Statuses(pkt))),
                               Statuses(pkt), pkt.base)
    BY DEF Heard, HeardWith, Sums
  <2>2. Heard(pkt) = HeardWith(sum, st, pkt.base)
    BY <1>1, <1>2, <1>3, <1>4, <2>1, Zenon
  <2> QED
    BY <2>2, Zenon DEF HeardWith
<1>6. \A i \in ReceivedAt(a) : sum[i] = a[i]
  <2>1. DOMAIN a = 1 .. n
    BY DEF TimesFit, a
  <2> QED
    BY <1>4, <2>1 DEF ReceivedAt
<1>7. Heard(pkt) = {<<(w.base + i - 1) % SeqCycle, a[i]>> : i \in ReceivedAt(a)}
  BY <1>2, <1>3, <1>5, <1>6, Zenon
<1> QED
  BY <1>7 DEF a, pkt

-----------------------------------------------------------------------------
(* The window of arrival times *)

ClientRtp == TxKey("client", "rtp")

\* What the browser numbered before a packet, and that packet's number before it wraps.
NumberedBefore(id) == {q \in wire : q.key = ClientRtp /\ q.id < id}
NumberOf(id) == TwStart + Cardinality(NumberedBefore(id))

WireNumbered == IsFiniteSet(wire) /\ \A p \in wire : p.id \in 1 .. Cardinality(wire)

\* A packet of the browser arrived, and was numbered so.
ArrivedAs(a) ==
  /\ a.at \in Nat /\ a.at <= now
  /\ \E p \in wire : p.id = a.id /\ p.key = ClientRtp
  /\ a.tseq = NumberOf(a.id) % SeqSpace

LEMMA WireGrows ==
  ASSUME WireNumbered, SealStep
  PROVE  /\ WireNumbered' /\ wire \subseteq wire'
         /\ \A id \in 1 .. Cardinality(wire) : NumberOf(id)' = NumberOf(id)
<1>1. wire' = wire \/ \E q : q.id = Cardinality(wire) + 1 /\ wire' = wire \cup {q}
  <2>1. ASSUME NEW e, NEW s, NEW n, EncryptRtp(e, s, n)
        PROVE  wire' = wire \/ \E q : q.id = Cardinality(wire) + 1 /\ wire' = wire \cup {q}
    <3> DEFINE q == Seal(e, "rtp", s, n, SendIndex(StreamOf(tx[e], s).rtp, n % SeqSpace))
    <3>1. q.id = Cardinality(wire) + 1
      BY DEF Seal
    <3>2. wire' = wire \/ wire' = wire \cup {q}
      BY <2>1 DEF EncryptRtp
    <3> HIDE DEF q
    <3> QED
      BY <3>1, <3>2
  <2>2. ASSUME NEW e, NEW s, EncryptRtcp(e, s)
        PROVE  wire' = wire \/ \E q : q.id = Cardinality(wire) + 1 /\ wire' = wire \cup {q}
    <3> DEFINE q == Seal(e, "rtcp", s, 0, StreamOf(tx[e], s).next)
    <3>1. q.id = Cardinality(wire) + 1
      BY DEF Seal
    <3>2. wire' = wire \/ wire' = wire \cup {q}
      BY <2>2 DEF EncryptRtcp
    <3> HIDE DEF q
    <3> QED
      BY <3>1, <3>2
  <2> QED
    BY <2>1, <2>2 DEF SealStep
<1>2. IsFiniteSet(wire) /\ Cardinality(wire) \in Nat /\ \A p \in wire : p.id \in 1 .. Cardinality(wire)
  BY FS_CardinalityType DEF WireNumbered
<1>3. CASE wire' = wire
  BY <1>2, <1>3 DEF WireNumbered, NumberOf, NumberedBefore
<1>4. ASSUME NEW q, q.id = Cardinality(wire) + 1, wire' = wire \cup {q}
      PROVE  /\ WireNumbered' /\ wire \subseteq wire'
             /\ \A id \in 1 .. Cardinality(wire) : NumberOf(id)' = NumberOf(id)
  <2>1. q \notin wire
    BY <1>2, <1>4
  <2>2. IsFiniteSet(wire') /\ Cardinality(wire') = Cardinality(wire) + 1
    BY <1>2, <1>4, <2>1, FS_AddElement
  <2>3. \A p \in wire' : p.id \in 1 .. Cardinality(wire')
    BY <1>2, <1>4, <2>2
  <2>4. ASSUME NEW id \in 1 .. Cardinality(wire) PROVE NumberOf(id)' = NumberOf(id)
    <3>1. ~(q.id < id)
      BY <1>2, <1>4
    <3>2. NumberedBefore(id)' = NumberedBefore(id)
      BY <1>4, <3>1 DEF NumberedBefore
    <3> QED
      BY <3>2 DEF NumberOf
  <2> QED
    BY <1>4, <2>2, <2>3, <2>4 DEF WireNumbered
<1> QED
  BY <1>1, <1>3, <1>4

\* The browser numbers its packets upwards.
LEMMA NumbersUp ==
  ASSUME WireNumbered, NEW p \in wire, p.key = ClientRtp, NEW k \in Nat, p.id < k
  PROVE  NumberOf(p.id) \in Nat /\ NumberOf(k) \in Nat /\ NumberOf(p.id) < NumberOf(k)
<1>1. p.id \in Nat /\ IsFiniteSet(wire)
  BY FS_CardinalityType DEF WireNumbered
<1>2. \A q \in wire : q.id \in Nat
  BY FS_CardinalityType DEF WireNumbered
<1>3. IsFiniteSet(NumberedBefore(k)) /\ IsFiniteSet(NumberedBefore(p.id))
  BY <1>1, FS_Subset DEF NumberedBefore
<1>4. NumberedBefore(p.id) \subseteq NumberedBefore(k) /\ NumberedBefore(p.id) # NumberedBefore(k)
  <2>1. NumberedBefore(p.id) \subseteq NumberedBefore(k)
    BY <1>1, <1>2 DEF NumberedBefore
  <2>2. p \in NumberedBefore(k) /\ p \notin NumberedBefore(p.id)
    BY <1>1 DEF NumberedBefore
  <2> QED
    BY <2>1, <2>2
<1>5. Cardinality(NumberedBefore(p.id)) \in Nat /\ Cardinality(NumberedBefore(k)) \in Nat
  BY <1>3, FS_CardinalityType
<1>6. Cardinality(NumberedBefore(p.id)) < Cardinality(NumberedBefore(k))
  <2>1. PICK S, T : S = NumberedBefore(k) /\ T = NumberedBefore(p.id)
    OBVIOUS
  <2>2. T \in SUBSET S /\ T # S /\ IsFiniteSet(S)
    BY <1>3, <1>4, <2>1
  <2>3. Cardinality(T) <= Cardinality(S) /\ Cardinality(S) # Cardinality(T)
    BY <2>2, FS_Subset
  <2> QED
    BY <1>5, <2>1, <2>3
<1> QED
  BY <1>5, <1>6, LegAssumption DEF NumberOf

\* Sequence numbers less than half of them apart, and those ahead of the base.
LEMMA DistanceIs ==
  ASSUME NEW w, NEW b \in Nat, NEW num \in Nat, w.base = b % SeqSpace,
         num - b < Half, b - num < Half
  PROVE  Distance(w, num % SeqSpace) = num - b
<1>0. Half \in Nat /\ 2 * Half <= SeqSpace /\ SeqSpace \in Nat \ {0} /\ SeqCycle = SeqSpace
  BY HalfFits, WindowAssumption, LegAssumption
<1>1. num - b \in Int /\ num - b > -SeqSpace /\ num - b < SeqSpace
  BY <1>0
<1>2. ((num % SeqSpace) - (b % SeqSpace)) % SeqSpace = IF num - b < 0 THEN (num - b) + SeqSpace ELSE num - b
  BY <1>1, AheadIs
<1>3. PICK x : x = ((num % SeqSpace) - (b % SeqSpace)) % SeqSpace
  OBVIOUS
<1>4. Distance(w, num % SeqSpace) = IF x >= Half THEN x - SeqSpace ELSE x
  BY <1>0, <1>3 DEF Distance, Half
<1>5. x = IF num - b < 0 THEN (num - b) + SeqSpace ELSE num - b
  BY <1>2, <1>3
<1> QED
  BY <1>0, <1>4, <1>5

LEMMA DistanceReaches ==
  ASSUME NEW w, w.base \in Nat, w.base < SeqSpace, NEW seq \in Nat, seq < SeqSpace
  PROVE  Distance(w, seq) \in Int /\ (Distance(w, seq) >= 0 => (w.base + Distance(w, seq)) % SeqSpace = seq)
<1>0. Half \in Nat /\ 2 * Half <= SeqSpace /\ SeqSpace \in Nat \ {0} /\ SeqCycle = SeqSpace
  BY HalfFits, WindowAssumption, LegAssumption
<1>1. PICK b \in Nat : b = w.base
  OBVIOUS
<1>2. seq - b \in Int /\ -SeqSpace <= seq - b /\ seq - b < SeqSpace
  BY <1>0, <1>1
<1>3. (seq - b) % SeqSpace = IF seq - b < 0 THEN (seq - b) + SeqSpace ELSE seq - b
  BY <1>2, SmallRemainder
<1>4. PICK x \in Int : x = (seq - b) % SeqSpace
  BY <1>0, <1>2, <1>3
<1>5. Distance(w, seq) = IF x >= Half THEN x - SeqSpace ELSE x
  BY <1>0, <1>1, <1>4 DEF Distance, Half
<1>6. x - SeqSpace \in Int /\ x - SeqSpace < 0
  BY <1>0, <1>1, <1>3, <1>4
<1>7. ASSUME Distance(w, seq) >= 0 PROVE (b + Distance(w, seq)) % SeqSpace = seq
  <2>1. Distance(w, seq) = x
    BY <1>5, <1>6, <1>7
  <2>2. b + x = seq \/ b + x = 1 * SeqSpace + seq
    BY <1>0, <1>1, <1>3, <1>4
  <2>3. seq \in 0 .. (SeqSpace - 1) /\ seq = 0 * SeqSpace + seq
    BY <1>0
  <2>4. Seq16(0 * SeqSpace + seq) = seq
    BY IndexJoins
  <2>5. Seq16(1 * SeqSpace + seq) = seq
    BY IndexJoins
  <2> QED
    BY <2>1, <2>2, <2>3, <2>4, <2>5, Zenon DEF Seq16
<1> QED
  BY <1>0, <1>1, <1>5, <1>6, <1>7

WindowRec == [init : BOOLEAN, base : Nat, len : Nat, fb : Nat, flushed : Nat,
              at : [0 .. (TwCap - 1) -> Nat \cup {NotReceived}]]

\* What the window has to tell, and what there is to be told of packets.
Entries(w) == {<<(w.base + i) % SeqSpace, w.at[i]>> : i \in {j \in 0 .. (w.len - 1) : w.at[j] # NotReceived}}
Pairs(A) == {<<a.tseq, a.at>> : a \in A}

\* The window has arrivals of A, none before its first and none after time t.
WindowOK(w, A, t) ==
  /\ w \in WindowRec /\ w.len <= TwCap /\ w.base < SeqSpace /\ w.flushed <= t
  /\ w.init => w.len > 0 /\ <<w.base, w.flushed>> \in Pairs(A)
  /\ ~w.init => w.len = 0
  /\ \A i \in 0 .. (w.len - 1) : w.at[i] # NotReceived => w.flushed <= w.at[i] /\ w.at[i] <= t
  /\ Entries(w) \subseteq Pairs(A)

LEMMA WindowLater ==
  ASSUME NEW w, NEW A, NEW B, NEW t \in Nat, NEW u \in Nat, WindowOK(w, A, t), A \subseteq B, t <= u
  PROVE  WindowOK(w, B, u)
<1>1. Pairs(A) \subseteq Pairs(B)
  BY DEF Pairs
<1>2. w.flushed \in Nat /\ w.len \in Nat /\ w.len <= TwCap /\ w.at \in [0 .. (TwCap - 1) -> Nat \cup {NotReceived}]
  BY DEF WindowOK, WindowRec
<1>3. TwCap \in Nat
  BY FeedbackAssumption
<1>4. ASSUME NEW i \in 0 .. (w.len - 1), w.at[i] # NotReceived PROVE w.flushed <= w.at[i] /\ w.at[i] <= u
  <2>1. i \in 0 .. (TwCap - 1)
    BY <1>2, <1>3
  <2>2. w.at[i] \in Nat
    BY <1>2, <1>4, <2>1
  <2>3. w.flushed <= w.at[i] /\ w.at[i] <= t
    BY <1>4 DEF WindowOK
  <2> QED
    BY <2>2, <2>3
<1>5. w.flushed <= u
  BY <1>2 DEF WindowOK
<1> QED
  BY <1>1, <1>4, <1>5 DEF WindowOK

LEMMA FlushedOK ==
  ASSUME NEW w, NEW A, now \in Nat, WindowOK(w, A, now)
  PROVE  WindowOK(Flushed(w), A, now) /\ Flushed(w).init = FALSE /\ Flushed(w).len = 0
<1>1. CASE w.len = 0
  <2>1. w.init = FALSE
    BY <1>1 DEF WindowOK, WindowRec
  <2> QED
    BY <1>1, <2>1 DEF Flushed
<1>2. CASE w.len # 0
  <2> DEFINE v == [w EXCEPT !.init = FALSE, !.len = 0, !.fb = (@ + 1) % FbSpace, !.flushed = now]
  <2>1. w \in WindowRec
    BY DEF WindowOK
  <2>2. (w.fb + 1) % FbSpace \in Nat
    BY <2>1, FeedbackAssumption DEF WindowRec
  <2>3. /\ v \in WindowRec /\ v.init = FALSE /\ v.len = 0 /\ v.base = w.base /\ v.flushed = now
    BY <2>1, <2>2 DEF WindowRec
  <2>4. Flushed(w) = v
    BY <1>2 DEF Flushed
  <2> HIDE DEF v
  <2>5. Entries(v) = {}
    BY <2>3 DEF Entries
  <2>6. 0 <= TwCap
    BY FeedbackAssumption
  <2>7. WindowOK(v, A, now)
    BY <2>3, <2>5, <2>6 DEF WindowOK
  <2> QED
    BY <2>3, <2>4, <2>7
<1> QED
  BY <1>1, <1>2

\* An arrival is noted in the window (RecvFeedback::on_rtp).
LEMMA NotedOK ==
  ASSUME NEW w, NEW A, NEW B, now \in Nat, WindowOK(w, A, now), A \subseteq B,
         NEW seq \in Nat, seq < SeqSpace, <<seq, now>> \in Pairs(B)
  PROVE  /\ WindowOK(Noted(w, seq), B, now)
         /\ w.init => Noted(w, seq).flushed = w.flushed /\ Noted(w, seq).init
         /\ w.init => Entries(w) \subseteq Entries(Noted(w, seq))
         /\ (w.init => Distance(w, seq) >= 0 /\ Distance(w, seq) < TwCap
                       /\ ~(Distance(w, seq) < w.len /\ w.at[Distance(w, seq)] # NotReceived))
              => <<seq, now>> \in Entries(Noted(w, seq))
<1>0. /\ TwCap \in Nat \ {0} /\ now # NotReceived /\ SeqSpace \in Nat \ {0}
  <2>1. LargeSpace \in Nat \ {0}
    BY TwccAssumption DEF LargeSpace
  <2> QED
    BY <2>1, FeedbackAssumption, WindowAssumption DEF NotReceived
<1>1. w \in WindowRec /\ w.len <= TwCap
  BY DEF WindowOK
<1>2. WindowOK(w, B, now)
  BY <1>1, WindowLater DEF WindowRec
<1>3. CASE ~w.init
  <2> DEFINE v == [w EXCEPT !.init = TRUE, !.base = seq, !.len = 1, !.flushed = now, !.at[0] = now]
  <2>1. Noted(w, seq) = v
    BY <1>3 DEF Noted
  <2>2. 0 \in 0 .. (TwCap - 1)
    BY <1>0
  <2>3. /\ v \in WindowRec /\ v.init = TRUE /\ v.base = seq /\ v.len = 1 /\ v.flushed = now /\ v.at[0] = now
    BY <1>1, <2>2 DEF WindowRec
  <2> HIDE DEF v
  <2>4. \A i : i \in 0 .. (v.len - 1) <=> i = 0
    BY <2>3
  <2>5. (v.base + 0) % SeqSpace = seq
    <3>1. v.base + 0 = 0 * SeqSpace + seq
      BY <1>0, <2>3
    <3>2. Seq16(0 * SeqSpace + seq) = seq
      BY IndexJoins
    <3> QED
      BY <3>1, <3>2 DEF Seq16
  <2>6. Entries(v) = {<<seq, now>>}
    BY <1>0, <2>3, <2>4, <2>5 DEF Entries
  <2>7. WindowOK(v, B, now)
    BY <1>0, <2>3, <2>4, <2>6 DEF WindowOK
  <2> QED
    BY <1>3, <2>1, <2>6, <2>7
<1>4. CASE w.init /\ (Distance(w, seq) < 0 \/ Distance(w, seq) >= TwCap)
  <2>1. Noted(w, seq) = w
    BY <1>4 DEF Noted
  <2>2. Distance(w, seq) \in Int
    BY <1>1, DistanceReaches DEF WindowOK, WindowRec
  <2> QED
    BY <1>0, <1>2, <1>4, <2>1, <2>2
<1>5. CASE w.init /\ ~(Distance(w, seq) < 0 \/ Distance(w, seq) >= TwCap)
  <2>1. PICK d \in 0 .. (TwCap - 1) : d = Distance(w, seq) /\ (w.base + d) % SeqSpace = seq
    <3>1. Distance(w, seq) \in Int /\ (Distance(w, seq) >= 0 => (w.base + Distance(w, seq)) % SeqSpace = seq)
      BY <1>1, DistanceReaches DEF WindowOK, WindowRec
    <3>2. Distance(w, seq) \in 0 .. (TwCap - 1)
      BY <1>0, <1>5, <3>1
    <3> QED
      BY <3>1, <3>2
  <2> DEFINE n == IF d >= w.len THEN d + 1 ELSE w.len
             old(i) == IF i >= w.len /\ i <= d THEN NotReceived ELSE w.at[i]
             grown == [w EXCEPT !.len = IF d >= @ THEN d + 1 ELSE @,
                                !.at = [i \in DOMAIN @ |-> IF i >= w.len /\ i <= d THEN NotReceived ELSE @[i]]]
             v == [grown EXCEPT !.at[d] = IF @ = NotReceived THEN now ELSE @]
  <2>2. Noted(w, seq) = v
    BY <1>5, <2>1 DEF Noted
  <2>3. /\ w.at \in [0 .. (TwCap - 1) -> Nat \cup {NotReceived}] /\ w.len \in Nat /\ w.init \in BOOLEAN
        /\ w.base \in Nat /\ w.fb \in Nat /\ w.flushed \in Nat
    BY <1>1 DEF WindowRec
  <2>4. n \in Nat /\ n <= TwCap /\ d < n /\ w.len <= n /\ n > 0
    <3> HIDE DEF v, grown, old
    <3>1. d \in Nat /\ d + 1 <= TwCap /\ w.len \in Nat /\ w.len <= TwCap
      BY <1>0, <1>1, <2>3
    <3> QED
      BY ONLY <1>0, <3>1 DEF n
  <2>5. \A i \in 0 .. (TwCap - 1) : old(i) \in Nat \cup {NotReceived}
    BY <2>3
  <2>6. /\ v \in WindowRec
        /\ v.init = w.init /\ v.base = w.base /\ v.fb = w.fb /\ v.flushed = w.flushed
        /\ v.len = n
        /\ v.at = [i \in 0 .. (TwCap - 1) |-> IF i # d THEN old(i) ELSE IF old(d) = NotReceived THEN now ELSE old(d)]
    <3> HIDE DEF old
    <3>1. grown = [w EXCEPT !.len = n, !.at = [i \in 0 .. (TwCap - 1) |-> old(i)]]
      BY <1>1, <2>3 DEF WindowRec, old
    <3>2. /\ grown \in WindowRec /\ grown.at = [i \in 0 .. (TwCap - 1) |-> old(i)]
          /\ grown.init = w.init /\ grown.base = w.base /\ grown.fb = w.fb /\ grown.flushed = w.flushed
          /\ grown.len = n
      <4> HIDE DEF grown, n
      <4> QED
        BY <1>1, <2>4, <2>5, <3>1 DEF WindowRec
    <3> HIDE DEF grown, n
    <3> QED
      BY <2>1, <2>5, <3>2 DEF WindowRec
  <2> HIDE DEF v, grown, n
  <2>7. ASSUME NEW i \in 0 .. (n - 1)
        PROVE  IF i < w.len /\ w.at[i] # NotReceived THEN v.at[i] = w.at[i]
               ELSE IF i = d THEN v.at[i] = now ELSE v.at[i] = NotReceived
    <3>1. i \in 0 .. (TwCap - 1)
      BY <1>0, <2>4
    <3>2. i > d => i < w.len
      BY <2>1, <2>3, <2>4 DEF n
    <3> QED
      BY <2>1, <2>3, <2>6, <3>1, <3>2
  <2>8. ASSUME NEW i \in 0 .. (n - 1), v.at[i] # NotReceived
        PROVE  w.flushed <= v.at[i] /\ v.at[i] <= now /\ <<(v.base + i) % SeqSpace, v.at[i]>> \in Pairs(B)
    <3>1. CASE i < w.len /\ w.at[i] # NotReceived
      <4>1. i \in 0 .. (w.len - 1) /\ v.at[i] = w.at[i]
        BY <2>3, <2>7, <3>1
      <4>2. w.flushed <= w.at[i] /\ w.at[i] <= now
        BY <1>2, <3>1, <4>1 DEF WindowOK
      <4>3. <<(w.base + i) % SeqSpace, w.at[i]>> \in Entries(w)
        BY <3>1, <4>1 DEF Entries
      <4>4. <<(w.base + i) % SeqSpace, w.at[i]>> \in Pairs(B)
        BY <1>2, <4>3 DEF WindowOK
      <4> QED
        BY <2>6, <4>1, <4>2, <4>4
    <3>2. CASE ~(i < w.len /\ w.at[i] # NotReceived)
      <4>1. i = d /\ v.at[i] = now
        BY <2>7, <2>8, <3>2
      <4>2. w.flushed <= now
        BY <1>2 DEF WindowOK
      <4>3. <<(v.base + i) % SeqSpace, v.at[i]>> = <<seq, now>>
        BY <2>1, <2>6, <4>1
      <4> QED
        BY <4>1, <4>2, <4>3
    <3> QED
      BY <3>1, <3>2
  <2>9. Entries(v) \subseteq Pairs(B)
    BY <2>6, <2>8 DEF Entries
  <2>10. <<v.base, v.flushed>> \in Pairs(B) /\ v.base < SeqSpace /\ v.flushed <= now
    BY <1>2, <1>5, <2>6 DEF WindowOK
  <2>11. WindowOK(v, B, now)
    BY <1>5, <2>4, <2>6, <2>8, <2>9, <2>10 DEF WindowOK
  <2>12. Entries(w) \subseteq Entries(v)
    <3>1. ASSUME NEW i \in 0 .. (w.len - 1), w.at[i] # NotReceived
          PROVE  i \in 0 .. (n - 1) /\ v.at[i] = w.at[i]
      <4>1. i \in 0 .. (n - 1) /\ i < w.len
        BY <2>3, <2>4
      <4> QED
        BY <2>7, <3>1, <4>1
    <3>2. ASSUME NEW e \in Entries(w) PROVE e \in Entries(v)
      <4>1. PICK i \in 0 .. (w.len - 1) : w.at[i] # NotReceived /\ e = <<(w.base + i) % SeqSpace, w.at[i]>>
        BY DEF Entries
      <4>2. i \in 0 .. (v.len - 1) /\ v.at[i] # NotReceived /\ e = <<(v.base + i) % SeqSpace, v.at[i]>>
        BY <2>6, <3>1, <4>1
      <4> QED
        BY <4>2 DEF Entries
    <3> QED
      BY <3>2
  <2>13. ASSUME ~(d < w.len /\ w.at[d] # NotReceived) PROVE <<seq, now>> \in Entries(v)
    <3>1. d \in 0 .. (n - 1) /\ v.at[d] = now
      <4>1. d \in 0 .. (n - 1)
        BY <2>1, <2>4
      <4> QED
        BY <2>7, <2>13, <4>1
    <3> QED
      BY <1>0, <2>1, <2>6, <3>1 DEF Entries
  <2> QED
    BY <1>5, <2>1, <2>2, <2>6, <2>11, <2>12, <2>13
<1> QED
  BY <1>3, <1>4, <1>5

\* What the browser hears of a window that is young enough is what the window has.
LEMMA WindowIsHeard ==
  ASSUME NEW w, NEW A, now \in Nat, WindowOK(w, A, now), now - w.flushed < LargeSpace \div 2
  PROVE  Heard(Feedback(w)) = Entries(w)
<1>1. /\ w.len \in Nat /\ w.len <= TwCap /\ w.flushed \in Nat /\ w.base \in Nat
      /\ w.at \in [0 .. (TwCap - 1) -> Nat \cup {NotReceived}]
  BY DEF WindowOK, WindowRec
<1>2. LargeSpace \in Nat \ {0} /\ LargeSpace \div 2 \in Nat /\ NotReceived \in Int /\ TwCap \in Nat
  <2>1. LargeSpace \in Nat \ {0}
    BY TwccAssumption DEF LargeSpace
  <2> QED
    BY <2>1, FeedbackAssumption DEF NotReceived
<1> DEFINE n == w.len
           a == Arrivals(w)
<1>3. a = [i \in 1 .. n |-> w.at[i - 1]]
  BY DEF Arrivals
<1> HIDE DEF a
<1>4. \A i \in 1 .. n : i - 1 \in 0 .. (TwCap - 1) /\ i - 1 \in 0 .. (n - 1)
  BY <1>1, <1>2
<1>5. a \in [1 .. n -> Int] /\ DOMAIN a = 1 .. n
  BY <1>1, <1>2, <1>3, <1>4
<1>6. \A i \in ReceivedAt(a) : i \in 1 .. n /\ a[i] = w.at[i - 1] /\ w.at[i - 1] # NotReceived
  BY <1>3, <1>5 DEF ReceivedAt
<1>7. \A i \in ReceivedAt(a) : a[i] \in Int /\ w.flushed <= a[i] /\ a[i] <= now
  BY <1>4, <1>5, <1>6 DEF WindowOK
<1>8. \A i, j \in ReceivedAt(a) : IsLarge(a[i] - a[j])
  <2> SUFFICES ASSUME NEW i \in ReceivedAt(a), NEW j \in ReceivedAt(a) PROVE IsLarge(a[i] - a[j])
    OBVIOUS
  <2>1. PICK x \in Int, y \in Int : x = a[i] /\ y = a[j]
    BY <1>7
  <2>2. w.flushed <= x /\ x <= now /\ w.flushed <= y /\ y <= now
    BY <1>7, <2>1
  <2>3. IsLarge(x - y)
    BY <1>1, <1>2, <2>2 DEF IsLarge
  <2> QED
    BY <2>1, <2>3
<1>9. TimesFit(a, n)
  BY <1>5, <1>8 DEF TimesFit
<1>10. Heard(Feedback(w)) = {<<(w.base + i - 1) % SeqCycle, a[i]>> : i \in ReceivedAt(a)}
  BY <1>1, <1>9, HeardAre DEF a
<1>11. SeqCycle = SeqSpace
  BY LegAssumption
<1>12. \A i \in ReceivedAt(a) : \E j \in 0 .. (n - 1) :
         w.at[j] # NotReceived /\ a[i] = w.at[j] /\ w.base + i - 1 = w.base + j
  <2> SUFFICES ASSUME NEW i \in ReceivedAt(a)
               PROVE  \E j \in 0 .. (n - 1) : w.at[j] # NotReceived /\ a[i] = w.at[j] /\ w.base + i - 1 = w.base + j
    OBVIOUS
  <2>1. i \in Nat /\ w.base + i - 1 = w.base + (i - 1)
    BY <1>1, <1>6
  <2> QED
    BY <1>4, <1>6, <2>1
<1>13. \A j \in 0 .. (n - 1) : w.at[j] # NotReceived =>
         \E i \in ReceivedAt(a) : a[i] = w.at[j] /\ w.base + i - 1 = w.base + j
  <2> SUFFICES ASSUME NEW j \in 0 .. (n - 1), w.at[j] # NotReceived
               PROVE  \E i \in ReceivedAt(a) : a[i] = w.at[j] /\ w.base + i - 1 = w.base + j
    OBVIOUS
  <2>1. j + 1 \in 1 .. n /\ (j + 1) - 1 = j /\ w.base + (j + 1) - 1 = w.base + j
    BY <1>1
  <2>2. a[j + 1] = w.at[j]
    BY <1>3, <2>1
  <2>3. j + 1 \in ReceivedAt(a)
    BY <1>5, <2>1, <2>2 DEF ReceivedAt
  <2> QED
    BY <2>1, <2>2, <2>3
<1>14. Entries(w) = {<<(w.base + i - 1) % SeqSpace, a[i]>> : i \in ReceivedAt(a)}
  <2> DEFINE E == {<<(w.base + i - 1) % SeqSpace, a[i]>> : i \in ReceivedAt(a)}
  <2>1. ASSUME NEW e \in Entries(w) PROVE e \in E
    <3>1. PICK j \in 0 .. (n - 1) : w.at[j] # NotReceived /\ e = <<(w.base + j) % SeqSpace, w.at[j]>>
      BY DEF Entries
    <3>2. PICK i \in ReceivedAt(a) : a[i] = w.at[j] /\ w.base + i - 1 = w.base + j
      BY <1>13, <3>1
    <3>3. e = <<(w.base + i - 1) % SeqSpace, a[i]>>
      BY <3>1, <3>2, Zenon
    <3> QED
      BY <3>3
  <2>2. ASSUME NEW e \in E PROVE e \in Entries(w)
    <3>1. PICK i \in ReceivedAt(a) : e = <<(w.base + i - 1) % SeqSpace, a[i]>>
      OBVIOUS
    <3>2. PICK j \in 0 .. (n - 1) : w.at[j] # NotReceived /\ a[i] = w.at[j] /\ w.base + i - 1 = w.base + j
      BY <1>12
    <3>3. e = <<(w.base + j) % SeqSpace, w.at[j]>>
      BY <3>1, <3>2, Zenon
    <3> QED
      BY <3>2, <3>3 DEF Entries
  <2> HIDE DEF E
  <2>3. Entries(w) = E
    BY <2>1, <2>2
  <2> QED
    BY <2>3 DEF E
<1> QED
  BY <1>10, <1>11, <1>14

-----------------------------------------------------------------------------
(* What the browser is told *)

TwccInv ==
  /\ now \in Nat
  /\ WireNumbered
  /\ \A a \in arrived : ArrivedAs(a)
  /\ WindowOK(tw, arrived, now)
  /\ told \subseteq Pairs(arrived)
  /\ \A a \in arrived : a.rising => <<a.tseq, a.at>> \in told \cup Entries(tw)

\* The window is sent while a delta can still state its age.
WindowIsYoung == tw.len > 0 => now - tw.flushed < LargeSpace \div 2

\* Of the packets that arrive within such a time, no two are half of the
\* sequence numbers apart.
Near(a, b) == NumberOf(b.id) - NumberOf(a.id) < Half /\ NumberOf(a.id) - NumberOf(b.id) < Half
NumbersNear == \A a, b \in arrived : a.at <= b.at /\ b.at - a.at < LargeSpace \div 2 => Near(a, b)

TellsNothing == UNCHANGED <<arrived, told, tw>> /\ now' \in {now, now + 1}

TellsWindow ==
  /\ tw.len > 0
  /\ told' = told \cup Heard(Feedback(tw))
  /\ tw' = Flushed(tw)
  /\ UNCHANGED <<arrived, now>>

LEMMA LegStepTells ==
  ASSUME ContextsInv, [LegNext]_legVars
  PROVE  TellsNothing \/ TellsWindow \/ \E p \in wire : p.key = ClientRtp /\ Arrives(p)
<1>1. CASE ByBrowser \/ ByShard
  BY <1>1 DEF ByBrowser, ByShard, feedbackVars, historyVars, TellsNothing
<1>2. ASSUME NEW p \in wire \cup Forged, ReceiveRtp(p)
      PROVE  TellsNothing \/ \E q \in wire : q.key = ClientRtp /\ Arrives(q)
  <2>1. CASE RtpVerdict("server", p) = "Ok"
    <3>1. p.key = RxKey("server", "rtp")
      BY <2>1 DEF RtpVerdict, Verdict
    <3>2. p \in wire
      BY <3>1, AuthenticIsSealed DEF Labels, Ends
    <3>3. p.key = ClientRtp
      BY <3>1 DEF RxKey, Other, ClientRtp
    <3>4. Arrives(p)
      BY <1>2, <2>1 DEF ReceiveRtp, Arrives
    <3> QED
      BY <3>2, <3>3, <3>4
  <2>2. CASE RtpVerdict("server", p) # "Ok"
    BY <1>2, <2>2 DEF ReceiveRtp, feedbackVars, historyVars, TellsNothing
  <2> QED
    BY <2>1, <2>2
<1>3. ASSUME NEW p \in wire \cup Forged, ReceiveRtcp(p)
      PROVE  TellsNothing
  BY <1>3 DEF ReceiveRtcp, historyVars, TellsNothing
<1>4. CASE Pass
  BY <1>4 DEF Pass, historyVars, TellsNothing
<1>5. CASE FlushTwcc
  BY <1>5 DEF FlushTwcc, FlushDue, TellsWindow
<1>6. CASE SendReport
  BY <1>6 DEF SendReport, SendRr, historyVars, TellsNothing
<1>7. CASE UNCHANGED legVars
  BY <1>7 DEF legVars, feedbackVars, historyVars, TellsNothing
<1> QED
  BY <1>1, <1>2, <1>3, <1>4, <1>5, <1>6, <1>7 DEF LegNext

\* What arrived before stays as it was.
LEMMA ArrivedStays ==
  ASSUME WireNumbered, SealStep, NEW a, ArrivedAs(a), now \in Nat, now' \in Nat, now <= now'
  PROVE  ArrivedAs(a)' /\ a.id \in 1 .. Cardinality(wire) /\ NumberOf(a.id)' = NumberOf(a.id)
<1>1. PICK p \in wire : p.id = a.id /\ p.key = ClientRtp
  BY DEF ArrivedAs
<1>2. a.id \in 1 .. Cardinality(wire)
  BY <1>1 DEF WireNumbered
<1>3. wire \subseteq wire' /\ NumberOf(a.id)' = NumberOf(a.id)
  BY <1>2, WireGrows
<1>4. a.at \in Nat /\ a.at <= now'
  BY DEF ArrivedAs
<1>5. a.tseq = NumberOf(a.id)' % SeqSpace
  BY <1>3 DEF ArrivedAs
<1>6. \E q \in wire' : q.id = a.id /\ q.key = ClientRtp
  BY <1>1, <1>3
<1> QED
  BY <1>2, <1>3, <1>4, <1>5, <1>6 DEF ArrivedAs

LEMMA TellsNothingKeeps ==
  ASSUME TwccInv, SealStep, TellsNothing
  PROVE  TwccInv'
<1>1. now \in Nat /\ now' \in Nat /\ now <= now'
  BY DEF TwccInv, TellsNothing
<1>2. arrived' = arrived /\ told' = told /\ tw' = tw
  BY DEF TellsNothing
<1>3. WireNumbered'
  BY WireGrows DEF TwccInv
<1>4. \A a \in arrived : ArrivedAs(a)'
  BY <1>1, ArrivedStays DEF TwccInv
<1>5. WindowOK(tw, arrived, now')
  BY <1>1, WindowLater DEF TwccInv
<1> QED
  BY <1>1, <1>2, <1>3, <1>4, <1>5 DEF TwccInv

LEMMA TellsWindowKeeps ==
  ASSUME TwccInv, SealStep, TellsWindow, WindowIsYoung
  PROVE  TwccInv'
<1>1. now \in Nat /\ now' = now /\ arrived' = arrived /\ tw' = Flushed(tw)
  BY DEF TwccInv, TellsWindow
<1>2. WireNumbered'
  BY WireGrows DEF TwccInv
<1>3. \A a \in arrived : ArrivedAs(a)'
  BY <1>1, ArrivedStays DEF TwccInv
<1>4. WindowOK(tw', arrived, now)
  BY <1>1, FlushedOK DEF TwccInv
<1>5. told' = told \cup Entries(tw)
  <2>1. Heard(Feedback(tw)) = Entries(tw)
    BY <1>1, WindowIsHeard DEF TwccInv, TellsWindow, WindowIsYoung
  <2> QED
    BY <2>1 DEF TellsWindow
<1>6. Entries(tw) \subseteq Pairs(arrived)
  BY DEF TwccInv, WindowOK
<1> QED
  BY <1>1, <1>2, <1>3, <1>4, <1>5, <1>6 DEF TwccInv

\* A packet that arrives ahead of all before it has a place of its own in the window.
LEMMA RisingIsNew ==
  ASSUME TwccInv, SealStep, WindowIsYoung, NumbersNear', now' = now,
         NEW p \in wire, p.key = ClientRtp, \A a \in arrived : a.id < p.id,
         NEW x, x.id = p.id, x.at = now, arrived' = arrived \cup {x}, tw.init
  PROVE  LET d == Distance(tw, TwccSeq(p))
         IN  d >= 0 /\ ~(d < tw.len /\ tw.at[d] # NotReceived)
<1> DEFINE seq == TwccSeq(p)
           d == Distance(tw, seq)
           U(id) == NumberOf(id)
<1>0. /\ now \in Nat /\ WireNumbered /\ WindowOK(tw, arrived, now)
      /\ \A a \in arrived : ArrivedAs(a)
      /\ tw.len \in Nat /\ tw.flushed \in Nat /\ tw.base \in Nat /\ tw.base < SeqSpace
      /\ LargeSpace \div 2 \in Int /\ Half \in Nat
  <2>1. LargeSpace \in Nat
    BY TwccAssumption DEF LargeSpace
  <2> QED
    BY <2>1, HalfFits DEF TwccInv, WindowOK, WindowRec
<1>1. seq = U(p.id) % SeqSpace
  BY DEF TwccSeq, NumberOf, NumberedBefore
<1>2. p.id \in 1 .. Cardinality(wire) /\ p.id \in Nat
  BY <1>0, FS_CardinalityType DEF WireNumbered
<1>3. ASSUME NEW a \in arrived
      PROVE  /\ U(a.id) \in Nat /\ U(p.id) \in Nat /\ U(a.id) < U(p.id)
             /\ U(a.id)' = U(a.id) /\ a.tseq = U(a.id) % SeqSpace /\ a.at \in Nat
  <2>1. PICK q \in wire : q.id = a.id /\ q.key = ClientRtp
    BY <1>0 DEF ArrivedAs
  <2>2. U(q.id) \in Nat /\ U(p.id) \in Nat /\ U(q.id) < U(p.id)
    BY <1>0, <1>2, <2>1, NumbersUp
  <2>3. U(a.id)' = U(a.id)
    BY <1>0, ArrivedStays
  <2> QED
    BY <1>0, <2>1, <2>2, <2>3 DEF ArrivedAs
<1>4. U(p.id)' = U(p.id)
  BY <1>0, <1>2, WireGrows
<1>5. PICK b \in arrived : b.tseq = tw.base /\ b.at = tw.flushed
  BY <1>0 DEF WindowOK, Pairs
<1>6. now - tw.flushed < LargeSpace \div 2 /\ tw.flushed <= now
  BY <1>0 DEF WindowOK, WindowIsYoung
<1>7. ASSUME NEW a \in arrived, tw.flushed <= a.at, a.at <= now
      PROVE  Distance(tw, a.tseq) = U(a.id) - U(b.id)
  <2>1. b.at <= a.at /\ a.at - b.at < LargeSpace \div 2
    BY <1>0, <1>3, <1>5, <1>6, <1>7
  <2>2. Near(b, a)'
    BY <2>1 DEF NumbersNear
  <2>3. U(a.id) - U(b.id) < Half /\ U(b.id) - U(a.id) < Half
    BY <1>3, <2>2 DEF Near
  <2>4. tw.base = U(b.id) % SeqSpace /\ a.tseq = U(a.id) % SeqSpace
    BY <1>3, <1>5
  <2> QED
    BY <1>3, <2>3, <2>4, DistanceIs
<1>8. d = U(p.id) - U(b.id)
  <2>1. Near(b, x)'
    BY <1>5, <1>6 DEF NumbersNear
  <2>2. U(p.id) - U(b.id) < Half /\ U(b.id) - U(p.id) < Half
    BY <1>3, <1>4, <2>1 DEF Near
  <2>3. tw.base = U(b.id) % SeqSpace
    BY <1>3, <1>5
  <2> QED
    BY <1>1, <1>3, <2>2, <2>3, DistanceIs
<1>9. d \in Int /\ d >= 0
  BY <1>3, <1>8
<1>10. ASSUME d < tw.len, tw.at[d] # NotReceived PROVE FALSE
  <2>1. d \in 0 .. (tw.len - 1)
    BY <1>0, <1>9, <1>10
  <2>2. <<(tw.base + d) % SeqSpace, tw.at[d]>> \in Pairs(arrived) /\ tw.flushed <= tw.at[d] /\ tw.at[d] <= now
    BY <1>0, <1>10, <2>1 DEF WindowOK, Entries
  <2>3. PICK a \in arrived : a.tseq = (tw.base + d) % SeqSpace /\ a.at = tw.at[d]
    BY <2>2 DEF Pairs
  <2>4. seq \in Nat /\ seq < SeqSpace
    BY <1>1, <1>3, WindowAssumption
  <2>5. (tw.base + d) % SeqSpace = seq
    BY <1>0, <1>9, <2>4, DistanceReaches
  <2>6. d = U(a.id) - U(b.id)
    BY <1>7, <2>2, <2>3, <2>5
  <2> QED
    BY <1>3, <1>8, <2>6
<1> QED
  BY <1>9, <1>10

LEMMA ArrivesKeeps ==
  ASSUME TwccInv, SealStep, WindowIsYoung, NumbersNear', NEW p \in wire, p.key = ClientRtp, Arrives(p)
  PROVE  TwccInv'
<1> DEFINE seq == TwccSeq(p)
           full == Noted(tw, seq)
           again == Noted(Flushed(full), seq)
           x == [id |-> p.id, ssrc |-> p.ssrc, num |-> p.num, tseq |-> TwccSeq(p), at |-> now,
                 nth |-> Cardinality(arrived) + 1, rising |-> \A a \in arrived : a.id < p.id]
           B == arrived \cup {x}
<1>0. /\ now \in Nat /\ WireNumbered /\ WindowOK(tw, arrived, now) /\ \A a \in arrived : ArrivedAs(a)
      /\ tw.len \in Nat /\ tw.init \in BOOLEAN
  BY DEF TwccInv, WindowOK, WindowRec
<1>1. /\ now' = now /\ arrived' = B
      /\ tw' = IF MustFlush(tw, seq) THEN again ELSE full
      /\ told' = IF MustFlush(tw, seq) THEN told \cup Heard(Feedback(full)) ELSE told
  BY DEF Arrives, OnRtp
<1>2. /\ x.id = p.id /\ x.tseq = seq /\ x.at = now
      /\ x.rising => \A a \in arrived : a.id < p.id
  OBVIOUS
<1> HIDE DEF x
<1>3. p.id \in 1 .. Cardinality(wire) /\ p.id \in Nat
  BY <1>0, FS_CardinalityType DEF WireNumbered
<1>4. seq = NumberOf(p.id) % SeqSpace
  BY DEF TwccSeq, NumberOf, NumberedBefore
<1>5. NumberOf(p.id)' = NumberOf(p.id) /\ wire \subseteq wire' /\ WireNumbered'
  BY <1>0, <1>3, WireGrows
<1>6. seq \in Nat /\ seq < SeqSpace
  <2>1. IsFiniteSet(NumberedBefore(p.id))
    BY <1>0, FS_Subset DEF WireNumbered, NumberedBefore
  <2>2. NumberOf(p.id) \in Nat
    BY <2>1, FS_CardinalityType, LegAssumption DEF NumberOf
  <2> QED
    BY <1>4, <2>2, WindowAssumption
<1> HIDE DEF seq
<1>7. \A a \in arrived' : ArrivedAs(a)'
  <2>1. \A a \in arrived : ArrivedAs(a)'
    BY <1>0, <1>1, ArrivedStays
  <2>2. ASSUME NEW a \in arrived', a \notin arrived PROVE ArrivedAs(a)'
    <3>1. a = x
      BY <1>1, <2>2
    <3>2. a.id = p.id /\ a.tseq = seq /\ a.at = now
      BY <1>2, <3>1
    <3>3. a.at \in Nat /\ a.at <= now'
      BY <1>0, <1>1, <3>2
    <3>4. p \in wire' /\ p.id = a.id
      BY <1>5, <3>2
    <3>5. a.tseq = NumberOf(a.id)' % SeqSpace
      BY <1>4, <1>5, <3>2
    <3> QED
      BY <3>3, <3>4, <3>5 DEF ArrivedAs
  <2> QED
    BY <2>1, <2>2
<1>8. <<seq, now>> \in Pairs(B) /\ arrived \subseteq B
  BY <1>2 DEF Pairs
<1> HIDE DEF B
<1>9. /\ WindowOK(full, B, now)
      /\ tw.init => full.flushed = tw.flushed /\ full.init /\ Entries(tw) \subseteq Entries(full)
  BY <1>0, <1>6, <1>8, NotedOK
<1>10. Pairs(arrived) \subseteq Pairs(B) /\ Entries(full) \subseteq Pairs(B) /\ told \subseteq Pairs(B)
  BY <1>8, <1>9 DEF Pairs, TwccInv, WindowOK
<1>11. ~tw.init => Entries(tw) = {}
  BY <1>0 DEF WindowOK, Entries
<1>12. Entries(tw) \subseteq Entries(full)
  BY <1>9, <1>11
<1> HIDE DEF full
<1>13. CASE MustFlush(tw, seq)
  <2>1. tw.init
    BY <1>13 DEF MustFlush
  <2>2. now - full.flushed < LargeSpace \div 2
    BY <1>0, <1>9, <2>1 DEF WindowIsYoung, WindowOK
  <2>3. Heard(Feedback(full)) = Entries(full)
    BY <1>0, <1>9, <2>2, WindowIsHeard
  <2>4. WindowOK(Flushed(full), B, now) /\ Flushed(full).init = FALSE
    BY <1>0, <1>9, FlushedOK
  <2>5. WindowOK(again, B, now) /\ <<seq, now>> \in Entries(again)
    BY <1>0, <1>6, <1>8, <2>4, NotedOK
  <2>6. told' = told \cup Entries(full) /\ tw' = again
    BY <1>1, <1>13, <2>3
  <2> HIDE DEF again
  <2>7. ASSUME NEW a \in B, a.rising PROVE <<a.tseq, a.at>> \in told' \cup Entries(tw')
    <3>1. CASE a \in arrived
      <4>1. <<a.tseq, a.at>> \in told \cup Entries(tw)
        BY <2>7, <3>1 DEF TwccInv
      <4> QED
        BY <1>12, <2>6, <4>1
    <3>2. CASE a = x
      BY <1>2, <2>5, <2>6, <3>2
    <3> QED
      BY <3>1, <3>2 DEF B
  <2> QED
    BY <1>0, <1>1, <1>5, <1>7, <1>10, <2>5, <2>6, <2>7 DEF TwccInv
<1>14. CASE ~MustFlush(tw, seq)
  <2>1. told' = told /\ tw' = full
    BY <1>1, <1>14
  <2>2. ASSUME x.rising PROVE <<seq, now>> \in Entries(full)
    <3>1. CASE ~tw.init
      BY <1>0, <1>6, <1>8, <3>1, NotedOK DEF full
    <3>2. CASE tw.init
      <4>1. /\ Distance(tw, seq) >= 0
            /\ ~(Distance(tw, seq) < tw.len /\ tw.at[Distance(tw, seq)] # NotReceived)
        BY <1>0, <1>1, <1>2, <2>2, <3>2, RisingIsNew DEF B, seq
      <4>2. Distance(tw, seq) \in Int /\ TwCap \in Int
        <5>1. tw.base \in Nat /\ tw.base < SeqSpace
          BY <1>0 DEF WindowOK, WindowRec
        <5> QED
          BY <1>6, <5>1, DistanceReaches, FeedbackAssumption
      <4>3. Distance(tw, seq) < TwCap
        BY <1>14, <3>2, <4>1, <4>2 DEF MustFlush, OutOfReach
      <4> QED
        BY <1>0, <1>6, <1>8, <4>1, <4>3, NotedOK DEF full
    <3> QED
      BY <3>1, <3>2
  <2>3. ASSUME NEW a \in B, a.rising PROVE <<a.tseq, a.at>> \in told' \cup Entries(tw')
    <3>1. CASE a \in arrived
      <4>1. <<a.tseq, a.at>> \in told \cup Entries(tw)
        BY <2>3, <3>1 DEF TwccInv
      <4> QED
        BY <1>12, <2>1, <4>1
    <3>2. CASE a = x
      BY <1>2, <2>1, <2>2, <2>3, <3>2
    <3> QED
      BY <3>1, <3>2 DEF B
  <2> QED
    BY <1>0, <1>1, <1>5, <1>7, <1>9, <1>10, <2>1, <2>3 DEF TwccInv
<1> QED
  BY <1>13, <1>14

LEMMA TwccInitially == LegInit => TwccInv
<1> SUFFICES ASSUME LegInit PROVE TwccInv
  OBVIOUS
<1>1. /\ wire = {} /\ arrived = {} /\ told = {} /\ now = 0
      /\ tw = [init |-> FALSE, base |-> 0, len |-> 0, fb |-> 0, flushed |-> 0,
               at |-> [i \in 0 .. (TwCap - 1) |-> NotReceived]]
  BY DEF LegInit, SrtpInit, FeedbackInit
<1>2. WireNumbered
  BY <1>1, FS_EmptySet DEF WireNumbered
<1>3. tw \in WindowRec /\ tw.len = 0 /\ tw.init = FALSE /\ tw.base = 0 /\ tw.flushed = 0
  BY <1>1 DEF WindowRec
<1>4. Entries(tw) = {}
  BY <1>3 DEF Entries
<1>5. WindowOK(tw, arrived, now)
  <2>1. 0 <= TwCap /\ 0 < SeqSpace
    BY FeedbackAssumption, WindowAssumption
  <2>2. 0 .. (tw.len - 1) = {}
    BY <1>3
  <2>3. tw.len <= TwCap /\ tw.base < SeqSpace /\ tw.flushed <= now
    BY <1>1, <1>3, <2>1
  <2> QED
    BY <1>3, <1>4, <2>2, <2>3 DEF WindowOK
<1> QED
  BY <1>1, <1>2, <1>5 DEF TwccInv

LEMMA TwccFollows ==
  ASSUME TwccInv
  PROVE  TwccIsExact
<1>1. \A st \in told : \E a \in arrived : st = <<a.tseq, a.at>>
  BY DEF TwccInv, Pairs
<1>2. ASSUME NEW a \in arrived, a.rising, <<a.tseq, a.at>> \notin told
      PROVE  \E i \in 0 .. (tw.len - 1) : (tw.base + i) % SeqSpace = a.tseq /\ tw.at[i] = a.at
  <2>1. <<a.tseq, a.at>> \in Entries(tw)
    BY <1>2 DEF TwccInv
  <2> QED
    BY <2>1 DEF Entries
<1> QED
  BY <1>1, <1>2 DEF TwccIsExact

\* The browser is told of every packet that arrived ahead of all before it, and
\* of any packet the time at which it arrived, across batches, wraps, losses and
\* reordering, for every width of the packet's fields, as long as a batch is sent
\* while a delta can state its age and no two packets of such a time are half of
\* the numbers apart (RecvFeedback::on_rtp, flush_twcc, Twcc::build).
THEOREM TwccIsExactHolds == LegSpec /\ [](WindowIsYoung /\ NumbersNear) => []TwccIsExact
<1>1. LegInit => TwccInv
  BY TwccInitially
<1>2. /\ ContextsInv /\ TwccInv /\ [LegNext]_legVars
      /\ WindowIsYoung /\ NumbersNear'
      => TwccInv'
  BY LegStepSplits, LegStepTells, TellsNothingKeeps, TellsWindowKeeps, ArrivesKeeps
<1>3. TwccInv => TwccIsExact
  BY TwccFollows
<1> QED
  BY <1>1, <1>2, <1>3, ContextsInvariant, PTL DEF LegSpec
=============================================================================
