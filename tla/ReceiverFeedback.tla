-------------------------- MODULE ReceiverFeedback --------------------------
(***************************************************************************)
(* What the media shard tells a publisher about the packets that arrived   *)
(* (wroomd/src/media.rs RrSlot and RecvFeedback): receiver reports, from   *)
(* counters per source, and transport-wide feedback, from a window of      *)
(* arrival times.  The two are kept in one step per packet, and read when  *)
(* they are due.                                                           *)
(*                                                                         *)
(* Widths are parameters.  The code has Advance = 3000, Behind = 100,      *)
(* Word = 2^32, MaxSlots = 4, TwCap = 512, TwBatch = 400, RefUnit = 256.   *)
(* Interarrival jitter is left out; times are ticks of 250 us.             *)
(***************************************************************************)
EXTENDS TwccWire, FiniteSets

CONSTANTS
  SeqCycle,     (* values of a sequence number                             *)
  Advance,      (* steps ahead that count as progress                      *)
  Behind,       (* steps behind up to which a source counts as restarted   *)
  Word,         (* values of an unsigned counter                           *)
  MaxSlots,     (* sources with a report slot                              *)
  TwCap,        (* statuses the window has room for                        *)
  TwBatch,      (* statuses that are worth a feedback packet               *)
  TwDue,        (* age at which the window is sent                         *)
  RrDue,        (* age at which a report is due                            *)
  RefUnit,      (* ticks in a unit of the reference time                   *)
  FbSpace       (* values of the feedback packet counter                   *)

ASSUME FeedbackAssumption ==
  /\ SeqCycle \in Nat \ {0} /\ Advance \in 1 .. SeqCycle /\ Behind \in Nat
  /\ Word \in Nat \ {0} /\ MaxSlots \in Nat \ {0}
  /\ TwCap \in 1 .. (SeqCycle \div 2) /\ RefUnit \in 1 .. (LargeSpace \div 2)
  /\ FbSpace \in Nat \ {0}

VARIABLES
  now,          (* ticks since the leg's epoch                             *)
  slots,        (* ssrc -> counters, at most MaxSlots                      *)
  rrLast,       (* when the last report was sent                           *)
  tw            (* the window of arrival times                             *)

feedbackVars == <<now, slots, rrLast, tw>>

FeedbackInit ==
  /\ now = 0
  /\ slots = [s \in {} |-> 0]
  /\ rrLast = 0
  /\ tw = [init |-> FALSE, base |-> 0, len |-> 0, fb |-> 0, flushed |-> 0,
           at |-> [i \in 0 .. (TwCap - 1) |-> NotReceived]]

-----------------------------------------------------------------------------
(* Receiver reports *)

\* RrSlot::new with its first packet recorded.
NewSlot(seq) ==
  [max |-> seq, cycles |-> 0, base |-> seq, received |-> 1, expPrior |-> 0, recPrior |-> 0,
   seen |-> now, lsr |-> 0]

\* Fault: the wrap of the sequence number is not counted.
CountedWithoutCycles(slot, seq) ==
  LET ahead == (seq - slot.max) % SeqCycle
      more  == [slot EXCEPT !.received = @ + 1, !.seen = now]
  IN  IF ahead < Advance THEN [more EXCEPT !.max = seq]
      ELSE IF ahead <= SeqCycle - Behind THEN more
      ELSE [more EXCEPT !.base = seq, !.max = seq, !.received = 1, !.cycles = 0]

\* RrSlot::record: ahead of the highest, far behind it, or, for anything less
\* than Behind steps behind, a source that starts over.
Counted(slot, seq) ==
  LET ahead == (seq - slot.max) % SeqCycle
      more  == [slot EXCEPT !.received = @ + 1, !.seen = now]
  IN  IF ahead < Advance
      THEN [more EXCEPT !.max = seq,
                        !.cycles = IF seq < slot.max THEN @ + SeqCycle ELSE @]
      ELSE IF ahead <= SeqCycle - Behind THEN more
      ELSE [more EXCEPT !.base = seq, !.max = seq, !.received = 1, !.cycles = 0]

\* The slot a new source takes when all are in use: the one idle longest.
Stalest(tab) == CHOOSE s \in DOMAIN tab : \A x \in DOMAIN tab : tab[s].seen <= tab[x].seen

\* RecvFeedback::on_rtp, its first half.
CountRtp(tab, ssrc, seq) ==
  LET kept == IF ssrc \in DOMAIN tab \/ Cardinality(DOMAIN tab) < MaxSlots
              THEN DOMAIN tab ELSE DOMAIN tab \ {Stalest(tab)}
  IN  [s \in kept \cup {ssrc} |->
         IF s # ssrc THEN tab[s]
         ELSE IF s \in DOMAIN tab THEN Counted(tab[s], seq) ELSE NewSlot(seq)]

\* RecvFeedback::on_rtcp: the last sender report of a source that has a slot.
LearnSenderReport(tab, ssrc, ntp) ==
  IF ssrc \in DOMAIN tab THEN [tab EXCEPT ![ssrc].lsr = ntp] ELSE tab

Expected(slot) == ((slot.cycles + slot.max - slot.base) % Word) + 1

\* RrSlot::report.  Both counters are unsigned; a build that checks overflow
\* panics where they pass below zero.
ReportBlock(slot) ==
  LET expIv  == (Expected(slot) - slot.expPrior) % Word
      recIv  == (slot.received - slot.recPrior) % Word
      lostIv == expIv - recIv
  IN  [highest |-> slot.cycles + slot.max, lost |-> Expected(slot) - slot.received, lsr |-> slot.lsr,
       fraction |-> IF expIv = 0 \/ lostIv <= 0 THEN 0 ELSE ((lostIv * 256) \div expIv) % 256]

Reported(slot) == [slot EXCEPT !.expPrior = Expected(slot), !.recPrior = slot.received]

\* A difference of counters that passes below zero.
Underflows(slot) == Expected(slot) < slot.expPrior \/ slot.received < slot.recPrior

\* rr_due, send_rr.
SendRr ==
  /\ DOMAIN slots # {}
  /\ now - rrLast >= RrDue
  /\ rrLast' = now
  /\ slots' = [s \in DOMAIN slots |-> Reported(slots[s])]
  /\ UNCHANGED <<now, tw>>

-----------------------------------------------------------------------------
(* Transport-wide feedback *)

\* The signed distance of a sequence number from the window's base.
Distance(w, seq) ==
  LET d == (seq - w.base) % SeqCycle
  IN  IF d >= SeqCycle \div 2 THEN d - SeqCycle ELSE d

OutOfReach(w, seq) == w.init /\ Distance(w, seq) >= TwCap

\* RecvFeedback::on_rtp, its second half: what is older than the base, or out
\* of reach, is not noted; of two arrivals the first counts.
Noted(w, seq) ==
  LET d == Distance(w, seq)
      grown == [w EXCEPT !.len = IF d >= @ THEN d + 1 ELSE @,
                         !.at = [i \in DOMAIN @ |-> IF i >= w.len /\ i <= d THEN NotReceived
                                                    ELSE @[i]]]
  IN  IF ~w.init
      THEN [w EXCEPT !.init = TRUE, !.base = seq, !.len = 1, !.flushed = now, !.at[0] = now]
      ELSE IF d < 0 \/ d >= TwCap THEN w
      ELSE [grown EXCEPT !.at[d] = IF @ = NotReceived THEN now ELSE @]

\* Fault: only a full batch asks for a flush.
MustFlushWhenFull(w, seq) == w.init /\ Distance(w, seq) >= 0 /\ Noted(w, seq).len >= TwBatch

\* on_rtp returns true: the packet is out of reach, or the batch is full.
MustFlush(w, seq) ==
  /\ w.init
  /\ Distance(w, seq) >= 0
  /\ OutOfReach(w, seq) \/ Noted(w, seq).len >= TwBatch

Clamped(d) == IF d >= LargeSpace \div 2 THEN LargeSpace \div 2 - 1
              ELSE IF d < -(LargeSpace \div 2) THEN -(LargeSpace \div 2) ELSE d

\* Arrival times of the window, oldest sequence number first.
Arrivals(w) == [i \in 1 .. w.len |-> w.at[i - 1]]

ReceivedAt(a) == {i \in DOMAIN a : a[i] # NotReceived}
LowestOf(S) == CHOOSE i \in S : \A j \in S : i <= j
HighestOf(S) == CHOOSE i \in S : \A j \in S : i >= j

\* twcc_to_deltas: each arrival relative to the one of the packet before it
\* that arrived, the first to the reference time.
RefTime(a) == IF ReceivedAt(a) = {} THEN 0 ELSE a[LowestOf(ReceivedAt(a))] \div RefUnit

Deltas(a) ==
  LET before(i) == {j \in ReceivedAt(a) : j < i}
      prev(i) == IF before(i) = {} THEN RefTime(a) * RefUnit ELSE a[HighestOf(before(i))]
  IN  [i \in DOMAIN a |-> IF a[i] = NotReceived THEN a[i] ELSE Clamped(a[i] - prev(i))]

\* flush_twcc: the packet on the wire, and the window afterwards.
Feedback(w) == Build(w.base, RefTime(Arrivals(w)), w.fb, Deltas(Arrivals(w)))

Flushed(w) == IF w.len = 0 THEN w
              ELSE [w EXCEPT !.init = FALSE, !.len = 0, !.fb = (@ + 1) % FbSpace, !.flushed = now]

\* twcc_due.
FlushDue == tw.len > 0 /\ now - tw.flushed >= TwDue

\* What the publisher reads: each status with the sequence number and the
\* arrival time it stands for.
Heard(pkt) ==
  LET st == Statuses(pkt)
      sum[i \in 0 .. Len(st)] == IF i = 0 THEN pkt.ref * RefUnit
                                 ELSE IF st[i] = NotReceived THEN sum[i - 1]
                                 ELSE sum[i - 1] + st[i]
  IN  {<<(pkt.base + i - 1) % SeqCycle, sum[i]>> : i \in ReceivedAt(st)}
=============================================================================
