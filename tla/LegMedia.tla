------------------------------ MODULE LegMedia ------------------------------
(***************************************************************************)
(* One connected leg between a browser and the media shard.  On a          *)
(* subscriber leg the shard sends RTP, in the order the publishers' packets*)
(* reached it.  On a publisher leg the browser sends RTP in order, the     *)
(* network reorders it, and the shard keeps receiver feedback              *)
(* (Shard::on_datagram, on_tick), which it sends as SRTCP.  RTCP goes both *)
(* ways on both.                                                           *)
(*                                                                         *)
(* A browser numbers the packets of all its sources in one transport-wide  *)
(* sequence; here, in the order they were sealed.                          *)
(***************************************************************************)
EXTENDS Srtp, ReceiverFeedback

CONSTANTS
  PlaneSsrc,    (* the sender of the shard's own RTCP                      *)
  TwStart,      (* transport-wide number of the first packet               *)
  MaxNow        (* bound: ticks                                            *)

ASSUME LegAssumption == SeqCycle = SeqSpace /\ TwStart \in Nat

VARIABLES
  leg,          (* "pub" or "sub"                                          *)
  arrived,      (* accepted RTP packets with their time (history)          *)
  told,         (* statuses the browser was sent (history)                 *)
  recounted,    (* some packet was recorded again after a flush (history)  *)
  strayed       (* some packet came a little late or far ahead (history)   *)

historyVars == <<arrived, told, recounted, strayed>>
legVars == <<srtpVars, feedbackVars, leg, historyVars>>

LegInit ==
  /\ SrtpInit
  /\ FeedbackInit
  /\ leg \in {"pub", "sub"}
  /\ arrived = {}
  /\ told = {}
  /\ recounted = FALSE
  /\ strayed = FALSE

TwccSeq(p) == (TwStart + Cardinality({q \in wire : q.key = p.key /\ q.id < p.id})) % SeqSpace

\* Steps from the newest packet that RrSlot::record takes for what they are.
StepsCounted == (Advance - SeqSpace) .. -Behind \cup 0 .. (Advance - 1)

NewestOf(s) == {a \in arrived : a.ssrc = s /\ \A b \in arrived : b.ssrc = s => b.num <= a.num}

\* on_datagram on a publisher leg: every accepted packet is recorded; when that
\* asks for a flush, the batch is sent and the packet recorded again.
OnRtp(p) ==
  LET flush == MustFlush(tw, TwccSeq(p))
      once  == CountRtp(slots, p.ssrc, p.seq)
      full  == Noted(tw, TwccSeq(p))
  IN  /\ slots' = IF flush THEN CountRtp(once, p.ssrc, p.seq) ELSE once
      /\ tw' = IF flush THEN Noted(Flushed(full), TwccSeq(p)) ELSE full
      /\ told' = IF flush THEN told \cup Heard(Feedback(full)) ELSE told
      /\ recounted' = (recounted \/ flush)
      /\ arrived' = arrived \cup {[id |-> p.id, ssrc |-> p.ssrc, num |-> p.num, tseq |-> TwccSeq(p),
                                   at |-> now, nth |-> Cardinality(arrived) + 1,
                                   rising |-> \A a \in arrived : a.id < p.id]}
      /\ strayed' = (strayed \/ \E a \in NewestOf(p.ssrc) : p.num - a.num \notin StepsCounted)
      /\ IF flush THEN EncryptRtcp("server", PlaneSsrc) ELSE UNCHANGED <<tx, wire>>
      /\ UNCHANGED <<now, rrLast>>

ReceiveRtp(p) ==
  /\ leg = "pub"
  /\ OpenRtp("server", p)
  /\ IF RtpVerdict("server", p) = "Ok" THEN OnRtp(p)
     ELSE UNCHANGED <<tx, wire, feedbackVars, historyVars>>
  /\ UNCHANGED <<profile, newest, inOrder, last, leg>>

\* RecvFeedback::on_rtcp: the browser's sender reports.
ReceiveRtcp(p) ==
  /\ DecryptRtcp("server", p)
  /\ slots' = IF leg = "pub" /\ RtcpVerdict("server", p) = "Ok"
              THEN LearnSenderReport(slots, p.ssrc, 1) ELSE slots
  /\ UNCHANGED <<now, rrLast, tw, leg, historyVars>>

Pass ==
  /\ leg = "pub"
  /\ now < MaxNow
  /\ now' = now + 1
  /\ UNCHANGED <<srtpVars, slots, rrLast, tw, leg, historyVars>>

\* Shard::on_tick: the batch of transport-wide feedback when it is old enough.
FlushTwcc ==
  /\ leg = "pub"
  /\ FlushDue
  /\ told' = told \cup Heard(Feedback(tw))
  /\ tw' = Flushed(tw)
  /\ EncryptRtcp("server", PlaneSsrc)
  /\ UNCHANGED <<profile, rx, opened, reopened, newest, inOrder, last>>
  /\ UNCHANGED <<now, slots, rrLast, leg, arrived, recounted, strayed>>

\* Shard::on_tick: the receiver report of the interval.
SendReport ==
  /\ leg = "pub"
  /\ SendRr
  /\ EncryptRtcp("server", PlaneSsrc)
  /\ UNCHANGED <<profile, rx, opened, reopened, newest, inOrder, last, leg, historyVars>>

ByBrowser ==
  /\ \E s \in Ssrcs :
       \/ leg = "pub" /\ SendRtp("client", s) /\ inOrder'["client"]
       \/ SendRtcp("client", s)
       \/ \E p \in wire \cup Forged : DecryptRtp("client", p) \/ DecryptRtcp("client", p)
  /\ UNCHANGED <<feedbackVars, leg, historyVars>>

ByShard ==
  /\ leg = "sub"
  /\ \/ \E s \in Ssrcs : SendRtp("server", s) \/ SendRtcp("server", s)
     \/ \E p \in wire \cup Forged : DecryptRtp("server", p)
  /\ UNCHANGED <<feedbackVars, leg, historyVars>>

LegNext ==
  \/ ByBrowser \/ ByShard
  \/ \E p \in wire \cup Forged : ReceiveRtp(p) \/ ReceiveRtcp(p)
  \/ Pass \/ FlushTwcc \/ SendReport

LegSpec == LegInit /\ [][LegNext]_legVars

-----------------------------------------------------------------------------
\* What the browser is told of a packet is the time at which it first arrived,
\* across batches, wraps and reordering, and a packet that arrived ahead of all
\* before it is in the window or was told: none falls between two batches and is
\* taken for lost.  A wrong status steers the browser's bandwidth estimate and
\* nothing else would show it.
TwccIsExact ==
  /\ \A st \in told : \E a \in arrived : st = <<a.tseq, a.at>>
  /\ \A a \in arrived : a.rising =>
       \/ <<a.tseq, a.at>> \in told
       \/ \E i \in 0 .. (tw.len - 1) : (tw.base + i) % SeqSpace = a.tseq /\ tw.at[i] = a.at

NumsOf(s) == {a.num : a \in {b \in arrived : b.ssrc = s}}
FirstOf(s) == (CHOOSE a \in arrived : a.ssrc = s /\ \A b \in arrived : b.ssrc = s => a.nth <= b.nth).num

\* Unless a packet is recorded twice, a little late or far ahead, the report of a
\* source counts exactly what is missing from its first packet to its newest,
\* less what came late from before the first, across the wrap of its sequence
\* numbers, and no counter of it passes below zero.
ReportsAreExact ==
  ~recounted /\ ~strayed /\ Cardinality({a.ssrc : a \in arrived}) <= MaxSlots =>
    \A s \in DOMAIN slots :
      LET first   == FirstOf(s)
          missing == (first .. HighestOf(NumsOf(s))) \ NumsOf(s)
          early   == {n \in NumsOf(s) : n < first}
      IN  /\ ~Underflows(slots[s])
          /\ ReportBlock(slots[s]).lost = Cardinality(missing) - Cardinality(early)

\* media.rs: a misordered packet "counts as received but does not move the
\* high-water mark".
LatePacketsKeepTheMark ==
  \A s \in DOMAIN slots : slots[s].max = HighestOf(NumsOf(s)) % SeqSpace
=============================================================================
