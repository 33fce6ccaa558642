---------------------------- MODULE IndexWindow ----------------------------
(***************************************************************************)
(* The sliding window of packet indices that serves SRTP twice             *)
(* (wroom-edge/src/srtp.rs IndexWindow): against replays where packets are *)
(* opened, against the reuse of an IV where they are sealed.  A packet's   *)
(* index is ROC * 2^16 + SEQ, but only SEQ travels: the receiver guesses   *)
(* the roll-over counter (RFC 3711, appendix A), the sender counts it.     *)
(*                                                                         *)
(* The widths are parameters.  The code has SeqSpace = 2^16, RocSpace =    *)
(* 2^32 and WindowLen = 64.  The bit mask is the set of distances it       *)
(* marks.                                                                  *)
(***************************************************************************)
EXTENDS Integers

CONSTANTS
  SeqSpace,     (* values of the sequence number on the wire               *)
  RocSpace,     (* values of the roll-over counter                         *)
  WindowLen     (* REPLAY_WINDOW                                           *)

ASSUME WindowAssumption ==
  /\ SeqSpace \in Nat \ {0}
  /\ RocSpace \in Nat \ {0}
  /\ WindowLen \in Nat \ {0}

Half == SeqSpace \div 2
Seqs == 0 .. (SeqSpace - 1)
Distances == 0 .. (WindowLen - 1)
NoIndex == -1

\* highest is the largest index recorded, d \in seen says that highest - d is
\* recorded too.
Window == [highest : Nat \cup {NoIndex}, seen : SUBSET Distances]
Blank == [highest |-> NoIndex, seen |-> {}]

Roc(index) == index \div SeqSpace
Seq16(index) == index % SeqSpace

\* IndexWindow::guess: of the counter, the one before and the one after, the
\* value that puts seq closest to the highest index.
Guess(w, seq) ==
  LET roc == Roc(w.highest)
      s_l == Seq16(w.highest)
      v   == IF s_l < Half
             THEN IF seq - s_l > Half THEN (roc - 1) % RocSpace ELSE roc
             ELSE IF s_l - Half > seq THEN (roc + 1) % RocSpace ELSE roc
  IN  IF w.highest = NoIndex THEN seq ELSE v * SeqSpace + seq

\* IndexWindow::send_index: the counter steps when seq falls far below the
\* last one, and never steps back.
Wraps(w, seq) == seq < Seq16(w.highest) /\ Seq16(w.highest) - seq > Half

Exhausted(w, seq) == w.highest # NoIndex /\ Wraps(w, seq) /\ Roc(w.highest) = RocSpace - 1

SendIndex(w, seq) ==
  IF w.highest = NoIndex THEN seq
  ELSE (IF Wraps(w, seq) THEN Roc(w.highest) + 1 ELSE Roc(w.highest)) * SeqSpace + seq

\* IndexWindow::check: ahead of the window, or in it and not marked.
Check(w, index) ==
  \/ w.highest = NoIndex
  \/ index > w.highest
  \/ w.highest - index < WindowLen /\ (w.highest - index) \notin w.seen

\* IndexWindow::record.
Record(w, index) ==
  IF w.highest = NoIndex THEN [highest |-> index, seen |-> {0}]
  ELSE IF index > w.highest
       THEN [highest |-> index,
             seen |-> {0} \cup {d \in Distances : d - (index - w.highest) \in w.seen}]
  ELSE [w EXCEPT !.seen = @ \cup (Distances \cap {w.highest - index})]
=============================================================================
