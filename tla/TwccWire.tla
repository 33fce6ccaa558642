------------------------------ MODULE TwccWire ------------------------------
(***************************************************************************)
(* The transport-wide congestion control feedback packet on the wire       *)
(* (wroom-edge/src/rtcp.rs Twcc): statuses become two-bit symbols, symbols *)
(* are packed into chunks, and every received packet adds one or two delta *)
(* bytes behind the chunks.  The reader takes the three apart again.       *)
(*                                                                         *)
(* Widths are parameters; the code has ByteSpace = 256, Narrow = 14 and    *)
(* Wide = 7.  A status is NotReceived or the arrival delta.                *)
(***************************************************************************)
EXTENDS Integers, SequencesExt

CONSTANTS
  ByteSpace,    (* values of a byte                                        *)
  Narrow,       (* symbols in a chunk of one-bit symbols                   *)
  Wide          (* symbols in a chunk of two-bit symbols                   *)

ASSUME TwccAssumption == ByteSpace \in Nat \ {0} /\ Narrow \in Nat \ {0} /\ Wide \in Nat \ {0}

LargeSpace == ByteSpace * ByteSpace

\* No delta is that small.
NotReceived == -LargeSpace
IsSmall(d) == d >= 0 /\ d < ByteSpace
IsLarge(d) == d >= -(LargeSpace \div 2) /\ d < LargeSpace \div 2

\* twcc_symbol, twcc_delta_bytes.
Symbol(s) == IF s = NotReceived THEN 0 ELSE IF IsSmall(s) THEN 1 ELSE 2
DeltaBytes(sym) == IF sym = 1 THEN 1 ELSE IF sym = 2 THEN 2 ELSE 0

Least(a, b) == IF a < b THEN a ELSE b

-----------------------------------------------------------------------------
(* Writing *)

\* Fault: whether a chunk needs two bits is decided from its own first half.
ChunkAtLooksShort(syms, i) ==
  LET ahead == SubSeq(syms, i, Least(Len(syms), i + Wide - 1))
      all   == SubSeq(syms, i, Least(Len(syms), i + Narrow - 1))
  IN  IF \E k \in DOMAIN ahead : ahead[k] = 2
      THEN [wide |-> TRUE, syms |-> ahead]
      ELSE [wide |-> FALSE, syms |-> [k \in DOMAIN all |-> all[k] % 2]]

\* Twcc::chunk_at: one-bit symbols as long as no large delta is among them.
ChunkAt(syms, i) ==
  LET narrow == SubSeq(syms, i, Least(Len(syms), i + Narrow - 1))
  IN  IF \E k \in DOMAIN narrow : narrow[k] = 2
      THEN [wide |-> TRUE, syms |-> SubSeq(syms, i, Least(Len(syms), i + Wide - 1))]
      ELSE [wide |-> FALSE, syms |-> narrow]

Chunks(syms) ==
  LET from[i \in 1 .. (Len(syms) + 1)] ==
        IF i > Len(syms) THEN <<>>
        ELSE <<ChunkAt(syms, i)>> \o from[i + Len(ChunkAt(syms, i).syms)]
  IN  from[1]

\* A large delta in two's complement, high byte first.
Bytes(d) == IF IsSmall(d) THEN <<d>>
            ELSE <<(d % LargeSpace) \div ByteSpace, d % ByteSpace>>

\* Twcc::build; it refuses a delta that does not fit two bytes.
Buildable(statuses) == \A i \in DOMAIN statuses : statuses[i] # NotReceived => IsLarge(statuses[i])

Build(base, ref, fb, statuses) ==
  [base |-> base, count |-> Len(statuses), ref |-> ref, fb |-> fb,
   chunks |-> Chunks([i \in DOMAIN statuses |-> Symbol(statuses[i])]),
   deltas |-> FlattenSeq([i \in DOMAIN statuses |->
                IF statuses[i] = NotReceived THEN <<>> ELSE Bytes(statuses[i])])]

-----------------------------------------------------------------------------
(* Reading *)

\* A chunk spells out all the symbols it has room for; a run-length chunk is
\* read as well, though none is written.
Spelled(c) ==
  IF "run" \in DOMAIN c THEN [i \in 1 .. c.run |-> c.sym]
  ELSE [i \in 1 .. (IF c.wide THEN Wide ELSE Narrow) |->
          IF i <= Len(c.syms) THEN c.syms[i] ELSE 0]

\* TwccPackets::next_symbol, for all the statuses a packet announces.
Symbols(pkt) == SubSeq(FlattenSeq([i \in DOMAIN pkt.chunks |-> Spelled(pkt.chunks[i])]), 1, pkt.count)

\* Where the delta of the i-th symbol starts.
DeltaAt(syms, i) ==
  LET at[k \in 1 .. i] == IF k = 1 THEN 1 ELSE at[k - 1] + DeltaBytes(syms[k - 1])
  IN  at[i]

\* Twcc::from_block: enough chunks for the announced statuses, no run of
\* length zero, and the delta bytes they ask for.
Parses(pkt) ==
  /\ \A i \in DOMAIN pkt.chunks : "run" \in DOMAIN pkt.chunks[i] => pkt.chunks[i].run > 0
  /\ pkt.count <= Len(FlattenSeq([i \in DOMAIN pkt.chunks |-> Spelled(pkt.chunks[i])]))
  /\ DeltaAt(Symbols(pkt), pkt.count + 1) <= Len(pkt.deltas) + 1

Signed(n) == IF n >= LargeSpace \div 2 THEN n - LargeSpace ELSE n

\* TwccPackets::next: the statuses a reader sees.
Statuses(pkt) ==
  LET syms == Symbols(pkt)
      d(i) == DeltaAt(syms, i)
  IN  [i \in 1 .. pkt.count |->
         IF syms[i] = 1 THEN pkt.deltas[d(i)]
         ELSE IF syms[i] = 2 THEN Signed(pkt.deltas[d(i)] * ByteSpace + pkt.deltas[d(i) + 1])
         ELSE NotReceived]

=============================================================================
