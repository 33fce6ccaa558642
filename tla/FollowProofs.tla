---------------------------- MODULE FollowProofs ----------------------------
(***************************************************************************)
(* Proofs about the media plane, second part: a shard that has read its    *)
(* control queue knows of every room what the router knows, forwards by    *)
(* that and has legs of nobody but its own members; and what travels       *)
(* between the members while nothing changes reaches exactly those it is   *)
(* for, whatever changes nobody twice and never its sender; and lists of   *)
(* speakers are current once the shards have reported and been read.       *)
(*                                                                         *)
(* The first inductive invariant (FollowInv) speaks of what a shard will   *)
(* know of a room once it has read what is queued: reading is a recursive  *)
(* function over the queue (Learning), and a message the router appends    *)
(* changes its last value only.  Invariant is that this value is the       *)
(* router's room, which for an empty queue is what the shard has.          *)
(*                                                                         *)
(* The second (TrafficInv) is about posts: whoever a post has reached, or  *)
(* who sent it, has no leg on a shard in whose ring it still is, and is    *)
(* not going to get one there, for a participant has one home; and while a *)
(* post is calm, those it is for are those it has reached and those it     *)
(* still gets to from the rings.                                           *)
(*                                                                         *)
(* The third (ListsInv) is about lists of speakers: while nothing but      *)
(* lists is queued, a shard that has reported since the last change has    *)
(* reported the truth of its members (ReportsAreIn); the loudest of what   *)
(* each shard found loudest are the loudest of the room (LoudestOfLoudest),*)
(* so that a merge of all reports has the true list, and whoever has not   *)
(* got it last has it last in the queue of its shard (EverybodyHears).     *)
(*                                                                         *)
(* As in the first part, all this is about behaviours in which no control  *)
(* queue ever fills; rings of packets may.  The ring of reports may not    *)
(* lose any in the third (ReportsFit).                                     *)
(***************************************************************************)
EXTENDS MediaPlaneProofs

-----------------------------------------------------------------------------
(* Reading a queue *)

Learning(c, q, s, id) ==
  LET after[i \in Nat] == IF i = 0 THEN c ELSE Learn(after[i - 1], q[i], s, id)
  IN  after

\* What shard s, which knows c of the room, knows of it when it has read q.
Read(c, q, s, id) == Learning(c, q, s, id)[Len(q)]

LEMMA LearningStep ==
  ASSUME NEW c, NEW q, NEW s, NEW id
  PROVE  /\ Learning(c, q, s, id)[0] = c
         /\ \A i \in Nat : Learning(c, q, s, id)[i + 1] = Learn(Learning(c, q, s, id)[i], q[i + 1], s, id)
<1> DEFINE after[i \in Nat] == IF i = 0 THEN c ELSE Learn(after[i - 1], q[i], s, id)
<1>1. after = [i \in Nat |-> IF i = 0 THEN c ELSE Learn(after[i - 1], q[i], s, id)]
  OBVIOUS
<1>2. Learning(c, q, s, id) = after
  BY DEF Learning
<1> HIDE DEF after
<1>3. after[0] = c
  BY <1>1
<1>4. ASSUME NEW i \in Nat PROVE after[i + 1] = Learn(after[i], q[i + 1], s, id)
  <2>1. i + 1 \in Nat /\ i + 1 # 0 /\ (i + 1) - 1 = i
    OBVIOUS
  <2> QED
    BY <1>1, <2>1
<1> QED
  BY <1>2, <1>3, <1>4

\* The n messages of q after a are those of k after b.
SameMessages(q, a, k, b, n) == \A i \in 1 .. n : q[a + i] = k[b + i]

\* Two queues that say the same from some place on, to a shard that knows
\* the same when it gets there.
Agree(c, q, a, d, k, b, s, id) == Learning(c, q, s, id)[a] = Learning(d, k, s, id)[b]

LEMMA LearningSame ==
  ASSUME NEW c, NEW d, NEW q, NEW k, NEW s, NEW id, NEW a \in Nat, NEW b \in Nat, NEW n \in Nat,
         Agree(c, q, a, d, k, b, s, id), SameMessages(q, a, k, b, n)
  PROVE  Agree(c, q, a + n, d, k, b + n, s, id)
<1> DEFINE f == Learning(c, q, s, id)
           g == Learning(d, k, s, id)
           S == {i \in Nat : i <= n => f[a + i] = g[b + i]}
<1>0. /\ \A i \in Nat : f[i + 1] = Learn(f[i], q[i + 1], s, id)
      /\ \A i \in Nat : g[i + 1] = Learn(g[i], k[i + 1], s, id)
      /\ f[a] = g[b]
  BY LearningStep DEF Agree
<1> HIDE DEF f, g
<1>1. 0 \in S
  BY <1>0
<1>2. ASSUME NEW i \in S PROVE i + 1 \in S
  <2>1. i \in Nat /\ i + 1 \in Nat /\ a + i \in Nat /\ b + i \in Nat
        /\ a + (i + 1) = (a + i) + 1 /\ b + (i + 1) = (b + i) + 1
    OBVIOUS
  <2>2. CASE i + 1 <= n
    <3>1. q[a + (i + 1)] = k[b + (i + 1)] /\ i <= n
      BY <2>1, <2>2 DEF SameMessages
    <3>2. f[a + i] = g[b + i]
      BY <3>1
    <3>3. /\ f[(a + i) + 1] = Learn(f[a + i], q[(a + i) + 1], s, id)
          /\ g[(b + i) + 1] = Learn(g[b + i], k[(b + i) + 1], s, id)
      BY <1>0, <2>1
    <3>4. f[a + (i + 1)] = g[b + (i + 1)]
      BY <2>1, <3>1, <3>2, <3>3
    <3> QED
      BY <2>1, <3>4
  <2> QED
    BY <2>1, <2>2
<1>3. S = Nat
  <2> HIDE DEF S
  <2>1. S \in SUBSET Nat
    BY DEF S
  <2> QED
    BY <1>1, <1>2, <2>1, SetInduction
<1>4. n \in S
  BY <1>3
<1> QED
  BY <1>4 DEF f, g, Agree

\* One queue behind the other.
LEMMA ReadJoint ==
  ASSUME NEW c, NEW q, NEW k, NEW Q, NEW s, NEW id, Joint(q, k, Q)
  PROVE  Read(c, Q, s, id) = Read(Read(c, q, s, id), k, s, id)
<1> DEFINE d == Read(c, q, s, id)
<1>1. /\ Len(q) \in Nat /\ Len(k) \in Nat /\ Len(Q) = Len(q) + Len(k)
      /\ \A i \in 1 .. Len(q) : Q[i] = q[i]
      /\ \A i \in 1 .. Len(k) : Q[Len(q) + i] = k[i]
  BY DEF Joint
<1> HIDE DEF d
<1>2. Learning(c, Q, s, id)[0] = Learning(c, q, s, id)[0] /\ Learning(d, k, s, id)[0] = d
  BY LearningStep
<1>3. PICK m \in Nat : m = Len(q)
  BY <1>1
<1>4. PICK n \in Nat : n = Len(k)
  BY <1>1
<1>5. PICK z \in Nat : z = 0
  OBVIOUS
<1>6. /\ \A i \in 1 .. m : Q[i] = q[i]
      /\ \A i \in 1 .. n : Q[m + i] = k[i]
  BY ONLY <1>1, <1>3, <1>4
<1>7. /\ \A i \in Nat : z + i = i
      /\ \A i \in 1 .. m : i \in Nat
      /\ \A i \in 1 .. n : i \in Nat
  BY <1>5
<1>8. SameMessages(Q, z, q, z, m) /\ SameMessages(Q, m, k, z, n) /\ z + m = m /\ z + n = n
  BY ONLY <1>6, <1>7, m \in Nat, n \in Nat DEF SameMessages
<1>9. Agree(c, Q, z + m, c, q, z + m, s, id)
  <2>1. Agree(c, Q, z, c, q, z, s, id)
    BY <1>2, <1>5 DEF Agree
  <2> QED
    BY <1>8, <2>1, LearningSame
<1>10. Agree(c, Q, m + n, d, k, z + n, s, id)
  <2>1. Agree(c, Q, m, d, k, z, s, id)
    BY <1>2, <1>3, <1>5, <1>8, <1>9 DEF d, Read, Agree
  <2> QED
    BY <1>8, <2>1, LearningSame
<1> QED
  BY <1>1, <1>3, <1>4, <1>8, <1>10 DEF Read, d, Agree

\* To have taken the first message makes no difference.
LEMMA ReadRest ==
  ASSUME NEW c, NEW q, NEW q2, NEW s, NEW id, Rest(q, q2)
  PROVE  Read(c, q, s, id) = Read(Learn(c, q[1], s, id), q2, s, id)
<1> DEFINE d == Learn(c, q[1], s, id)
<1>1. Learning(c, q, s, id)[0] = c /\ Learning(c, q, s, id)[0 + 1] = Learn(Learning(c, q, s, id)[0], q[0 + 1], s, id)
  BY LearningStep
<1>2. Learning(c, q, s, id)[1] = d /\ Learning(d, q2, s, id)[0] = d
  BY <1>1, LearningStep
<1> HIDE DEF d
<1>3. PICK n \in Nat : n = Len(q2) /\ Len(q) = 1 + n
  BY DEF Rest
<1>4. SameMessages(q, 1, q2, 0, n) /\ 0 + n = n
  BY <1>3 DEF Rest, SameMessages
<1>5. Agree(c, q, 1 + n, d, q2, 0 + n, s, id)
  <2>1. Agree(c, q, 1, d, q2, 0, s, id)
    BY <1>2 DEF Agree
  <2> QED
    BY <1>4, <2>1, LearningSame
<1> QED
  BY <1>3, <1>4, <1>5 DEF Read, d, Agree

\* Messages a shard learns nothing of this room from.
LEMMA ReadNothing ==
  ASSUME NEW c, NEW k, NEW s, NEW id, Len(k) \in Nat,
         \A i \in 1 .. Len(k) : Learn(c, k[i], s, id) = c
  PROVE  Read(c, k, s, id) = c
<1> DEFINE f == Learning(c, k, s, id)
           S == {i \in Nat : i <= Len(k) => f[i] = c}
<1>0. f[0] = c /\ \A i \in Nat : f[i + 1] = Learn(f[i], k[i + 1], s, id)
  BY LearningStep
<1> HIDE DEF f
<1>1. 0 \in S
  BY <1>0
<1>2. ASSUME NEW i \in S PROVE i + 1 \in S
  <2>1. i \in Nat /\ i + 1 \in Nat
    OBVIOUS
  <2>2. CASE i + 1 <= Len(k)
    <3>1. i + 1 \in 1 .. Len(k) /\ i <= Len(k)
      BY <2>1, <2>2
    <3>2. f[i] = c /\ Learn(c, k[i + 1], s, id) = c
      BY <3>1
    <3>3. f[i + 1] = c
      BY <1>0, <2>1, <3>2
    <3> QED
      BY <2>1, <3>3
  <2> QED
    BY <2>1, <2>2
<1>3. S = Nat
  <2> HIDE DEF S
  <2>1. S \in SUBSET Nat
    BY DEF S
  <2> QED
    BY <1>1, <1>2, <2>1, SetInduction
<1>4. Len(k) \in S
  BY <1>3
<1> QED
  BY <1>4 DEF Read, f

\* Up to three messages.
LEMMA ReadFew ==
  ASSUME NEW c, NEW k, NEW s, NEW id
  PROVE  /\ Len(k) = 1 => Read(c, k, s, id) = Learn(c, k[1], s, id)
         /\ Len(k) = 2 => Read(c, k, s, id) = Learn(Learn(c, k[1], s, id), k[2], s, id)
         /\ Len(k) = 3 =>
              Read(c, k, s, id) = Learn(Learn(Learn(c, k[1], s, id), k[2], s, id), k[3], s, id)
<1> DEFINE f == Learning(c, k, s, id)
<1>1. f[0] = c /\ \A i \in Nat : f[i + 1] = Learn(f[i], k[i + 1], s, id)
  BY LearningStep
<1> HIDE DEF f
<1>2. /\ f[0 + 1] = Learn(f[0], k[0 + 1], s, id) /\ f[1 + 1] = Learn(f[1], k[1 + 1], s, id)
      /\ f[2 + 1] = Learn(f[2], k[2 + 1], s, id)
  BY <1>1
<1>3. f[1] = Learn(c, k[1], s, id) /\ f[2] = Learn(f[1], k[2], s, id) /\ f[3] = Learn(f[2], k[3], s, id)
  BY <1>1, <1>2
<1> QED
  BY <1>3 DEF Read, f

-----------------------------------------------------------------------------
(* What the router knows of a room, and what a shard makes of its messages. *)
(* st are the seats and M the members of the room.                         *)

PidsOf(st, M) == {st[q].pid : q \in M}
OnePidEach(st, M) == \A p, q \in M : st[p].pid = st[q].pid => p = q

\* The provers do not take a truth value for an argument.
Here == TRUE

\* What shard s is to know of a room that has the members M.
Picture(st, M, s, there) ==
  [there |-> there,
   pids  |-> [q \in M |-> st[q].pid],
   wants |-> [pp \in PidsOf(st, M) |-> Resolved(st, CHOOSE q \in M : st[q].pid = pp)],
   own   |-> {q \in M : Home(st[q].pid) = s}]

\* The same but for what exactly is wanted.
Sketch(c, st, M, s) ==
  /\ c = [there |-> TRUE, pids |-> [q \in M |-> st[q].pid], wants |-> c.wants,
          own |-> {q \in M : Home(st[q].pid) = s}]
  /\ c.wants = [pp \in PidsOf(st, M) |-> c.wants[pp]]

LEMMA PictureIsSketch == ASSUME NEW st, NEW M, NEW s PROVE Sketch(Picture(st, M, s, Here), st, M, s)
<1> DEFINE c == Picture(st, M, s, Here)
           w == [pp \in PidsOf(st, M) |-> Resolved(st, CHOOSE q \in M : st[q].pid = pp)]
           pids == [q \in M |-> st[q].pid]
           own == {q \in M : Home(st[q].pid) = s}
<1>1. w = [pp \in PidsOf(st, M) |-> w[pp]]
  OBVIOUS
<1>2. c = [there |-> TRUE, pids |-> pids, wants |-> w, own |-> own]
  BY DEF Here, Picture
<1> HIDE DEF w, pids, own, c
<1>3. c.wants = w /\ c = [there |-> TRUE, pids |-> pids, wants |-> c.wants, own |-> own]
  BY <1>2
<1>4. c.wants = [pp \in PidsOf(st, M) |-> c.wants[pp]]
  BY <1>1, <1>3
<1> QED
  BY <1>3, <1>4 DEF Sketch, c, pids, own

\* The members M of room r, all of whose wants m tells; the member m brings,
\* or takes.
IsTable(m, id, st, r, M) ==
  /\ M = In(st, r) /\ OnePidEach(st, M)
  /\ m.t = "WantsAll" /\ m.room = id /\ m.table = WantsTable(st, r)
Arrives(m, id, st, M, st2, N) ==
  /\ m.t = "MemberUp" /\ m.room = id /\ m.name \notin M /\ N = M \cup {m.name}
  /\ st2[m.name].pid = m.pid /\ \A q \in M : st2[q] = st[q]
Departs(m, id, st, M, st2, N) ==
  /\ OnePidEach(st, M)
  /\ m.t = "MemberGone" /\ m.room = id /\ m.name \in M /\ N = M \ {m.name}
  /\ \A q \in N : st2[q] = st[q]

\* A table of wants completes it.
LEMMA TableRead ==
  ASSUME NEW st, NEW r, NEW M, NEW c, NEW s, Sketch(c, st, M, s), NEW m, NEW id, IsTable(m, id, st, r, M)
  PROVE  Learn(c, m, s, id) = Picture(st, M, s, Here)
<1>0. M = In(st, r) /\ OnePidEach(st, M) /\ m.t = "WantsAll" /\ m.room = id /\ m.table = WantsTable(st, r)
  BY DEF IsTable
<1> DEFINE table == WantsTable(st, r)
           named == {x[1] : x \in table}
           row(pp) == (CHOOSE x \in table : x[1] = pp)[2]
           w == [pp \in PidsOf(st, M) |-> Resolved(st, CHOOSE q \in M : st[q].pid = pp)]
           pids == [q \in M |-> st[q].pid]
           own == {q \in M : Home(st[q].pid) = s}
<1>1. table = {<<st[q].pid, Resolved(st, q)>> : q \in M}
  BY <1>0 DEF WantsTable
<1> HIDE DEF table
<1>2. named = PidsOf(st, M)
  <2>1. \A x \in table : \E q \in M : x = <<st[q].pid, Resolved(st, q)>>
    BY <1>1
  <2>2. \A q \in M : <<st[q].pid, Resolved(st, q)>> \in table
    BY <1>1
  <2>3. \A x \in table : x[1] \in PidsOf(st, M)
    BY <2>1 DEF PidsOf
  <2>4. ASSUME NEW pp \in PidsOf(st, M) PROVE pp \in named
    <3>1. PICK q \in M : pp = st[q].pid
      BY DEF PidsOf
    <3>2. <<st[q].pid, Resolved(st, q)>>[1] = pp
      BY <3>1
    <3> QED
      BY <2>2, <3>2
  <2> QED
    BY <2>3, <2>4
<1>3. ASSUME NEW pp \in PidsOf(st, M)
      PROVE  row(pp) = Resolved(st, CHOOSE q \in M : st[q].pid = pp)
  <2>1. PICK q \in M : st[q].pid = pp
    BY DEF PidsOf
  <2>2. q = CHOOSE y \in M : st[y].pid = pp
    BY <1>0, <2>1 DEF OnePidEach
  <2> DEFINE e == <<st[q].pid, Resolved(st, q)>>
             f == CHOOSE x \in table : x[1] = pp
  <2>3. e \in table /\ e[1] = pp /\ e[2] = Resolved(st, q)
    BY <1>1, <2>1
  <2>4. f \in table /\ f[1] = pp
    BY <2>3
  <2> HIDE DEF f
  <2>5. PICK y \in M : f = <<st[y].pid, Resolved(st, y)>>
    BY <1>1, <2>4
  <2>6. y = q
    BY <1>0, <2>1, <2>4, <2>5 DEF OnePidEach
  <2>7. row(pp) = f[2]
    BY DEF f
  <2>8. f[2] = Resolved(st, q)
    BY <2>5, <2>6
  <2> HIDE DEF row
  <2> QED
    BY <2>2, <2>7, <2>8
<1>4. Overwritten(c.wants, table) = w
  <2>1. DOMAIN c.wants = PidsOf(st, M)
    BY DEF Sketch
  <2>2. Overwritten(c.wants, table) =
          [pp \in DOMAIN c.wants \cup named |-> IF pp \in named THEN row(pp) ELSE c.wants[pp]]
    BY DEF Overwritten
  <2> HIDE DEF named, row
  <2>3. DOMAIN c.wants \cup named = PidsOf(st, M)
    BY <1>2, <2>1
  <2> QED
    BY <1>2, <1>3, <2>2, <2>3
<1>5. c.there /\ c.pids = pids /\ c.own = own
  BY DEF Sketch
<1>6. Learn(c, m, s, id) = [there |-> TRUE, pids |-> c.pids, wants |-> Overwritten(c.wants, table),
                            own |-> c.own]
  BY <1>0, <1>5 DEF Learn, table
<1> QED
  BY <1>4, <1>5, <1>6 DEF Here, Picture

LEMMA RoomUpRead ==
  ASSUME NEW st, NEW s, NEW there, NEW m, NEW id, m.t = "RoomUp", m.room = id
  PROVE  Learn(Picture(st, {}, s, there), m, s, id) = Picture(st, {}, s, Here)
<1> DEFINE pids == [q \in {} |-> st[q].pid]
           w == [pp \in PidsOf(st, {}) |-> Resolved(st, CHOOSE q \in {} : st[q].pid = pp)]
           own == {q \in {} : Home(st[q].pid) = s}
           c == Picture(st, {}, s, there)
<1>1. c = [there |-> there, pids |-> pids, wants |-> w, own |-> own]
      /\ Picture(st, {}, s, Here) = [there |-> TRUE, pids |-> pids, wants |-> w, own |-> own]
  BY DEF Here, Picture
<1> HIDE DEF pids, w, own, c
<1>2. c.pids = pids /\ c.wants = w /\ c.own = own
  BY <1>1
<1>3. Learn(c, m, s, id) = [there |-> TRUE, pids |-> c.pids, wants |-> c.wants, own |-> c.own]
  BY DEF Learn
<1> QED
  BY <1>1, <1>2, <1>3 DEF c

LEMMA MemberUpRead ==
  ASSUME NEW st, NEW M, NEW c, NEW s, Sketch(c, st, M, s), NEW m, NEW id,
         NEW st2, NEW N, Arrives(m, id, st, M, st2, N)
  PROVE  Sketch(Learn(c, m, s, id), st2, N, s)
<1>0. /\ m.t = "MemberUp" /\ m.room = id /\ m.name \notin M /\ N = M \cup {m.name}
      /\ st2[m.name].pid = m.pid /\ \A q \in M : st2[q] = st[q]
  BY DEF Arrives
<1> DEFINE p == m.name
           d == Learn(c, m, s, id)
           pids == [q \in N |-> st2[q].pid]
           own == {q \in N : Home(st2[q].pid) = s}
<1>1. /\ c.there /\ c.pids = [q \in M |-> st[q].pid] /\ c.own = {q \in M : Home(st[q].pid) = s}
      /\ c.wants = [pp \in PidsOf(st, M) |-> c.wants[pp]]
  BY DEF Sketch
<1>2. d = [there |-> TRUE, pids |-> With(c.pids, p, m.pid), wants |-> With(c.wants, m.pid, Everything),
           own |-> IF Home(m.pid) = s THEN c.own \cup {p} ELSE c.own]
  BY <1>0, <1>1 DEF Learn
<1>3. With(c.pids, p, m.pid) = pids
  BY <1>0, <1>1 DEF With
<1>4. (IF Home(m.pid) = s THEN c.own \cup {p} ELSE c.own) = own
  BY <1>0, <1>1
<1>5. PidsOf(st2, N) = PidsOf(st, M) \cup {m.pid}
  BY <1>0 DEF PidsOf
<1> DEFINE w == With(c.wants, m.pid, Everything)
<1>6. w = [pp \in PidsOf(st2, N) |-> w[pp]]
  <2>1. w = [pp \in DOMAIN c.wants \cup {m.pid} |-> IF pp = m.pid THEN Everything ELSE c.wants[pp]]
    BY DEF With
  <2>2. DOMAIN c.wants \cup {m.pid} = PidsOf(st2, N)
    BY <1>1, <1>5
  <2> HIDE DEF w
  <2> QED
    BY <2>1, <2>2
<1> HIDE DEF pids, own, d, w
<1>7. d = [there |-> TRUE, pids |-> pids, wants |-> w, own |-> own]
  BY <1>2, <1>3, <1>4 DEF w
<1>8. d.wants = w
  BY <1>7
<1> QED
  BY <1>6, <1>7, <1>8 DEF Sketch, d, pids, own

LEMMA MemberGoneRead ==
  ASSUME NEW st, NEW M, NEW c, NEW s, Sketch(c, st, M, s), NEW m, NEW id,
         NEW st2, NEW N, Departs(m, id, st, M, st2, N)
  PROVE  Sketch(Learn(c, m, s, id), st2, N, s)
<1>0. /\ OnePidEach(st, M) /\ m.t = "MemberGone" /\ m.room = id /\ m.name \in M
      /\ N = M \ {m.name} /\ \A q \in N : st2[q] = st[q]
  BY DEF Departs
<1> DEFINE p == m.name
           d == Learn(c, m, s, id)
           pids == [q \in N |-> st2[q].pid]
           own == {q \in N : Home(st2[q].pid) = s}
           w == Without(c.wants, {c.pids[q] : q \in {p} \cap DOMAIN c.pids})
<1>1. /\ c.there /\ c.pids = [q \in M |-> st[q].pid] /\ c.own = {q \in M : Home(st[q].pid) = s}
      /\ c.wants = [pp \in PidsOf(st, M) |-> c.wants[pp]]
  BY DEF Sketch
<1>2. d = [there |-> TRUE, pids |-> Without(c.pids, {p}), wants |-> w, own |-> c.own \ {p}]
  BY <1>0, <1>1 DEF Learn
<1>3. Without(c.pids, {p}) = pids
  BY <1>0, <1>1 DEF Without, Restrict
<1>4. c.own \ {p} = own
  BY <1>0, <1>1
<1>5. PidsOf(st2, N) = PidsOf(st, M) \ {st[p].pid}
  BY <1>0 DEF PidsOf, OnePidEach
<1>6. w = [pp \in PidsOf(st2, N) |-> w[pp]]
  <2>1. {c.pids[q] : q \in {p} \cap DOMAIN c.pids} = {st[p].pid}
    BY <1>0, <1>1
  <2>2. w = Restrict(c.wants, DOMAIN c.wants \ {st[p].pid})
    BY <2>1 DEF Without
  <2>3. DOMAIN c.wants \ {st[p].pid} = PidsOf(st2, N)
    BY <1>1, <1>5
  <2> HIDE DEF w
  <2> QED
    BY <2>2, <2>3 DEF Restrict
<1> HIDE DEF pids, own, d, w
<1>7. d = [there |-> TRUE, pids |-> pids, wants |-> w, own |-> own]
  BY <1>2, <1>3, <1>4
<1>8. d.wants = w
  BY <1>7
<1> QED
  BY <1>6, <1>7, <1>8 DEF Sketch, d, pids, own

\* Of an empty room the sketch tells everything.
LEMMA EmptyRoom == ASSUME NEW st, NEW c, NEW s, Sketch(c, st, {}, s) PROVE c = Picture(st, {}, s, Here)
<1> DEFINE pids == [q \in {} |-> st[q].pid]
           w == [pp \in PidsOf(st, {}) |-> Resolved(st, CHOOSE q \in {} : st[q].pid = pp)]
           own == {q \in {} : Home(st[q].pid) = s}
<1>1. PidsOf(st, {}) = {}
  BY DEF PidsOf
<1>2. c = [there |-> TRUE, pids |-> pids, wants |-> c.wants, own |-> own]
      /\ c.wants = [pp \in PidsOf(st, {}) |-> c.wants[pp]]
  BY DEF Sketch
<1>3. c.wants = w
  BY <1>1, <1>2
<1> QED
  BY <1>2, <1>3 DEF Here, Picture

\* A room in which nothing changes but what the seats of others say.
LEMMA PictureStays ==
  ASSUME NEW st, NEW st2, NEW M, NEW s, NEW there, \A q \in M : st2[q] = st[q],
         \A q \in M : In(st, st[q].room) = M /\ In(st2, st2[q].room) = M
  PROVE  Picture(st2, M, s, there) = Picture(st, M, s, there)
<1>1. PidsOf(st2, M) = PidsOf(st, M)
  BY DEF PidsOf
<1>2. ASSUME NEW q \in M PROVE Resolved(st2, q) = Resolved(st, q)
  <2>1. \A x \in M : PublishedBy(st2, x) = PublishedBy(st, x) /\ st2[x] = st[x]
    BY DEF PublishedBy
  <2> DEFINE w == st[q].wants
             here == {x \in w.refs : x[1] \in M /\ x[2] \in PublishedBy(st, x[1])}
             here2 == {x \in w.refs : x[1] \in M /\ x[2] \in PublishedBy(st2, x[1])}
             refs == {<<st[ref[1]].pid, Kind[ref[2]]>> : ref \in here}
             refs2 == {<<st2[ref[1]].pid, Kind[ref[2]]>> : ref \in here2}
  <2>2. here2 = here
    BY <2>1
  <2>3. refs2 = refs
    BY <2>1, <2>2
  <2>4. In(st, st[q].room) = M /\ In(st2, st2[q].room) = M /\ st2[q].wants = w
    OBVIOUS
  <2>5. Resolved(st, q) = IF w.all THEN Everything ELSE [all |-> FALSE, refs |-> refs]
    BY <2>4 DEF Resolved
  <2>6. Resolved(st2, q) = IF w.all THEN Everything ELSE [all |-> FALSE, refs |-> refs2]
    BY <2>4 DEF Resolved
  <2> HIDE DEF refs, refs2
  <2> QED
    BY <2>3, <2>5, <2>6
<1> DEFINE who(pp) == CHOOSE q \in M : st[q].pid = pp
           who2(pp) == CHOOSE q \in M : st2[q].pid = pp
<1>3. \A pp \in PidsOf(st, M) : who2(pp) = who(pp) /\ who(pp) \in M
  BY DEF PidsOf
<1>4. [pp \in PidsOf(st2, M) |-> Resolved(st2, who2(pp))] = [pp \in PidsOf(st, M) |-> Resolved(st, who(pp))]
  <2> HIDE DEF who, who2
  <2>1. \A pp \in PidsOf(st, M) : Resolved(st2, who2(pp)) = Resolved(st, who(pp))
    BY <1>2, <1>3
  <2> QED
    BY <1>1, <2>1
<1>5. [q \in M |-> st2[q].pid] = [q \in M |-> st[q].pid]
      /\ {q \in M : Home(st2[q].pid) = s} = {q \in M : Home(st[q].pid) = s}
  OBVIOUS
<1> QED
  BY <1>4, <1>5 DEF Picture

-----------------------------------------------------------------------------
(* Shards agree with the router when they have read their queues *)

\* Seats, ids of rooms and the next id, as TablesInv says they are.
Tables(st, rid, next) ==
  /\ next \in Nat
  /\ \A r \in RoomIds : rid[r] # NoId => rid[r] < next
  /\ \A r1, r2 \in RoomIds : rid[r1] # NoId /\ rid[r1] = rid[r2] => r1 = r2
  /\ \A p \in DOMAIN st : st[p].room \in RoomIds /\ rid[st[p].room] # NoId
  /\ \A p, q \in DOMAIN st : st[p].room = st[q].room /\ st[p].pid = st[q].pid => p = q

MembersIn(st, rid, id) == {p \in DOMAIN st : rid[st[p].room] = id}

LEMMA MembersAre ==
  ASSUME NEW st, NEW rid, NEW next, Tables(st, rid, next), NEW id
  PROVE  /\ OnePidEach(st, MembersIn(st, rid, id))
         /\ \A q \in MembersIn(st, rid, id) : In(st, st[q].room) = MembersIn(st, rid, id)
         /\ \A r \in RoomIds : rid[r] = id /\ id # NoId => MembersIn(st, rid, id) = In(st, r)
         /\ id \in Nat /\ ~(id < next) => MembersIn(st, rid, id) = {}
<1>1. ASSUME NEW r \in RoomIds, rid[r] = id, id # NoId PROVE MembersIn(st, rid, id) = In(st, r)
  BY <1>1 DEF Tables, MembersIn, In
<1>2. ASSUME NEW q \in MembersIn(st, rid, id) PROVE In(st, st[q].room) = MembersIn(st, rid, id)
  BY <1>1 DEF Tables, MembersIn
<1>3. OnePidEach(st, MembersIn(st, rid, id))
  BY DEF Tables, MembersIn, OnePidEach
<1>4. id \in Nat /\ ~(id < next) => MembersIn(st, rid, id) = {}
  BY DEF Tables, MembersIn
<1> QED
  BY <1>1, <1>2, <1>3, <1>4

LEMMA TablesAre ==
  /\ SpeakersInv => Tables(seats, roomId, nextRoomId)
  /\ SpeakersInv' => Tables(seats', roomId', nextRoomId')
BY DEF SpeakersInv, PlaneTypeOK, TablesInv, IsSeat, Tables

\* What the router knows of a room, as shard s is to know it.
RoutersRoom(s, id) == Picture(seats, MembersIn(seats, roomId, id), s, id < nextRoomId)

\* Once it has read its queue, a shard knows of every room what the router does.
ShardsWillAgree ==
  \A s \in Shards : \A id \in Nat : Read(RoomOf(shard[s], id), inbox[s], s, id) = RoutersRoom(s, id)

LEMMA AgreeTaking ==
  ASSUME ShardsWillAgree, NEW s \in Shards, Taking(s)
  PROVE  ShardsWillAgree'
<1>1. \A x, id : RoutersRoom(x, id)' = RoutersRoom(x, id)
  BY DEF Taking, RoutersRoom, tableVars
<1>2. ASSUME NEW id \in Nat
      PROVE  Read(RoomOf(shard'[s], id), inbox'[s], s, id) = Read(RoomOf(shard[s], id), inbox[s], s, id)
  <2>1. RoomOf(shard'[s], id) = Learn(RoomOf(shard[s], id), inbox[s][1], s, id)
    BY DEF Taking, Handles
  <2> QED
    BY <2>1, ReadRest DEF Taking
<1>3. ASSUME NEW x \in Shards, x # s, NEW id \in Nat
      PROVE  Read(RoomOf(shard'[x], id), inbox'[x], x, id) = Read(RoomOf(shard[x], id), inbox[x], x, id)
  BY <1>3 DEF Taking
<1> QED
  BY <1>1, <1>2, <1>3 DEF ShardsWillAgree

LEMMA AgreeSame ==
  ASSUME ShardsWillAgree, SameControl
  PROVE  ShardsWillAgree'
<1>1. UNCHANGED <<seats, roomId, nextRoomId, inbox>>
  BY DEF SameControl, routerVars, tableVars
<1>2. ASSUME NEW s \in Shards, NEW id PROVE RoomOf(shard'[s], id) = RoomOf(shard[s], id)
  BY DEF SameControl, SameTables, RoomOf
<1> QED
  BY <1>1, <1>2 DEF ShardsWillAgree, RoutersRoom

\* What is put in the queues says what happened to the router's tables.
LEMMA AgreeGrowing ==
  ASSUME ShardsWillAgree, shard' = shard, NEW k,
         \A s \in Shards : Joint(inbox[s], k[s], inbox'[s]),
         \A s \in Shards : \A id \in Nat : Read(RoutersRoom(s, id), k[s], s, id) = RoutersRoom(s, id)'
  PROVE  ShardsWillAgree'
<1>1. ASSUME NEW s \in Shards, NEW id \in Nat
      PROVE  Read(RoomOf(shard'[s], id), inbox'[s], s, id) = RoutersRoom(s, id)'
  <2>1. Read(RoomOf(shard[s], id), inbox'[s], s, id)
          = Read(Read(RoomOf(shard[s], id), inbox[s], s, id), k[s], s, id)
    BY ReadJoint
  <2> QED
    BY <2>1 DEF ShardsWillAgree
<1> QED
  BY <1>1 DEF ShardsWillAgree

LEMMA AgreeSilent ==
  ASSUME ShardsWillAgree, NEW k, Silent(k)
  PROVE  ShardsWillAgree'
<1>1. \A x, id : RoutersRoom(x, id)' = RoutersRoom(x, id)
  BY DEF Silent, RoutersRoom
<1>2. ASSUME NEW s \in Shards, NEW id \in Nat
      PROVE  Read(RoutersRoom(s, id), k[s], s, id) = RoutersRoom(s, id)
  <2> DEFINE c == RoutersRoom(s, id)
  <2>1. Len(k[s]) \in Nat /\ DOMAIN k[s] = 1 .. Len(k[s])
    BY DEF Silent, Joint
  <2>2. \A i \in 1 .. Len(k[s]) : QuietNews(s, k[s][i]) /\ k[s][i].t # "WantsAll"
    BY <2>1 DEF Silent
  <2> HIDE DEF c
  <2>3. ASSUME NEW i \in 1 .. Len(k[s]) PROVE Learn(c, k[s][i], s, id) = c
    <3> DEFINE m == k[s][i]
    <3>1. m.t \in {"PublisherOffer", "OfferSub", "SubscriberAnswer", "ActiveSpeakers"}
      BY <2>2 DEF QuietNews
    <3> HIDE DEF m
    <3>2. Learn(c, m, s, id) = c
      BY <3>1 DEF Learn
    <3> QED
      BY <3>2 DEF m
  <2> QED
    BY <2>1, <2>3, ReadNothing DEF c
<1> QED
  BY <1>1, <1>2, AgreeGrowing DEF Silent

\* The rooms a message is not about.
LEMMA OtherRooms ==
  ASSUME NEW c, NEW k, NEW s, NEW id, IsQueue(k), \A i \in DOMAIN k : k[i].room # id
  PROVE  Read(c, k, s, id) = c
<1>1. Len(k) \in Nat /\ DOMAIN k = 1 .. Len(k)
  BY DEF IsQueue
<1>2. \A i \in 1 .. Len(k) : Learn(c, k[i], s, id) = c
  BY <1>1 DEF Learn
<1> QED
  BY <1>1, <1>2, ReadNothing

LEMMA AgreeSpreading ==
  ASSUME SpeakersInv, SpeakersInv', ShardsWillAgree, NEW r, Spreading(r)
  PROVE  ShardsWillAgree'
<1> DEFINE w == WantsAll(roomId[r], seats', r)
           k == [s \in Shards |-> <<w>>]
<1>1. /\ r \in RoomIds /\ roomId[r] # NoId /\ UNCHANGED <<roomId, nextRoomId, nextPid, shard>>
      /\ DOMAIN seats' = DOMAIN seats
      /\ \A p \in DOMAIN seats : /\ seats'[p].room = seats[p].room /\ seats'[p].pid = seats[p].pid
                                 /\ seats[p].room # r => seats'[p] = seats[p]
      /\ \A s \in Shards : Joint(inbox[s], <<w>>, inbox'[s])
  BY DEF Spreading
<1>2. Tables(seats, roomId, nextRoomId) /\ Tables(seats', roomId', nextRoomId')
  BY TablesAre
<1>3. w.t = "WantsAll" /\ w.room = roomId[r] /\ w.table = WantsTable(seats', r)
  BY DEF WantsAll
<1> HIDE DEF w
<1>4. IsQueue(<<w>>) /\ Len(<<w>>) = 1 /\ <<w>>[1] = w /\ DOMAIN <<w>> = {1}
  BY ShortQueues
<1> DEFINE h == <<w>>
<1> HIDE DEF h
<1>5. IsQueue(h) /\ Len(h) = 1 /\ h[1] = w /\ DOMAIN h = {1}
  BY <1>4 DEF h
<1>6. ASSUME NEW s \in Shards, NEW id \in Nat
      PROVE  Read(RoutersRoom(s, id), h, s, id) = RoutersRoom(s, id)'
  <2> DEFINE M == MembersIn(seats, roomId, id)
  <2>1. MembersIn(seats', roomId', id) = M
    BY <1>1 DEF MembersIn
  <2>2. RoutersRoom(s, id) = Picture(seats, M, s, id < nextRoomId)
        /\ RoutersRoom(s, id)' = Picture(seats', M, s, id < nextRoomId)
    BY <1>1, <2>1 DEF RoutersRoom
  <2>3. CASE id = roomId[r]
    <3>1. M = In(seats', r) /\ OnePidEach(seats', M) /\ M \subseteq DOMAIN seats
      <4>1. MembersIn(seats', roomId', id) = In(seats', r) /\ OnePidEach(seats', MembersIn(seats', roomId', id))
        BY <1>1, <1>2, <2>3, MembersAre
      <4> QED
        BY <2>1, <4>1 DEF MembersIn
    <3>2. (id < nextRoomId) = Here
      BY <1>1, <1>2, <2>3 DEF Here, Tables
    <3> DEFINE c == Picture(seats, M, s, Here)
    <3>3. Sketch(c, seats, M, s)
      BY PictureIsSketch
    <3> HIDE DEF c, M
    <3>4. Sketch(c, seats', M, s)
      <4>1. \A q \in M : seats'[q].pid = seats[q].pid
        BY <1>1, <3>1
      <4>2. PidsOf(seats', M) = PidsOf(seats, M) /\ [q \in M |-> seats'[q].pid] = [q \in M |-> seats[q].pid]
            /\ {q \in M : Home(seats'[q].pid) = s} = {q \in M : Home(seats[q].pid) = s}
        BY <4>1 DEF PidsOf
      <4> QED
        BY <3>3, <4>2 DEF Sketch
    <3>5. Learn(c, w, s, id) = Picture(seats', M, s, Here)
      <4>1. IsTable(w, id, seats', r, M)
        BY <1>3, <2>3, <3>1 DEF IsTable
      <4> QED
        BY ONLY <3>4, <4>1, TableRead
    <3>6. Read(c, h, s, id) = Learn(c, w, s, id)
      BY <1>5, ReadFew
    <3> QED
      BY <2>2, <3>2, <3>5, <3>6 DEF c
  <2>4. CASE id # roomId[r]
    <3>1. Read(RoutersRoom(s, id), h, s, id) = RoutersRoom(s, id)
      BY <1>3, <1>5, <2>4, OtherRooms
    <3>2. \A q \in M : seats'[q] = seats[q]
      BY <1>1, <2>4 DEF MembersIn
    <3>3. \A q \in M : In(seats, seats[q].room) = M /\ In(seats', seats'[q].room) = M
      BY <1>2, <2>1, MembersAre
    <3> HIDE DEF M
    <3>4. Picture(seats', M, s, id < nextRoomId) = Picture(seats, M, s, id < nextRoomId)
      BY <3>2, <3>3, PictureStays
    <3> QED
      BY <2>2, <3>1, <3>4
  <2> QED
    BY <2>3, <2>4
<1>7. \A s \in Shards : k[s] = h
  BY DEF h
<1>8. \A s \in Shards : Joint(inbox[s], k[s], inbox'[s])
  BY <1>1, <1>7 DEF h
<1> HIDE DEF k
<1> QED
  BY <1>1, <1>6, <1>7, <1>8, AgreeGrowing

\* The rooms an event is not about, when its members are the same before and
\* after.
LEMMA OtherRoomsStay ==
  ASSUME SpeakersInv, SpeakersInv', NEW s, NEW id, NEW h, IsQueue(h), \A i \in DOMAIN h : h[i].room # id,
         MembersIn(seats', roomId', id) = MembersIn(seats, roomId, id),
         \A q \in MembersIn(seats, roomId, id) : seats'[q] = seats[q],
         (id < nextRoomId') = (id < nextRoomId)
  PROVE  Read(RoutersRoom(s, id), h, s, id) = RoutersRoom(s, id)'
<1> DEFINE M == MembersIn(seats, roomId, id)
<1>1. Read(RoutersRoom(s, id), h, s, id) = RoutersRoom(s, id)
  BY OtherRooms
<1>2. RoutersRoom(s, id) = Picture(seats, M, s, id < nextRoomId)
      /\ RoutersRoom(s, id)' = Picture(seats', M, s, id < nextRoomId)
  BY DEF RoutersRoom
<1>3. \A q \in M : In(seats, seats[q].room) = M /\ In(seats', seats'[q].room) = M
  BY TablesAre, MembersAre
<1>4. \A q \in M : seats'[q] = seats[q]
  OBVIOUS
<1> HIDE DEF M
<1>5. Picture(seats', M, s, id < nextRoomId) = Picture(seats, M, s, id < nextRoomId)
  BY <1>3, <1>4, PictureStays
<1> QED
  BY <1>1, <1>2, <1>5

LEMMA AgreeJoining ==
  ASSUME SpeakersInv, SpeakersInv', ShardsWillAgree, NEW m, Joining(m), shard' = shard
  PROVE  ShardsWillAgree'
<1>0. PICK j \in Nat : j = JoinId(m)
  BY JoinedRooms
<1> DEFINE h == JoinNews(m)
           k == [s \in Shards |-> h]
           p == m.p
           isNew == roomId[m.r] = NoId
           M == MembersIn(seats, roomId, j)
           N == MembersIn(seats', roomId', j)
<1>1. /\ m.r \in RoomIds /\ p \notin DOMAIN seats /\ IsQueue(h)
      /\ \A s \in Shards : Joint(inbox[s], h, inbox'[s])
  BY DEF Joining, IsEvent
<1>2. /\ j \in Nat /\ DOMAIN seats' = DOMAIN seats \cup {p}
      /\ \A q \in DOMAIN seats : seats'[q] = seats[q] /\ roomId'[seats'[q].room] = roomId[seats[q].room]
      /\ roomId'[seats'[p].room] = j /\ seats'[p].pid = JoinPid(m)
  BY <1>0, JoinedRooms
<1>3. Tables(seats, roomId, nextRoomId) /\ Tables(seats', roomId', nextRoomId')
  BY TablesAre
<1>4. /\ nextRoomId' = IF isNew THEN nextRoomId + 1 ELSE nextRoomId
      /\ j = IF isNew THEN nextRoomId ELSE roomId[m.r]
  BY <1>0 DEF Joining, JoinId
<1>5. roomId'[m.r] = j /\ j # NoId /\ j < nextRoomId'
  <2>1. roomId' = [roomId EXCEPT ![m.r] = j] /\ roomId \in [RoomIds -> Nat \cup {NoId}]
    BY <1>0 DEF Joining, SpeakersInv, PlaneTypeOK
  <2>2. roomId'[m.r] = j /\ NoId \notin Nat
    BY <1>1, <2>1 DEF NoId
  <2> QED
    BY <1>1, <1>2, <1>3, <2>2 DEF Tables
<1>6. /\ Len(h) = (IF isNew THEN 3 ELSE 2) /\ DOMAIN h = 1 .. Len(h)
      /\ \A i \in DOMAIN h : h[i].room = j
      /\ isNew => h[1].t = "RoomUp"
      /\ LET a == h[IF isNew THEN 2 ELSE 1] IN
           a.t = "MemberUp" /\ a.room = j /\ a.name = p /\ a.pid = JoinPid(m)
      /\ LET a == h[IF isNew THEN 3 ELSE 2] IN
           a.t = "WantsAll" /\ a.room = j /\ a.table = WantsTable(seats', m.r)
  <2> DEFINE up == [t |-> "RoomUp", room |-> j, r |-> m.r]
             member == [t |-> "MemberUp", room |-> j, name |-> p, pid |-> JoinPid(m)]
             wants == WantsAll(j, seats', m.r)
  <2>1. h = IF isNew THEN <<up, member, wants>> ELSE <<member, wants>>
    BY <1>0 DEF JoinNews, Joining
  <2>2. /\ up.t = "RoomUp" /\ up.room = j
        /\ member.t = "MemberUp" /\ member.room = j /\ member.name = p /\ member.pid = JoinPid(m)
        /\ wants.t = "WantsAll" /\ wants.room = j /\ wants.table = WantsTable(seats', m.r)
    BY DEF WantsAll
  <2> HIDE DEF up, member, wants, h, isNew, p
  <2>3. CASE isNew
    BY <2>1, <2>2, <2>3
  <2>4. CASE ~isNew
    BY <2>1, <2>2, <2>4
  <2> QED
    BY <2>3, <2>4
<1>7. N = M \cup {p} /\ p \notin M /\ \A q \in M : seats'[q] = seats[q]
  BY <1>1, <1>2 DEF MembersIn
<1>8. N = In(seats', m.r) /\ OnePidEach(seats', N)
  BY <1>1, <1>3, <1>5, MembersAre
<1>9. isNew => M = {}
  BY <1>2, <1>3, <1>4, MembersAre
<1> HIDE DEF h, p, isNew, M, N
<1>10. ASSUME NEW s \in Shards PROVE Read(RoutersRoom(s, j), h, s, j) = RoutersRoom(s, j)'
  <2> DEFINE c == Picture(seats, M, s, Here)
             a == h[IF isNew THEN 2 ELSE 1]
             w == h[IF isNew THEN 3 ELSE 2]
             d == Learn(c, a, s, j)
  <2>1. /\ a.t = "MemberUp" /\ a.room = j /\ a.name = p /\ a.pid = JoinPid(m)
        /\ w.t = "WantsAll" /\ w.room = j /\ w.table = WantsTable(seats', m.r)
    BY <1>6
  <2> HIDE DEF a, w
  <2>2. Sketch(c, seats, M, s)
    BY PictureIsSketch
  <2> HIDE DEF c
  <2>3. Sketch(d, seats', N, s)
    <3>1. seats'[a.name].pid = a.pid /\ a.name \notin M /\ N = M \cup {a.name}
      BY <1>2, <1>7, <2>1 DEF p
    <3>2. Arrives(a, j, seats, M, seats', N)
      BY <1>7, <2>1, <3>1 DEF Arrives
    <3> QED
      BY ONLY <2>2, <3>2, MemberUpRead DEF d
  <2> HIDE DEF d
  <2>4. Learn(d, w, s, j) = Picture(seats', N, s, Here)
    <3>1. IsTable(w, j, seats', m.r, N)
      BY <1>8, <2>1 DEF IsTable
    <3> QED
      BY ONLY <2>3, <3>1, TableRead
  <2>5. RoutersRoom(s, j)' = Picture(seats', N, s, Here)
    <3>1. (j < nextRoomId') = Here
      BY <1>5 DEF Here
    <3>2. RoutersRoom(s, j)' = Picture(seats', N, s, j < nextRoomId')
      BY DEF RoutersRoom, N
    <3> QED
      BY <3>1, <3>2
  <2>6. RoutersRoom(s, j) = Picture(seats, M, s, j < nextRoomId)
    BY DEF RoutersRoom, M
  <2>7. CASE isNew
    <3> DEFINE e == Picture(seats, {}, s, j < nextRoomId)
    <3>1. Len(h) = 3 /\ h[1].t = "RoomUp" /\ h[1].room = j /\ a = h[2] /\ w = h[3]
      BY <1>6, <2>7 DEF a, w
    <3>2. RoutersRoom(s, j) = e
      BY <1>9, <2>6, <2>7
    <3>3. Learn(e, h[1], s, j) = Picture(seats, {}, s, Here)
      BY <3>1, RoomUpRead
    <3> HIDE DEF e
    <3>4. Read(e, h, s, j) = Learn(Learn(Learn(e, h[1], s, j), h[2], s, j), h[3], s, j)
      BY <3>1, ReadFew
    <3>5. Learn(e, h[1], s, j) = c
      BY <1>9, <2>7, <3>3 DEF c
    <3> QED
      BY <2>4, <2>5, <3>1, <3>2, <3>4, <3>5 DEF d
  <2>8. CASE ~isNew
    <3>1. Len(h) = 2 /\ a = h[1] /\ w = h[2]
      BY <1>6, <2>8 DEF a, w
    <3>2. (j < nextRoomId) = Here
      BY <1>4, <1>5, <2>8 DEF Here
    <3>3. RoutersRoom(s, j) = c
      BY <2>6, <3>2 DEF c
    <3>4. Read(c, h, s, j) = Learn(Learn(c, h[1], s, j), h[2], s, j)
      BY <3>1, ReadFew
    <3> QED
      BY <2>4, <2>5, <3>1, <3>3, <3>4 DEF d
  <2> QED
    BY <2>7, <2>8
<1>11. ASSUME NEW s \in Shards, NEW id \in Nat, id # j
       PROVE  Read(RoutersRoom(s, id), h, s, id) = RoutersRoom(s, id)'
  <2>1. MembersIn(seats', roomId', id) = MembersIn(seats, roomId, id)
    BY <1>2, <1>11 DEF MembersIn, p
  <2>2. \A q \in MembersIn(seats, roomId, id) : seats'[q] = seats[q]
    BY <1>2 DEF MembersIn
  <2>3. (id < nextRoomId') = (id < nextRoomId)
    BY <1>3, <1>4, <1>11 DEF Tables
  <2>4. \A i \in DOMAIN h : h[i].room # id
    BY <1>6, <1>11
  <2> QED
    BY <1>1, <2>1, <2>2, <2>3, <2>4, OtherRoomsStay DEF h
<1>12. \A s \in Shards : k[s] = h
  OBVIOUS
<1>13. \A s \in Shards : Joint(inbox[s], k[s], inbox'[s])
  BY <1>1, <1>12 DEF h
<1> HIDE DEF k
<1> QED
  BY <1>10, <1>11, <1>12, <1>13, AgreeGrowing

LEMMA AgreeLeaving ==
  ASSUME SpeakersInv, SpeakersInv', ShardsWillAgree, NEW m, Leaving(m), shard' = shard
  PROVE  ShardsWillAgree'
<1>0. PICK j \in Nat : j = roomId[m.r]
  BY LeftRooms
<1> DEFINE h == LeaveNews(m)
           k == [s \in Shards |-> h]
           p == m.p
           last == In(LeaveSeats(m), m.r) = {}
           M == MembersIn(seats, roomId, j)
           N == MembersIn(seats', roomId', j)
<1>1. /\ m.r \in RoomIds /\ p \in DOMAIN seats /\ seats[p].room = m.r /\ IsQueue(h)
      /\ nextRoomId' = nextRoomId
      /\ \A s \in Shards : Joint(inbox[s], h, inbox'[s])
  BY DEF Leaving, IsEvent
<1>2. /\ j \in Nat /\ DOMAIN seats' = DOMAIN seats \ {p}
      /\ \A q \in DOMAIN seats' : seats'[q] = seats[q] /\ roomId'[seats'[q].room] = roomId[seats[q].room]
  BY LeftRooms
<1>3. Tables(seats, roomId, nextRoomId) /\ Tables(seats', roomId', nextRoomId')
  BY TablesAre
<1>4. j # NoId /\ j < nextRoomId
  BY <1>0, <1>1, <1>2, <1>3 DEF Tables, NoId
<1>5. /\ Len(h) = (IF last THEN 1 ELSE 2) /\ DOMAIN h = 1 .. Len(h)
      /\ \A i \in DOMAIN h : h[i].room = j
      /\ h[1].t = "MemberGone" /\ h[1].room = j /\ h[1].name = p
      /\ ~last => h[2].t = "WantsAll" /\ h[2].room = j /\ h[2].table = WantsTable(seats', m.r)
  <2> DEFINE gone == [t |-> "MemberGone", room |-> j, name |-> p]
             wants == WantsAll(j, seats', m.r)
  <2>1. h = IF last THEN <<gone>> ELSE <<gone, wants>>
    BY <1>0 DEF LeaveNews, Leaving
  <2>2. /\ gone.t = "MemberGone" /\ gone.room = j /\ gone.name = p
        /\ wants.t = "WantsAll" /\ wants.room = j /\ wants.table = WantsTable(seats', m.r)
    BY DEF WantsAll
  <2> HIDE DEF gone, wants, h, last, p
  <2>3. CASE last
    BY <2>1, <2>2, <2>3
  <2>4. CASE ~last
    BY <2>1, <2>2, <2>4
  <2> QED
    BY <2>3, <2>4
<1>6. N = M \ {p} /\ p \in M /\ \A q \in M \ {p} : seats'[q] = seats[q]
  BY <1>0, <1>1, <1>2 DEF MembersIn
<1>7. M = In(seats, m.r) /\ OnePidEach(seats, M)
  BY <1>0, <1>1, <1>3, <1>4, MembersAre
<1>8. N = In(seats', m.r) /\ OnePidEach(seats', N)
  <2>1. OnePidEach(seats', N)
    BY <1>3, MembersAre
  <2>2. In(seats', m.r) = In(seats, m.r) \ {p}
    BY <1>2 DEF In
  <2> QED
    BY <1>6, <1>7, <2>1, <2>2
<1>9. last => N = {}
  BY <1>8 DEF Leaving
<1> HIDE DEF h, p, last, M, N
<1>10. ASSUME NEW s \in Shards PROVE Read(RoutersRoom(s, j), h, s, j) = RoutersRoom(s, j)'
  <2> DEFINE c == Picture(seats, M, s, Here)
             d == Learn(c, h[1], s, j)
  <2>1. Sketch(c, seats, M, s)
    BY PictureIsSketch
  <2>2. (j < nextRoomId) = Here /\ (j < nextRoomId') = Here
    BY <1>1, <1>4 DEF Here
  <2>3. RoutersRoom(s, j) = c
    <3>1. RoutersRoom(s, j) = Picture(seats, M, s, j < nextRoomId)
      BY DEF RoutersRoom, M
    <3> QED
      BY <2>2, <3>1
  <2>4. RoutersRoom(s, j)' = Picture(seats', N, s, Here)
    <3>1. RoutersRoom(s, j)' = Picture(seats', N, s, j < nextRoomId')
      BY DEF RoutersRoom, N
    <3> QED
      BY <2>2, <3>1
  <2> HIDE DEF c
  <2>5. Sketch(d, seats', N, s)
    <3>1. Departs(h[1], j, seats, M, seats', N)
      BY <1>5, <1>6, <1>7 DEF Departs
    <3> QED
      BY ONLY <2>1, <3>1, MemberGoneRead DEF d
  <2> HIDE DEF d
  <2>6. CASE last
    <3>1. Read(c, h, s, j) = d
      BY <1>5, <2>6, ReadFew DEF d
    <3>2. d = Picture(seats', {}, s, Here)
      BY <1>9, <2>5, <2>6, EmptyRoom
    <3> QED
      BY <1>9, <2>3, <2>4, <2>6, <3>1, <3>2
  <2>7. CASE ~last
    <3>1. h[2].t = "WantsAll" /\ h[2].room = j /\ h[2].table = WantsTable(seats', m.r) /\ Len(h) = 2
      BY <1>5, <2>7
    <3>2. Learn(d, h[2], s, j) = Picture(seats', N, s, Here)
      <4>1. IsTable(h[2], j, seats', m.r, N)
        BY <1>8, <3>1 DEF IsTable
      <4> QED
        BY ONLY <2>5, <4>1, TableRead
    <3>3. Read(c, h, s, j) = Learn(d, h[2], s, j)
      BY <3>1, ReadFew DEF d
    <3> QED
      BY <2>3, <2>4, <3>2, <3>3
  <2> QED
    BY <2>6, <2>7
<1>11. ASSUME NEW s \in Shards, NEW id \in Nat, id # j
       PROVE  Read(RoutersRoom(s, id), h, s, id) = RoutersRoom(s, id)'
  <2>1. roomId[seats[p].room] = j
    BY <1>0, <1>1
  <2>2. MembersIn(seats', roomId', id) = MembersIn(seats, roomId, id)
    BY <1>2, <1>11, <2>1 DEF MembersIn, p
  <2>3. \A q \in MembersIn(seats, roomId, id) : seats'[q] = seats[q]
    BY <1>2, <1>11, <2>1 DEF MembersIn, p
  <2>4. \A i \in DOMAIN h : h[i].room # id
    BY <1>5, <1>11
  <2> QED
    BY <1>1, <2>2, <2>3, <2>4, OtherRoomsStay DEF h
<1>12. \A s \in Shards : k[s] = h
  OBVIOUS
<1>13. \A s \in Shards : Joint(inbox[s], k[s], inbox'[s])
  BY <1>1, <1>12 DEF h
<1> HIDE DEF k
<1> QED
  BY <1>10, <1>11, <1>12, <1>13, AgreeGrowing

-----------------------------------------------------------------------------
(* The tables of a room fit together, and legs are where they belong *)

RoomsAreSane == \A s \in Shards : \A id \in DOMAIN shard[s].rooms : Sane(shard[s].rooms[id])

\* Legs and offers of legs are at the home of a member, unless its departure
\* is on the way there.
GoneAfter(q, p, i) == \E j \in DOMAIN q : j > i /\ q[j].t = "MemberGone" /\ q[j].name = p

IsOffer(m) == m.t \in {"PublisherOffer", "OfferSub"}

LegsAreOwned ==
  \A s \in Shards :
    /\ \A key \in DOMAIN shard[s].legs : SeatedAt(key[1], s) \/ GoneIn(inbox[s], key[1])
    /\ \A i \in DOMAIN inbox[s] : IsOffer(inbox[s][i]) =>
         SeatedAt(inbox[s][i].name, s) \/ GoneAfter(inbox[s], inbox[s][i].name, i)

LEMMA SaneTaking ==
  ASSUME RoomsAreSane, NEW s \in Shards, Taking(s)
  PROVE  RoomsAreSane'
<1>1. \A id \in DOMAIN shard'[s].rooms : Sane(shard'[s].rooms[id])
  BY DEF Taking, Handles, RoomsAreSane
<1> QED
  BY <1>1 DEF Taking, RoomsAreSane

LEMMA SaneSame ==
  ASSUME PlaneTypeOK, RoomsAreSane, SameControl
  PROVE  RoomsAreSane'
<1> SUFFICES ASSUME NEW s \in Shards, NEW id \in DOMAIN shard'[s].rooms
             PROVE  Sane(shard'[s].rooms[id])
  BY DEF RoomsAreSane
<1> DEFINE x == shard[s].rooms[id]
           y == shard'[s].rooms[id]
<1>1. /\ id \in DOMAIN shard[s].rooms /\ IsShard(shard'[s])
      /\ y.pids = x.pids /\ y.wants = x.wants /\ y.maxPid = x.maxPid
      /\ y.demand = x.demand /\ y.fan = x.fan /\ DOMAIN y.locals = DOMAIN x.locals
  BY DEF SameControl, SameTables
<1>2. IsRoom(x) /\ IsRoom(y) /\ Sane(x)
  BY <1>1 DEF PlaneTypeOK, IsShard, RoomsAreSane
<1> HIDE DEF x, y
<1>3. x.demand = DemandTable(x) /\ x.fan = FanTable(x)
  BY <1>2, RebuiltIs DEF Sane
<1>4. DemandTable(y) = DemandTable(x) /\ FanTable(y) = FanTable(x)
  BY <1>1, DerivedFrom
<1>5. Rebuilt(y) = y
  BY <1>1, <1>2, <1>3, <1>4, RebuiltIs
<1>6. Sane(y)
  BY <1>1, <1>2, <1>5 DEF Sane
<1> QED
  BY <1>6 DEF y

LEMMA OwnedTaking ==
  ASSUME SpeakersInv, LegsAreOwned, NEW s \in Shards, Taking(s)
  PROVE  LegsAreOwned'
<1> DEFINE q == inbox[s]
           q2 == inbox'[s]
           sh == shard[s]
           new == shard'[s]
<1>1. Rest(q, q2) /\ Handles(sh, q[1], s, new) /\ InOrder(sh, q)
  BY DEF Taking, SpeakersInv, QueuesInOrder
<1>2. \A p, x : SeatedAt(p, x)' <=> SeatedAt(p, x)
  BY DEF SeatedAt, Taking, tableVars
<1>3. /\ \A key \in DOMAIN sh.legs : SeatedAt(key[1], s) \/ GoneIn(q, key[1])
      /\ \A i \in DOMAIN q : IsOffer(q[i]) => SeatedAt(q[i].name, s) \/ GoneAfter(q, q[i].name, i)
  BY DEF LegsAreOwned
<1> HIDE DEF q, q2, sh, new
<1>4. 1 \in DOMAIN q /\ (q[1].t # "RoomUp" => q[1].room \in DOMAIN sh.rooms)
  <2>1. 1 \in DOMAIN q /\ \A k \in DOMAIN q : ~(k < 1)
    BY <1>1, RestOf DEF Rest
  <2> QED
    BY <1>1, <2>1 DEF InOrder, Up
<1>5. ASSUME NEW p, NEW i \in DOMAIN q, GoneAfter(q, p, i)
      PROVE  /\ i = 1 => GoneIn(q2, p)
             /\ i # 1 => GoneAfter(q2, p, i - 1)
  <2>1. PICK j \in DOMAIN q : j > i /\ q[j].t = "MemberGone" /\ q[j].name = p
    BY <1>5 DEF GoneAfter
  <2>2. i \in Nat \ {0} /\ j \in Nat
    BY <1>1 DEF Rest
  <2>3. j # 1 /\ j - 1 > i - 1
    BY <2>1, <2>2
  <2>4. j - 1 \in DOMAIN q2 /\ q2[j - 1] = q[j]
    BY <1>1, <2>3, RestOf
  <2> QED
    BY <2>1, <2>3, <2>4 DEF GoneIn, GoneAfter
<1>6. ASSUME NEW key \in DOMAIN new.legs PROVE SeatedAt(key[1], s) \/ GoneIn(q2, key[1])
  <2>1. CASE key \in DOMAIN sh.legs
    <3>1. CASE q[1].t = "MemberGone" /\ q[1].name = key[1]
      BY <1>1, <1>4, <3>1 DEF Handles
    <3>2. CASE ~(q[1].t = "MemberGone" /\ q[1].name = key[1])
      BY <1>1, <1>3, <2>1, <3>2, GoneLater
    <3> QED
      BY <3>1, <3>2
  <2>2. CASE key \notin DOMAIN sh.legs
    <3>1. IsOffer(q[1]) /\ key[1] = q[1].name
      BY <1>1, <2>2 DEF Handles, IsOffer
    <3> QED
      BY <1>3, <1>4, <1>5, <3>1
  <2> QED
    BY <2>1, <2>2
<1>7. ASSUME NEW i \in DOMAIN q2, IsOffer(q2[i])
      PROVE  SeatedAt(q2[i].name, s) \/ GoneAfter(q2, q2[i].name, i)
  <2>1. i + 1 \in DOMAIN q /\ q2[i] = q[i + 1] /\ i + 1 # 1 /\ i \in Nat /\ (i + 1) - 1 = i
    BY <1>1, RestOf DEF Rest
  <2>2. SeatedAt(q2[i].name, s) \/ GoneAfter(q, q2[i].name, i + 1)
    BY <1>3, <1>7, <2>1
  <2> QED
    BY <1>5, <2>1, <2>2
<1>8. \A x \in Shards : x # s => inbox'[x] = inbox[x] /\ shard'[x] = shard[x]
  BY DEF Taking
<1> QED
  BY <1>2, <1>6, <1>7, <1>8 DEF LegsAreOwned, q2, new

LEMMA OwnedSame ==
  ASSUME LegsAreOwned, SameControl
  PROVE  LegsAreOwned'
<1>1. UNCHANGED <<seats, inbox>> /\ \A s \in Shards : DOMAIN shard'[s].legs \subseteq DOMAIN shard[s].legs
  BY DEF SameControl, SameTables, routerVars, tableVars
<1>2. \A p, x : SeatedAt(p, x)' <=> SeatedAt(p, x)
  BY <1>1 DEF SeatedAt
<1> QED
  BY <1>1, <1>2 DEF LegsAreOwned

\* Whoever is not seated any longer is reported gone, and only members are
\* made offers.
LEMMA OwnedGrowing ==
  ASSUME LegsAreOwned, shard' = shard, NEW k,
         \A s \in Shards : Joint(inbox[s], k[s], inbox'[s]),
         \A s \in Shards : \A p : SeatedAt(p, s) => SeatedAt(p, s)' \/ GoneIn(k[s], p),
         \A s \in Shards : \A i \in DOMAIN k[s] : IsOffer(k[s][i]) => SeatedAt(k[s][i].name, s)',
         DOMAIN inbox' = Shards
  PROVE  LegsAreOwned'
<1> DEFINE now(p, i) == p \in DOMAIN seats' /\ Home(seats'[p].pid) = i
<1>0. \A p, i : SeatedAt(p, i)' <=> now(p, i)
  BY DEF SeatedAt
<1> SUFFICES ASSUME NEW s \in Shards
             PROVE  /\ \A key \in DOMAIN shard'[s].legs : now(key[1], s) \/ GoneIn(inbox'[s], key[1])
                    /\ \A i \in DOMAIN inbox'[s] : IsOffer(inbox'[s][i]) =>
                         now(inbox'[s][i].name, s) \/ GoneAfter(inbox'[s], inbox'[s][i].name, i)
  BY DEF LegsAreOwned, SeatedAt
<1> DEFINE q == inbox[s]
           h == k[s]
           Q == inbox'[s]
<1>1. /\ Joint(q, h, Q)
      /\ \A p : SeatedAt(p, s) => now(p, s) \/ GoneIn(h, p)
      /\ \A i \in DOMAIN h : IsOffer(h[i]) => now(h[i].name, s)
      /\ \A key \in DOMAIN shard'[s].legs : SeatedAt(key[1], s) \/ GoneIn(q, key[1])
      /\ \A i \in DOMAIN q : IsOffer(q[i]) => SeatedAt(q[i].name, s) \/ GoneAfter(q, q[i].name, i)
  BY <1>0 DEF LegsAreOwned
<1> HIDE DEF q, h, Q, now
<1>2. /\ Len(q) \in Nat /\ Len(h) \in Nat
      /\ DOMAIN q = 1 .. Len(q) /\ DOMAIN h = 1 .. Len(h) /\ DOMAIN Q = 1 .. (Len(q) + Len(h))
      /\ \A i \in 1 .. Len(q) : Q[i] = q[i]
      /\ \A i \in 1 .. Len(h) : Q[Len(q) + i] = h[i]
  BY <1>1 DEF Joint
<1>3. PICK n \in Nat : n = Len(q)
  BY <1>2
<1>4. \A i \in DOMAIN q : i \in DOMAIN Q /\ Q[i] = q[i] /\ i \in Nat /\ i <= n
  BY <1>2, <1>3
<1>5. ASSUME NEW i \in DOMAIN h PROVE n + i \in DOMAIN Q /\ Q[n + i] = h[i] /\ n + i > n
  <2>1. i \in 1 .. Len(h)
    BY <1>2
  <2>2. n + i > n /\ n + i \in 1 .. (n + Len(h))
    BY ONLY <1>2, <1>3, <2>1
  <2> QED
    BY ONLY <1>2, <1>3, <2>1, <2>2
<1>6. \A p : GoneIn(q, p) \/ GoneIn(h, p) => GoneIn(Q, p)
  <2>1. \A p : GoneIn(q, p) => GoneIn(Q, p)
    BY <1>4 DEF GoneIn
  <2>2. ASSUME NEW p, GoneIn(h, p) PROVE GoneIn(Q, p)
    <3>1. PICK j \in DOMAIN h : h[j].t = "MemberGone" /\ h[j].name = p
      BY <2>2 DEF GoneIn
    <3>2. PICK i \in DOMAIN Q : i = n + j /\ Q[i] = h[j]
      BY <1>5
    <3> QED
      BY <3>1, <3>2 DEF GoneIn
  <2> QED
    BY <2>1, <2>2
<1>7. ASSUME NEW i \in DOMAIN q, NEW p, GoneAfter(q, p, i) \/ GoneIn(h, p) PROVE GoneAfter(Q, p, i)
  <2>1. CASE GoneAfter(q, p, i)
    BY <1>4, <2>1 DEF GoneAfter
  <2>2. CASE GoneIn(h, p)
    <3>1. PICK j \in DOMAIN h : h[j].t = "MemberGone" /\ h[j].name = p
      BY <2>2 DEF GoneIn
    <3>2. PICK x \in DOMAIN Q : x = n + j /\ Q[x] = h[j] /\ x > n
      BY <1>5
    <3>3. x > i
      BY <1>2, <1>3, <1>4, <3>2
    <3> QED
      BY <3>1, <3>2, <3>3 DEF GoneAfter
  <2> QED
    BY <1>7, <2>1, <2>2
<1>8. \A key \in DOMAIN shard'[s].legs : now(key[1], s) \/ GoneIn(Q, key[1])
  BY <1>1, <1>6
<1>9. ASSUME NEW i \in DOMAIN Q, IsOffer(Q[i])
      PROVE  now(Q[i].name, s) \/ GoneAfter(Q, Q[i].name, i)
  <2>1. CASE i \in DOMAIN q
    <3>1. Q[i] = q[i]
      BY <1>4, <2>1
    <3>2. SeatedAt(q[i].name, s) \/ GoneAfter(q, q[i].name, i)
      BY <1>1, <1>9, <2>1, <3>1
    <3> QED
      BY <1>1, <1>7, <2>1, <3>1, <3>2
  <2>2. CASE i \notin DOMAIN q
    <3>1. PICK j \in DOMAIN h : Q[i] = h[j]
      <4>1. i - n \in DOMAIN h /\ n + (i - n) = i
        BY <1>2, <1>3, <2>2
      <4> QED
        BY <1>5, <4>1
    <3> QED
      BY <1>1, <1>9, <3>1
  <2> QED
    BY <2>1, <2>2
<1> QED
  BY <1>8, <1>9 DEF Q

LEMMA OwnedQuiet ==
  ASSUME LegsAreOwned, NEW k, Quiet(k)
  PROVE  LegsAreOwned'
<1>1. \A s \in Shards : \A p : SeatedAt(p, s) => SeatedAt(p, s)'
  BY DEF SeatedAt, Quiet
<1>2. \A s \in Shards : \A i \in DOMAIN k[s] : IsOffer(k[s][i]) => SeatedAt(k[s][i].name, s)'
  BY <1>1 DEF Quiet, QuietNews, IsOffer
<1>3. shard' = shard /\ DOMAIN inbox' = Shards /\ \A s \in Shards : Joint(inbox[s], k[s], inbox'[s])
  BY DEF Quiet
<1> QED
  BY <1>1, <1>2, <1>3, OwnedGrowing

LEMMA OwnedJoining ==
  ASSUME SpeakersInv, LegsAreOwned, NEW m, Joining(m), shard' = shard
  PROVE  LegsAreOwned'
<1> DEFINE h == JoinNews(m)
           k == [s \in Shards |-> h]
<1>1. \A s \in Shards : \A p : SeatedAt(p, s) => SeatedAt(p, s)'
  <2>1. \A p \in DOMAIN seats : p \in DOMAIN seats' /\ seats'[p] = seats[p]
    BY JoinedRooms
  <2> QED
    BY <2>1 DEF SeatedAt
<1>2. \A i \in DOMAIN h : ~IsOffer(h[i])
  <2>1. \A i \in DOMAIN h : h[i].t \in {"RoomUp", "MemberUp", "WantsAll"}
    BY JoinNewsIs DEF WantsAll
  <2> QED
    BY <2>1 DEF IsOffer
<1>3. DOMAIN inbox' = Shards /\ \A s \in Shards : Joint(inbox[s], h, inbox'[s])
  BY DEF Joining
<1>4. \A s \in Shards : k[s] = h
  OBVIOUS
<1> HIDE DEF h, k
<1> QED
  BY <1>1, <1>2, <1>3, <1>4, OwnedGrowing

LEMMA OwnedLeaving ==
  ASSUME SpeakersInv, LegsAreOwned, NEW m, Leaving(m), shard' = shard
  PROVE  LegsAreOwned'
<1> DEFINE h == LeaveNews(m)
           k == [s \in Shards |-> h]
<1>1. \A s \in Shards : \A p : SeatedAt(p, s) => SeatedAt(p, s)' \/ p = m.p
  <2>1. \A p \in DOMAIN seats : p # m.p => p \in DOMAIN seats' /\ seats'[p] = seats[p]
    BY LeftRooms
  <2> QED
    BY <2>1 DEF SeatedAt
<1>2. GoneIn(h, m.p) /\ \A i \in DOMAIN h : ~IsOffer(h[i])
  <2>1. ASSUME NEW i \in DOMAIN h PROVE h[i].t \in {"MemberGone", "WantsAll"}
    <3>1. i = 1 \/ i = 2
      BY LeaveNewsIs
    <3>2. CASE i = 1
      <4>1. h[i] = [t |-> "MemberGone", room |-> roomId[m.r], name |-> m.p]
        BY <3>2, LeaveNewsIs
      <4> QED
        BY <4>1
    <3>3. CASE i = 2
      <4>1. h[i] = WantsAll(roomId[m.r], LeaveSeats(m), m.r)
        BY <3>3, LeaveNewsIs
      <4> QED
        BY <4>1 DEF WantsAll
    <3> QED
      BY <3>1, <3>2, <3>3
  <2>2. 1 \in DOMAIN h /\ h[1].t = "MemberGone" /\ h[1].name = m.p
    <3>1. 1 \in DOMAIN h /\ h[1] = [t |-> "MemberGone", room |-> roomId[m.r], name |-> m.p]
      BY LeaveNewsIs
    <3> HIDE DEF h
    <3> QED
      BY ONLY <3>1
  <2> HIDE DEF h
  <2> QED
    BY <2>1, <2>2 DEF IsOffer, GoneIn
<1>3. DOMAIN inbox' = Shards /\ \A s \in Shards : Joint(inbox[s], h, inbox'[s])
  BY DEF Leaving
<1>4. \A s \in Shards : k[s] = h
  OBVIOUS
<1> HIDE DEF h, k
<1> QED
  BY <1>1, <1>2, <1>3, <1>4, OwnedGrowing

-----------------------------------------------------------------------------
(* Every step *)

FollowInv == SpeakersInv /\ ShardsWillAgree /\ RoomsAreSane /\ LegsAreOwned

LEMMA SilentFollow ==
  ASSUME FollowInv, SpeakersInv', NEW k, Silent(k)
  PROVE  FollowInv'
<1>1. ShardsWillAgree'
  BY AgreeSilent DEF FollowInv
<1>2. RoomsAreSane'
  BY DEF FollowInv, RoomsAreSane, Silent
<1>3. LegsAreOwned'
  BY SilentIsQuiet, OwnedQuiet DEF FollowInv, SpeakersInv
<1> QED
  BY <1>1, <1>2, <1>3 DEF FollowInv

LEMMA SameFollow ==
  ASSUME FollowInv, SpeakersInv', SameControl
  PROVE  FollowInv'
BY AgreeSame, SaneSame, OwnedSame DEF FollowInv, SpeakersInv

LEMMA EventFollow ==
  ASSUME FollowInv, SpeakersInv', shard' = shard, NEW m,
         \/ Joining(m) \/ Leaving(m)
         \/ \E r : Spreading(r)
         \/ \E k : Silent(k)
  PROVE  FollowInv'
<1>0. PlaneTypeOK /\ RoomsAreSane'
  BY DEF FollowInv, SpeakersInv, RoomsAreSane
<1>1. CASE Joining(m)
  BY <1>0, <1>1, AgreeJoining, OwnedJoining DEF FollowInv
<1>2. CASE Leaving(m)
  BY <1>0, <1>2, AgreeLeaving, OwnedLeaving DEF FollowInv
<1>3. ASSUME NEW r, Spreading(r) PROVE FollowInv'
  <2>1. LegsAreOwned'
    BY <1>0, <1>3, SpreadingIsQuiet, OwnedQuiet DEF FollowInv
  <2> QED
    BY <1>0, <1>3, <2>1, AgreeSpreading DEF FollowInv
<1> QED
  BY <1>1, <1>2, <1>3, SilentFollow

LEMMA RoutesFollow ==
  ASSUME FollowInv, SpeakersInv', QueuesHaveRoom', Routes
  PROVE  FollowInv'
<1>1. UNCHANGED <<phase, shard>> /\ (RouterTakes \/ FlushOffers) /\ SpeakersInv
  BY DEF Routes, RouterNext, shardVars, FollowInv
<1>2. CASE RouterTakes
  <2>1. PICK m : m = ctl[1]
    OBVIOUS
  <2>2. \/ Joining(m) \/ Leaving(m)
        \/ \E r : Spreading(r)
        \/ \E k : Silent(k)
    BY <1>1, <1>2, <2>1, EventsAre
  <2> QED
    BY <1>1, <2>2, EventFollow
<1>3. CASE FlushOffers
  BY <1>1, <1>3, FlushIsSilent, SilentFollow
<1> QED
  BY <1>1, <1>2, <1>3

LEMMA FollowNext ==
  ASSUME FollowInv, QueuesHaveRoom', [PlaneNext]_planeVars
  PROVE  FollowInv'
<1>0. PlaneTypeOK /\ SpeakersInv /\ SpeakersInv'
  BY SpeakersNext DEF FollowInv, SpeakersInv
<1>1. CASE Sends
  BY <1>0, <1>1, SendsSilent, SilentFollow
<1>2. CASE Routes
  BY <1>0, <1>2, RoutesFollow
<1>3. CASE MergesSpeakers
  <2>1. UNCHANGED <<tableVars, shard>> /\ \E elapsed : Merge(elapsed)
    BY <1>3 DEF MergesSpeakers, shardVars
  <2>2. \E k : Silent(k)
    BY <1>0, <2>1, MergeIsSilent
  <2> QED
    BY <1>0, <2>2, SilentFollow
<1>4. CASE ShardSteps
  <2>1. ASSUME NEW s \in Shards, Taking(s) PROVE FollowInv'
    BY <1>0, <2>1, AgreeTaking, SaneTaking, OwnedTaking DEF FollowInv
  <2> QED
    BY <1>0, <1>4, <2>1, TakingIs, ForwardedSame, SameFollow DEF ShardSteps
<1>5. CASE Browsers
  BY <1>0, <1>5, BrowsersSame, SameFollow
<1>6. CASE UNCHANGED planeVars
  <2>1. UNCHANGED <<routerVars, phase, room, shard>>
    BY <1>6 DEF planeVars, shardVars
  <2>2. SameControl
    BY <1>0, <2>1, SameTablesSelf DEF SameControl
  <2> QED
    BY <1>0, <2>2, SameFollow
<1> QED
  BY <1>1, <1>2, <1>3, <1>4, <1>5, <1>6 DEF PlaneNext

LEMMA ReadNone ==
  ASSUME NEW c, NEW q, NEW s, NEW id, Len(q) = 0
  PROVE  Read(c, q, s, id) = c
BY LearningStep DEF Read

\* A room nobody has heard of.
LEMMA NoMembers == ASSUME NEW st, NEW s PROVE Picture(st, {}, s, FALSE) = NoRoomYet
<1> DEFINE pids == [q \in {} |-> st[q].pid]
           w == [pp \in PidsOf(st, {}) |-> Resolved(st, CHOOSE q \in {} : st[q].pid = pp)]
<1>1. PidsOf(st, {}) = {}
  BY DEF PidsOf
<1>2. pids = Nothing /\ w = Nothing /\ {q \in {} : Home(st[q].pid) = s} = {}
  BY <1>1 DEF Nothing
<1> QED
  BY <1>2 DEF Picture, NoRoomYet

LEMMA FreshFollow == ASSUME Fresh PROVE FollowInv
<1>1. /\ roomId = [r \in RoomIds |-> NoId] /\ nextRoomId = 0 /\ DOMAIN seats = {}
      /\ inbox = [s \in Shards |-> <<>>] /\ shard = [s \in Shards |-> NewShard]
  BY DEF Fresh, RouterInit
<1>2. ASSUME NEW s \in Shards
      PROVE  Len(inbox[s]) = 0 /\ DOMAIN inbox[s] = {} /\ DOMAIN shard[s].rooms = {} /\ DOMAIN shard[s].legs = {}
  BY <1>1 DEF NewShard, Nothing
<1>3. ASSUME NEW s \in Shards, NEW id \in Nat
      PROVE  Read(RoomOf(shard[s], id), inbox[s], s, id) = RoutersRoom(s, id)
  <2>1. Read(RoomOf(shard[s], id), inbox[s], s, id) = RoomOf(shard[s], id)
    BY <1>2, ReadNone
  <2>2. RoomOf(shard[s], id) = NoRoomYet
    BY <1>2 DEF RoomOf
  <2>3. MembersIn(seats, roomId, id) = {} /\ (id < nextRoomId) = FALSE
    BY <1>1 DEF MembersIn
  <2>4. Picture(seats, {}, s, FALSE) = NoRoomYet
    BY NoMembers
  <2> QED
    BY <2>1, <2>2, <2>3, <2>4 DEF RoutersRoom
<1>4. ShardsWillAgree /\ RoomsAreSane /\ LegsAreOwned
  BY <1>2, <1>3 DEF ShardsWillAgree, RoomsAreSane, LegsAreOwned
<1> QED
  BY <1>4, FreshSpeakers DEF FollowInv

LEMMA SettledFollow ==
  ASSUME NEW r \in RoomIds, NEW place, SettledAs(r, place)
  PROVE  FollowInv
<1>1. /\ roomId = [x \in RoomIds |-> IF x = r THEN 0 ELSE NoId] /\ nextRoomId = 1
      /\ DOMAIN seats = Participants /\ inbox = [s \in Shards |-> <<>>]
      /\ \A p \in Participants : /\ seats[p].room = r /\ seats[p].pid = place[p] - 1
                                 /\ seats[p].wants = Everything
  BY DEF SettledAs
<1>2. /\ place \in [Participants -> 1 .. Len(Roster)] /\ Len(Roster) \in Nat
      /\ \A i \in 1 .. Len(Roster) : \E p \in Participants : place[p] = i
  BY PlaneAssumption DEF SettledAs
<1>3. \A s \in Shards : Len(inbox[s]) = 0 /\ DOMAIN inbox[s] = {}
  BY <1>1
<1>12. \A s \in Shards : DOMAIN shard[s].rooms = {0}
  BY DEF SettledAs
<1>13. \A s \in Shards : Sane(shard[s].rooms[0])
  BY DEF SettledAs
<1>14. ASSUME NEW s \in Shards
       PROVE  /\ shard[s].rooms[0].pids = [p \in Participants |-> place[p] - 1]
              /\ shard[s].rooms[0].wants = [pp \in 0 .. (Len(Roster) - 1) |-> Everything]
              /\ DOMAIN shard[s].rooms[0].locals = {p \in Participants : Home(place[p] - 1) = s}
  <2>1. \A x \in Shards : shard[x].rooms[0].pids = [p \in Participants |-> place[p] - 1]
    BY DEF SettledAs
  <2>2. \A x \in Shards : shard[x].rooms[0].wants = [pp \in 0 .. (Len(Roster) - 1) |-> Everything]
    BY DEF SettledAs
  <2>3. \A x \in Shards : DOMAIN shard[x].rooms[0].locals = {p \in Participants : Home(place[p] - 1) = x}
    BY DEF SettledAs
  <2> QED
    BY ONLY <2>1, <2>2, <2>3, s \in Shards
<1>15. ASSUME NEW s \in Shards, NEW key \in DOMAIN shard[s].legs
       PROVE  key[1] \in Participants /\ Home(place[key[1]] - 1) = s
  <2>1. \A x \in Shards : \A y \in DOMAIN shard[x].legs : Home(place[y[1]] - 1) = x
    BY DEF SettledAs
  <2>2. \A x \in Shards : IsShard(shard[x])
    BY DEF SettledAs
  <2>3. key \in Participants \X {"pub", "sub"}
    BY ONLY <2>2, s \in Shards, key \in DOMAIN shard[s].legs DEF IsShard
  <2> QED
    BY ONLY <2>1, <2>3, s \in Shards, key \in DOMAIN shard[s].legs
<1>4. MembersIn(seats, roomId, 0) = Participants
  BY <1>1 DEF MembersIn
<1>5. \A id \in Nat : id # 0 => MembersIn(seats, roomId, id) = {} /\ (id < nextRoomId) = FALSE
  BY <1>1 DEF MembersIn
<1>6. PidsOf(seats, Participants) = 0 .. (Len(Roster) - 1)
  <2>1. PidsOf(seats, Participants) \subseteq 0 .. (Len(Roster) - 1)
    BY <1>1, <1>2 DEF PidsOf
  <2>2. ASSUME NEW pp \in 0 .. (Len(Roster) - 1) PROVE pp \in PidsOf(seats, Participants)
    <3>1. pp + 1 \in 1 .. Len(Roster) /\ (pp + 1) - 1 = pp
      BY <1>2
    <3>2. PICK p \in Participants : place[p] = pp + 1
      BY <1>2, <3>1
    <3>3. seats[p].pid = pp
      BY <1>1, <3>1, <3>2
    <3> QED
      BY <3>3 DEF PidsOf
  <2> QED
    BY <2>1, <2>2
<1>7. ASSUME NEW s \in Shards
      PROVE  Read(RoomOf(shard[s], 0), inbox[s], s, 0) = RoutersRoom(s, 0)
  <2> DEFINE pids == [p \in Participants |-> place[p] - 1]
             wants == [pp \in 0 .. (Len(Roster) - 1) |-> Everything]
             own == {p \in Participants : Home(place[p] - 1) = s}
             who(pp) == CHOOSE q \in Participants : seats[q].pid = pp
  <2>1. Read(RoomOf(shard[s], 0), inbox[s], s, 0) = RoomOf(shard[s], 0)
    BY <1>3, ReadNone
  <2>2. RoomOf(shard[s], 0) = [there |-> TRUE, pids |-> pids, wants |-> wants, own |-> own]
    BY <1>12, <1>14 DEF RoomOf
  <2>3. [q \in Participants |-> seats[q].pid] = pids /\ {q \in Participants : Home(seats[q].pid) = s} = own
    BY <1>1
  <2>4. \A pp \in PidsOf(seats, Participants) : Resolved(seats, who(pp)) = Everything
    <3>1. \A pp \in PidsOf(seats, Participants) : who(pp) \in Participants
      BY DEF PidsOf
    <3>2. \A p \in Participants : Resolved(seats, p) = Everything
      BY <1>1 DEF Resolved, Everything
    <3> QED
      BY <3>1, <3>2
  <2>5. (0 < nextRoomId) = Here
    BY <1>1 DEF Here
  <2>6. RoutersRoom(s, 0) = Picture(seats, Participants, s, Here)
    BY <1>4, <2>5 DEF RoutersRoom
  <2>7. [pp \in PidsOf(seats, Participants) |-> Resolved(seats, who(pp))] = wants
    <3> HIDE DEF who
    <3> QED
      BY <1>6, <2>4
  <2>8. Picture(seats, Participants, s, Here) = [there |-> TRUE, pids |-> pids, wants |-> wants, own |-> own]
    <3>1. Picture(seats, Participants, s, Here) =
            [there |-> TRUE, pids |-> [q \in Participants |-> seats[q].pid],
             wants |-> [pp \in PidsOf(seats, Participants) |-> Resolved(seats, who(pp))],
             own |-> {q \in Participants : Home(seats[q].pid) = s}]
      BY DEF Here, Picture
    <3> HIDE DEF who
    <3> QED
      BY <2>3, <2>7, <3>1
  <2> HIDE DEF pids, wants, own
  <2> QED
    BY <2>1, <2>2, <2>6, <2>8
<1>8. ASSUME NEW s \in Shards, NEW id \in Nat, id # 0
      PROVE  Read(RoomOf(shard[s], id), inbox[s], s, id) = RoutersRoom(s, id)
  <2>1. Read(RoomOf(shard[s], id), inbox[s], s, id) = RoomOf(shard[s], id)
    BY <1>3, ReadNone
  <2>2. RoomOf(shard[s], id) = NoRoomYet
    BY <1>8, <1>12 DEF RoomOf
  <2>3. Picture(seats, {}, s, FALSE) = NoRoomYet
    BY NoMembers
  <2> QED
    BY <1>5, <1>8, <2>1, <2>2, <2>3 DEF RoutersRoom
<1>9. ShardsWillAgree
  BY <1>7, <1>8 DEF ShardsWillAgree
<1>10. RoomsAreSane
  BY <1>12, <1>13 DEF RoomsAreSane
<1>11. LegsAreOwned
  <2>1. ASSUME NEW s \in Shards, NEW key \in DOMAIN shard[s].legs PROVE SeatedAt(key[1], s)
    <3>1. key[1] \in Participants /\ Home(place[key[1]] - 1) = s
      BY <1>15
    <3> QED
      BY <1>1, <3>1 DEF SeatedAt
  <2> QED
    BY <1>3, <2>1 DEF LegsAreOwned
<1> QED
  BY <1>9, <1>10, <1>11, SettledSpeakers DEF FollowInv

LEMMA FollowStart == PlaneInit => FollowInv
BY PlaneStarts, FreshFollow, SettledFollow

-----------------------------------------------------------------------------
(* A shard that has read its queue *)

\* The demand of a room whose members and wants are the router's.
DemandOf(st, M) ==
  UNION {{<<st[p].pid, kind, Home(st[q].pid)>> :
            q \in {x \in M \ {p} : Covers(Resolved(st, x), st[p].pid, kind)}} : p \in M, kind \in Kinds}
FanOf(st, M, own) ==
  UNION {{<<st[p].pid, kind, q>> :
            q \in own \cap {x \in M \ {p} : Covers(Resolved(st, x), st[p].pid, kind)}} : p \in M, kind \in Kinds}

LEMMA DemandIs ==
  ASSUME NEW rm, NEW pp \in DOMAIN DemandTable(rm), NEW kind \in Kinds
  PROVE  DemandTable(rm)[pp][kind] = {Home(rm.pids[q]) : q \in Takers(rm, pp, kind)}
<1> DEFINE homes(i, k) == {Home(rm.pids[q]) : q \in Takers(rm, i, k)}
           dom == {i \in Range(rm.pids) : \E k \in Kinds : Takers(rm, i, k) # {}}
<1>1. DemandTable(rm) = [i \in dom |-> [k \in Kinds |-> homes(i, k)]]
  BY DEF DemandTable
<1> HIDE DEF homes, dom
<1>2. DemandTable(rm)[pp][kind] = homes(pp, kind)
  BY <1>1
<1> QED
  BY <1>2 DEF homes

LEMMA InDemand ==
  ASSUME NEW st, NEW M, NEW a
  PROVE  a \in DemandOf(st, M) <=>
           \E p \in M, kind \in Kinds :
             \E q \in {x \in M \ {p} : Covers(Resolved(st, x), st[p].pid, kind)} :
               a = <<st[p].pid, kind, Home(st[q].pid)>>
<1> DEFINE takers(p, kind) == {x \in M \ {p} : Covers(Resolved(st, x), st[p].pid, kind)}
           part(p, kind) == {<<st[p].pid, kind, Home(st[q].pid)>> : q \in takers(p, kind)}
<1>1. DemandOf(st, M) = UNION {part(p, kind) : p \in M, kind \in Kinds}
  BY DEF DemandOf
<1> HIDE DEF takers
<1>2. \A p, kind : a \in part(p, kind) <=> \E q \in takers(p, kind) : a = <<st[p].pid, kind, Home(st[q].pid)>>
  OBVIOUS
<1> HIDE DEF part
<1>3. a \in DemandOf(st, M) <=> \E p \in M, kind \in Kinds : a \in part(p, kind)
  BY <1>1
<1>4. a \in DemandOf(st, M) <=>
        \E p \in M, kind \in Kinds : \E q \in takers(p, kind) : a = <<st[p].pid, kind, Home(st[q].pid)>>
  BY ONLY <1>2, <1>3
<1> QED
  BY <1>4 DEF takers

LEMMA InFan ==
  ASSUME NEW st, NEW M, NEW own, NEW a
  PROVE  a \in FanOf(st, M, own) <=>
           \E p \in M, kind \in Kinds :
             \E q \in own \cap {x \in M \ {p} : Covers(Resolved(st, x), st[p].pid, kind)} :
               a = <<st[p].pid, kind, q>>
<1> DEFINE takers(p, kind) == {x \in M \ {p} : Covers(Resolved(st, x), st[p].pid, kind)}
           part(p, kind) == {<<st[p].pid, kind, q>> : q \in own \cap takers(p, kind)}
<1>1. FanOf(st, M, own) = UNION {part(p, kind) : p \in M, kind \in Kinds}
  BY DEF FanOf
<1> HIDE DEF takers
<1>2. \A p, kind : a \in part(p, kind) <=> \E q \in own \cap takers(p, kind) : a = <<st[p].pid, kind, q>>
  OBVIOUS
<1> HIDE DEF part
<1>3. a \in FanOf(st, M, own) <=> \E p \in M, kind \in Kinds : a \in part(p, kind)
  BY <1>1
<1>4. a \in FanOf(st, M, own) <=>
        \E p \in M, kind \in Kinds : \E q \in own \cap takers(p, kind) : a = <<st[p].pid, kind, q>>
  BY ONLY <1>2, <1>3
<1> QED
  BY <1>4 DEF takers

\* A room with the members M, of which s has its own, and their wants.
IsRoomOf(x, st, M, s) ==
  /\ OnePidEach(st, M) /\ M \subseteq Participants /\ \A q \in M : st[q].pid \in Nat
  /\ IsRoom(x) /\ Sane(x)
  /\ x.pids = [q \in M |-> st[q].pid] /\ DOMAIN x.locals = {q \in M : Home(st[q].pid) = s}
  /\ x.wants = [pp \in PidsOf(st, M) |-> Resolved(st, CHOOSE q \in M : st[q].pid = pp)]

\* Who takes a member's packets, by the tables of such a room.
LEMMA RoomTakers ==
  ASSUME NEW st, NEW M, NEW s, NEW x, IsRoomOf(x, st, M, s)
  PROVE  /\ \A q \in M : /\ st[q].pid \in PidsOf(st, M) /\ x.wants[st[q].pid] = Resolved(st, q)
                          /\ x.pids[q] = st[q].pid
         /\ DOMAIN x.wants = PidsOf(st, M) /\ DOMAIN x.pids = M /\ Range(x.pids) = PidsOf(st, M)
         /\ \A p \in M : \A kind :
              Takers(x, st[p].pid, kind) = {q \in M \ {p} : Covers(Resolved(st, q), st[p].pid, kind)}
<1> DEFINE takers(p, kind) == {q \in M \ {p} : Covers(Resolved(st, q), st[p].pid, kind)}
<1>0. /\ OnePidEach(st, M) /\ M \subseteq Participants /\ \A q \in M : st[q].pid \in Nat
      /\ IsRoom(x) /\ Sane(x)
      /\ x.pids = [q \in M |-> st[q].pid]
  BY DEF IsRoomOf
<1>1. ASSUME NEW q \in M PROVE st[q].pid \in PidsOf(st, M) /\ x.wants[st[q].pid] = Resolved(st, q)
  <2>1. st[q].pid \in PidsOf(st, M)
    BY DEF PidsOf
  <2>2. (CHOOSE y \in M : st[y].pid = st[q].pid) = q
    BY <1>0 DEF OnePidEach
  <2> DEFINE who(pp) == CHOOSE y \in M : st[y].pid = pp
  <2>3. x.wants = [pp \in PidsOf(st, M) |-> Resolved(st, who(pp))] /\ who(st[q].pid) = q
    BY <2>2 DEF IsRoomOf
  <2> HIDE DEF who
  <2> QED
    BY <2>1, <2>3
<1>2. DOMAIN x.wants = PidsOf(st, M) /\ DOMAIN x.pids = M /\ Range(x.pids) = PidsOf(st, M)
      /\ \A q \in M : x.pids[q] = st[q].pid
  <2>1. DOMAIN x.wants = PidsOf(st, M)
    BY DEF IsRoomOf
  <2> QED
    BY <1>0, <2>1 DEF PidsOf, Range
<1>3. ASSUME NEW p \in M, NEW kind PROVE Takers(x, st[p].pid, kind) = takers(p, kind)
  <2>1. \A q \in M : x.pids[q] # st[p].pid <=> q # p
    BY <1>0, <1>2 DEF OnePidEach
  <2>2. \A q \in M : At(x.wants, x.pids[q], Everything) = Resolved(st, q)
    BY <1>1, <1>2 DEF At
  <2> QED
    BY <1>2, <2>1, <2>2 DEF Takers
<1> QED
  BY <1>1, <1>2, <1>3

LEMMA TablesFollow ==
  ASSUME NEW st, NEW M, NEW s, NEW x, IsRoomOf(x, st, M, s)
  PROVE  /\ {<<pp, x.wants[pp]>> : pp \in DOMAIN x.wants} = {<<st[q].pid, Resolved(st, q)>> : q \in M}
         /\ {y \in (DOMAIN x.demand) \X Kinds \X Shards : y[3] \in x.demand[y[1]][y[2]]} = DemandOf(st, M)
         /\ {y \in (DOMAIN x.fan) \X Kinds \X Participants : y[3] \in x.fan[y[1]][y[2]]}
              = FanOf(st, M, DOMAIN x.locals)
<1> DEFINE own == DOMAIN x.locals
           takers(p, kind) == {q \in M \ {p} : Covers(Resolved(st, q), st[p].pid, kind)}
<1>0. /\ OnePidEach(st, M) /\ M \subseteq Participants /\ \A q \in M : st[q].pid \in Nat
      /\ IsRoom(x) /\ Sane(x)
      /\ x.pids = [q \in M |-> st[q].pid] /\ own = {q \in M : Home(st[q].pid) = s}
  BY DEF IsRoomOf
<1>1. /\ \A q \in M : /\ st[q].pid \in PidsOf(st, M) /\ x.wants[st[q].pid] = Resolved(st, q)
                       /\ x.pids[q] = st[q].pid
      /\ DOMAIN x.wants = PidsOf(st, M) /\ DOMAIN x.pids = M /\ Range(x.pids) = PidsOf(st, M)
      /\ \A p \in M : \A kind : Takers(x, st[p].pid, kind) = takers(p, kind)
  BY RoomTakers
<1> HIDE DEF takers
<1>2. {<<pp, x.wants[pp]>> : pp \in DOMAIN x.wants} = {<<st[q].pid, Resolved(st, q)>> : q \in M}
  <2> DEFINE A == {<<pp, x.wants[pp]>> : pp \in PidsOf(st, M)}
             B == {<<st[q].pid, Resolved(st, q)>> : q \in M}
  <2>1. ASSUME NEW a \in A PROVE a \in B
    <3>1. PICK pp \in PidsOf(st, M) : a = <<pp, x.wants[pp]>>
      OBVIOUS
    <3>2. PICK q \in M : pp = st[q].pid
      BY DEF PidsOf
    <3>3. a = <<st[q].pid, Resolved(st, q)>>
      BY <1>1, <3>1, <3>2
    <3> QED
      BY <3>3
  <2>2. ASSUME NEW q \in M PROVE <<st[q].pid, Resolved(st, q)>> \in A
    BY <1>1
  <2>3. A = B
    BY <2>1, <2>2
  <2> QED
    BY <1>1, <2>3
<1>3. x.demand = DemandTable(x) /\ x.fan = FanTable(x) /\ x.maxPid \in Nat
      /\ \A q \in M : st[q].pid \in 0 .. (x.maxPid - 1)
  BY <1>0, <1>1, RebuiltIs DEF Sane
<1>4. \A q \in M : Home(st[q].pid) \in Shards
  BY <1>0, ShardAssumption DEF Home, Shards
<1>5. {y \in (DOMAIN x.demand) \X Kinds \X Shards : y[3] \in x.demand[y[1]][y[2]]} = DemandOf(st, M)
  <2> DEFINE D == {y \in (DOMAIN x.demand) \X Kinds \X Shards : y[3] \in x.demand[y[1]][y[2]]}
  <2>1. DOMAIN x.demand = {pp \in PidsOf(st, M) : \E kind \in Kinds : Takers(x, pp, kind) # {}}
    BY <1>1, <1>3 DEF DemandTable
  <2>2. \A pp \in DOMAIN x.demand : \A kind \in Kinds :
          x.demand[pp][kind] = {Home(x.pids[q]) : q \in Takers(x, pp, kind)}
    BY <1>3, DemandIs
  <2>3. \A a : a \in DemandOf(st, M) <=>
          \E p \in M, kind \in Kinds : \E q \in takers(p, kind) : a = <<st[p].pid, kind, Home(st[q].pid)>>
    BY InDemand DEF takers
  <2>4. \A p \in M : \A kind : takers(p, kind) \subseteq M
    BY DEF takers
  <2>5. ASSUME NEW y \in D PROVE y \in DemandOf(st, M)
    <3>1. /\ y[1] \in DOMAIN x.demand /\ y[2] \in Kinds /\ y[3] \in x.demand[y[1]][y[2]]
          /\ y = <<y[1], y[2], y[3]>>
      OBVIOUS
    <3>2. PICK p \in M : y[1] = st[p].pid
      BY <2>1, <3>1 DEF PidsOf
    <3>3. PICK q \in Takers(x, y[1], y[2]) : y[3] = Home(x.pids[q])
      BY <2>2, <3>1
    <3>4. q \in takers(p, y[2]) /\ q \in M
      BY <1>1, <2>4, <3>2, <3>3
    <3>5. y = <<st[p].pid, y[2], Home(st[q].pid)>>
      BY <1>1, <3>1, <3>2, <3>3, <3>4
    <3> QED
      BY <2>3, <3>1, <3>4, <3>5
  <2>6. ASSUME NEW y \in DemandOf(st, M) PROVE y \in D
    <3>1. PICK p \in M, kind \in Kinds : \E q \in takers(p, kind) : y = <<st[p].pid, kind, Home(st[q].pid)>>
      BY <2>3
    <3>2. PICK q \in takers(p, kind) : y = <<st[p].pid, kind, Home(st[q].pid)>>
      BY <3>1
    <3>3. q \in M /\ q \in Takers(x, st[p].pid, kind)
      BY <1>1, <2>4
    <3>4. st[p].pid \in DOMAIN x.demand
      BY <1>1, <2>1, <3>3
    <3>5. Home(st[q].pid) \in x.demand[st[p].pid][kind]
      BY <1>1, <2>2, <3>3, <3>4
    <3> QED
      BY <1>4, <3>2, <3>3, <3>4, <3>5
  <2> QED
    BY <2>5, <2>6
<1>6. {y \in (DOMAIN x.fan) \X Kinds \X Participants : y[3] \in x.fan[y[1]][y[2]]} = FanOf(st, M, own)
  <2> DEFINE F == {y \in (DOMAIN x.fan) \X Kinds \X Participants : y[3] \in x.fan[y[1]][y[2]]}
  <2>1. DOMAIN x.fan = 0 .. (x.maxPid - 1)
    BY <1>3 DEF FanTable
  <2>2. \A pp \in DOMAIN x.fan : \A kind \in Kinds :
          x.fan[pp][kind] = IF pp \in PidsOf(st, M) THEN Takers(x, pp, kind) \cap own ELSE {}
    BY <1>1, <1>3 DEF FanTable
  <2>3. \A a : a \in FanOf(st, M, own) <=>
          \E p \in M, kind \in Kinds : \E q \in own \cap takers(p, kind) : a = <<st[p].pid, kind, q>>
    BY InFan DEF takers
  <2>4. own \subseteq Participants
    BY <1>0
  <2> HIDE DEF own
  <2>5. ASSUME NEW y \in F PROVE y \in FanOf(st, M, own)
    <3>1. /\ y[1] \in DOMAIN x.fan /\ y[2] \in Kinds /\ y[3] \in x.fan[y[1]][y[2]]
          /\ y = <<y[1], y[2], y[3]>>
      OBVIOUS
    <3>2. y[1] \in PidsOf(st, M) /\ y[3] \in Takers(x, y[1], y[2]) \cap own
      BY <2>2, <3>1
    <3>3. PICK p \in M : y[1] = st[p].pid
      BY <3>2 DEF PidsOf
    <3>4. y[3] \in own \cap takers(p, y[2])
      BY <1>1, <3>2, <3>3
    <3> QED
      BY <2>3, <3>1, <3>3, <3>4
  <2>6. ASSUME NEW y \in FanOf(st, M, own) PROVE y \in F
    <3>1. PICK p \in M, kind \in Kinds : \E q \in own \cap takers(p, kind) : y = <<st[p].pid, kind, q>>
      BY <2>3
    <3>2. PICK q \in own \cap takers(p, kind) : y = <<st[p].pid, kind, q>>
      BY <3>1
    <3>3. q \in Takers(x, st[p].pid, kind) \cap own /\ st[p].pid \in PidsOf(st, M) /\ st[p].pid \in DOMAIN x.fan
      BY <1>1, <1>3, <2>1
    <3>4. x.fan[st[p].pid][kind] = Takers(x, st[p].pid, kind) \cap own
      BY ONLY <2>2, <3>3, kind \in Kinds
    <3> QED
      BY <2>4, <3>2, <3>3, <3>4
  <2> QED
    BY <2>5, <2>6
<1> QED
  BY <1>2, <1>5, <1>6

\* What a shard that has read its queue has of a room.
LEMMA ShardHasRoom ==
  ASSUME FollowInv, NEW s \in Shards, inbox[s] = <<>>
  PROVE  /\ LiveRooms \subseteq DOMAIN shard[s].rooms
         /\ \A id \in DOMAIN shard[s].rooms : id \in Nat /\ IsRoomOf(shard[s].rooms[id], seats, MembersOf(id), s)
<1>1. /\ PlaneTypeOK /\ ShardsWillAgree /\ RoomsAreSane /\ LegsAreOwned
      /\ Tables(seats, roomId, nextRoomId) /\ IsShard(shard[s])
  BY TablesAre DEF FollowInv, SpeakersInv, PlaneTypeOK
<1>2. Len(inbox[s]) = 0 /\ DOMAIN inbox[s] = {}
  OBVIOUS
<1>3. ASSUME NEW id \in Nat PROVE RoomOf(shard[s], id) = RoutersRoom(s, id)
  BY <1>1, <1>2, ReadNone DEF ShardsWillAgree
<1>4. LiveRooms \subseteq Nat /\ \A id \in LiveRooms : id < nextRoomId
  BY <1>1 DEF LiveRooms, PlaneTypeOK, Tables
<1>5. ASSUME NEW id \in LiveRooms PROVE id \in DOMAIN shard[s].rooms
  <2>1. RoutersRoom(s, id).there = (id < nextRoomId)
    BY DEF RoutersRoom, Picture
  <2>2. RoomOf(shard[s], id).there
    BY <1>3, <1>4, <2>1
  <2> QED
    BY <2>2 DEF RoomOf, NoRoomYet
<1>6. ASSUME NEW id \in DOMAIN shard[s].rooms
      PROVE  id \in Nat /\ IsRoomOf(shard[s].rooms[id], seats, MembersOf(id), s)
  <2> DEFINE M == MembersOf(id)
             x == shard[s].rooms[id]
             pids == [q \in M |-> seats[q].pid]
             own == {q \in M : Home(seats[q].pid) = s}
  <2>1. id \in Nat /\ IsRoom(x) /\ Sane(x)
    BY <1>1 DEF IsShard, RoomsAreSane
  <2>2. M = MembersIn(seats, roomId, id)
    BY DEF MembersOf, MembersIn
  <2>3. OnePidEach(seats, M) /\ M \subseteq Participants /\ \A q \in M : seats[q].pid \in Nat
    <3>1. OnePidEach(seats, M)
      BY <1>1, <2>2, MembersAre
    <3> QED
      BY <1>1, <3>1 DEF MembersOf, PlaneTypeOK, IsSeat
  <2>4. /\ x.pids = pids /\ DOMAIN x.locals = own
        /\ x.wants = [pp \in PidsOf(seats, M) |-> Resolved(seats, CHOOSE q \in M : seats[q].pid = pp)]
    <3> DEFINE w == [pp \in PidsOf(seats, M) |-> Resolved(seats, CHOOSE q \in M : seats[q].pid = pp)]
    <3>1. RoutersRoom(s, id) = [there |-> id < nextRoomId, pids |-> pids, wants |-> w, own |-> own]
      BY <2>2 DEF RoutersRoom, Picture
    <3>2. RoomOf(shard[s], id) = [there |-> TRUE, pids |-> x.pids, wants |-> x.wants, own |-> DOMAIN x.locals]
      BY DEF RoomOf
    <3> HIDE DEF pids, own, w, M, x
    <3>3. x.pids = pids /\ x.wants = w /\ DOMAIN x.locals = own
      BY <1>3, <2>1, <3>1, <3>2
    <3> QED
      BY <3>3 DEF w
  <2> QED
    BY <2>1, <2>3, <2>4 DEF IsRoomOf
<1> QED
  BY <1>5, <1>6

LEMMA FollowInvFollows == FollowInv => ShardsFollowRouter
<1> SUFFICES ASSUME FollowInv, NEW s \in Shards, inbox[s] = <<>>
             PROVE  /\ LiveRooms \subseteq DOMAIN shard[s].rooms
                    /\ \A id \in DOMAIN shard[s].rooms : ShardRoom(shard[s], id) = TrueRoom(s, id)
                    /\ \A key \in DOMAIN shard[s].legs :
                         \E id \in LiveRooms : key[1] \in TrueRoom(s, id).own
  BY DEF ShardsFollowRouter
<1>1. /\ PlaneTypeOK /\ LegsAreOwned /\ Tables(seats, roomId, nextRoomId)
  BY TablesAre DEF FollowInv, SpeakersInv
<1>2. DOMAIN inbox[s] = {}
  OBVIOUS
<1>3. LiveRooms \subseteq DOMAIN shard[s].rooms
  BY ShardHasRoom
<1>4. ASSUME NEW id \in DOMAIN shard[s].rooms PROVE ShardRoom(shard[s], id) = TrueRoom(s, id)
  <2> DEFINE M == MembersOf(id)
             x == shard[s].rooms[id]
             pids == [q \in M |-> seats[q].pid]
             own == {q \in M : Home(seats[q].pid) = s}
             wants == {<<seats[q].pid, Resolved(seats, q)>> : q \in M}
  <2>1. IsRoomOf(x, seats, M, s)
    BY ShardHasRoom
  <2>2. x.pids = pids /\ DOMAIN x.locals = own
    BY <2>1 DEF IsRoomOf
  <2>3. /\ {<<pp, x.wants[pp]>> : pp \in DOMAIN x.wants} = wants
        /\ {y \in (DOMAIN x.demand) \X Kinds \X Shards : y[3] \in x.demand[y[1]][y[2]]} = DemandOf(seats, M)
        /\ {y \in (DOMAIN x.fan) \X Kinds \X Participants : y[3] \in x.fan[y[1]][y[2]]} = FanOf(seats, M, own)
    <3> HIDE DEF M, x, own
    <3> QED
      BY <2>1, <2>2, TablesFollow
  <2>4. TrueRoom(s, id) = [pids |-> pids, own |-> own, wants |-> wants, demand |-> DemandOf(seats, M),
                           fan |-> FanOf(seats, M, own)]
    BY DEF TrueRoom, DemandOf, FanOf
  <2>5. ShardRoom(shard[s], id) =
          [pids |-> x.pids, own |-> DOMAIN x.locals,
           wants |-> {<<pp, x.wants[pp]>> : pp \in DOMAIN x.wants},
           demand |-> {y \in (DOMAIN x.demand) \X Kinds \X Shards : y[3] \in x.demand[y[1]][y[2]]},
           fan |-> {y \in (DOMAIN x.fan) \X Kinds \X Participants : y[3] \in x.fan[y[1]][y[2]]}]
    BY DEF ShardRoom
  <2> HIDE DEF M, x, pids, own, wants
  <2> QED
    BY <2>2, <2>3, <2>4, <2>5
<1>5. ASSUME NEW key \in DOMAIN shard[s].legs
      PROVE  \E id \in LiveRooms : key[1] \in TrueRoom(s, id).own
  <2>1. SeatedAt(key[1], s)
    BY <1>1, <1>2 DEF LegsAreOwned, GoneIn
  <2> DEFINE id == roomId[seats[key[1]].room]
  <2>2. key[1] \in DOMAIN seats /\ Home(seats[key[1]].pid) = s /\ key[1] \in MembersOf(id)
    BY <2>1 DEF SeatedAt, MembersOf
  <2>3. id \in LiveRooms
    BY <1>1, <2>2 DEF Tables, LiveRooms
  <2>4. TrueRoom(s, id).own = {q \in MembersOf(id) : Home(seats[q].pid) = s}
    BY DEF TrueRoom
  <2> HIDE DEF id
  <2> QED
    BY <2>2, <2>3, <2>4
<1> QED
  BY <1>3, <1>4, <1>5

\* Whatever is still in a shard's queue, reading it makes the shard know of
\* every room what the router knows.
THEOREM FollowInvHolds == PlaneSpec /\ []QueuesHaveRoom => []FollowInv
<1>1. PlaneInit => FollowInv
  BY FollowStart
<1>2. FollowInv /\ QueuesHaveRoom' /\ [PlaneNext]_planeVars => FollowInv'
  BY FollowNext
<1> QED
  BY <1>1, <1>2, PTL DEF PlaneSpec

\* A shard that has handled all its control messages has the router's rooms,
\* members and wants, forwards by them, and has legs of its members only.
THEOREM ShardsFollowRouterHolds == PlaneSpec /\ []QueuesHaveRoom => []ShardsFollowRouter
<1>1. FollowInv => ShardsFollowRouter
  BY FollowInvFollows
<1> QED
  BY <1>1, FollowInvHolds, PTL

-----------------------------------------------------------------------------
(* Where a participant has legs, or may get some *)

Offered(s, p) == \E i \in DOMAIN inbox[s] : IsOffer(inbox[s][i]) /\ inbox[s][i].name = p

Spot(p, s) ==
  \/ SeatedAt(p, s)
  \/ Offered(s, p)
  \/ \E leg \in {"pub", "sub"} : <<p, leg>> \in DOMAIN shard[s].legs

OneSpot == \A p \in Participants : \A s1, s2 \in Shards : Spot(p, s1) /\ Spot(p, s2) => s1 = s2

\* New is a spot for a newcomer only, where it is seated.
SpotsKeep ==
  \A p \in Participants : \A s \in Shards :
    Spot(p, s)' => Spot(p, s) \/ (Newcomer(p) /\ SeatedAt(p, s)')

LEMMA NowhereYet ==
  ASSUME SpeakersInv, LegsAreOwned, NEW p \in Participants, Newcomer(p), NEW s \in Shards
  PROVE  ~Spot(p, s)
<1>1. p \notin DOMAIN seats /\ ~GoneIn(inbox[s], p)
  BY DEF SpeakersInv, NewcomersAreNew
<1>2. ~SeatedAt(p, s) /\ \A i : ~GoneAfter(inbox[s], p, i)
  BY <1>1 DEF SeatedAt, GoneIn, GoneAfter
<1>3. ~Offered(s, p)
  BY <1>2 DEF LegsAreOwned, Offered
<1>4. ASSUME NEW leg PROVE <<p, leg>> \notin DOMAIN shard[s].legs
  <2>1. <<p, leg>>[1] = p
    OBVIOUS
  <2> QED
    BY <1>1, <1>2, <2>1 DEF LegsAreOwned
<1> QED
  BY <1>2, <1>3, <1>4 DEF Spot

LEMMA SpotsGrowing ==
  ASSUME shard' = shard, NEW k,
         \A s \in Shards : Joint(inbox[s], k[s], inbox'[s]),
         \A s \in Shards : \A i \in DOMAIN k[s] : IsOffer(k[s][i]) => SeatedAt(k[s][i].name, s),
         \A p \in Participants : \A s \in Shards : SeatedAt(p, s)' => SeatedAt(p, s) \/ Newcomer(p)
  PROVE  SpotsKeep
<1> SUFFICES ASSUME NEW p \in Participants, NEW s \in Shards, Spot(p, s)'
             PROVE  Spot(p, s) \/ (Newcomer(p) /\ SeatedAt(p, s)')
  BY DEF SpotsKeep
<1>1. CASE SeatedAt(p, s)'
  BY <1>1 DEF Spot
<1>2. CASE Offered(s, p)'
  <2>1. PICK i \in DOMAIN inbox'[s] : IsOffer(inbox'[s][i]) /\ inbox'[s][i].name = p
    BY <1>2 DEF Offered
  <2>2. Joint(inbox[s], k[s], inbox'[s])
    OBVIOUS
  <2>3. \/ i \in DOMAIN inbox[s] /\ inbox'[s][i] = inbox[s][i]
        \/ \E j \in DOMAIN k[s] : inbox'[s][i] = k[s][j]
    BY <2>1, <2>2, JointParts
  <2> QED
    BY <2>1, <2>3 DEF Spot, Offered
<1>3. CASE \E leg \in {"pub", "sub"} : <<p, leg>> \in DOMAIN shard'[s].legs
  BY <1>3 DEF Spot
<1> QED
  BY <1>1, <1>2, <1>3 DEF Spot

LEMMA SpotsQuiet == ASSUME NEW k, Quiet(k) PROVE SpotsKeep
<1>1. \A p \in Participants : \A s \in Shards : SeatedAt(p, s)' => SeatedAt(p, s)
  BY DEF Quiet, SeatedAt
<1>2. shard' = shard /\ \A s \in Shards : Joint(inbox[s], k[s], inbox'[s])
  BY DEF Quiet
<1>3. \A s \in Shards : \A i \in DOMAIN k[s] : IsOffer(k[s][i]) => SeatedAt(k[s][i].name, s)
  BY DEF Quiet, QuietNews, IsOffer
<1> QED
  BY <1>1, <1>2, <1>3, SpotsGrowing

LEMMA SpotsJoining ==
  ASSUME SpeakersInv, NEW m, Joining(m), shard' = shard
  PROVE  SpotsKeep
<1> DEFINE h == JoinNews(m)
           k == [s \in Shards |-> h]
<1>1. Newcomer(m.p)
  BY DEF Joining
<1>2. \A p \in Participants : \A s \in Shards : SeatedAt(p, s)' => SeatedAt(p, s) \/ Newcomer(p)
  <2>1. DOMAIN seats' = DOMAIN seats \cup {m.p} /\ \A p \in DOMAIN seats : seats'[p] = seats[p]
    BY JoinedRooms
  <2> QED
    BY <1>1, <2>1 DEF SeatedAt
<1>3. \A i \in DOMAIN h : ~IsOffer(h[i])
  <2>1. \A i \in DOMAIN h : h[i].t \in {"RoomUp", "MemberUp", "WantsAll"}
    BY JoinNewsIs DEF WantsAll
  <2> QED
    BY <2>1 DEF IsOffer
<1>4. \A s \in Shards : Joint(inbox[s], h, inbox'[s])
  BY DEF Joining
<1>5. \A s \in Shards : k[s] = h
  OBVIOUS
<1> HIDE DEF h, k
<1> QED
  BY <1>2, <1>3, <1>4, <1>5, SpotsGrowing

LEMMA LeaveNewsNoOffer ==
  ASSUME NEW m, NEW i \in DOMAIN LeaveNews(m)
  PROVE  ~IsOffer(LeaveNews(m)[i])
<1>1. i = 1 \/ i = 2
  BY LeaveNewsIs
<1>2. CASE i = 1
  <2>1. LeaveNews(m)[i] = [t |-> "MemberGone", room |-> roomId[m.r], name |-> m.p]
    BY <1>2, LeaveNewsIs
  <2> QED
    BY <2>1 DEF IsOffer
<1>3. CASE i = 2
  <2>1. LeaveNews(m)[i] = WantsAll(roomId[m.r], LeaveSeats(m), m.r)
    BY <1>3, LeaveNewsIs
  <2> QED
    BY <2>1 DEF WantsAll, IsOffer
<1> QED
  BY <1>1, <1>2, <1>3

LEMMA SpotsLeaving ==
  ASSUME SpeakersInv, NEW m, Leaving(m), shard' = shard
  PROVE  SpotsKeep
<1> DEFINE h == LeaveNews(m)
           k == [s \in Shards |-> h]
<1>1. \A p \in Participants : \A s \in Shards : SeatedAt(p, s)' => SeatedAt(p, s)
  <2>1. DOMAIN seats' = DOMAIN seats \ {m.p} /\ \A p \in DOMAIN seats' : seats'[p] = seats[p]
    BY LeftRooms
  <2> QED
    BY <2>1 DEF SeatedAt
<1>2. \A i \in DOMAIN h : ~IsOffer(h[i])
  BY LeaveNewsNoOffer
<1>3. \A s \in Shards : Joint(inbox[s], h, inbox'[s])
  BY DEF Leaving
<1>4. \A s \in Shards : k[s] = h
  OBVIOUS
<1> HIDE DEF h, k
<1> QED
  BY <1>1, <1>2, <1>3, <1>4, SpotsGrowing

LEMMA SpotsSame == ASSUME SameControl PROVE SpotsKeep
<1>1. UNCHANGED <<seats, inbox>> /\ \A s \in Shards : DOMAIN shard'[s].legs \subseteq DOMAIN shard[s].legs
  BY DEF SameControl, SameTables, routerVars, tableVars
<1>2. \A p, s : (SeatedAt(p, s)' <=> SeatedAt(p, s)) /\ (Offered(s, p)' <=> Offered(s, p))
  BY <1>1 DEF SeatedAt, Offered
<1> QED
  BY <1>1, <1>2 DEF SpotsKeep, Spot

LEMMA SpotsTaking == ASSUME NEW s \in Shards, Taking(s) PROVE SpotsKeep
<1> SUFFICES ASSUME NEW p \in Participants, NEW x \in Shards, Spot(p, x)' PROVE Spot(p, x)
  BY DEF SpotsKeep
<1>1. SeatedAt(p, x)' <=> SeatedAt(p, x)
  BY DEF SeatedAt, Taking, tableVars
<1>2. CASE x # s
  <2>1. inbox'[x] = inbox[x] /\ shard'[x] = shard[x]
    BY <1>2 DEF Taking
  <2> QED
    BY <1>1, <2>1 DEF Spot, Offered
<1>3. CASE x = s
  <2>1. Rest(inbox[s], inbox'[s]) /\ Handles(shard[s], inbox[s][1], s, shard'[s])
    BY DEF Taking
  <2>2. 1 \in DOMAIN inbox[s] /\ \A i \in DOMAIN inbox'[s] : i + 1 \in DOMAIN inbox[s] /\ inbox'[s][i] = inbox[s][i + 1]
    BY <2>1, RestOf
  <2>3. CASE Offered(s, p)'
    BY <1>3, <2>2, <2>3 DEF Spot, Offered
  <2>4. ASSUME NEW leg \in {"pub", "sub"}, <<p, leg>> \in DOMAIN shard'[s].legs PROVE Spot(p, s)
    <3>1. \/ <<p, leg>> \in DOMAIN shard[s].legs
          \/ IsOffer(inbox[s][1]) /\ <<p, leg>>[1] = inbox[s][1].name
      BY <2>1, <2>4 DEF Handles, IsOffer
    <3> QED
      BY <2>2, <3>1 DEF Spot, Offered
  <2> QED
    BY <1>1, <1>3, <2>3, <2>4 DEF Spot
<1> QED
  BY <1>2, <1>3

LEMMA SpotsRouting ==
  ASSUME SpeakersInv, QueuesHaveRoom', Routes
  PROVE  SpotsKeep /\ LaterEvents
<1>1. UNCHANGED <<phase, room, shard>> /\ (RouterTakes \/ FlushOffers) /\ PlaneTypeOK
  BY DEF Routes, RouterNext, shardVars, SpeakersInv
<1>2. ASSUME NEW k, Silent(k) PROVE SpotsKeep
  BY <1>1, <1>2, SilentIsQuiet, SpotsQuiet
<1>3. ASSUME NEW r, Spreading(r) PROVE SpotsKeep
  BY <1>1, <1>3, SpreadingIsQuiet, SpotsQuiet
<1>4. CASE RouterTakes
  <2>1. \/ Joining(ctl[1]) \/ Leaving(ctl[1])
        \/ \E r : Spreading(r)
        \/ \E k : Silent(k)
    BY <1>1, <1>4, EventsAre
  <2>2. SpotsKeep
    BY <1>1, <1>2, <1>3, <2>1, SpotsJoining, SpotsLeaving
  <2> QED
    BY <1>1, <1>4, <2>2, TakenLater
<1>5. CASE FlushOffers
  <2>1. UNCHANGED ctl
    BY <1>5 DEF FlushOffers
  <2> QED
    BY <1>1, <1>2, <1>5, <2>1, FlushIsSilent, SameLater
<1> QED
  BY <1>1, <1>4, <1>5

\* Nobody gets a second spot, and who is no newcomer never is one again.
LEMMA SpotsNext ==
  ASSUME SpeakersInv, QueuesHaveRoom', [PlaneNext]_planeVars
  PROVE  SpotsKeep /\ LaterEvents
<1>0. PlaneTypeOK
  BY DEF SpeakersInv
<1>1. ASSUME NEW k, Silent(k) PROVE SpotsKeep
  BY <1>0, <1>1, SilentIsQuiet, SpotsQuiet
<1>2. CASE Sends
  BY <1>1, <1>2, SendsLater, SendsSilent
<1>3. CASE Routes
  BY <1>3, SpotsRouting
<1>4. CASE MergesSpeakers
  <2>1. UNCHANGED <<ctl, tableVars, phase, room, shard>> /\ \E elapsed : Merge(elapsed)
    BY <1>4 DEF MergesSpeakers, shardVars
  <2>2. \E k : Silent(k)
    BY <2>1, MergeIsSilent
  <2> QED
    BY <1>1, <2>1, <2>2, SameLater
<1>5. ASSUME SameControl PROVE SpotsKeep /\ LaterEvents
  <2>1. UNCHANGED <<ctl, phase, room>>
    BY <1>5 DEF SameControl, routerVars
  <2> QED
    BY <1>5, <2>1, SpotsSame, SameLater
<1>6. ASSUME NEW s \in Shards, Taking(s) PROVE SpotsKeep /\ LaterEvents
  <2>1. UNCHANGED <<ctl, phase, room>>
    BY <1>6 DEF Taking
  <2> QED
    BY <1>6, <2>1, SpotsTaking, SameLater
<1>7. CASE ShardSteps
  BY <1>0, <1>5, <1>6, <1>7, TakingIs, ForwardedSame DEF ShardSteps
<1>8. CASE Browsers
  BY <1>0, <1>5, <1>8, BrowsersSame
<1>9. CASE UNCHANGED planeVars
  <2>1. UNCHANGED <<routerVars, phase, room, shard>>
    BY <1>9 DEF planeVars, shardVars
  <2>2. SameControl
    BY <1>0, <2>1, SameTablesSelf DEF SameControl
  <2> QED
    BY <1>5, <2>2
<1> QED
  BY <1>2, <1>3, <1>4, <1>7, <1>8, <1>9 DEF PlaneNext

LEMMA OneSpotNext ==
  ASSUME SpeakersInv, LegsAreOwned, OneSpot, SpotsKeep
  PROVE  OneSpot'
<1> SUFFICES ASSUME NEW p \in Participants, NEW s1 \in Shards, NEW s2 \in Shards, Spot(p, s1)', Spot(p, s2)'
             PROVE  s1 = s2
  BY DEF OneSpot
<1>1. CASE Spot(p, s1) /\ Spot(p, s2)
  BY <1>1 DEF OneSpot
<1>2. CASE ~(Spot(p, s1) /\ Spot(p, s2))
  <2>1. Newcomer(p)
    BY <1>2 DEF SpotsKeep
  <2>2. SeatedAt(p, s1)' /\ SeatedAt(p, s2)'
    BY <2>1, NowhereYet DEF SpotsKeep
  <2> QED
    BY <2>2 DEF SeatedAt
<1> QED
  BY <1>1, <1>2

-----------------------------------------------------------------------------
(* Posts and the rings they travel in *)

\* Receivers, as a function of the shard.
Gets(sh, m) ==
  CASE m.t = "media" ->
         IF m.room \notin DOMAIN sh.rooms THEN {}
         ELSE {q \in UNION {At(sh.rooms[m.room].fan, m.pid, [k \in Kinds |-> {}])[kind] : kind \in m.kinds} :
                 At(sh.legs, <<q, "sub">>, "none") = "up"}
    [] m.t = "pliAll" ->
         IF m.room \notin DOMAIN sh.rooms THEN {}
         ELSE {q \in DOMAIN sh.rooms[m.room].locals :
                 /\ sh.rooms[m.room].pids[q] # m.pid
                 /\ sh.rooms[m.room].locals[q].ssrcs # Nothing
                 /\ At(sh.legs, <<q, "pub">>, "none") = "up"}
    [] m.t = "back" ->
         IF /\ m.room \in DOMAIN sh.rooms /\ m.owner \in DOMAIN sh.rooms[m.room].locals
            /\ m.line \in DOMAIN sh.rooms[m.room].locals[m.owner].ssrcs
            /\ At(sh.legs, <<m.owner, "pub">>, "none") = "up"
         THEN {m.owner} ELSE {}
    [] OTHER -> {}

Forwards == {"media", "pliAll", "back"}

LEMMA ReceiversGet ==
  ASSUME NEW s, NEW m, m.t \in Forwards
  PROVE  Receivers(s, m) = Gets(shard[s], m)
BY DEF Receivers, Gets, FanOut, Covered, Nudged, Owner, Forwards

LEMMA GetsHere ==
  ASSUME PlaneTypeOK, NEW s \in Shards, NEW m, m.t \in Forwards, NEW q \in Gets(shard[s], m)
  PROVE  q \in Participants /\ Spot(q, s)
<1>1. \E leg \in {"pub", "sub"} : At(shard[s].legs, <<q, leg>>, "none") = "up"
  <2>1. CASE m.t = "media"
    BY <2>1 DEF Gets
  <2>2. CASE m.t = "pliAll"
    BY <2>2 DEF Gets
  <2>3. CASE m.t = "back"
    BY <2>3 DEF Gets
  <2> QED
    BY <2>1, <2>2, <2>3 DEF Forwards
<1>2. PICK leg \in {"pub", "sub"} : <<q, leg>> \in DOMAIN shard[s].legs
  BY <1>1 DEF At
<1>3. <<q, leg>> \in Participants \X {"pub", "sub"}
  BY <1>2 DEF PlaneTypeOK, IsShard
<1> QED
  BY <1>2, <1>3 DEF Spot

Carries(s, n) == \E i \in DOMAIN ring[s] : ring[s][i].n = n

Travelling(q, posts) ==
  /\ IsQueue(q)
  /\ \A i \in DOMAIN q : q[i].t \in Forwards /\ q[i].n \in posts
  /\ \A i, j \in DOMAIN q : q[i].n = q[j].n => i = j

RingsTypeOK == DOMAIN ring = Shards /\ \A s \in Shards : Travelling(ring[s], DOMAIN post)

IsPost(x) ==
  /\ x = [from |-> x.from, due |-> x.due, calm |-> x.calm, got |-> x.got]
  /\ x.from \in Participants /\ x.due \subseteq Participants /\ x.calm \in BOOLEAN
  /\ x.got \in [Participants -> Nat]

PostsTypeOK == IsFiniteSet(DOMAIN post) /\ \A n \in DOMAIN post : IsPost(post[n])

\* Whoever has got a post, or sent it, has no leg where it is still to come.
PostsOnce ==
  \A n \in DOMAIN post : \A q \in Participants :
    /\ post[n].got[q] <= IF q = post[n].from THEN 0 ELSE 1
    /\ post[n].got[q] = 1 \/ q = post[n].from =>
         ~Newcomer(q) /\ \A s \in Shards : Carries(s, n) => ~Spot(q, s)

Pending(q, n) == \E s \in Shards : \E i \in DOMAIN ring[s] : ring[s][i].n = n /\ q \in Gets(shard[s], ring[s][i])

\* While nothing changes, a post has reached, or will reach, those it is for.
CalmArrives ==
  \A n \in DOMAIN post : post[n].calm =>
    \A q \in Participants : q \in post[n].due <=> post[n].got[q] = 1 \/ Pending(q, n)

PostsInv == OneSpot /\ RingsTypeOK /\ PostsTypeOK /\ PostsOnce /\ CalmArrives

-----------------------------------------------------------------------------
(* What steps do to posts *)

Still == \A s \in Shards : \A e : Gets(shard'[s], e) = Gets(shard[s], e)

\* A post that is none of the step's business.
Rests(old, new) ==
  /\ IsPost(new) /\ new.from = old.from /\ new.due = old.due /\ new.got = old.got
  /\ new.calm => old.calm /\ Still

Kept ==
  /\ DOMAIN ring' = Shards /\ \A s \in Shards : ring'[s] = ring[s]
  /\ DOMAIN post' \subseteq DOMAIN post /\ Open \subseteq DOMAIN post'
  /\ \A n \in DOMAIN post' : Rests(post[n], post'[n])

\* A new post of p from shard s, that gets to now at once and to others from
\* the rings of js.
Posted(p, s, due, now, js, m) ==
  /\ p \in Participants /\ s \in Shards /\ now \subseteq Participants
  /\ Spot(p, s) /\ s \notin js /\ p \notin now /\ \A q \in now : Spot(q, s)
  /\ m.t \in Forwards /\ m.n \notin Open
  /\ ring' = Pushed(js, m)
  /\ DOMAIN post' = Open \cup {m.n}
  /\ \A n \in Open : Rests(post[n], post'[n])
  /\ IsPost(post'[m.n]) /\ post'[m.n].from = p /\ post'[m.n].due = due
  /\ \A q \in Participants : post'[m.n].got[q] = IF q \in now THEN 1 ELSE 0
  /\ post'[m.n].calm =>
       /\ ~Lost(js)
       /\ \A q \in Participants :
            q \in due <=> q \in now \/ \E x \in Shards \cap js : q \in Gets(shard'[x], m)

LEMMA OpenIs == ASSUME RingsTypeOK PROVE \A n : n \in Open <=> \E s \in Shards : Carries(s, n)
BY DEF RingsTypeOK, Travelling, Open, Travels, Carries

LEMMA Blocked ==
  ASSUME SpotsKeep, LaterEvents, NEW q \in Participants, ~Newcomer(q)
  PROVE  ~Newcomer(q)' /\ \A s \in Shards : ~Spot(q, s) => ~Spot(q, s)'
BY DEF SpotsKeep, LaterEvents

LEMMA KeptPosts ==
  ASSUME RingsTypeOK, PostsTypeOK, PostsOnce, CalmArrives, SpotsKeep, LaterEvents, Kept
  PROVE  RingsTypeOK' /\ PostsTypeOK' /\ PostsOnce' /\ CalmArrives'
<1>1. \A s \in Shards : ring'[s] = ring[s] /\ \A n : Carries(s, n)' <=> Carries(s, n)
  BY DEF Kept, Carries
<1>2. RingsTypeOK'
  <2>1. ASSUME NEW s \in Shards, NEW i \in DOMAIN ring[s] PROVE ring[s][i].n \in DOMAIN post'
    BY <2>1, OpenIs DEF Carries, Kept
  <2>2. \A s \in Shards : Travelling(ring'[s], DOMAIN post')
    BY <1>1, <2>1 DEF RingsTypeOK, Travelling
  <2> QED
    BY <2>2 DEF Kept, RingsTypeOK
<1>3. PostsTypeOK'
  <2>1. IsFiniteSet(DOMAIN post')
    BY FS_Subset DEF Kept, PostsTypeOK
  <2> QED
    BY <2>1 DEF Kept, Rests, PostsTypeOK
<1>4. PostsOnce'
  <2> SUFFICES ASSUME NEW n \in DOMAIN post', NEW q \in Participants
               PROVE  /\ post'[n].got[q] <= IF q = post'[n].from THEN 0 ELSE 1
                      /\ post'[n].got[q] = 1 \/ q = post'[n].from =>
                           ~Newcomer(q)' /\ \A s \in Shards : Carries(s, n)' => ~Spot(q, s)'
    BY DEF PostsOnce
  <2>1. n \in DOMAIN post /\ post'[n].got = post[n].got /\ post'[n].from = post[n].from
    BY DEF Kept, Rests
  <2> QED
    BY <1>1, <2>1, Blocked DEF PostsOnce
<1>5. CalmArrives'
  <2> SUFFICES ASSUME NEW n \in DOMAIN post', post'[n].calm, NEW q \in Participants
               PROVE  q \in post'[n].due <=> post'[n].got[q] = 1 \/ Pending(q, n)'
    BY DEF CalmArrives
  <2>1. /\ n \in DOMAIN post /\ post'[n].got = post[n].got /\ post'[n].due = post[n].due
        /\ post[n].calm /\ Still
    BY DEF Kept, Rests
  <2>2. Pending(q, n)' <=> Pending(q, n)
    BY <1>1, <2>1 DEF Pending, Still
  <2> QED
    BY <2>1, <2>2 DEF CalmArrives
<1> QED
  BY <1>2, <1>3, <1>4, <1>5

LEMMA AppendIs ==
  ASSUME NEW q, IsQueue(q), NEW e
  PROVE  /\ IsQueue(Append(q, e)) /\ Len(q) \in Nat
         /\ DOMAIN q = 1 .. Len(q) /\ DOMAIN Append(q, e) = 1 .. (Len(q) + 1)
         /\ \A i \in DOMAIN q : Append(q, e)[i] = q[i]
         /\ Append(q, e)[Len(q) + 1] = e
<1> DEFINE S == Range(q) \cup {e}
           w == Append(q, e)
<1>1. q \in Seq(S) /\ e \in S
  BY DEF IsQueue
<1>2. /\ w \in Seq(S) /\ Len(w) = Len(q) + 1 /\ Len(q) \in Nat
      /\ DOMAIN q = 1 .. Len(q) /\ DOMAIN w = 1 .. (Len(q) + 1)
      /\ \A i \in 1 .. Len(q) : w[i] = q[i]
      /\ w[Len(q) + 1] = e
  <2> HIDE DEF S
  <2> QED
    BY <1>1
<1>3. IsQueue(w)
  <2> HIDE DEF w, S
  <2>1. w \in [1 .. Len(w) -> S] /\ Len(w) \in Nat
    BY <1>2
  <2>2. w \in [1 .. Len(w) -> Range(w)]
    BY <2>1 DEF Range
  <2>3. w \in Seq(Range(w))
    BY <2>1, <2>2
  <2> QED
    BY <2>3 DEF IsQueue
<1> QED
  BY <1>2, <1>3

\* What a ring is when a packet was pushed.
Grown(q, m, Q) ==
  /\ IsQueue(Q) /\ Len(q) \in Nat
  /\ DOMAIN q = 1 .. Len(q) /\ DOMAIN Q = 1 .. (Len(q) + 1)
  /\ \A i \in DOMAIN q : Q[i] = q[i]
  /\ Q[Len(q) + 1] = m

LEMMA PushedIs ==
  ASSUME RingsTypeOK, NEW js, NEW m, ring' = Pushed(js, m)
  PROVE  /\ DOMAIN ring' = Shards
         /\ \A x \in Shards : ring'[x] = ring[x] \/ (x \in js /\ Grown(ring[x], m, ring'[x]))
         /\ ~Lost(js) => \A x \in Shards \cap js : Grown(ring[x], m, ring'[x])
<1>1. DOMAIN ring' = Shards
      /\ \A x \in Shards : ring'[x] = IF x \in js /\ Len(ring[x]) < RingCap THEN Append(ring[x], m) ELSE ring[x]
  BY DEF Pushed
<1>2. \A x \in Shards : IsQueue(ring[x])
  BY DEF RingsTypeOK, Travelling
<1>3. ASSUME NEW x \in Shards, ring'[x] = Append(ring[x], m) PROVE Grown(ring[x], m, ring'[x])
  BY <1>2, <1>3, AppendIs DEF Grown
<1>4. ASSUME NEW x \in Shards \cap js, ~Lost(js) PROVE Len(ring[x]) < RingCap
  <2>1. Len(ring[x]) \in Nat /\ RingCap \in Nat
    BY <1>2, AppendIs, PlaneAssumption
  <2>2. ~(Len(ring[x]) >= RingCap)
    BY <1>4 DEF Lost
  <2> QED
    BY <2>1, <2>2
<1> QED
  BY <1>1, <1>3, <1>4

LEMMA GrownParts ==
  ASSUME NEW q, NEW m, NEW Q, Grown(q, m, Q)
  PROVE  /\ \A i \in DOMAIN Q : (i \in DOMAIN q /\ Q[i] = q[i]) \/ (i = Len(q) + 1 /\ Q[i] = m)
         /\ \A i \in DOMAIN q : i \in DOMAIN Q /\ Q[i] = q[i]
         /\ Len(q) + 1 \in DOMAIN Q /\ Q[Len(q) + 1] = m
<1>1. /\ Len(q) \in Nat /\ DOMAIN q = 1 .. Len(q) /\ DOMAIN Q = 1 .. (Len(q) + 1)
      /\ \A i \in DOMAIN q : Q[i] = q[i]
      /\ Q[Len(q) + 1] = m
  BY DEF Grown
<1>2. \A i \in 1 .. (Len(q) + 1) : i \in 1 .. Len(q) \/ i = Len(q) + 1
  BY <1>1
<1>3. Len(q) + 1 \in 1 .. (Len(q) + 1) /\ \A i \in 1 .. Len(q) : i \in 1 .. (Len(q) + 1)
  BY <1>1
<1> QED
  BY <1>1, <1>2, <1>3

LEMMA PostedCarries ==
  ASSUME RingsTypeOK, NEW js, NEW m, m.n \notin Open, ring' = Pushed(js, m)
  PROVE  \A x \in Shards :
           /\ \A n : n # m.n => (Carries(x, n)' <=> Carries(x, n))
           /\ Carries(x, m.n)' => x \in js
<1> SUFFICES ASSUME NEW x \in Shards
             PROVE  /\ \A n : n # m.n => (Carries(x, n)' <=> Carries(x, n))
                    /\ Carries(x, m.n)' => x \in js
  OBVIOUS
<1>1. ~Carries(x, m.n)
  BY OpenIs
<1>2. CASE ring'[x] = ring[x]
  BY <1>1, <1>2 DEF Carries
<1>3. CASE x \in js /\ Grown(ring[x], m, ring'[x])
  BY <1>3, GrownParts DEF Carries
<1> QED
  BY <1>2, <1>3, PushedIs

LEMMA PostedRings ==
  ASSUME RingsTypeOK, NEW js, NEW m, m.n \notin Open, m.t \in Forwards, ring' = Pushed(js, m),
         DOMAIN post' = Open \cup {m.n}
  PROVE  RingsTypeOK'
<1> SUFFICES ASSUME NEW x \in Shards PROVE Travelling(ring'[x], DOMAIN post')
  BY PushedIs DEF RingsTypeOK
<1>1. /\ IsQueue(ring[x])
      /\ \A i \in DOMAIN ring[x] : ring[x][i].t \in Forwards /\ ring[x][i].n \in Open
      /\ \A i, j \in DOMAIN ring[x] : ring[x][i].n = ring[x][j].n => i = j
  BY OpenIs DEF RingsTypeOK, Travelling, Carries
<1>2. CASE ring'[x] = ring[x]
  BY <1>1, <1>2 DEF Travelling
<1>3. CASE Grown(ring[x], m, ring'[x])
  <2>1. \A i \in DOMAIN ring'[x] : ring'[x][i].t \in Forwards /\ ring'[x][i].n \in DOMAIN post'
    BY <1>1, <1>3, GrownParts
  <2>2. ASSUME NEW i \in DOMAIN ring'[x], NEW j \in DOMAIN ring'[x], ring'[x][i].n = ring'[x][j].n
        PROVE  i = j
    <3>1. \/ i \in DOMAIN ring[x] /\ ring'[x][i] = ring[x][i]
          \/ i = Len(ring[x]) + 1 /\ ring'[x][i] = m
      BY <1>3, GrownParts
    <3>2. \/ j \in DOMAIN ring[x] /\ ring'[x][j] = ring[x][j]
          \/ j = Len(ring[x]) + 1 /\ ring'[x][j] = m
      BY <1>3, GrownParts
    <3> QED
      BY <1>1, <2>2, <3>1, <3>2
  <2>3. IsQueue(ring'[x])
    BY <1>3 DEF Grown
  <2> QED
    BY <2>1, <2>2, <2>3 DEF Travelling
<1> QED
  BY <1>2, <1>3, PushedIs

LEMMA PostedPosts ==
  ASSUME SpeakersInv, LegsAreOwned, OneSpot, RingsTypeOK, PostsTypeOK, PostsOnce, CalmArrives,
         SpotsKeep, LaterEvents,
         NEW p, NEW s, NEW due, NEW now, NEW js, NEW m, Posted(p, s, due, now, js, m)
  PROVE  RingsTypeOK' /\ PostsTypeOK' /\ PostsOnce' /\ CalmArrives'
<1>0. /\ p \in Participants /\ s \in Shards /\ now \subseteq Participants
      /\ Spot(p, s) /\ s \notin js /\ p \notin now /\ \A q \in now : Spot(q, s)
      /\ m.t \in Forwards /\ m.n \notin Open
      /\ ring' = Pushed(js, m)
      /\ DOMAIN post' = Open \cup {m.n}
      /\ \A n \in Open : Rests(post[n], post'[n])
      /\ IsPost(post'[m.n]) /\ post'[m.n].from = p /\ post'[m.n].due = due
      /\ \A q \in Participants : post'[m.n].got[q] = IF q \in now THEN 1 ELSE 0
      /\ post'[m.n].calm =>
           /\ ~Lost(js)
           /\ \A q \in Participants :
                q \in due <=> q \in now \/ \E x \in Shards \cap js : q \in Gets(shard'[x], m)
  BY DEF Posted
<1>1. \A x \in Shards : /\ \A n : n # m.n => (Carries(x, n)' <=> Carries(x, n))
                        /\ Carries(x, m.n)' => x \in js
  BY <1>0, PostedCarries
<1>2. RingsTypeOK'
  BY <1>0, PostedRings
<1>3. Open \subseteq DOMAIN post
  BY DEF Open
<1>4. PostsTypeOK'
  <2>1. IsFiniteSet(Open \cup {m.n})
    BY <1>3, FS_Subset, FS_AddElement DEF PostsTypeOK
  <2> QED
    BY <1>0, <2>1 DEF Rests, PostsTypeOK
<1>5. PostsOnce'
  <2> SUFFICES ASSUME NEW n \in DOMAIN post', NEW q \in Participants
               PROVE  /\ post'[n].got[q] <= IF q = post'[n].from THEN 0 ELSE 1
                      /\ post'[n].got[q] = 1 \/ q = post'[n].from =>
                           ~Newcomer(q)' /\ \A x \in Shards : Carries(x, n)' => ~Spot(q, x)'
    BY DEF PostsOnce
  <2>1. CASE n \in Open
    <3>1. n \in DOMAIN post /\ post'[n].got = post[n].got /\ post'[n].from = post[n].from /\ n # m.n
      BY <1>0, <1>3, <2>1 DEF Rests
    <3> QED
      BY <1>1, <3>1, Blocked DEF PostsOnce
  <2>2. CASE n = m.n
    <3>1. post'[n].got[q] = (IF q \in now THEN 1 ELSE 0) /\ post'[n].from = p
      BY <1>0, <2>2
    <3>2. post'[n].got[q] = 1 \/ q = post'[n].from => Spot(q, s)
      BY <1>0, <3>1
    <3>3. ASSUME Spot(q, s) PROVE ~Newcomer(q)' /\ \A x \in Shards : Carries(x, n)' => ~Spot(q, x)'
      <4>1. ~Newcomer(q)
        BY <1>0, <3>3, NowhereYet
      <4>2. \A x \in Shards : x # s => ~Spot(q, x)
        BY <1>0, <3>3 DEF OneSpot
      <4> QED
        BY <1>0, <1>1, <2>2, <4>1, <4>2, Blocked
    <3> QED
      BY <1>0, <3>1, <3>2, <3>3
  <2> QED
    BY <1>0, <2>1, <2>2
<1>6. CalmArrives'
  <2> SUFFICES ASSUME NEW n \in DOMAIN post', post'[n].calm, NEW q \in Participants
               PROVE  q \in post'[n].due <=> post'[n].got[q] = 1 \/ Pending(q, n)'
    BY DEF CalmArrives
  <2>1. CASE n \in Open
    <3>1. /\ n \in DOMAIN post /\ post'[n].got = post[n].got /\ post'[n].due = post[n].due
          /\ post[n].calm /\ Still /\ n # m.n
      BY <1>0, <1>3, <2>1 DEF Rests
    <3>2. ASSUME NEW x \in Shards
          PROVE  (\E i \in DOMAIN ring'[x] : ring'[x][i].n = n /\ q \in Gets(shard'[x], ring'[x][i]))
                   <=> \E i \in DOMAIN ring[x] : ring[x][i].n = n /\ q \in Gets(shard[x], ring[x][i])
      <4>1. \A e : Gets(shard'[x], e) = Gets(shard[x], e)
        BY <3>1 DEF Still
      <4>2. CASE ring'[x] = ring[x]
        BY <4>1, <4>2
      <4>3. CASE Grown(ring[x], m, ring'[x])
        BY <3>1, <4>1, <4>3, GrownParts
      <4> QED
        BY <1>0, <4>2, <4>3, PushedIs
    <3>3. Pending(q, n)' <=> Pending(q, n)
      BY <3>2 DEF Pending
    <3> QED
      BY <3>1, <3>3 DEF CalmArrives
  <2>2. CASE n = m.n
    <3>1. \A x \in Shards \cap js : Grown(ring[x], m, ring'[x])
      BY <1>0, <2>2, PushedIs
    <3>2. ASSUME NEW x \in Shards, NEW i \in DOMAIN ring'[x], ring'[x][i].n = n
          PROVE  x \in js /\ ring'[x][i] = m
      <4>1. x \in js
        BY <1>1, <2>2, <3>2 DEF Carries
      <4>2. i \in DOMAIN ring[x] => ring[x][i].n # n
        BY <1>0, <2>2, OpenIs DEF Carries
      <4> QED
        BY <3>1, <3>2, <4>1, <4>2, GrownParts
    <3>3. Pending(q, n)' <=> \E x \in Shards \cap js : q \in Gets(shard'[x], m)
      <4>1. ASSUME NEW x \in Shards \cap js, q \in Gets(shard'[x], m) PROVE Pending(q, n)'
        <5>1. Len(ring[x]) + 1 \in DOMAIN ring'[x] /\ ring'[x][Len(ring[x]) + 1] = m
          BY <3>1, GrownParts
        <5> QED
          BY <2>2, <4>1, <5>1 DEF Pending
      <4> QED
        BY <3>2, <4>1 DEF Pending
    <3>4. post'[n].got[q] = 1 <=> q \in now
      BY <1>0, <2>2
    <3> QED
      BY <1>0, <2>2, <3>3, <3>4
  <2> QED
    BY <1>0, <2>1, <2>2
<1> QED
  BY <1>2, <1>4, <1>5, <1>6

\* Shard s takes what is first in its ring.
LEMMA ForwardedPosts ==
  ASSUME SpeakersInv, LegsAreOwned, OneSpot, RingsTypeOK, PostsTypeOK, PostsOnce, CalmArrives,
         SpotsKeep, LaterEvents, NEW s \in Shards, OnForwarded(s)
  PROVE  RingsTypeOK' /\ PostsTypeOK' /\ PostsOnce' /\ CalmArrives'
<1> DEFINE m == ring[s][1]
           k == m.n
           taken == Gets(shard[s], m)
<1>0. PlaneTypeOK
  BY DEF SpeakersInv
<1>1. /\ \A x \in Shards : /\ IsQueue(ring[x])
                           /\ \A i \in DOMAIN ring[x] : ring[x][i].t \in Forwards /\ ring[x][i].n \in DOMAIN post
                           /\ \A i, j \in DOMAIN ring[x] : ring[x][i].n = ring[x][j].n => i = j
      /\ DOMAIN ring = Shards
  BY DEF RingsTypeOK, Travelling
<1>2. /\ ring[s] # <<>> /\ ring' = [ring EXCEPT ![s] = Tail(@)] /\ shard' = shard
      /\ post' = [post EXCEPT ![k] = Reached(@, taken)]
  <2>1. ring[s] # <<>> /\ Head(ring[s]) = m
    BY <1>1, QueueTail DEF OnForwarded
  <2>2. m.t \in Forwards
    BY <1>1, <2>1, QueueTail
  <2> QED
    BY <2>1, <2>2, ReceiversGet DEF OnForwarded
<1>3. Rest(ring[s], ring'[s]) /\ \A x \in Shards : x # s => ring'[x] = ring[x]
  BY <1>1, <1>2, QueueTail DEF Rest
<1>4. /\ 1 \in DOMAIN ring[s]
      /\ \A i \in DOMAIN ring'[s] : i + 1 \in DOMAIN ring[s] /\ ring'[s][i] = ring[s][i + 1] /\ i + 1 # 1
      /\ \A j \in DOMAIN ring[s] : j # 1 => j - 1 \in DOMAIN ring'[s] /\ ring'[s][j - 1] = ring[s][j]
  BY <1>3, RestOf
<1>5. m.t \in Forwards /\ k \in DOMAIN post /\ Carries(s, k)
  BY <1>1, <1>4 DEF Carries
<1>6. taken \subseteq Participants /\ \A q \in taken : Spot(q, s)
  BY <1>0, <1>5, GetsHere
<1>12. ring[s][1].n = k /\ taken = Gets(shard[s], ring[s][1])
  OBVIOUS
<1> HIDE DEF m, k, taken
<1>7. /\ DOMAIN post' = DOMAIN post
      /\ \A n \in DOMAIN post : n # k => post'[n] = post[n]
      /\ post'[k] = [post[k] EXCEPT !.got = [q \in Participants |-> IF q \in taken THEN @[q] + 1 ELSE @[q]]]
  BY <1>2, <1>5 DEF Reached
<1>8. /\ post'[k].from = post[k].from /\ post'[k].due = post[k].due /\ post'[k].calm = post[k].calm
      /\ \A q \in Participants : post'[k].got[q] = IF q \in taken THEN post[k].got[q] + 1 ELSE post[k].got[q]
      /\ post'[k].got \in [Participants -> Nat] /\ IsPost(post'[k])
  <2> DEFINE got == [q \in Participants |-> IF q \in taken THEN post[k].got[q] + 1 ELSE post[k].got[q]]
  <2>1. IsPost(post[k])
    BY <1>5 DEF PostsTypeOK
  <2>2. got \in [Participants -> Nat]
    BY <2>1 DEF IsPost
  <2>3. post'[k] = [from |-> post[k].from, due |-> post[k].due, calm |-> post[k].calm, got |-> got]
    BY <1>7, <2>1 DEF IsPost
  <2>4. \A q \in Participants : got[q] = IF q \in taken THEN post[k].got[q] + 1 ELSE post[k].got[q]
    OBVIOUS
  <2> HIDE DEF got
  <2> QED
    BY <2>1, <2>2, <2>3, <2>4 DEF IsPost
<1>9. \A x \in Shards : \A n : Carries(x, n)' => Carries(x, n)
  <2>1. \A n : Carries(s, n)' => Carries(s, n)
    BY <1>4 DEF Carries
  <2> QED
    BY <1>3, <2>1 DEF Carries
<1>10. \A n : n = k => ~Carries(s, n)'
  <2>1. \A i, j \in DOMAIN ring[s] : ring[s][i].n = ring[s][j].n => i = j
    BY <1>1
  <2>2. ASSUME NEW i \in DOMAIN ring'[s] PROVE ring'[s][i].n # k
    <3>1. i + 1 \in DOMAIN ring[s] /\ ring'[s][i] = ring[s][i + 1] /\ i + 1 # 1
      BY <1>4
    <3>2. ring[s][i + 1].n # ring[s][1].n
      BY ONLY <1>4, <2>1, <3>1
    <3> QED
      BY ONLY <1>12, <3>1, <3>2
  <2> QED
    BY <2>2 DEF Carries
<1>11. ASSUME NEW q \in taken
       PROVE  /\ q # post[k].from /\ post[k].got[q] = 0
              /\ ~Newcomer(q) /\ \A x \in Shards : x # s => ~Spot(q, x)
  <2>1. q \in Participants /\ Spot(q, s)
    BY <1>6
  <2>2. q # post[k].from /\ post[k].got[q] # 1 /\ post[k].got[q] <= 1
    BY <1>5, <2>1 DEF PostsOnce
  <2>3. post[k].got[q] \in Nat
    BY <1>5, <2>1 DEF PostsTypeOK, IsPost
  <2> QED
    BY <2>1, <2>2, <2>3, NowhereYet DEF OneSpot
<1>13. RingsTypeOK'
  <2>1. Travelling(ring'[s], DOMAIN post)
    <3>1. ASSUME NEW i \in DOMAIN ring'[s], NEW j \in DOMAIN ring'[s], ring'[s][i].n = ring'[s][j].n
          PROVE  i = j
      <4>1. i + 1 = j + 1
        BY <1>1, <1>4, <3>1
      <4> QED
        BY <1>3, <4>1 DEF Rest
    <3>2. \A i \in DOMAIN ring'[s] : ring'[s][i].t \in Forwards /\ ring'[s][i].n \in DOMAIN post
      BY <1>1, <1>4
    <3>3. IsQueue(ring'[s])
      BY <1>3 DEF Rest
    <3> QED
      BY ONLY <3>1, <3>2, <3>3 DEF Travelling
  <2>2. DOMAIN ring' = Shards
    BY <1>1, <1>2
  <2> QED
    BY <1>3, <1>7, <2>1, <2>2 DEF RingsTypeOK
<1>14. PostsTypeOK'
  BY <1>7, <1>8 DEF PostsTypeOK
<1>15. PostsOnce'
  <2> SUFFICES ASSUME NEW n \in DOMAIN post', NEW q \in Participants
               PROVE  /\ post'[n].got[q] <= IF q = post'[n].from THEN 0 ELSE 1
                      /\ post'[n].got[q] = 1 \/ q = post'[n].from =>
                           ~Newcomer(q)' /\ \A x \in Shards : Carries(x, n)' => ~Spot(q, x)'
    BY DEF PostsOnce
  <2>1. CASE n = k /\ q \in taken
    <3>1. post'[n].got[q] = 1 /\ q # post'[n].from
      BY <1>8, <1>11, <2>1
    <3>2. ~Newcomer(q) /\ \A x \in Shards : x # s => ~Spot(q, x)
      BY <1>11, <2>1
    <3>3. ~Newcomer(q)' /\ \A x \in Shards : x # s => ~Spot(q, x)'
      BY <3>2, Blocked
    <3>4. \A x \in Shards : Carries(x, n)' => x # s
      BY <1>10, <2>1
    <3> QED
      BY <3>1, <3>3, <3>4
  <2>2. CASE ~(n = k /\ q \in taken)
    <3>1. n \in DOMAIN post /\ post'[n].got[q] = post[n].got[q] /\ post'[n].from = post[n].from
      BY <1>7, <1>8, <2>2
    <3> QED
      BY <1>9, <3>1, Blocked DEF PostsOnce
  <2> QED
    BY <2>1, <2>2
<1>16. \A q : \A n \in DOMAIN post : Pending(q, n) <=> Pending(q, n)' \/ (n = k /\ q \in taken)
  <2> SUFFICES ASSUME NEW q, NEW n \in DOMAIN post
               PROVE  Pending(q, n) <=> Pending(q, n)' \/ (n = k /\ q \in taken)
    OBVIOUS
  <2> DEFINE at(x) == \E i \in DOMAIN ring[x] : ring[x][i].n = n /\ q \in Gets(shard[x], ring[x][i])
             then(x) == \E i \in DOMAIN ring'[x] : ring'[x][i].n = n /\ q \in Gets(shard'[x], ring'[x][i])
  <2>1. \A x \in Shards : x # s => (then(x) <=> at(x))
    BY <1>2, <1>3
  <2>2. at(s) <=> then(s) \/ (n = k /\ q \in taken)
    BY <1>2, <1>4, <1>12
  <2>3. (Pending(q, n) <=> \E x \in Shards : at(x)) /\ (Pending(q, n)' <=> \E x \in Shards : then(x))
    BY DEF Pending
  <2> HIDE DEF at, then
  <2> QED
    BY <2>1, <2>2, <2>3
<1>17. CalmArrives'
  <2> SUFFICES ASSUME NEW n \in DOMAIN post', post'[n].calm, NEW q \in Participants
               PROVE  q \in post'[n].due <=> post'[n].got[q] = 1 \/ Pending(q, n)'
    BY DEF CalmArrives
  <2>1. n \in DOMAIN post /\ post[n].calm /\ post'[n].due = post[n].due
    BY <1>7, <1>8
  <2>2. q \in post[n].due <=> post[n].got[q] = 1 \/ Pending(q, n)
    BY <2>1 DEF CalmArrives
  <2>3. CASE n = k /\ q \in taken
    BY <1>8, <1>11, <1>16, <2>1, <2>2, <2>3
  <2>4. CASE ~(n = k /\ q \in taken)
    <3>1. post'[n].got[q] = post[n].got[q]
      BY <1>7, <1>8, <2>1, <2>4
    <3> QED
      BY <1>16, <2>1, <2>2, <2>4, <3>1
  <2> QED
    BY <2>3, <2>4
<1> QED
  BY <1>13, <1>14, <1>15, <1>17

-----------------------------------------------------------------------------
(* The steps, one by one *)

LEMMA NumberIsNew == ASSUME PostsTypeOK PROVE Number \notin Open
<1>1. IsFiniteSet(Open)
  <2>1. Open \subseteq DOMAIN post
    BY DEF Open
  <2> QED
    BY <2>1, FS_Subset DEF PostsTypeOK
<1>2. PICK c : c = Cardinality(Open)
  OBVIOUS
<1>3. c \in Nat
  BY <1>1, <1>2, FS_CardinalityType
<1>4. \E n \in 1 .. (c + 1) : n \notin Open
  <2> SUFFICES ASSUME 1 .. (c + 1) \subseteq Open PROVE FALSE
    OBVIOUS
  <2>1. Cardinality(1 .. (c + 1)) = c + 1
    <3>1. 1 \in Int /\ c + 1 \in Int /\ 1 <= c + 1 /\ (c + 1) - 1 + 1 = c + 1
      BY <1>3
    <3> QED
      BY <3>1, FS_Interval
  <2>2. Cardinality(1 .. (c + 1)) <= c
    BY <1>1, <1>2, FS_Subset
  <2> QED
    BY <1>3, <2>1, <2>2
<1> QED
  BY <1>2, <1>4 DEF Number

\* What becomes of the posts that are still on their way.
LEMMA UpsetRests ==
  ASSUME PostsTypeOK, NEW c \in BOOLEAN, c \/ Still, NEW new,
         \A n \in Open : new[n] = [post[n] EXCEPT !.calm = @ /\ ~c]
  PROVE  \A n \in Open : Rests(post[n], new[n])
<1> SUFFICES ASSUME NEW n \in Open PROVE Rests(post[n], new[n])
  OBVIOUS
<1>1. IsPost(post[n])
  BY DEF Open, PostsTypeOK
<1>2. new[n] = [from |-> post[n].from, due |-> post[n].due, calm |-> post[n].calm /\ ~c, got |-> post[n].got]
  BY <1>1 DEF IsPost
<1> QED
  BY <1>1, <1>2 DEF IsPost, Rests

LEMMA DisturbedKept ==
  ASSUME RingsTypeOK, PostsTypeOK, ring' = ring, Disturbed
  PROVE  Kept
<1>1. post' = [n \in Open |-> [post[n] EXCEPT !.calm = @ /\ ~Here]]
  BY DEF Disturbed, Upset, Here
<1>2. \A n \in Open : post'[n] = [post[n] EXCEPT !.calm = @ /\ ~Here]
  BY <1>1
<1>3. Here \in BOOLEAN /\ Here
  BY DEF Here
<1>4. \A n \in Open : Rests(post[n], post'[n])
  BY <1>2, <1>3, UpsetRests
<1>5. DOMAIN post' = Open /\ Open \subseteq DOMAIN post /\ DOMAIN ring = Shards
  BY <1>1 DEF Open, RingsTypeOK
<1> QED
  BY <1>4, <1>5 DEF Kept

LEMMA StillKept ==
  ASSUME RingsTypeOK, PostsTypeOK, UNCHANGED <<ring, post>>, Still
  PROVE  Kept
<1>1. \A n \in DOMAIN post : Rests(post[n], post[n])
  BY DEF PostsTypeOK, IsPost, Rests
<1>2. Open \subseteq DOMAIN post /\ DOMAIN ring = Shards
  BY DEF Open, RingsTypeOK
<1> QED
  BY <1>1, <1>2 DEF Kept

LEMMA UnchangedStill == ASSUME shard' = shard PROVE Still
BY DEF Still

\* A new post, as far as its own shard is concerned.
Starts(p, s, due, now, js, m, c) ==
  /\ p \in Participants /\ s \in Shards /\ due \subseteq Participants /\ now \subseteq Participants
  /\ Spot(p, s) /\ s \notin js /\ p \notin now /\ \A q \in now : Spot(q, s)
  /\ m.t \in Forwards /\ m.n = Number
  /\ c \in BOOLEAN /\ (c \/ Still)

\* Whom it gets to when all is calm.
Serves(due, now, js, m) ==
  \A q \in Participants : q \in due <=> q \in now \/ \E x \in Shards \cap js : q \in Gets(shard'[x], m)

Calm == ctl = <<>> /\ \A s \in Shards : inbox[s] = <<>>

LEMMA PostsPosted ==
  ASSUME RingsTypeOK, PostsTypeOK, NEW p, NEW s, NEW due, NEW now, NEW js, NEW m, NEW c,
         Starts(p, s, due, now, js, m, c), Posts(p, due, now, js, m, c), Calm => Serves(due, now, js, m)
  PROVE  Posted(p, s, due, now, js, m)
<1> DEFINE calm == ~Lost(js) /\ ctl = <<>> /\ \A x \in Shards : inbox[x] = <<>>
           got == [q \in Participants |-> IF q \in now THEN 1 ELSE 0]
           record == [from |-> p, due |-> due, calm |-> calm, got |-> got]
           fresh == [from |-> p, due |-> due, calm |-> calm, got |-> [q \in Participants |-> 0]]
           olds == [n \in Open |-> [post[n] EXCEPT !.calm = @ /\ ~c]]
<1>1. ring' = Pushed(js, m) /\ post' = With(olds, Number, Reached(fresh, now))
  BY DEF Posts, Upset
<1>2. Reached(fresh, now) = record
  <2>1. Reached(fresh, now) =
          [fresh EXCEPT !.got = [q \in Participants |-> IF q \in now THEN fresh.got[q] + 1 ELSE fresh.got[q]]]
    BY DEF Reached
  <2>2. [q \in Participants |-> IF q \in now THEN fresh.got[q] + 1 ELSE fresh.got[q]] = got
    OBVIOUS
  <2> HIDE DEF got, calm
  <2> QED
    BY <2>1, <2>2
<1>3. calm \in BOOLEAN /\ got \in [Participants -> Nat]
      /\ (calm => ~Lost(js) /\ Calm) /\ \A q \in Participants : got[q] = IF q \in now THEN 1 ELSE 0
  BY DEF Calm
<1>4. Number \notin Open
  BY NumberIsNew
<1>5. /\ DOMAIN post' = Open \cup {Number} /\ post'[Number] = record
      /\ \A n \in Open : post'[n] = [post[n] EXCEPT !.calm = @ /\ ~c]
  <2> HIDE DEF record, fresh
  <2> QED
    BY <1>1, <1>2, <1>4 DEF With
<1>6. \A n \in Open : Rests(post[n], post'[n])
  BY <1>5, UpsetRests DEF Starts
<1> HIDE DEF calm, got, fresh, olds
<1>7. /\ IsPost(record) /\ record.from = p /\ record.due = due /\ record.got = got /\ record.calm = calm
  BY <1>3 DEF IsPost, Starts
<1> HIDE DEF record
<1> QED
  BY <1>1, <1>3, <1>4, <1>5, <1>6, <1>7 DEF Posted, Starts, Serves

\* A request for publishers, which goes to all shards.
Asks(s, m, due, now, js) ==
  /\ due = UNION {Gets(shard[x], m) : x \in Shards}
  /\ now = Gets(shard[s], m)
  /\ js = Siblings(s)

LEMMA AsksPosted ==
  ASSUME PlaneTypeOK, RingsTypeOK, PostsTypeOK,
         NEW p \in Participants, NEW s \in Shards, Spot(p, s), NEW m, m.t \in Forwards, m.n = Number,
         NEW due, NEW now, NEW js, Asks(s, m, due, now, js), p \notin now,
         \A x \in Shards : x # s => shard'[x] = shard[x],
         NEW c \in BOOLEAN, c \/ Still, Posts(p, due, now, js, m, c)
  PROVE  Posted(p, s, due, now, js, m)
<1>1. /\ \A q : q \in due <=> \E x \in Shards : q \in Gets(shard[x], m)
      /\ now = Gets(shard[s], m) /\ js = Shards \ {s}
  BY DEF Asks, Siblings
<1>2. \A x \in Shards : \A q \in Gets(shard[x], m) : q \in Participants /\ Spot(q, x)
  BY GetsHere
<1>3. Starts(p, s, due, now, js, m, c)
  BY <1>1, <1>2 DEF Starts
<1>4. Serves(due, now, js, m)
  BY <1>1 DEF Serves
<1> QED
  BY <1>3, <1>4, PostsPosted

LEMMA SubscriberPosts ==
  ASSUME PlaneTypeOK, RingsTypeOK, PostsTypeOK, NEW p \in Participants, Connects(p, "sub")
  PROVE  \E s, due, now, js, m : Posted(p, s, due, now, js, m)
<1> DEFINE s == HomeOf(p, "sub")
           id == IdAt(s, p)
           pp == shard[s].rooms[id].pids[p]
           m == [t |-> "pliAll", room |-> id, pid |-> pp, n |-> Number]
           due == UNION {Nudged(x, id, pp) : x \in Shards}
           now == Nudged(s, id, pp)
<1>1. s \in Shards /\ <<p, "sub">> \in DOMAIN shard[s].legs
  BY HomeIsShard DEF Connects
<1>2. Posts(p, due, now, Siblings(s), m, Here)
  BY DEF Connects, Here
<1>3. shard' = [shard EXCEPT ![s].legs[<<p, "sub">>] = "up"]
  BY DEF Connects
<1>4. p \notin now
  BY DEF Nudged
<1> HIDE DEF s, id, pp
<1>5. m.t \in Forwards /\ m.n = Number
  BY DEF Forwards
<1>6. \A x : Nudged(x, id, pp) = Gets(shard[x], m)
  BY DEF Nudged, Gets
<1> HIDE DEF m
<1>7. Asks(s, m, due, now, Siblings(s))
  BY <1>6 DEF Asks
<1>8. Spot(p, s)
  BY <1>1 DEF Spot
<1>9. \A x \in Shards : x # s => shard'[x] = shard[x]
  BY <1>3 DEF PlaneTypeOK
<1>10. Here \in BOOLEAN /\ Here
  BY DEF Here
<1> HIDE DEF due, now
<1>11. Posted(p, s, due, now, Siblings(s), m)
  BY <1>1, <1>2, <1>4, <1>5, <1>7, <1>8, <1>9, <1>10, AsksPosted
<1> QED
  BY <1>11

LEMMA FeedbackPosts ==
  ASSUME PlaneTypeOK, RingsTypeOK, PostsTypeOK,
         NEW p \in Participants, NEW o \in Participants, NEW line, Feedback(p, o, line)
  PROVE  \E s, due, now, js, m : Posted(p, s, due, now, js, m)
<1> DEFINE There == FALSE
<1>1. PICK s \in Shards :
        /\ <<p, "sub">> \in DOMAIN shard[s].legs
        /\ Posts(p, UNION {Owner(x, IdAt(s, p), o, line) : x \in Shards}, Owner(s, IdAt(s, p), o, line),
                 Siblings(s),
                 [t |-> "back", room |-> IdAt(s, p), owner |-> o, line |-> line, n |-> Number], There)
  BY DEF Feedback
<1> DEFINE id == IdAt(s, p)
           m == [t |-> "back", room |-> id, owner |-> o, line |-> line, n |-> Number]
           due == UNION {Owner(x, id, o, line) : x \in Shards}
           now == Owner(s, id, o, line)
<1>2. p # o /\ shard' = shard
  BY DEF Feedback
<1>3. Posts(p, due, now, Siblings(s), m, There)
  BY <1>1
<1>4. p \notin now
  BY <1>2 DEF Owner
<1>5. There \in BOOLEAN
  OBVIOUS
<1> HIDE DEF There, id
<1>6. m.t \in Forwards /\ m.n = Number
  BY DEF Forwards
<1>7. \A x : Owner(x, id, o, line) = Gets(shard[x], m)
  BY DEF Owner, Gets
<1> HIDE DEF m
<1>8. Asks(s, m, due, now, Siblings(s))
  BY <1>7 DEF Asks
<1>9. Spot(p, s)
  BY <1>1 DEF Spot
<1> HIDE DEF due, now
<1>10. Posted(p, s, due, now, Siblings(s), m)
  BY <1>2, <1>3, <1>4, <1>5, <1>6, <1>8, <1>9, UnchangedStill, AsksPosted
<1> QED
  BY <1>10

\* Shards that forward alike.
Alike(old, new) ==
  /\ new.legs = old.legs /\ DOMAIN new.rooms = DOMAIN old.rooms
  /\ \A id \in DOMAIN old.rooms :
       /\ new.rooms[id].pids = old.rooms[id].pids /\ new.rooms[id].fan = old.rooms[id].fan
       /\ DOMAIN new.rooms[id].locals = DOMAIN old.rooms[id].locals
       /\ \A q \in DOMAIN old.rooms[id].locals :
            /\ DOMAIN new.rooms[id].locals[q].ssrcs = DOMAIN old.rooms[id].locals[q].ssrcs
            /\ (new.rooms[id].locals[q].ssrcs = Nothing) = (old.rooms[id].locals[q].ssrcs = Nothing)

LEMMA AlikeGets == ASSUME NEW old, NEW new, Alike(old, new) PROVE \A e : Gets(new, e) = Gets(old, e)
<1> SUFFICES ASSUME NEW e PROVE Gets(new, e) = Gets(old, e)
  OBVIOUS
<1>1. CASE e.t = "media"
  BY <1>1 DEF Alike, Gets
<1>2. CASE e.t = "pliAll"
  BY <1>2 DEF Alike, Gets
<1>3. CASE e.t = "back"
  BY <1>3 DEF Alike, Gets
<1>4. CASE e.t \notin Forwards
  <2>1. e.t # "media" /\ e.t # "pliAll" /\ e.t # "back"
    BY <1>4 DEF Forwards
  <2> QED
    BY <2>1 DEF Gets
<1> QED
  BY <1>1, <1>2, <1>3, <1>4 DEF Forwards

-----------------------------------------------------------------------------
(* Whom a publisher's packets get to *)

NoTable == [k \in Kinds |-> {}]

\* Who takes packets of a kind of member p.
Takes(st, M, p, kind) == {q \in M \ {p} : Covers(Resolved(st, q), st[p].pid, kind)}

LEMMA RoomServes ==
  ASSUME NEW st, NEW M, NEW s, NEW x, IsRoomOf(x, st, M, s), NEW p \in M, NEW kind \in Kinds
  PROVE  /\ \A q : q \in At(x.fan, st[p].pid, NoTable)[kind]
                     <=> q \in Takes(st, M, p, kind) /\ Home(st[q].pid) = s
         /\ \A h : h \in At(x.demand, st[p].pid, NoTable)[kind]
                     <=> \E q \in Takes(st, M, p, kind) : h = Home(st[q].pid)
<1> DEFINE pp == st[p].pid
<1>0. /\ IsRoom(x) /\ Sane(x) /\ \A q \in M : st[q].pid \in Nat
      /\ DOMAIN x.locals = {q \in M : Home(st[q].pid) = s}
  BY DEF IsRoomOf
<1>1. /\ \A q \in M : x.pids[q] = st[q].pid
      /\ DOMAIN x.pids = M /\ Range(x.pids) = PidsOf(st, M) /\ pp \in PidsOf(st, M)
      /\ Takers(x, pp, kind) = Takes(st, M, p, kind)
  BY RoomTakers DEF Takes
<1>2. x.demand = DemandTable(x) /\ x.fan = FanTable(x)
  BY <1>0, RebuiltIs DEF Sane
<1>3. x.maxPid \in Nat /\ pp \in 0 .. (x.maxPid - 1)
  BY <1>0, <1>1 DEF Sane
<1>4. Takes(st, M, p, kind) \subseteq M
  BY DEF Takes
<1> HIDE DEF pp
<1>5. ASSUME NEW q
      PROVE  q \in At(x.fan, pp, NoTable)[kind] <=> q \in Takes(st, M, p, kind) /\ Home(st[q].pid) = s
  <2>1. pp \in DOMAIN x.fan /\ x.fan[pp][kind] = Takers(x, pp, kind) \cap DOMAIN x.locals
    BY <1>1, <1>2, <1>3 DEF FanTable
  <2> QED
    BY <1>0, <1>1, <1>4, <2>1 DEF At
<1>6. ASSUME NEW h
      PROVE  h \in At(x.demand, pp, NoTable)[kind] <=> \E q \in Takes(st, M, p, kind) : h = Home(st[q].pid)
  <2>1. DOMAIN x.demand = {i \in PidsOf(st, M) : \E k \in Kinds : Takers(x, i, k) # {}}
    BY <1>1, <1>2 DEF DemandTable
  <2>2. CASE pp \in DOMAIN x.demand
    <3>1. x.demand[pp][kind] = {Home(x.pids[q]) : q \in Takers(x, pp, kind)}
      BY <1>2, <2>2, DemandIs
    <3>2. x.demand[pp][kind] = {Home(x.pids[q]) : q \in Takes(st, M, p, kind)}
      BY <1>1, <3>1
    <3>3. h \in x.demand[pp][kind] <=> \E q \in Takes(st, M, p, kind) : h = Home(x.pids[q])
      BY <3>2
    <3> QED
      BY <1>1, <1>4, <2>2, <3>3 DEF At
  <2>3. CASE pp \notin DOMAIN x.demand
    <3>1. Takes(st, M, p, kind) = {}
      BY <1>1, <2>1, <2>3
    <3>2. At(x.demand, pp, NoTable)[kind] = {}
      BY <2>3 DEF At, NoTable
    <3> QED
      BY <3>1, <3>2
  <2> QED
    BY <2>2, <2>3
<1> QED
  BY <1>5, <1>6 DEF pp

\* Once the shards have read their queues, legs are where members are seated.
LEMMA LegsAtHome ==
  ASSUME LegsAreOwned, Calm, NEW q, NEW leg
  PROVE  /\ \A x \in Shards : <<q, leg>> \in DOMAIN shard[x].legs => SeatedAt(q, x)
         /\ IsUp(q, leg) <=> \E x \in Shards : SeatedAt(q, x) /\ At(shard[x].legs, <<q, leg>>, "none") = "up"
<1>1. ASSUME NEW x \in Shards, <<q, leg>> \in DOMAIN shard[x].legs PROVE SeatedAt(q, x)
  <2>1. DOMAIN inbox[x] = {}
    BY DEF Calm
  <2>2. ~GoneIn(inbox[x], q)
    BY <2>1 DEF GoneIn
  <2> QED
    BY <1>1, <2>2 DEF LegsAreOwned
<1>2. ASSUME IsUp(q, leg)
      PROVE  \E x \in Shards : SeatedAt(q, x) /\ At(shard[x].legs, <<q, leg>>, "none") = "up"
  <2>1. PICK x \in Shards : <<q, leg>> \in DOMAIN shard[x].legs /\ shard[x].legs[<<q, leg>>] = "up"
    <3> DEFINE at == {s \in Shards : <<q, leg>> \in DOMAIN shard[s].legs}
               x == CHOOSE s \in at : TRUE
    <3>1. LegState(q, leg) = IF at = {} THEN "none" ELSE shard[x].legs[<<q, leg>>]
      BY DEF LegState
    <3>2. at # {} /\ shard[x].legs[<<q, leg>>] = "up"
      BY <1>2, <3>1 DEF IsUp
    <3>3. x \in at
      BY <3>2
    <3> QED
      BY <3>2, <3>3
  <2> QED
    BY <1>1, <2>1 DEF At
<1>3. ASSUME NEW x \in Shards, SeatedAt(q, x), At(shard[x].legs, <<q, leg>>, "none") = "up"
      PROVE  IsUp(q, leg)
  <2>1. <<q, leg>> \in DOMAIN shard[x].legs /\ shard[x].legs[<<q, leg>>] = "up"
    BY <1>3 DEF At
  <2>2. \A s \in Shards : <<q, leg>> \in DOMAIN shard[s].legs => s = x
    BY <1>1, <1>3 DEF SeatedAt
  <2> DEFINE at == {s \in Shards : <<q, leg>> \in DOMAIN shard[s].legs}
  <2>3. at = {x}
    BY <2>1, <2>2
  <2>4. LegState(q, leg) = IF at = {} THEN "none" ELSE shard[CHOOSE s \in at : TRUE].legs[<<q, leg>>]
    BY DEF LegState
  <2> HIDE DEF at
  <2>5. (CHOOSE s \in at : TRUE) = x
    BY <2>3
  <2> QED
    BY <2>1, <2>3, <2>4, <2>5 DEF IsUp
<1> QED
  BY <1>1, <1>2, <1>3

\* A packet of p's, of some kinds, as its shard s takes it on: p is a member
\* of the room id there and has a leg.
Relays(p, s, id, kinds) ==
  /\ p \in Participants /\ s \in Shards /\ <<p, "pub">> \in DOMAIN shard[s].legs
  /\ id \in DOMAIN shard[s].rooms /\ p \in DOMAIN shard[s].rooms[id].locals
  /\ kinds \subseteq Kinds

\* What all shards have of p's room when nothing is on its way.
LEMMA CalmRoom ==
  ASSUME FollowInv, Calm, NEW p, NEW s, NEW id, NEW kinds, Relays(p, s, id, kinds)
  PROVE  /\ p \in MembersOf(id) /\ p \in DOMAIN seats /\ shard[s].rooms[id].pids[p] = seats[p].pid
         /\ MembersOf(id) = In(seats, seats[p].room)
         /\ \A x \in Shards : id \in DOMAIN shard[x].rooms /\ IsRoomOf(shard[x].rooms[id], seats, MembersOf(id), x)
<1>1. /\ PlaneTypeOK /\ Tables(seats, roomId, nextRoomId)
  BY TablesAre DEF FollowInv, SpeakersInv
<1>2. \A x \in Shards : inbox[x] = <<>>
  BY DEF Calm
<1>3. s \in Shards /\ id \in DOMAIN shard[s].rooms /\ p \in DOMAIN shard[s].rooms[id].locals
  BY DEF Relays
<1>4. id \in Nat /\ IsRoomOf(shard[s].rooms[id], seats, MembersOf(id), s)
  BY <1>2, <1>3, ShardHasRoom
<1>5. p \in MembersOf(id) /\ shard[s].rooms[id].pids[p] = seats[p].pid
  BY <1>3, <1>4 DEF IsRoomOf
<1>6. p \in DOMAIN seats /\ roomId[seats[p].room] = id /\ MembersOf(id) = MembersIn(seats, roomId, id)
  BY <1>5 DEF MembersOf, MembersIn
<1>7. MembersOf(id) = In(seats, seats[p].room)
  BY <1>1, <1>5, <1>6, MembersAre
<1>8. id \in LiveRooms
  BY <1>1, <1>6 DEF LiveRooms, Tables
<1>9. \A x \in Shards : id \in DOMAIN shard[x].rooms
  BY <1>2, <1>8, ShardHasRoom
<1>10. \A x \in Shards : IsRoomOf(shard[x].rooms[id], seats, MembersOf(id), x)
  BY <1>2, <1>9, ShardHasRoom
<1> QED
  BY <1>5, <1>6, <1>7, <1>9, <1>10

\* Such a packet, for those on the other shards.
IsRelay(m, id, pp, kinds) == m.t = "media" /\ m.room = id /\ m.pid = pp /\ m.kinds = kinds /\ m.n = Number

LEMMA InAudience ==
  ASSUME NEW p, NEW kinds, NEW M, M = In(seats, seats[p].room), NEW q
  PROVE  q \in Audience(p, kinds) <=> (\E kind \in kinds : q \in Takes(seats, M, p, kind)) /\ IsUp(q, "sub")
BY DEF Audience, Takes

LEMMA InRelay ==
  ASSUME NEW sh, NEW m, NEW id, NEW pp, NEW kinds, IsRelay(m, id, pp, kinds), id \in DOMAIN sh.rooms, NEW q
  PROVE  q \in Gets(sh, m) <=> /\ \E kind \in kinds : q \in At(sh.rooms[id].fan, pp, NoTable)[kind]
                               /\ At(sh.legs, <<q, "sub">>, "none") = "up"
BY DEF Gets, IsRelay, NoTable

LEMMA InDemandOf ==
  ASSUME NEW s, NEW id, NEW pp, NEW kinds, NEW h
  PROVE  h \in Demand(s, id, pp, kinds)
           <=> h # s /\ \E kind \in kinds : h \in At(shard[s].rooms[id].demand, pp, NoTable)[kind]
<1> DEFINE part(kind) == At(shard[s].rooms[id].demand, pp, NoTable)[kind]
           whole == UNION {part(kind) : kind \in kinds}
<1>1. Demand(s, id, pp, kinds) = whole \ {s}
  BY DEF Demand, NoTable
<1> HIDE DEF part
<1>2. h \in whole <=> \E kind \in kinds : h \in part(kind)
  OBVIOUS
<1> HIDE DEF whole
<1>3. h \in Demand(s, id, pp, kinds) <=> h # s /\ \E kind \in kinds : h \in part(kind)
  BY <1>1, <1>2
<1> QED
  BY ONLY <1>3 DEF part

\* When nothing is on its way, a packet gets to its audience.
LEMMA CalmServes ==
  ASSUME FollowInv, Calm, NEW p, NEW s, NEW id, NEW kinds, Relays(p, s, id, kinds),
         NEW pp, pp = shard[s].rooms[id].pids[p], NEW m, IsRelay(m, id, pp, kinds),
         \A x \in Shards : x # s => shard'[x] = shard[x]
  PROVE  Serves(Audience(p, kinds), Gets(shard[s], m), Demand(s, id, pp, kinds), m)
<1> DEFINE M == MembersOf(id)
           takes(q) == \E kind \in kinds : q \in Takes(seats, M, p, kind)
           up(q, x) == At(shard[x].legs, <<q, "sub">>, "none") = "up"
<1>1. /\ p \in M /\ pp = seats[p].pid /\ M = In(seats, seats[p].room)
      /\ \A x \in Shards : id \in DOMAIN shard[x].rooms /\ IsRoomOf(shard[x].rooms[id], seats, M, x)
  BY CalmRoom
<1>2. s \in Shards /\ kinds \subseteq Kinds
  BY DEF Relays
<1> HIDE DEF M
<1>3. ASSUME NEW q PROVE q \in Audience(p, kinds) <=> takes(q) /\ IsUp(q, "sub")
  BY <1>1, InAudience
<1>4. ASSUME NEW x \in Shards, NEW q
      PROVE  q \in Gets(shard[x], m) <=> takes(q) /\ Home(seats[q].pid) = x /\ up(q, x)
  <2>1. \A kind \in kinds : q \in At(shard[x].rooms[id].fan, pp, NoTable)[kind]
                              <=> q \in Takes(seats, M, p, kind) /\ Home(seats[q].pid) = x
    BY <1>1, <1>2, RoomServes
  <2> QED
    BY <1>1, <2>1, InRelay
<1>5. ASSUME NEW h
      PROVE  h \in Demand(s, id, pp, kinds) <=> h # s /\ \E q : takes(q) /\ h = Home(seats[q].pid)
  <2>1. \A kind \in kinds : h \in At(shard[s].rooms[id].demand, pp, NoTable)[kind]
                              <=> \E q \in Takes(seats, M, p, kind) : h = Home(seats[q].pid)
    BY <1>1, <1>2, RoomServes
  <2> QED
    BY <2>1, InDemandOf
<1>6. ASSUME NEW q PROVE takes(q) => q \in DOMAIN seats
  BY <1>1 DEF Takes, In
<1>7. ASSUME NEW q
      PROVE  IsUp(q, "sub") <=> \E x \in Shards : q \in DOMAIN seats /\ Home(seats[q].pid) = x /\ up(q, x)
  <2>1. LegsAreOwned
    BY DEF FollowInv
  <2> QED
    BY <2>1, LegsAtHome DEF SeatedAt
<1> HIDE DEF takes, up
<1>8. ASSUME NEW q \in Audience(p, kinds)
      PROVE  \/ q \in Gets(shard[s], m)
             \/ \E x \in Shards \cap Demand(s, id, pp, kinds) : q \in Gets(shard'[x], m)
  <2>1. takes(q) /\ IsUp(q, "sub")
    BY <1>3
  <2>2. PICK x \in Shards : Home(seats[q].pid) = x /\ up(q, x)
    BY <1>7, <2>1
  <2>3. q \in Gets(shard[x], m)
    BY <1>4, <2>1, <2>2
  <2>4. x # s => x \in Demand(s, id, pp, kinds)
    BY <1>5, <2>1, <2>2
  <2> QED
    BY <2>3, <2>4
<1>9. ASSUME NEW q, NEW x \in Shards, q \in Gets(shard[x], m) PROVE q \in Audience(p, kinds)
  BY <1>3, <1>4, <1>6, <1>7, <1>9
<1>10. \A x \in Shards \cap Demand(s, id, pp, kinds) : shard'[x] = shard[x]
  BY <1>5
<1> QED
  BY <1>2, <1>8, <1>9, <1>10 DEF Serves

\* Its own sender is not among those a room's tables name.
LEMMA NotToSelf ==
  ASSUME RoomsAreSane, PlaneTypeOK, NEW p, NEW s, NEW id, NEW kinds, Relays(p, s, id, kinds),
         NEW m, IsRelay(m, id, shard[s].rooms[id].pids[p], kinds)
  PROVE  p \notin Gets(shard[s], m)
<1> DEFINE x == shard[s].rooms[id]
           pp == x.pids[p]
<1>1. /\ s \in Shards /\ id \in DOMAIN shard[s].rooms /\ kinds \subseteq Kinds
      /\ IsRoom(x) /\ Sane(x)
  BY DEF Relays, RoomsAreSane, PlaneTypeOK, IsShard
<1> HIDE DEF x
<1>2. x.fan = FanTable(x)
  BY <1>1, RebuiltIs DEF Sane
<1> HIDE DEF pp
<1>3. ASSUME NEW kind \in kinds PROVE p \notin At(x.fan, pp, NoTable)[kind]
  <2>1. kind \in Kinds
    BY <1>1
  <2>2. pp \in DOMAIN x.fan => x.fan[pp][kind] \subseteq Takers(x, pp, kind)
    BY <1>2, <2>1 DEF FanTable
  <2>3. p \notin Takers(x, pp, kind)
    BY DEF Takers, pp
  <2> QED
    BY <2>1, <2>2, <2>3 DEF At, NoTable
<1> QED
  BY <1>1, <1>3, InRelay DEF x, pp

LEMMA RelaysPosted ==
  ASSUME FollowInv, RingsTypeOK, PostsTypeOK,
         NEW p, NEW s, NEW id, NEW kinds, Relays(p, s, id, kinds),
         NEW pp, pp = shard[s].rooms[id].pids[p], NEW m, IsRelay(m, id, pp, kinds),
         NEW due, due = (IF p \in DOMAIN seats THEN Audience(p, kinds) ELSE {}),
         \A x \in Shards : x # s => shard'[x] = shard[x],
         NEW c \in BOOLEAN, c \/ Still,
         Posts(p, due, FanOut(s, id, pp, kinds), Demand(s, id, pp, kinds), m, c)
  PROVE  Posted(p, s, due, FanOut(s, id, pp, kinds), Demand(s, id, pp, kinds), m)
<1> DEFINE now == Gets(shard[s], m)
           js == Demand(s, id, pp, kinds)
<1>0. PlaneTypeOK /\ RoomsAreSane
  BY DEF FollowInv, SpeakersInv
<1>1. /\ p \in Participants /\ s \in Shards /\ <<p, "pub">> \in DOMAIN shard[s].legs
      /\ m.t \in Forwards /\ m.n = Number
  BY DEF Relays, IsRelay, Forwards
<1>2. FanOut(s, id, pp, kinds) = now
  <2>1. Receivers(s, m) = FanOut(s, id, pp, kinds)
    BY DEF Receivers, IsRelay
  <2> QED
    BY <1>1, <2>1, ReceiversGet
<1>3. p \notin now
  BY <1>0, NotToSelf
<1>4. \A q \in now : q \in Participants /\ Spot(q, s)
  BY <1>0, <1>1, GetsHere
<1>5. Spot(p, s)
  BY <1>1 DEF Spot
<1>6. due \subseteq Participants
  <2>1. In(seats, seats[p].room) \subseteq Participants
    BY <1>0 DEF In, PlaneTypeOK
  <2> QED
    BY <2>1 DEF Audience
<1>7. s \notin js
  BY DEF Demand
<1>8. Calm => Serves(due, now, js, m)
  <2> SUFFICES ASSUME Calm PROVE Serves(due, now, js, m)
    OBVIOUS
  <2>1. p \in DOMAIN seats
    BY CalmRoom
  <2>2. due = Audience(p, kinds)
    BY <2>1
  <2> QED
    BY <2>2, CalmServes
<1> HIDE DEF now, js
<1>9. Starts(p, s, due, now, js, m, c)
  BY <1>1, <1>3, <1>4, <1>5, <1>6, <1>7 DEF Starts
<1>10. Posts(p, due, now, js, m, c)
  BY <1>2 DEF js
<1>11. Posted(p, s, due, now, js, m)
  BY <1>8, <1>9, <1>10, PostsPosted
<1> QED
  BY <1>2, <1>11 DEF js

LEMMA ReportPosts ==
  ASSUME FollowInv, RingsTypeOK, PostsTypeOK, NEW p \in Participants, SenderReport(p)
  PROVE  \E s, due, now, js, m : Posted(p, s, due, now, js, m)
<1> DEFINE There == FALSE
           s == HomeOf(p, "pub")
           id == IdAt(s, p)
           pp == shard[s].rooms[id].pids[p]
           m == [t |-> "media", room |-> id, pid |-> pp, kinds |-> Kinds, n |-> Number]
           due == IF p \in DOMAIN seats THEN Audience(p, Kinds) ELSE {}
<1>1. s \in Shards /\ <<p, "pub">> \in DOMAIN shard[s].legs
  BY HomeIsShard DEF SenderReport, IsUp
<1>2. /\ Posts(p, due, FanOut(s, id, pp, Kinds), Demand(s, id, pp, Kinds), m, There)
      /\ shard' = shard /\ Remembered(s, p)
  BY DEF SenderReport
<1>3. There \in BOOLEAN
  OBVIOUS
<1> HIDE DEF There, s
<1>4. Relays(p, s, id, Kinds)
  BY <1>1, <1>2 DEF Relays, Remembered
<1> HIDE DEF id, pp
<1>5. IsRelay(m, id, pp, Kinds)
  BY DEF IsRelay
<1> HIDE DEF m, due
<1>6. pp = shard[s].rooms[id].pids[p] /\ due = (IF p \in DOMAIN seats THEN Audience(p, Kinds) ELSE {})
  BY DEF pp, due
<1>7. Posted(p, s, due, FanOut(s, id, pp, Kinds), Demand(s, id, pp, Kinds), m)
  BY <1>2, <1>3, <1>4, <1>5, <1>6, UnchangedStill, RelaysPosted
<1> QED
  BY <1>7

\* Every shard's publishers are well-formed.
Tagged == \A s \in Shards : ShardLocalsOK(shard[s])

\* A packet of a known SSRC teaches nothing.
LEMMA KnownTeachesNothing ==
  ASSUME NEW x, IsLocal(x), NEW line \in DOMAIN x.ssrcs, NEW tag
  PROVE  /\ DOMAIN Learned(x, line, tag).ssrcs = DOMAIN x.ssrcs
         /\ (Learned(x, line, tag).ssrcs = Nothing) = (x.ssrcs = Nothing)
<1> DEFINE ssrcs == With(x.ssrcs, line, tag)
<1>1. DOMAIN ssrcs = DOMAIN x.ssrcs
  BY DEF With
<1>2. line \notin DOMAIN Nothing
  BY DEF Nothing
<1>3. Learned(x, line, tag) = x \/ Learned(x, line, tag) = [lines |-> x.lines, ssrcs |-> ssrcs]
  BY DEF Learned, IsLocal
<1> HIDE DEF ssrcs
<1> QED
  BY <1>1, <1>2, <1>3

LEMMA MediaStill ==
  ASSUME PlaneTypeOK, NEW s \in Shards, NEW id \in DOMAIN shard[s].rooms, ShardLocalsOK(shard[s]),
         NEW p \in DOMAIN shard[s].rooms[id].locals,
         NEW line \in DOMAIN shard[s].rooms[id].locals[p].ssrcs, NEW tag,
         shard' = [shard EXCEPT ![s].rooms[id].locals[p] = Learned(@, line, tag)]
  PROVE  Still
<1> DEFINE sh == shard[s]
           old == sh.rooms[id]
           member == old.locals[p]
           locals == [old.locals EXCEPT ![p] = Learned(member, line, tag)]
           x == [old EXCEPT !.locals = locals]
           new == [sh EXCEPT !.rooms[id] = x]
<1>1. IsShard(sh) /\ IsRoom(old) /\ IsLocal(member) /\ DOMAIN shard = Shards
  BY DEF PlaneTypeOK, IsShard, ShardLocalsOK, LocalsOK
<1>2. shard' = [shard EXCEPT ![s] = new]
  BY <1>1 DEF IsShard, IsRoom
<1>3. /\ DOMAIN Learned(member, line, tag).ssrcs = DOMAIN member.ssrcs
      /\ (Learned(member, line, tag).ssrcs = Nothing) = (member.ssrcs = Nothing)
  BY <1>1, KnownTeachesNothing
<1>4. /\ DOMAIN locals = DOMAIN old.locals
      /\ \A q \in DOMAIN old.locals :
           /\ DOMAIN locals[q].ssrcs = DOMAIN old.locals[q].ssrcs
           /\ (locals[q].ssrcs = Nothing) = (old.locals[q].ssrcs = Nothing)
  <2> HIDE DEF old
  <2> QED
    BY <1>3
<1>5. x.pids = old.pids /\ x.fan = old.fan /\ x.locals = locals /\ IsRoom(x)
  <2> HIDE DEF old, locals
  <2> QED
    BY <1>1 DEF IsRoom
<1>6. new.legs = sh.legs /\ new.rooms = [sh.rooms EXCEPT ![id] = x]
  <2> HIDE DEF x
  <2> QED
    BY <1>1, <1>5, InRoomIs
<1>7. Alike(sh, new)
  <2> HIDE DEF new, x, locals
  <2>1. \A i \in DOMAIN sh.rooms : new.rooms[i] = IF i = id THEN x ELSE sh.rooms[i]
    BY <1>6
  <2>2. DOMAIN new.rooms = DOMAIN sh.rooms
    BY <1>6
  <2> QED
    BY <1>4, <1>5, <1>6, <2>1, <2>2 DEF Alike
<1> HIDE DEF new
<1>8. \A y \in Shards : shard'[y] = IF y = s THEN new ELSE shard[y]
  BY <1>1, <1>2
<1>9. \A e : Gets(new, e) = Gets(sh, e)
  BY <1>7, AlikeGets
<1> QED
  BY <1>8, <1>9 DEF Still

LEMMA MediaPosts ==
  ASSUME FollowInv, Tagged, RingsTypeOK, PostsTypeOK,
         NEW p \in Participants, NEW line \in Lines, NEW named, Media(p, line, named)
  PROVE  \E s, due, now, js, m : Posted(p, s, due, now, js, m)
<1> DEFINE s == HomeOf(p, "pub")
           id == IdAt(s, p)
           pp == shard[s].rooms[id].pids[p]
           member == shard[s].rooms[id].locals[p]
           c == line \notin DOMAIN member.ssrcs
<1>0. PlaneTypeOK
  BY DEF FollowInv, SpeakersInv
<1>1. s \in Shards /\ <<p, "pub">> \in DOMAIN shard[s].legs
  BY HomeIsShard DEF Media, IsUp
<1>2. PICK tag \in Tag(member, line, named) :
        /\ Posts(p, IF p \in DOMAIN seats THEN Audience(p, {LineKind[tag]}) ELSE {},
                 FanOut(s, id, pp, {LineKind[tag]}), Demand(s, id, pp, {LineKind[tag]}),
                 [t |-> "media", room |-> id, pid |-> pp, kinds |-> {LineKind[tag]}, n |-> Number], c)
        /\ shard' = [shard EXCEPT ![s].rooms[id].locals[p] = Learned(@, line, tag)]
  BY DEF Media, MemberAt
<1>3. Remembered(s, p)
  BY DEF Media
<1> DEFINE kinds == {LineKind[tag]}
           m == [t |-> "media", room |-> id, pid |-> pp, kinds |-> kinds, n |-> Number]
           due == IF p \in DOMAIN seats THEN Audience(p, kinds) ELSE {}
<1>4. Posts(p, due, FanOut(s, id, pp, kinds), Demand(s, id, pp, kinds), m, c)
  BY <1>2
<1> HIDE DEF s
<1>5. /\ id \in DOMAIN shard[s].rooms /\ p \in DOMAIN shard[s].rooms[id].locals
      /\ ShardLocalsOK(shard[s])
  BY <1>1, <1>3 DEF Remembered, Tagged
<1>6. IsLocal(member)
  BY <1>5 DEF ShardLocalsOK, LocalsOK
<1> HIDE DEF id
<1>7. LineKind[tag] \in Kinds
  <2> HIDE DEF member
  <2> QED
    BY <1>2, <1>6, TagHasKind
<1>8. \A x \in Shards : x # s => shard'[x] = shard[x]
  BY <1>0, <1>1, <1>2 DEF PlaneTypeOK
<1>9. c \in BOOLEAN /\ (c \/ Still)
  <2>1. ASSUME line \in DOMAIN member.ssrcs PROVE Still
    BY <1>0, <1>1, <1>2, <1>5, <2>1, MediaStill
  <2> QED
    BY <2>1
<1> HIDE DEF pp, member, c
<1>10. Relays(p, s, id, kinds)
  BY <1>1, <1>5, <1>7 DEF Relays
<1> HIDE DEF kinds
<1>11. IsRelay(m, id, pp, kinds)
  BY DEF IsRelay
<1> HIDE DEF m, due
<1>12. pp = shard[s].rooms[id].pids[p] /\ due = (IF p \in DOMAIN seats THEN Audience(p, kinds) ELSE {})
  BY DEF pp, due
<1>13. Posted(p, s, due, FanOut(s, id, pp, kinds), Demand(s, id, pp, kinds), m)
  BY <1>4, <1>8, <1>9, <1>10, <1>11, <1>12, RelaysPosted
<1> QED
  BY <1>13

-----------------------------------------------------------------------------
(* Every step *)

LEMMA TaggedNext ==
  ASSUME SpeakersInv, Tagged, [PlaneNext]_planeVars
  PROVE  Tagged'
<1>0. PlaneTypeOK
  BY DEF SpeakersInv
<1>1. ASSUME shard' = shard PROVE Tagged'
  BY <1>1 DEF Tagged
<1>2. ASSUME SameControl PROVE Tagged'
  BY <1>2 DEF Tagged, SameControl, SameTables
<1>3. ASSUME NEW s \in Shards, Taking(s) PROVE Tagged'
  <2>1. ShardLocalsOK(shard'[s])
    BY <1>3 DEF Tagged, Taking, Handles
  <2> QED
    BY <1>3, <2>1 DEF Tagged, Taking
<1>4. CASE Sends \/ Routes \/ MergesSpeakers \/ UNCHANGED planeVars
  BY <1>1, <1>4 DEF Sends, Routes, MergesSpeakers, planeVars, shardVars
<1>5. CASE ShardSteps
  BY <1>0, <1>2, <1>3, <1>5, TakingIs, ForwardedSame DEF ShardSteps
<1>6. CASE Browsers
  BY <1>0, <1>2, <1>6, BrowsersSame
<1> QED
  BY <1>4, <1>5, <1>6 DEF PlaneNext

\* A step leaves what travels alone, adds a post, or delivers one.
LEMMA StepsPost ==
  ASSUME FollowInv, Tagged, RingsTypeOK, PostsTypeOK, [PlaneNext]_planeVars
  PROVE  \/ Kept
         \/ \E p, s, due, now, js, m : Posted(p, s, due, now, js, m)
         \/ \E s \in Shards : OnForwarded(s)
<1>0. PlaneTypeOK
  BY DEF FollowInv, SpeakersInv
<1>1. ASSUME UNCHANGED <<ring, post, shard>> PROVE Kept
  BY <1>1, UnchangedStill, StillKept
<1>2. CASE Sends \/ MergesSpeakers \/ UNCHANGED planeVars
  BY <1>1, <1>2 DEF Sends, MergesSpeakers, planeVars, shardVars
<1>3. CASE Routes
  BY <1>3, DisturbedKept DEF Routes, shardVars
<1>4. ASSUME NEW s \in Shards, OnShardControl(s) PROVE Kept
  <2>1. CASE Head(inbox[s]).t = "ActiveSpeakers"
    <3>1. \E sh \in Handled(s, Head(inbox[s])) : shard' = [shard EXCEPT ![s] = sh]
      BY <1>4 DEF OnShardControl
    <3>2. Handled(s, Head(inbox[s])) = {shard[s]}
      BY <2>1 DEF Handled
    <3>3. \A x \in Shards : shard'[x] = shard[x]
      BY <1>0, <3>1, <3>2 DEF PlaneTypeOK
    <3>4. UNCHANGED <<ring, post>>
      BY <1>4, <2>1 DEF OnShardControl
    <3> QED
      BY <3>3, <3>4, StillKept DEF Still
  <2>2. CASE Head(inbox[s]).t # "ActiveSpeakers"
    <3>1. ring' = ring /\ Disturbed
      BY <1>4, <2>2 DEF OnShardControl
    <3> QED
      BY <3>1, DisturbedKept
  <2> QED
    BY <2>1, <2>2
<1>5. CASE ShardSteps
  <2>1. ASSUME NEW s \in Shards, Reports(s) PROVE Kept
    BY <1>1, <2>1 DEF Reports, shardVars
  <2> QED
    BY <1>4, <1>5, <2>1 DEF ShardSteps
<1>6. CASE Browsers
  <2>1. ASSUME NEW p \in Participants, NEW leg \in {"pub", "sub"}, Connects(p, leg)
        PROVE  Kept \/ \E s, due, now, js, m : Posted(p, s, due, now, js, m)
    <3>1. CASE leg = "sub"
      BY <1>0, <2>1, <3>1, SubscriberPosts
    <3>2. CASE leg = "pub"
      <4>1. ring' = ring /\ Disturbed
        BY <2>1, <3>2 DEF Connects
      <4> QED
        BY <4>1, DisturbedKept
    <3> QED
      BY <3>1, <3>2
  <2>2. ASSUME NEW p, NEW leg, Drops(p, leg) PROVE Kept
    BY <2>2, DisturbedKept DEF Drops
  <2>3. ASSUME NEW p, Speaks(p) PROVE Kept
    BY <1>1, <2>3 DEF Speaks
  <2> QED
    BY <1>0, <1>6, <2>1, <2>2, <2>3, ReportPosts, MediaPosts, FeedbackPosts DEF Browsers
<1> QED
  BY <1>2, <1>3, <1>5, <1>6 DEF PlaneNext

\* The inductive invariant.
TrafficInv == FollowInv /\ Tagged /\ PostsInv

LEMMA TrafficNext ==
  ASSUME TrafficInv, QueuesHaveRoom', [PlaneNext]_planeVars
  PROVE  TrafficInv'
<1>0. /\ FollowInv /\ Tagged /\ SpeakersInv /\ LegsAreOwned
      /\ OneSpot /\ RingsTypeOK /\ PostsTypeOK /\ PostsOnce /\ CalmArrives
  BY DEF TrafficInv, PostsInv, FollowInv
<1>1. FollowInv' /\ Tagged'
  BY <1>0, FollowNext, TaggedNext
<1>2. SpotsKeep /\ LaterEvents
  BY <1>0, SpotsNext
<1>3. OneSpot'
  BY <1>0, <1>1, <1>2, OneSpotNext
<1>4. RingsTypeOK' /\ PostsTypeOK' /\ PostsOnce' /\ CalmArrives'
  <2>1. CASE Kept
    BY <1>0, <1>2, <2>1, KeptPosts
  <2>2. ASSUME NEW p, NEW s, NEW due, NEW now, NEW js, NEW m, Posted(p, s, due, now, js, m)
        PROVE  RingsTypeOK' /\ PostsTypeOK' /\ PostsOnce' /\ CalmArrives'
    BY <1>0, <1>2, <2>2, PostedPosts
  <2>3. ASSUME NEW s \in Shards, OnForwarded(s)
        PROVE  RingsTypeOK' /\ PostsTypeOK' /\ PostsOnce' /\ CalmArrives'
    BY <1>0, <1>2, <2>3, ForwardedPosts
  <2> QED
    BY <1>0, <2>1, <2>2, <2>3, StepsPost
<1> QED
  BY <1>1, <1>3, <1>4 DEF TrafficInv, PostsInv

LEMMA TrafficStart == PlaneInit => TrafficInv
<1> SUFFICES ASSUME PlaneInit PROVE TrafficInv
  OBVIOUS
<1>1. FollowInv /\ LegsAreOwned
  BY FollowStart DEF FollowInv
<1>2. Calm /\ Tagged
  <2>1. CASE Fresh
    <3>1. /\ ctl = <<>> /\ inbox = [s \in Shards |-> <<>>] /\ shard = [s \in Shards |-> NewShard]
      BY <2>1 DEF Fresh, Feed!FeedInit, RouterInit
    <3>2. DOMAIN NewShard.rooms = {}
      BY DEF NewShard, Nothing
    <3> QED
      BY <3>1, <3>2 DEF Calm, Tagged, ShardLocalsOK
  <2>2. ASSUME NEW r \in RoomIds, NEW place, SettledAs(r, place) PROVE Calm /\ Tagged
    <3>1. ctl = <<>> /\ inbox = [s \in Shards |-> <<>>]
      BY <2>2 DEF SettledAs
    <3>2. \A s \in Shards : DOMAIN shard[s].rooms = {0} /\ LocalsOK(shard[s].rooms[0])
      BY <2>2 DEF SettledAs
    <3> QED
      BY <3>1, <3>2 DEF Calm, Tagged, ShardLocalsOK
  <2> QED
    BY <2>1, <2>2, PlaneStarts
<1>3. OneSpot
  <2>1. ASSUME NEW p, NEW s \in Shards, Spot(p, s) PROVE SeatedAt(p, s)
    <3>1. ~Offered(s, p)
      BY <1>2 DEF Calm, Offered
    <3> QED
      BY <1>1, <1>2, <2>1, <3>1, LegsAtHome DEF Spot
  <2> QED
    BY <2>1 DEF OneSpot, SeatedAt
<1>4. ring = [s \in Shards |-> <<>>] /\ post = Nothing
  BY DEF PlaneInit
<1>5. DOMAIN post = {}
  BY <1>4 DEF Nothing
<1>6. RingsTypeOK
  <2>1. \A s \in Shards : IsQueue(ring[s]) /\ DOMAIN ring[s] = {}
    BY <1>4 DEF IsQueue
  <2> QED
    BY <1>4, <2>1 DEF RingsTypeOK, Travelling
<1>7. PostsTypeOK /\ PostsOnce /\ CalmArrives
  BY <1>5, FS_EmptySet DEF PostsTypeOK, PostsOnce, CalmArrives
<1> QED
  BY <1>1, <1>2, <1>3, <1>6, <1>7 DEF TrafficInv, PostsInv

LEMMA TrafficInvArrives == TrafficInv => TrafficArrives
<1> SUFFICES ASSUME TrafficInv, NEW n \in DOMAIN post
             PROVE  /\ \A q \in Participants : post[n].got[q] <= IF q = post[n].from THEN 0 ELSE 1
                    /\ post[n].calm /\ ~Travels(n) => {q \in Participants : post[n].got[q] = 1} = post[n].due
  BY DEF TrafficArrives
<1>1. PostsTypeOK /\ PostsOnce /\ CalmArrives
  BY DEF TrafficInv, PostsInv
<1>2. ASSUME post[n].calm, ~Travels(n)
      PROVE  {q \in Participants : post[n].got[q] = 1} = post[n].due
  <2>1. \A q : ~Pending(q, n)
    BY <1>2 DEF Travels, Pending
  <2>2. \A q \in Participants : q \in post[n].due <=> post[n].got[q] = 1
    BY <1>1, <1>2, <2>1 DEF CalmArrives
  <2>3. post[n].due \subseteq Participants
    BY <1>1 DEF PostsTypeOK, IsPost
  <2> QED
    BY <2>2, <2>3
<1> QED
  BY <1>1, <1>2 DEF PostsOnce

\* Nobody has a leg on two shards, a packet travels in a shard's ring once,
\* and whoever it has reached, or who sent it, has no leg where it is still to
\* come; while nothing changes, it has reached, or will reach, whom it is for.
THEOREM TrafficInvHolds == PlaneSpec /\ []QueuesHaveRoom => []TrafficInv
<1>1. PlaneInit => TrafficInv
  BY TrafficStart
<1>2. TrafficInv /\ QueuesHaveRoom' /\ [PlaneNext]_planeVars => TrafficInv'
  BY TrafficNext
<1> QED
  BY <1>1, <1>2, PTL DEF PlaneSpec

\* A packet, report or request that travels while nothing changes reaches
\* exactly those it is for; whatever changes, nobody gets it twice, and its
\* sender never.
THEOREM TrafficArrivesHolds == PlaneSpec /\ []QueuesHaveRoom => []TrafficArrives
<1>1. TrafficInv => TrafficArrives
  BY TrafficInvArrives
<1> QED
  BY <1>1, TrafficInvHolds, PTL

-----------------------------------------------------------------------------
(* Lists of speakers are current *)

\* A list names those who have fewer louder ones than it has places.
LEMMA LoudestRange ==
  ASSUME NEW names \in SUBSET Participants
  PROVE  Range(Loudest(names)) = {p \in names : Rank(p, names) < TopN}
<1> DEFINE n == Cardinality(names)
           top == Shown(names)
           pick(i) == CHOOSE p \in names : Rank(p, names) = i - 1
           list == [i \in 1 .. top |-> pick(i)]
<1>1. /\ \A p \in names : Rank(p, names) \in 0 .. (n - 1)
      /\ \A p, q \in names : Rank(p, names) = Rank(q, names) => p = q
      /\ \A i \in 0 .. (n - 1) : \E p \in names : Rank(p, names) = i
      /\ n \in Nat /\ top \in Nat /\ top <= n /\ top <= TopN /\ top \in {TopN, n}
      /\ Loudest(names) = list
  BY LoudestRanks
<1> HIDE DEF n, top
<1>2. ASSUME NEW i \in 1 .. top PROVE pick(i) \in names /\ Rank(pick(i), names) = i - 1
  <2>1. i - 1 \in 0 .. (n - 1)
    BY <1>1
  <2> QED
    BY <1>1, <2>1
<1>3. ASSUME NEW p \in names, Rank(p, names) < TopN PROVE \E i \in 1 .. top : pick(i) = p
  <2> DEFINE i == Rank(p, names) + 1
  <2>1. Rank(p, names) \in Nat /\ Rank(p, names) < top
    BY <1>1, <1>3, SpeakersAssumption
  <2>2. i \in 1 .. top /\ i - 1 = Rank(p, names)
    BY <1>1, <2>1
  <2>3. pick(i) \in names /\ Rank(pick(i), names) = i - 1
    BY <1>2, <2>2
  <2> HIDE DEF pick, i
  <2>4. pick(i) = p
    BY <1>1, <2>2, <2>3
  <2> QED
    BY <2>2, <2>4
<1>4. \A i \in 1 .. top : Rank(pick(i), names) < TopN
  <2> SUFFICES ASSUME NEW i \in 1 .. top PROVE Rank(pick(i), names) < TopN
    OBVIOUS
  <2>1. Rank(pick(i), names) = i - 1
    BY <1>2
  <2> HIDE DEF pick
  <2> QED
    BY <1>1, <2>1, SpeakersAssumption
<1>5. Range(list) = {pick(i) : i \in 1 .. top}
  BY DEF Range
<1> HIDE DEF pick, list
<1> QED
  BY <1>1, <1>2, <1>3, <1>4, <1>5

\* Whom a list does not name can be left out.
LEMMA LoudestSame ==
  ASSUME NEW W \in SUBSET Participants, NEW T \in SUBSET W,
         \A p \in W : Rank(p, W) < TopN => p \in T
  PROVE  Loudest(T) = Loudest(W)
<1> DEFINE n == Cardinality(W)
           m == Cardinality(T)
           top == Shown(W)
           few == Shown(T)
           pick(i) == CHOOSE p \in W : Rank(p, W) = i - 1
           take(i) == CHOOSE p \in T : Rank(p, T) = i - 1
<1>1. /\ \A p \in W : Rank(p, W) \in 0 .. (n - 1)
      /\ \A p, q \in W : Rank(p, W) = Rank(q, W) => p = q
      /\ \A i \in 0 .. (n - 1) : \E p \in W : Rank(p, W) = i
      /\ IsFiniteSet(W) /\ n \in Nat /\ top \in Nat /\ top <= n /\ top <= TopN /\ top \in {TopN, n}
      /\ Loudest(W) = [i \in 1 .. top |-> pick(i)]
  BY LoudestRanks
<1>2. T \in SUBSET Participants
  OBVIOUS
<1>3. /\ \A p \in T : Rank(p, T) \in 0 .. (m - 1)
      /\ \A p, q \in T : Rank(p, T) = Rank(q, T) => p = q
      /\ m \in Nat /\ few \in Nat /\ few <= m /\ few <= TopN /\ few \in {TopN, m}
      /\ Loudest(T) = [i \in 1 .. few |-> take(i)]
  BY <1>2, LoudestRanks
<1>4. m <= n
  BY <1>1, FS_Subset
<1> HIDE DEF n, m, top, few
<1>5. ASSUME NEW p \in W, Rank(p, W) < TopN PROVE Louder(p, T) = Louder(p, W) /\ Rank(p, T) = Rank(p, W)
  <2>1. ASSUME NEW q \in Louder(p, W) PROVE Rank(q, W) < TopN
    <3>1. q \in W /\ Loudness[p] \in Int /\ Loudness[q] \in Int /\ Loudness[q] > Loudness[p]
      BY SpeakersAssumption DEF Louder
    <3>2. Louder(q, W) \in SUBSET Louder(p, W)
      <4> SUFFICES ASSUME NEW x \in Louder(q, W) PROVE x \in Louder(p, W)
        OBVIOUS
      <4>1. x \in W /\ Loudness[x] \in Int /\ Loudness[x] > Loudness[q]
        BY SpeakersAssumption DEF Louder
      <4>2. Loudness[x] > Loudness[p]
        BY <3>1, <4>1
      <4> QED
        BY <4>1, <4>2 DEF Louder
    <3>3. IsFiniteSet(Louder(p, W))
      <4>1. Louder(p, W) \in SUBSET W
        BY DEF Louder
      <4> QED
        BY <1>1, <4>1, FS_Subset
    <3>4. Rank(q, W) <= Rank(p, W)
      BY <3>2, <3>3, FS_Subset DEF Rank
    <3>5. Rank(p, W) \in Int /\ Rank(q, W) \in Int
      BY <1>1, <3>1
    <3> QED
      BY <1>5, <3>4, <3>5, SpeakersAssumption
  <2>2. \A q \in Louder(p, W) : q \in T
    BY <2>1 DEF Louder
  <2>3. Louder(p, T) = Louder(p, W)
    BY <2>2 DEF Louder
  <2> QED
    BY <2>3 DEF Rank
<1>6. few = top
  <2>1. CASE n <= TopN
    <3>1. \A p \in W : p \in T
      <4> SUFFICES ASSUME NEW p \in W PROVE p \in T
        OBVIOUS
      <4>1. Rank(p, W) \in 0 .. (n - 1)
        BY <1>1
      <4>2. Rank(p, W) < TopN
        BY <1>1, <2>1, <4>1, SpeakersAssumption
      <4> QED
        BY <4>2
    <3>2. T = W
      BY <3>1
    <3> QED
      BY <3>2 DEF few, top
  <2>2. CASE ~(n <= TopN) /\ TopN = 0
    BY <1>1, <1>3, <2>2
  <2>3. CASE ~(n <= TopN) /\ TopN # 0
    <3>1. TopN \in Nat /\ TopN - 1 \in 0 .. (n - 1)
      BY <1>1, <2>3, SpeakersAssumption
    <3>2. PICK p \in W : Rank(p, W) = TopN - 1
      BY <1>1, <3>1
    <3>3. p \in T /\ Rank(p, T) = TopN - 1
      BY <1>5, <3>1, <3>2
    <3>4. TopN - 1 \in 0 .. (m - 1)
      BY <1>3, <3>3
    <3> QED
      BY <1>1, <1>3, <2>3, <3>1, <3>4
  <2> QED
    BY <2>1, <2>2, <2>3
<1>7. ASSUME NEW i \in 1 .. top PROVE take(i) = pick(i)
  <2>1. i - 1 \in 0 .. (n - 1) /\ i - 1 < TopN
    BY <1>1, SpeakersAssumption
  <2>2. PICK p \in W : Rank(p, W) = i - 1
    BY <1>1, <2>1
  <2>3. p \in T /\ Rank(p, T) = i - 1
    BY <1>5, <2>1, <2>2
  <2>4. pick(i) \in W /\ Rank(pick(i), W) = i - 1
    BY <2>2
  <2>5. take(i) \in T /\ Rank(take(i), T) = i - 1
    BY <2>3
  <2> HIDE DEF pick, take
  <2>6. pick(i) = p
    BY <1>1, <2>2, <2>4
  <2>7. take(i) = p
    BY <1>3, <2>3, <2>5
  <2> QED
    BY <2>6, <2>7
<1> HIDE DEF pick, take
<1> QED
  BY <1>1, <1>3, <1>6, <1>7

\* The loudest of all are among the loudest of the parts.
LEMMA LoudestOfLoudest ==
  ASSUME NEW W \in SUBSET Participants, NEW I, NEW part, \A s \in I : part[s] \in SUBSET W,
         \A p \in W : \E s \in I : p \in part[s],
         NEW T \in SUBSET W, \A s \in I : Range(Loudest(part[s])) \subseteq T
  PROVE  Loudest(T) = Loudest(W)
<1>1. ASSUME NEW p \in W, Rank(p, W) < TopN PROVE p \in T
  <2>1. PICK s \in I : p \in part[s]
    OBVIOUS
  <2> DEFINE V == part[s]
  <2>2. V \in SUBSET W /\ V \in SUBSET Participants /\ p \in V /\ Range(Loudest(V)) \subseteq T
    BY <2>1
  <2> HIDE DEF V
  <2>3. IsFiniteSet(W) /\ Rank(p, W) \in Int /\ Rank(p, V) \in Int
    <3>1. IsFiniteSet(W) /\ \A q \in W : Rank(q, W) \in 0 .. (Cardinality(W) - 1)
      BY LoudestRanks
    <3>2. \A q \in V : Rank(q, V) \in 0 .. (Cardinality(V) - 1)
      BY <2>2, LoudestRanks
    <3> QED
      BY <2>2, <3>1, <3>2
  <2>4. Louder(p, V) \in SUBSET Louder(p, W) /\ Louder(p, W) \in SUBSET W
    BY <2>2 DEF Louder
  <2>5. Rank(p, V) <= Rank(p, W)
    BY <2>3, <2>4, FS_Subset DEF Rank
  <2>6. Rank(p, V) < TopN
    BY <1>1, <2>3, <2>5, SpeakersAssumption
  <2> QED
    BY <2>2, <2>6, LoudestRange
<1> QED
  BY <1>1, LoudestSame

-----------------------------------------------------------------------------
(* The invariant *)

\* Nothing but lists of speakers is queued.
OnlyLists == \A s \in Shards : \A i \in DOMAIN inbox[s] : inbox[s][i].t = "ActiveSpeakers"

\* The members of a room a shard is home to; who is to be told about in it.
OwnOf(s, id) == {q \in MembersOf(id) : Home(seats[q].pid) = s}
TrueList(id) == Loudest(MembersOf(id) \cap voices)

IsListOf(m, id) == m.t = "ActiveSpeakers" /\ m.room = id
Reported(id, s, list) == id \in DOMAIN Latest /\ s \in DOMAIN Latest[id] /\ Latest[id][s] = list

\* The ring has room for what a shard is to report next, so that no report
\* is lost.
ReportsFit ==
  \A s \in Shards : (\A i \in DOMAIN reports : reports[i].shard # s) =>
    Len(reports) + Cardinality(DOMAIN shard[s].rooms) <= ReportCap

SpeakersTypeOK ==
  /\ IsQueue(reports)
  /\ \A id \in DOMAIN parts : DOMAIN parts[id] \subseteq Shards
  /\ round = [heard |-> round.heard, merged |-> round.merged]
  /\ round.heard \subseteq Shards
  /\ round.merged => round.heard = Shards

\* Who is not in a room yet has been told nothing, nobody has been told
\* anything in a room that no list was sent to, and is not about to be.
NobodyToldYet ==
  /\ \A p \in Participants : Newcomer(p) => told[p] = <<>>
  /\ \A id \in LiveRooms \ DOMAIN sent : \A p \in MembersOf(id) : told[p] = <<>>
  /\ \A s \in Shards : \A i \in DOMAIN inbox[s] :
       inbox[s][i].t = "ActiveSpeakers" =>
         inbox[s][i].room < nextRoomId /\ inbox[s][i].room \notin LiveRooms \ DOMAIN sent

\* Once nothing but lists is queued, what a shard has reported since the last
\* change is what its members are like.
ReportsAreIn ==
  OnlyLists => \A s \in round.heard : \A id \in LiveRooms :
    Reported(id, s, Loudest(OwnOf(s, id) \cap voices))

\* Whoever reads q has been told list of the room in the end.
WillTell(p, q, id, list) ==
  \/ told[p] = list /\ \A i \in DOMAIN q : IsListOf(q[i], id) => q[i].top = list
  \/ \E i \in DOMAIN q : /\ IsListOf(q[i], id) /\ q[i].top = list
                        /\ \A j \in DOMAIN q : j > i /\ IsListOf(q[j], id) => q[j].top = list

EverybodyHears ==
  OnlyLists /\ round.merged =>
    \A s \in Shards : \A id \in LiveRooms : \A p \in OwnOf(s, id) : WillTell(p, inbox[s], id, TrueList(id))

ListsInv == FollowInv /\ SpeakersTypeOK /\ NobodyToldYet /\ ReportsAreIn /\ EverybodyHears

-----------------------------------------------------------------------------
(* What a shard knows of its own members *)

\* Who is there and is not said to go stays.
LEMMA MemberStays ==
  ASSUME NEW c, c.there, NEW p, p \in c.own, NEW q, Len(q) \in Nat, NEW s, NEW id,
         \A i \in 1 .. Len(q) : ~(q[i].t = "MemberGone" /\ q[i].name = p)
  PROVE  p \in Read(c, q, s, id).own
<1> DEFINE f == Learning(c, q, s, id)
           S == {i \in Nat : i <= Len(q) => f[i].there /\ p \in f[i].own}
<1>0. f[0] = c /\ \A i \in Nat : f[i + 1] = Learn(f[i], q[i + 1], s, id)
  BY LearningStep
<1> HIDE DEF f
<1>1. 0 \in S
  BY <1>0
<1>2. ASSUME NEW i \in S PROVE i + 1 \in S
  <2>1. i \in Nat /\ i + 1 \in Nat
    OBVIOUS
  <2>2. CASE i + 1 <= Len(q)
    <3> DEFINE d == f[i]
               m == q[i + 1]
    <3>0. i + 1 \in 1 .. Len(q) /\ i <= Len(q)
      BY <2>1, <2>2
    <3>1. d.there /\ p \in d.own /\ ~(m.t = "MemberGone" /\ m.name = p) /\ f[i + 1] = Learn(d, m, s, id)
      BY <1>0, <2>1, <3>0
    <3> HIDE DEF d, m
    <3>2. Learn(d, m, s, id).there /\ p \in Learn(d, m, s, id).own
      BY <3>1 DEF Learn
    <3> QED
      BY <2>1, <3>1, <3>2
  <2> QED
    BY <2>1, <2>2
<1>3. S = Nat
  <2> HIDE DEF S
  <2>1. S \in SUBSET Nat
    BY DEF S
  <2> QED
    BY <1>1, <1>2, <2>1, SetInduction
<1>4. Len(q) \in S
  BY <1>3
<1> QED
  BY <1>4 DEF Read, f

\* A room that is there stays, so that a shard has no room the router has not.
LEMMA RoomStays ==
  ASSUME NEW c, c.there, NEW q, Len(q) \in Nat, NEW s, NEW id
  PROVE  Read(c, q, s, id).there
<1> DEFINE f == Learning(c, q, s, id)
           S == {i \in Nat : f[i].there}
<1>0. f[0] = c /\ \A i \in Nat : f[i + 1] = Learn(f[i], q[i + 1], s, id)
  BY LearningStep
<1> HIDE DEF f
<1>1. 0 \in S
  BY <1>0
<1>2. ASSUME NEW i \in S PROVE i + 1 \in S
  <2> DEFINE d == f[i]
             m == q[i + 1]
  <2>1. i \in Nat /\ i + 1 \in Nat /\ d.there /\ f[i + 1] = Learn(d, m, s, id)
    BY <1>0
  <2> HIDE DEF d, m
  <2>2. Learn(d, m, s, id).there
    BY <2>1 DEF Learn
  <2> QED
    BY <2>1, <2>2
<1>3. S = Nat
  <2> HIDE DEF S
  <2>1. S \in SUBSET Nat
    BY DEF S
  <2> QED
    BY <1>1, <1>2, <2>1, SetInduction
<1>4. Len(q) \in S
  BY <1>3
<1> QED
  BY <1>4 DEF Read, f

LEMMA RoomsAreFew ==
  ASSUME FollowInv, NEW s \in Shards
  PROVE  Cardinality(DOMAIN shard[s].rooms) \in Nat
<1> DEFINE D == DOMAIN shard[s].rooms
           q == inbox[s]
<1>1. /\ IsQueue(q) /\ ShardsWillAgree /\ D \subseteq Nat /\ nextRoomId \in Nat
  BY DEF FollowInv, SpeakersInv, PlaneTypeOK, IsShard
<1>2. Len(q) \in Nat
  BY <1>1 DEF IsQueue
<1>3. ASSUME NEW id \in D PROVE id \in 0 .. (nextRoomId - 1)
  <2> DEFINE c == RoomOf(shard[s], id)
  <2>1. c.there /\ id \in Nat
    BY <1>1 DEF RoomOf
  <2>2. Read(c, q, s, id) = RoutersRoom(s, id)
    BY <1>1, <2>1 DEF ShardsWillAgree
  <2> HIDE DEF c, q
  <2>3. RoutersRoom(s, id).there
    BY <1>2, <2>1, <2>2, RoomStays
  <2>4. id < nextRoomId
    BY <2>3 DEF RoutersRoom, Picture
  <2> QED
    BY <1>1, <2>1, <2>4
<1> HIDE DEF D
<1>4. IsFiniteSet(0 .. (nextRoomId - 1)) /\ D \in SUBSET (0 .. (nextRoomId - 1))
  BY <1>1, <1>3, FS_Interval
<1>5. IsFiniteSet(D)
  BY <1>4, FS_Subset
<1> QED
  BY <1>5, FS_CardinalityType DEF D

LEMMA LocalsAreMembers ==
  ASSUME FollowInv, NEW s \in Shards, NEW id \in DOMAIN shard[s].rooms,
         NEW p \in DOMAIN shard[s].rooms[id].locals, ~GoneIn(inbox[s], p)
  PROVE  p \in OwnOf(s, id)
<1> DEFINE c == RoomOf(shard[s], id)
           q == inbox[s]
<1>1. /\ IsQueue(q) /\ ShardsWillAgree /\ id \in Nat
  BY DEF FollowInv, SpeakersInv, PlaneTypeOK, IsShard
<1>2. c.there /\ p \in c.own
  BY DEF RoomOf
<1>3. Len(q) \in Nat /\ DOMAIN q = 1 .. Len(q)
  BY <1>1 DEF IsQueue
<1>4. \A i \in 1 .. Len(q) : ~(q[i].t = "MemberGone" /\ q[i].name = p)
  BY <1>3 DEF GoneIn
<1>5. Read(c, q, s, id) = RoutersRoom(s, id)
  BY <1>1 DEF ShardsWillAgree
<1> HIDE DEF c, q
<1>6. p \in RoutersRoom(s, id).own
  BY <1>2, <1>3, <1>4, <1>5, MemberStays
<1> QED
  BY <1>6 DEF RoutersRoom, Picture, MembersIn, OwnOf, MembersOf

\* With nothing but lists queued, every shard has all rooms and knows its
\* members in each.
LEMMA RoomsAreThere ==
  ASSUME FollowInv, OnlyLists, NEW s \in Shards
  PROVE  /\ nextRoomId \in Nat /\ DOMAIN shard[s].rooms = 0 .. (nextRoomId - 1)
         /\ LiveRooms \subseteq 0 .. (nextRoomId - 1)
         /\ \A id \in DOMAIN shard[s].rooms : DOMAIN shard[s].rooms[id].locals = OwnOf(s, id)
<1> DEFINE q == inbox[s]
<1>1. /\ PlaneTypeOK /\ ShardsWillAgree /\ Tables(seats, roomId, nextRoomId)
      /\ IsShard(shard[s]) /\ IsQueue(q) /\ nextRoomId \in Nat
  BY TablesAre DEF FollowInv, SpeakersInv, PlaneTypeOK
<1>2. Len(q) \in Nat /\ DOMAIN q = 1 .. Len(q)
  BY <1>1 DEF IsQueue
<1>3. ASSUME NEW id \in Nat PROVE RoomOf(shard[s], id) = RoutersRoom(s, id)
  <2> DEFINE c == RoomOf(shard[s], id)
  <2>1. Read(c, q, s, id) = RoutersRoom(s, id)
    BY <1>1 DEF ShardsWillAgree
  <2>2. \A i \in 1 .. Len(q) : q[i].t = "ActiveSpeakers"
    BY <1>2 DEF OnlyLists
  <2> HIDE DEF c, q
  <2>3. \A i \in 1 .. Len(q) : Learn(c, q[i], s, id) = c
    BY <2>2 DEF Learn
  <2>4. Read(c, q, s, id) = c
    BY <1>2, <2>3, ReadNothing
  <2> QED
    BY <2>1, <2>4 DEF c
<1>4. ASSUME NEW id \in Nat PROVE id \in DOMAIN shard[s].rooms <=> id < nextRoomId
  <2>1. RoutersRoom(s, id).there = (id < nextRoomId)
    BY DEF RoutersRoom, Picture
  <2>2. CASE id \in DOMAIN shard[s].rooms
    <3>1. RoomOf(shard[s], id).there
      BY <2>2 DEF RoomOf
    <3> QED
      BY <1>3, <2>1, <2>2, <3>1
  <2>3. CASE id \notin DOMAIN shard[s].rooms
    <3>1. ~RoomOf(shard[s], id).there
      BY <2>3 DEF RoomOf, NoRoomYet
    <3> QED
      BY <1>3, <2>1, <2>3, <3>1
  <2> QED
    BY <2>2, <2>3
<1>5. DOMAIN shard[s].rooms \subseteq Nat
  BY <1>1 DEF IsShard
<1>6. DOMAIN shard[s].rooms = 0 .. (nextRoomId - 1)
  <2> DEFINE D == DOMAIN shard[s].rooms
  <2>1. D \subseteq Nat /\ nextRoomId \in Nat /\ \A id \in Nat : id \in D <=> id < nextRoomId
    BY <1>1, <1>4, <1>5
  <2> HIDE DEF D
  <2>2. \A id \in Nat : id < nextRoomId <=> id \in 0 .. (nextRoomId - 1)
    BY <2>1
  <2>3. D = 0 .. (nextRoomId - 1)
    <3> DEFINE N == 0 .. (nextRoomId - 1)
    <3>1. N \subseteq Nat
      BY <2>1
    <3>2. \A id \in Nat : id \in D <=> id \in N
      BY <2>1, <2>2
    <3> HIDE DEF N
    <3>3. D = N
      BY <2>1, <3>1, <3>2
    <3> QED
      BY <3>3 DEF N
  <2> QED
    BY <2>3 DEF D
<1>7. LiveRooms \subseteq 0 .. (nextRoomId - 1)
  BY <1>1 DEF LiveRooms, PlaneTypeOK, Tables
<1>8. ASSUME NEW id \in DOMAIN shard[s].rooms PROVE DOMAIN shard[s].rooms[id].locals = OwnOf(s, id)
  <2>1. RoomOf(shard[s], id).own = DOMAIN shard[s].rooms[id].locals
    BY DEF RoomOf
  <2>2. RoutersRoom(s, id).own = OwnOf(s, id)
    BY DEF RoutersRoom, Picture, MembersIn, OwnOf, MembersOf
  <2> QED
    BY <1>3, <1>5, <2>1, <2>2
<1> QED
  BY <1>1, <1>6, <1>7, <1>8

-----------------------------------------------------------------------------
(* The ring of reports *)

\* A report in the ring counts before what the table has.
ReportedAs(id, s, list, of, ring_, table) ==
  IF of # {} THEN ring_[Max(of)].top = list
  ELSE id \in DOMAIN table /\ s \in DOMAIN table[id] /\ table[id][s] = list

LEMMA ReportedIs ==
  ASSUME NEW id, NEW s \in Shards, NEW list
  PROVE  /\ Reported(id, s, list) <=> ReportedAs(id, s, list, ReportsOf(id, s), reports, parts)
         /\ Reported(id, s, list)' <=> ReportedAs(id, s, list, ReportsOf(id, s)', reports', parts')
<1>1. Reported(id, s, list) <=> ReportedAs(id, s, list, ReportsOf(id, s), reports, parts)
  <2> DEFINE by == {x \in Shards : ReportsOf(id, x) # {}}
             rooms == DOMAIN parts \cup {reports[i].room : i \in DOMAIN reports}
             row == [x \in DOMAIN At(parts, id, Nothing) \cup by |->
                       IF x \in by THEN reports[Max(ReportsOf(id, x))].top ELSE parts[id][x]]
  <2>1. DOMAIN Latest = rooms /\ (id \in rooms => Latest[id] = row)
    BY DEF Latest
  <2>2. ReportsOf(id, s) # {} => id \in rooms /\ s \in by
    BY DEF ReportsOf
  <2>3. DOMAIN At(parts, id, Nothing) = IF id \in DOMAIN parts THEN DOMAIN parts[id] ELSE {}
    BY DEF At, Nothing
  <2>4. s \in by <=> ReportsOf(id, s) # {}
    OBVIOUS
  <2>5. s \in DOMAIN row <=> s \in by \/ (id \in DOMAIN parts /\ s \in DOMAIN parts[id])
    BY <2>3
  <2>6. s \in by => row[s] = reports[Max(ReportsOf(id, s))].top
    OBVIOUS
  <2>7. s \in DOMAIN row /\ s \notin by => row[s] = parts[id][s]
    OBVIOUS
  <2>8. id \in DOMAIN parts => id \in rooms
    OBVIOUS
  <2> HIDE DEF by, rooms, row
  <2> QED
    BY <2>1, <2>2, <2>4, <2>5, <2>6, <2>7, <2>8 DEF Reported, ReportedAs
<1>2. Reported(id, s, list)' <=> ReportedAs(id, s, list, ReportsOf(id, s)', reports', parts')
  <2> DEFINE of(x) == ReportsOf(id, x)'
             by == {x \in Shards : of(x) # {}}
             rooms == DOMAIN parts' \cup {reports'[i].room : i \in DOMAIN reports'}
             row == [x \in DOMAIN At(parts', id, Nothing) \cup by |->
                       IF x \in by THEN reports'[Max(of(x))].top ELSE parts'[id][x]]
  <2>1. DOMAIN Latest' = rooms /\ (id \in rooms => Latest'[id] = row)
    BY DEF Latest
  <2>2. of(s) # {} => id \in rooms /\ s \in by
    BY DEF ReportsOf
  <2> HIDE DEF of
  <2>3. DOMAIN At(parts', id, Nothing) = IF id \in DOMAIN parts' THEN DOMAIN parts'[id] ELSE {}
    BY DEF At, Nothing
  <2>4. s \in by <=> of(s) # {}
    OBVIOUS
  <2>5. s \in DOMAIN row <=> s \in by \/ (id \in DOMAIN parts' /\ s \in DOMAIN parts'[id])
    BY <2>3
  <2>6. s \in by => row[s] = reports'[Max(of(s))].top
    OBVIOUS
  <2>7. s \in DOMAIN row /\ s \notin by => row[s] = parts'[id][s]
    OBVIOUS
  <2>8. id \in DOMAIN parts' => id \in rooms
    OBVIOUS
  <2> HIDE DEF by, rooms, row
  <2>9. Reported(id, s, list)' <=> id \in DOMAIN Latest' /\ s \in DOMAIN Latest'[id] /\ Latest'[id][s] = list
    BY DEF Reported
  <2>10. Reported(id, s, list)' <=> ReportedAs(id, s, list, of(s), reports', parts')
    BY <2>1, <2>2, <2>4, <2>5, <2>6, <2>7, <2>8, <2>9 DEF ReportedAs
  <2> QED
    BY <2>10 DEF of
<1> QED
  BY <1>1, <1>2

LEMMA MaxOfOne == ASSUME NEW j \in Nat PROVE Max({j}) = j
BY DEF Max

LEMMA MaxIsOne ==
  ASSUME NEW m \in Nat, NEW of \in SUBSET (1 .. m), of # {}
  PROVE  Max(of) \in of
<1> DEFINE S == {m - i : i \in of}
<1>1. S \in SUBSET Nat /\ S # {}
  <2>1. \A i \in of : i \in 1 .. m
    OBVIOUS
  <2>2. \A i \in 1 .. m : m - i \in Nat
    OBVIOUS
  <2> QED
    BY <2>1, <2>2
<1>2. PICK x \in S : \A y \in S : x <= y
  <2> HIDE DEF S
  <2> QED
    BY <1>1, LeastNatural
<1>3. PICK j \in of : x = m - j
  BY <1>2
<1>4. ASSUME NEW i \in of PROVE j >= i
  <2>1. m - i \in S
    OBVIOUS
  <2>2. m - j <= m - i
    BY <1>2, <1>3, <2>1
  <2>3. i \in Int /\ j \in Int
    OBVIOUS
  <2> QED
    BY <2>2, <2>3
<1>5. \E y \in of : \A i \in of : y >= i
  BY <1>4
<1> QED
  BY <1>5 DEF Max

\* What a report makes of the ring, when it fits.
LEMMA ReportIs ==
  ASSUME IsQueue(reports), NEW s \in Shards, NEW n \in Nat, NEW sh, Cardinality(DOMAIN sh.rooms) = n,
         Report(s, sh, voices), Len(reports) + n <= ReportCap
  PROVE  \E k : /\ Joint(reports, k, reports') /\ Len(k) = n
                /\ \A id \in 0 .. (n - 1) :
                     k[id + 1] = [room |-> id, shard |-> s, top |-> Loudest(DOMAIN sh.rooms[id].locals \cap voices)]
<1> DEFINE report(id) == [room |-> id, shard |-> s, top |-> Loudest(DOMAIN sh.rooms[id].locals \cap voices)]
           k == [i \in 1 .. n |-> report(i - 1)]
           all == reports \o k
<1>2. reports' = SubSeq(all, 1, Min({ReportCap, Len(all)}))
  BY DEF Report
<1>3. IsQueue(k) /\ Len(k) = n
  <2>1. k \in [1 .. n -> Range(k)]
    BY DEF Range
  <2> HIDE DEF k
  <2> QED
    BY <2>1 DEF IsQueue
<1>4. \A id \in 0 .. (n - 1) : k[id + 1] = report(id)
  <2> SUFFICES ASSUME NEW id \in 0 .. (n - 1) PROVE k[id + 1] = report(id)
    OBVIOUS
  <2>1. id + 1 \in 1 .. n /\ (id + 1) - 1 = id
    OBVIOUS
  <2> HIDE DEF report
  <2> QED
    BY <2>1
<1> HIDE DEF k, report
<1>5. IsQueue(all) /\ Len(all) = Len(reports) + n /\ Joint(reports, k, all)
      /\ Len(all) \in Nat /\ all \in Seq(Range(all))
  BY <1>3, JointIs DEF Joint, IsQueue
<1> HIDE DEF all
<1>6. Min({ReportCap, Len(all)}) = Len(all)
  <2>1. Len(all) <= ReportCap /\ ReportCap \in Nat
    BY <1>5, SpeakersAssumption
  <2> QED
    BY <1>5, <2>1 DEF Min
<1>7. SubSeq(all, 1, Len(all)) = all
  <2> DEFINE S == Range(all)
  <2>1. all \in Seq(S)
    BY <1>5
  <2> HIDE DEF S
  <2> QED
    BY <2>1
<1> QED
  BY <1>2, <1>3, <1>4, <1>5, <1>6, <1>7 DEF report

\* A shard that has no report in the ring has the last word about its own
\* members with its next one, and none about those of others.
LEMMA ReportCounts ==
  ASSUME IsQueue(reports), NEW s \in Shards, NEW n \in Nat, NEW sh, DOMAIN sh.rooms = 0 .. (n - 1),
         Report(s, sh, voices), Len(reports) + Cardinality(DOMAIN sh.rooms) <= ReportCap,
         \A i \in DOMAIN reports : reports[i].shard # s, parts' = parts
  PROVE  /\ IsQueue(reports')
         /\ \A id \in 0 .. (n - 1) : \A list :
              list = Loudest(DOMAIN sh.rooms[id].locals \cap voices) => Reported(id, s, list)'
         /\ \A x \in Shards : x # s => \A id, list : Reported(id, x, list) => Reported(id, x, list)'
<1> DEFINE list(id) == Loudest(DOMAIN sh.rooms[id].locals \cap voices)
<1>0. Cardinality(DOMAIN sh.rooms) = n /\ Len(reports) + n <= ReportCap
  <2>1. Cardinality(0 .. (n - 1)) = IF 0 > n - 1 THEN 0 ELSE (n - 1) - 0 + 1
    BY FS_Interval
  <2> QED
    BY <2>1
<1>1. PICK k : /\ Joint(reports, k, reports') /\ Len(k) = n
               /\ \A id \in 0 .. (n - 1) : k[id + 1] = [room |-> id, shard |-> s, top |-> list(id)]
  BY <1>0, ReportIs
<1> DEFINE m == Len(reports)
<1>2. /\ IsQueue(reports') /\ m \in Nat /\ DOMAIN reports = 1 .. m /\ DOMAIN reports' = 1 .. (m + n)
      /\ \A i \in 1 .. m : reports'[i] = reports[i]
      /\ \A i \in 1 .. n : reports'[m + i] = k[i]
  BY <1>1 DEF Joint
<1> HIDE DEF m, list
<1>3. ASSUME NEW i \in DOMAIN reports'
      PROVE  \/ i \in DOMAIN reports /\ reports'[i] = reports[i] /\ reports'[i].shard # s
             \/ \E id \in 0 .. (n - 1) :
                  i = m + (id + 1) /\ reports'[i] = [room |-> id, shard |-> s, top |-> list(id)]
  <2>1. CASE i <= m
    BY <1>2, <2>1
  <2>2. CASE ~(i <= m)
    <3> DEFINE id == i - m - 1
    <3>1. id \in 0 .. (n - 1) /\ id + 1 \in 1 .. n /\ m + (id + 1) = i
      BY <1>2, <2>2
    <3> HIDE DEF id
    <3>2. reports'[i] = k[id + 1] /\ k[id + 1] = [room |-> id, shard |-> s, top |-> list(id)]
      BY <1>1, <1>2, <3>1
    <3> QED
      BY <3>1, <3>2
  <2> QED
    BY <2>1, <2>2
<1>4. ASSUME NEW id \in 0 .. (n - 1), NEW l, l = list(id) PROVE Reported(id, s, l)'
  <2> DEFINE j == m + (id + 1)
             of == ReportsOf(id, s)'
  <2>1. id + 1 \in 1 .. n /\ j \in Nat /\ j \in DOMAIN reports'
    BY <1>2
  <2>2. reports'[j] = [room |-> id, shard |-> s, top |-> list(id)]
    BY <1>1, <1>2, <2>1
  <2> HIDE DEF j
  <2>3. of = {j}
    <3>1. j \in of
      BY <2>1, <2>2 DEF ReportsOf
    <3>2. ASSUME NEW i \in of PROVE i = j
      <4>1. i \in DOMAIN reports' /\ reports'[i].room = id /\ reports'[i].shard = s
        BY DEF ReportsOf
      <4>2. PICK x \in 0 .. (n - 1) :
              i = m + (x + 1) /\ reports'[i] = [room |-> x, shard |-> s, top |-> list(x)]
        BY <1>3, <4>1
      <4>3. x = id
        BY <4>1, <4>2
      <4> QED
        BY <4>2, <4>3 DEF j
    <3> QED
      BY <3>1, <3>2
  <2> HIDE DEF of
  <2>4. Max(of) = j
    BY <2>1, <2>3, MaxOfOne
  <2>5. ReportedAs(id, s, l, of, reports', parts')
    BY <1>4, <2>2, <2>3, <2>4 DEF ReportedAs
  <2>6. ReportedAs(id, s, l, ReportsOf(id, s)', reports', parts')
    BY <2>5 DEF of
  <2> QED
    BY <2>6, ReportedIs
<1>5. ASSUME NEW x \in Shards, x # s, NEW id, NEW l, Reported(id, x, l) PROVE Reported(id, x, l)'
  <2> DEFINE of == ReportsOf(id, x)
  <2>1. ReportsOf(id, x)' = of
    <3>1. \A i \in DOMAIN reports' : reports'[i].shard = x => i \in DOMAIN reports /\ reports'[i] = reports[i]
      BY <1>3, <1>5
    <3>2. \A i \in DOMAIN reports : i \in DOMAIN reports' /\ reports'[i] = reports[i]
      BY <1>2
    <3> QED
      BY <3>1, <3>2 DEF ReportsOf
  <2>2. ReportedAs(id, x, l, of, reports, parts)
    BY <1>5, ReportedIs
  <2>3. of \subseteq 1 .. m
    BY <1>2 DEF ReportsOf
  <2> HIDE DEF of
  <2>4. of # {} => Max(of) \in of
    BY <1>2, <2>3, MaxIsOne
  <2>5. ReportedAs(id, x, l, of, reports', parts')
    BY <1>2, <2>2, <2>3, <2>4 DEF ReportedAs
  <2> QED
    BY <2>1, <2>5, ReportedIs
<1> QED
  BY <1>2, <1>4, <1>5 DEF list

\* A merge keeps what it has merged.
LEMMA MergeKeepsReports ==
  ASSUME SpeakersTypeOK, NEW elapsed, Merge(elapsed)
  PROVE  /\ reports' = <<>> /\ parts' = MergedTable
         /\ \A id \in DOMAIN parts' : DOMAIN parts'[id] \subseteq Shards
         /\ \A s \in Shards : \A id \in LiveRooms : \A list : Reported(id, s, list) => Reported(id, s, list)'
<1>1. reports' = <<>> /\ parts' = MergedTable
  BY DEF Merge, MergedTable
<1>2. DOMAIN MergedTable = DOMAIN Latest \cap LiveRooms /\ \A id \in DOMAIN MergedTable : MergedTable[id] = Latest[id]
  BY DEF MergedTable, Restrict
<1>3. ASSUME NEW id \in DOMAIN Latest PROVE DOMAIN Latest[id] \subseteq Shards
  <2>1. DOMAIN Latest[id] = DOMAIN At(parts, id, Nothing) \cup {s \in Shards : ReportsOf(id, s) # {}}
    BY DEF Latest
  <2>2. DOMAIN At(parts, id, Nothing) \subseteq Shards
    BY DEF SpeakersTypeOK, At, Nothing
  <2> QED
    BY <2>1, <2>2
<1>4. ASSUME NEW s \in Shards, NEW id \in LiveRooms, NEW list, Reported(id, s, list) PROVE Reported(id, s, list)'
  <2>1. id \in DOMAIN MergedTable /\ s \in DOMAIN MergedTable[id] /\ MergedTable[id][s] = list
    BY <1>2, <1>4 DEF Reported
  <2>2. ReportsOf(id, s)' = {}
    BY <1>1 DEF ReportsOf
  <2> QED
    BY <1>1, <2>1, <2>2, ReportedIs DEF ReportedAs
<1> QED
  BY <1>1, <1>2, <1>3, <1>4

-----------------------------------------------------------------------------
(* Who has been told nothing yet *)

\* Whoever is new in a room has not been told anything anywhere.
RoomsGrow ==
  /\ \A id \in LiveRooms' : /\ id \in LiveRooms \/ ~(id < nextRoomId)
                            /\ \A p \in MembersOf(id)' : Newcomer(p) \/ (id \in LiveRooms /\ p \in MembersOf(id))
  /\ nextRoomId' \in Nat /\ nextRoomId <= nextRoomId'
  /\ DOMAIN seats' \subseteq Participants
  /\ \A p \in Participants : Newcomer(p)' => Newcomer(p)

LEMMA UntoldGrowing ==
  ASSUME PlaneTypeOK, NobodyToldYet, RoomsGrow, UNCHANGED <<told, sent>>,
         NEW k, NoLists(k), \A s \in Shards : Joint(inbox[s], k[s], inbox'[s])
  PROVE  NobodyToldYet'
<1>1. \A p \in Participants : Newcomer(p)' => told'[p] = <<>>
  BY DEF NobodyToldYet, RoomsGrow
<1>2. ASSUME NEW id \in LiveRooms' \ DOMAIN sent', NEW p \in MembersOf(id)' PROVE told'[p] = <<>>
  <2>1. p \in Participants
    BY DEF MembersOf, RoomsGrow
  <2> QED
    BY <2>1 DEF NobodyToldYet, RoomsGrow
<1>3. ASSUME NEW s \in Shards, NEW i \in DOMAIN inbox'[s], inbox'[s][i].t = "ActiveSpeakers"
      PROVE  inbox'[s][i].room < nextRoomId' /\ inbox'[s][i].room \notin LiveRooms' \ DOMAIN sent'
  <2> DEFINE id == inbox'[s][i].room
  <2>1. Joint(inbox[s], k[s], inbox'[s])
    OBVIOUS
  <2>2. i \in DOMAIN inbox[s] /\ inbox'[s][i] = inbox[s][i]
    BY <1>3, <2>1, JointParts DEF NoLists
  <2>3. id \in Nat /\ id < nextRoomId /\ id \notin LiveRooms \ DOMAIN sent /\ nextRoomId \in Nat
    BY <1>3, <2>2 DEF NobodyToldYet, PlaneTypeOK, IsControl
  <2> HIDE DEF id
  <2>4. id < nextRoomId' /\ id \notin LiveRooms' \ DOMAIN sent'
    BY <2>3 DEF RoomsGrow
  <2> QED
    BY <2>4 DEF id
<1> QED
  BY <1>1, <1>2, <1>3 DEF NobodyToldYet

LEMMA RoomsSame ==
  ASSUME PlaneTypeOK, UNCHANGED <<roomId, nextRoomId>>, DOMAIN seats' = DOMAIN seats,
         \A p \in DOMAIN seats : seats'[p].room = seats[p].room,
         \A p \in Participants : Newcomer(p)' => Newcomer(p)
  PROVE  RoomsGrow
<1>1. LiveRooms' = LiveRooms /\ \A id : MembersOf(id)' = MembersOf(id)
  BY DEF LiveRooms, MembersOf
<1>2. nextRoomId \in Nat /\ DOMAIN seats \subseteq Participants
  BY DEF PlaneTypeOK
<1>3. nextRoomId <= nextRoomId'
  BY <1>2
<1> QED
  BY <1>1, <1>2, <1>3 DEF RoomsGrow

LEMMA RoomsJoined ==
  ASSUME SpeakersInv, NEW m, Joining(m), \A p \in Participants : Newcomer(p)' => Newcomer(p)
  PROVE  RoomsGrow
<1>1. /\ JoinId(m) \in Nat /\ nextRoomId' \in Nat /\ DOMAIN seats' = DOMAIN seats \cup {m.p}
      /\ DOMAIN seats' \subseteq Participants
      /\ \A p \in DOMAIN seats : roomId'[seats'[p].room] = roomId[seats[p].room]
      /\ roomId[m.r] # NoId => JoinId(m) \in LiveRooms
      /\ \A id \in LiveRooms' : id \in LiveRooms \/ id = JoinId(m)
  BY JoinedRooms
<1>2. /\ Newcomer(m.p) /\ m.p \notin DOMAIN seats
      /\ nextRoomId' = nextRoomId \/ nextRoomId' = nextRoomId + 1
  BY DEF Joining
<1>3. PlaneTypeOK /\ TablesInv /\ nextRoomId \in Nat
  BY DEF SpeakersInv, PlaneTypeOK
<1>4. nextRoomId <= nextRoomId'
  BY <1>2, <1>3
<1>5. JoinId(m) \in LiveRooms \/ ~(JoinId(m) < nextRoomId)
  BY <1>1, <1>3 DEF JoinId
<1>6. ASSUME NEW id \in LiveRooms', NEW p \in MembersOf(id)' PROVE Newcomer(p) \/ (id \in LiveRooms /\ p \in MembersOf(id))
  <2>1. p \in DOMAIN seats' /\ roomId'[seats'[p].room] = id
    BY DEF MembersOf
  <2>2. CASE p = m.p
    BY <1>2, <2>2
  <2>3. CASE p # m.p
    <3>1. p \in DOMAIN seats /\ roomId[seats[p].room] = id
      BY <1>1, <2>1, <2>3
    <3>2. id \in LiveRooms
      BY <1>3, <3>1 DEF TablesInv, LiveRooms, PlaneTypeOK, IsSeat
    <3> QED
      BY <3>1, <3>2 DEF MembersOf
  <2> QED
    BY <2>2, <2>3
<1> QED
  BY <1>1, <1>4, <1>5, <1>6 DEF RoomsGrow

LEMMA RoomsLeft ==
  ASSUME SpeakersInv, NEW m, Leaving(m), \A p \in Participants : Newcomer(p)' => Newcomer(p)
  PROVE  RoomsGrow
<1>1. /\ DOMAIN seats' = DOMAIN seats \ {m.p} /\ LiveRooms' \subseteq LiveRooms
      /\ \A p \in DOMAIN seats' : roomId'[seats'[p].room] = roomId[seats[p].room]
  BY LeftRooms
<1>2. nextRoomId' = nextRoomId /\ nextRoomId \in Nat /\ DOMAIN seats \subseteq Participants
  BY DEF Leaving, SpeakersInv, PlaneTypeOK
<1>3. nextRoomId <= nextRoomId'
  BY <1>2
<1>4. \A id : \A p \in MembersOf(id)' : p \in MembersOf(id)
  BY <1>1 DEF MembersOf
<1> QED
  BY <1>1, <1>2, <1>3, <1>4 DEF RoomsGrow

LEMMA UntoldRoutes ==
  ASSUME SpeakersInv, NobodyToldYet, QueuesHaveRoom', Routes
  PROVE  NobodyToldYet'
<1>1. /\ UNCHANGED <<phase, room, shard, told, sent>> /\ (RouterTakes \/ FlushOffers) /\ PlaneTypeOK
  BY DEF Routes, RouterNext, shardVars, speakerVars, SpeakersInv
<1>2. ASSUME \A p \in Participants : Newcomer(p)' => Newcomer(p), NEW k, Silent(k), NoLists(k)
      PROVE  NobodyToldYet'
  <2>1. UNCHANGED <<roomId, nextRoomId, seats>> /\ \A s \in Shards : Joint(inbox[s], k[s], inbox'[s])
    BY <1>2 DEF Silent
  <2>2. RoomsGrow
    BY <1>1, <1>2, <2>1, RoomsSame
  <2> QED
    BY <1>1, <1>2, <2>1, <2>2, UntoldGrowing
<1>3. CASE RouterTakes
  <2>1. LaterEvents /\ \A p \in Participants : Newcomer(p)' => Newcomer(p)
    BY <1>1, <1>3, TakenLater DEF LaterEvents
  <2>2. PICK m : m = ctl[1]
    OBVIOUS
  <2>3. \/ Joining(m) \/ Leaving(m)
        \/ \E r : Spreading(r)
        \/ \E k : Silent(k) /\ NoLists(k)
    BY <1>1, <1>3, <2>2, EventsAre
  <2>4. CASE Joining(m)
    <3> DEFINE k == [s \in Shards |-> JoinNews(m)]
    <3>1. \A s \in Shards : k[s] = JoinNews(m) /\ Joint(inbox[s], k[s], inbox'[s])
      BY <2>4 DEF Joining
    <3>2. \A i \in DOMAIN JoinNews(m) : JoinNews(m)[i].t # "ActiveSpeakers"
      <4> SUFFICES ASSUME NEW i \in DOMAIN JoinNews(m) PROVE JoinNews(m)[i].t # "ActiveSpeakers"
        OBVIOUS
      <4>1. \/ JoinNews(m)[i] = [t |-> "RoomUp", room |-> JoinId(m), r |-> m.r]
            \/ JoinNews(m)[i] = [t |-> "MemberUp", room |-> JoinId(m), name |-> m.p, pid |-> JoinPid(m)]
            \/ JoinNews(m)[i] = WantsAll(JoinId(m), JoinSeats(m), m.r)
        BY JoinNewsIs
      <4> QED
        BY <4>1 DEF WantsAll
    <3> HIDE DEF k
    <3>3. NoLists(k)
      BY <3>1, <3>2 DEF NoLists
    <3>4. RoomsGrow
      BY <2>1, <2>4, RoomsJoined
    <3> QED
      BY <1>1, <3>1, <3>3, <3>4, UntoldGrowing
  <2>5. CASE Leaving(m)
    <3> DEFINE k == [s \in Shards |-> LeaveNews(m)]
    <3>1. \A s \in Shards : k[s] = LeaveNews(m) /\ Joint(inbox[s], k[s], inbox'[s])
      BY <2>5 DEF Leaving
    <3>2. \A i \in DOMAIN LeaveNews(m) : LeaveNews(m)[i].t # "ActiveSpeakers"
      <4> SUFFICES ASSUME NEW i \in DOMAIN LeaveNews(m) PROVE LeaveNews(m)[i].t # "ActiveSpeakers"
        OBVIOUS
      <4>1. \/ LeaveNews(m)[i] = [t |-> "MemberGone", room |-> roomId[m.r], name |-> m.p]
            \/ LeaveNews(m)[i] = WantsAll(roomId[m.r], LeaveSeats(m), m.r)
        BY LeaveNewsIs
      <4> QED
        BY <4>1 DEF WantsAll
    <3> HIDE DEF k
    <3>3. NoLists(k)
      BY <3>1, <3>2 DEF NoLists
    <3>4. RoomsGrow
      BY <2>1, <2>5, RoomsLeft
    <3> QED
      BY <1>1, <3>1, <3>3, <3>4, UntoldGrowing
  <2>6. ASSUME NEW r, Spreading(r) PROVE NobodyToldYet'
    <3> DEFINE w == WantsAll(roomId[r], seats', r)
               k == [s \in Shards |-> <<w>>]
    <3>1. \A s \in Shards : k[s] = <<w>> /\ Joint(inbox[s], k[s], inbox'[s])
      BY <2>6 DEF Spreading
    <3>2. w.t = "WantsAll"
      BY DEF WantsAll
    <3> HIDE DEF w, k
    <3>3. \A i \in DOMAIN <<w>> : <<w>>[i] = w
      OBVIOUS
    <3>4. NoLists(k)
      BY <3>1, <3>2, <3>3 DEF NoLists
    <3>5. RoomsGrow
      BY <1>1, <2>1, <2>6, RoomsSame DEF Spreading
    <3> QED
      BY <1>1, <3>1, <3>4, <3>5, UntoldGrowing
  <2> QED
    BY <1>2, <2>1, <2>3, <2>4, <2>5, <2>6
<1>4. CASE FlushOffers
  <2>1. \E k : Silent(k) /\ NoLists(k)
    BY <1>1, <1>4, FlushIsSilent
  <2>2. \A p \in Participants : Newcomer(p)' => Newcomer(p)
    BY <1>1, <1>4 DEF FlushOffers, Newcomer
  <2> QED
    BY <1>2, <2>1, <2>2
<1> QED
  BY <1>1, <1>3, <1>4

LEMMA UntoldSends ==
  ASSUME SpeakersInv, NobodyToldYet, Sends
  PROVE  NobodyToldYet'
<1> DEFINE k == [s \in Shards |-> <<>>]
<1>1. PlaneTypeOK /\ UNCHANGED <<roomId, nextRoomId, nextPid, seats, shard, inbox, told, sent>>
  BY DEF SpeakersInv, Sends, tableVars, shardVars, speakerVars
<1>2. \A p \in Participants : Newcomer(p)' => Newcomer(p)
  BY SendsLater DEF LaterEvents
<1>3. RoomsGrow
  BY <1>1, <1>2, RoomsSame
<1>4. Silent(k) /\ NoLists(k)
  BY <1>1, UnchangedIsSilent
<1> HIDE DEF k
<1>5. \A s \in Shards : Joint(inbox[s], k[s], inbox'[s])
  BY <1>4 DEF Silent
<1> QED
  BY <1>1, <1>3, <1>4, <1>5, UntoldGrowing

LEMMA UntoldSame ==
  ASSUME NobodyToldYet, SameControl, UNCHANGED <<told, sent>>
  PROVE  NobodyToldYet'
<1>1. UNCHANGED <<ctl, phase, roomId, nextRoomId, seats, inbox>>
  BY DEF SameControl, routerVars, tableVars
<1>2. \A p : Newcomer(p)' <=> Newcomer(p)
  BY <1>1 DEF Newcomer
<1>3. LiveRooms' = LiveRooms /\ \A id : MembersOf(id)' = MembersOf(id)
  BY <1>1 DEF LiveRooms, MembersOf
<1> QED
  BY <1>1, <1>2, <1>3 DEF NobodyToldYet

\* A list that a shard takes is told its members in the room, and nobody else
\* who is seated or to be.
LEMMA ListPassed ==
  ASSUME FollowInv, NEW s \in Shards, OnShardControl(s), NEW m, m = inbox[s][1], m.t = "ActiveSpeakers"
  PROVE  /\ UNCHANGED <<ctl, phase, roomId, nextRoomId, seats, voices, round, reports, parts, sent>>
         /\ Rest(inbox[s], inbox'[s]) /\ \A x \in Shards : x # s => inbox'[x] = inbox[x]
         /\ \A p \in Participants : ~GoneIn(inbox[s], p) =>
              told'[p] = told[p] \/ (told'[p] = m.top /\ p \in OwnOf(s, m.room))
         /\ OnlyLists => \A id \in LiveRooms : \A p \in OwnOf(s, id) :
              IF id = m.room THEN told'[p] = m.top ELSE told'[p] = told[p]
<1>0. PlaneTypeOK /\ SpeakersInv
  BY DEF FollowInv, SpeakersInv
<1>1. Taking(s)
  BY <1>0, TakingIs
<1>2. Head(inbox[s]) = m
  BY <1>0, QueueTail DEF PlaneTypeOK, OnShardControl
<1>3. /\ PassOn(shard[s], m) /\ UNCHANGED <<round, reports, parts, sent>>
      /\ voices' = voices
  BY <1>2 DEF OnShardControl
<1>4. /\ UNCHANGED <<ctl, phase, roomId, nextRoomId, seats>>
      /\ Rest(inbox[s], inbox'[s]) /\ \A x \in Shards : x # s => inbox'[x] = inbox[x]
  BY <1>1 DEF Taking, tableVars
<1> DEFINE heard(p) == m.room \in DOMAIN shard[s].rooms /\ p \in DOMAIN shard[s].rooms[m.room].locals
<1>5. \A p \in Participants : told'[p] = IF heard(p) THEN m.top ELSE told[p]
  BY <1>3 DEF PassOn
<1>6. ASSUME NEW p \in Participants, ~GoneIn(inbox[s], p), heard(p) PROVE p \in OwnOf(s, m.room)
  BY <1>6, LocalsAreMembers
<1>7. ASSUME OnlyLists, NEW id \in LiveRooms, NEW p \in OwnOf(s, id) PROVE heard(p) <=> id = m.room
  <2>1. p \in DOMAIN seats /\ p \in Participants /\ roomId[seats[p].room] = id
    BY <1>0 DEF OwnOf, MembersOf, PlaneTypeOK
  <2>2. ~GoneIn(inbox[s], p)
    BY <1>0, <2>1 DEF SpeakersInv, SeatedAreKnown
  <2>3. heard(p) => id = m.room
    <3>1. heard(p) => p \in OwnOf(s, m.room)
      BY <1>6, <2>1, <2>2
    <3> QED
      BY <2>1, <3>1 DEF OwnOf, MembersOf
  <2>4. id = m.room => heard(p)
    BY <1>7, RoomsAreThere
  <2> QED
    BY <2>3, <2>4
<1>8. \A id : OwnOf(s, id) \subseteq Participants
  BY <1>0 DEF OwnOf, MembersOf, PlaneTypeOK
<1> HIDE DEF heard
<1> QED
  BY <1>3, <1>4, <1>5, <1>6, <1>7, <1>8

\* What is in a queue that a message was taken from was there before.
LEMMA QueuedBefore ==
  ASSUME NEW s \in Shards, Rest(inbox[s], inbox'[s]), \A x \in Shards : x # s => inbox'[x] = inbox[x]
  PROVE  \A x \in Shards : \A i \in DOMAIN inbox'[x] : \E j \in DOMAIN inbox[x] : inbox'[x][i] = inbox[x][j]
<1> SUFFICES ASSUME NEW x \in Shards, NEW i \in DOMAIN inbox'[x]
             PROVE  \E j \in DOMAIN inbox[x] : inbox'[x][i] = inbox[x][j]
  OBVIOUS
<1>1. CASE x = s
  <2>1. i + 1 \in DOMAIN inbox[s] /\ inbox'[s][i] = inbox[s][i + 1]
    BY <1>1, RestOf
  <2> QED
    BY <1>1, <2>1
<1>2. CASE x # s
  BY <1>2
<1> QED
  BY <1>1, <1>2

LEMMA UntoldTaking ==
  ASSUME FollowInv, NobodyToldYet, NEW s \in Shards, OnShardControl(s)
  PROVE  NobodyToldYet'
<1>0. PlaneTypeOK /\ SpeakersInv
  BY DEF FollowInv, SpeakersInv
<1>1. Taking(s)
  BY <1>0, TakingIs
<1>2. PICK m : m = inbox[s][1]
  OBVIOUS
<1>3. Head(inbox[s]) = m /\ sent' = sent
  BY <1>0, <1>2, QueueTail DEF PlaneTypeOK, OnShardControl
<1>4. /\ UNCHANGED <<ctl, phase, roomId, nextRoomId, seats>>
      /\ Rest(inbox[s], inbox'[s]) /\ \A x \in Shards : x # s => inbox'[x] = inbox[x]
  BY <1>1 DEF Taking, tableVars
<1>5. \A p : Newcomer(p)' <=> Newcomer(p)
  BY <1>4 DEF Newcomer
<1>6. LiveRooms' = LiveRooms /\ \A id : MembersOf(id)' = MembersOf(id)
  BY <1>4 DEF LiveRooms, MembersOf
<1>7. \A x \in Shards : \A i \in DOMAIN inbox'[x] : inbox'[x][i].t = "ActiveSpeakers" =>
        inbox'[x][i].room < nextRoomId /\ inbox'[x][i].room \notin LiveRooms \ DOMAIN sent
  BY <1>4, QueuedBefore DEF NobodyToldYet
<1>8. CASE m.t # "ActiveSpeakers"
  <2>1. told' = told
    BY <1>3, <1>8 DEF OnShardControl
  <2> QED
    BY <1>3, <1>4, <1>5, <1>6, <1>7, <2>1 DEF NobodyToldYet
<1>9. CASE m.t = "ActiveSpeakers"
  <2>1. \A p \in Participants : ~GoneIn(inbox[s], p) =>
          told'[p] = told[p] \/ (told'[p] = m.top /\ p \in OwnOf(s, m.room))
    BY <1>2, <1>9, ListPassed
  <2>2. m.room \notin LiveRooms \ DOMAIN sent
    <3>1. 1 \in DOMAIN inbox[s]
      BY <1>4, RestOf
    <3> QED
      BY <1>2, <1>9, <3>1 DEF NobodyToldYet
  <2>3. ASSUME NEW p \in Participants, Newcomer(p) PROVE told'[p] = <<>>
    <3>1. p \notin DOMAIN seats /\ ~GoneIn(inbox[s], p) /\ told[p] = <<>>
      BY <1>0, <2>3 DEF SpeakersInv, NewcomersAreNew, NobodyToldYet
    <3> QED
      BY <2>1, <3>1 DEF OwnOf, MembersOf
  <2>4. ASSUME NEW id \in LiveRooms \ DOMAIN sent, NEW p \in MembersOf(id) PROVE told'[p] = <<>>
    <3>1. p \in DOMAIN seats /\ p \in Participants /\ roomId[seats[p].room] = id /\ told[p] = <<>>
      BY <1>0 DEF MembersOf, PlaneTypeOK, NobodyToldYet
    <3>2. ~GoneIn(inbox[s], p)
      BY <1>0, <3>1 DEF SpeakersInv, SeatedAreKnown
    <3>3. p \notin OwnOf(s, m.room)
      BY <2>2, <3>1 DEF OwnOf, MembersOf
    <3> QED
      BY <2>1, <3>1, <3>2, <3>3
  <2> QED
    BY <1>3, <1>4, <1>5, <1>6, <1>7, <2>3, <2>4 DEF NobodyToldYet
<1> QED
  BY <1>8, <1>9

-----------------------------------------------------------------------------
(* A merge *)

\* What a merge leaves behind in the table of what was sent.
LEMMA MergeSent ==
  ASSUME NEW elapsed, Merge(elapsed)
  PROVE  \A id \in LiveRooms :
           /\ id \in DOMAIN sent' <=> id \in DOMAIN sent \/ id \in ListsDue(elapsed)
<1> DEFINE known == Restrict(sent, DOMAIN sent \cap LiveRooms)
           due == {id \in LiveRooms : IF id \in DOMAIN known
                                      THEN elapsed \/ known[id] # Merged(MergedTable, id)
                                      ELSE Merged(MergedTable, id) # <<>>}
<1>1. due = ListsDue(elapsed)
  <2>1. \A id \in LiveRooms : (id \in DOMAIN known <=> id \in DOMAIN sent) /\ (id \in DOMAIN known => known[id] = sent[id])
    BY DEF Restrict
  <2> HIDE DEF known
  <2> QED
    BY <2>1 DEF ListsDue
<1>2. DOMAIN sent' = DOMAIN known \cup due
  BY DEF Merge, MergedTable
<1>3. DOMAIN known = DOMAIN sent \cap LiveRooms
  BY DEF Restrict
<1> HIDE DEF known, due
<1> QED
  BY <1>1, <1>2, <1>3

LEMMA UntoldMerge ==
  ASSUME SpeakersInv, NobodyToldYet, NEW elapsed, Merge(elapsed),
         UNCHANGED <<ctl, phase, tableVars>>, NEW k, Silent(k), \A s \in Shards : Lists(k[s], elapsed)
  PROVE  NobodyToldYet'
<1>1. PlaneTypeOK /\ TablesInv /\ told' = told /\ UNCHANGED <<roomId, nextRoomId, seats>>
  BY DEF SpeakersInv, Merge, tableVars
<1>2. \A p : Newcomer(p)' <=> Newcomer(p)
  BY DEF Newcomer
<1>3. LiveRooms' = LiveRooms /\ \A id : MembersOf(id)' = MembersOf(id)
  BY <1>1 DEF LiveRooms, MembersOf
<1>4. \A id \in LiveRooms \ DOMAIN sent' : id \in LiveRooms \ DOMAIN sent /\ id \notin ListsDue(elapsed)
  BY MergeSent
<1>5. ASSUME NEW s \in Shards, NEW i \in DOMAIN inbox'[s], inbox'[s][i].t = "ActiveSpeakers"
      PROVE  inbox'[s][i].room < nextRoomId /\ inbox'[s][i].room \notin LiveRooms \ DOMAIN sent'
  <2>1. Joint(inbox[s], k[s], inbox'[s])
    BY DEF Silent
  <2>2. CASE i \in DOMAIN inbox[s] /\ inbox'[s][i] = inbox[s][i]
    BY <1>4, <1>5, <2>2 DEF NobodyToldYet
  <2>3. ASSUME NEW j \in DOMAIN k[s], inbox'[s][i] = k[s][j]
        PROVE  inbox'[s][i].room < nextRoomId /\ inbox'[s][i].room \notin LiveRooms \ DOMAIN sent'
    <3>1. PICK id \in ListsDue(elapsed) : k[s][j] = ListOf(id)
      BY DEF Lists
    <3>2. id \in LiveRooms
      BY DEF ListsDue
    <3>3. id < nextRoomId
      BY <1>1, <3>2 DEF LiveRooms, TablesInv
    <3>4. inbox'[s][i].room = id
      BY <2>3, <3>1 DEF ListOf
    <3> QED
      BY <1>4, <3>3, <3>4
  <2> QED
    BY <2>1, <2>2, <2>3, JointParts
<1> QED
  BY <1>1, <1>2, <1>3, <1>4, <1>5 DEF NobodyToldYet

LEMMA LatestRows == ASSUME SpeakersTypeOK PROVE \A id \in DOMAIN Latest : DOMAIN Latest[id] \subseteq Shards
<1> SUFFICES ASSUME NEW id \in DOMAIN Latest PROVE DOMAIN Latest[id] \subseteq Shards
  OBVIOUS
<1>1. DOMAIN Latest[id] = DOMAIN At(parts, id, Nothing) \cup {s \in Shards : ReportsOf(id, s) # {}}
  BY DEF Latest
<1>2. DOMAIN At(parts, id, Nothing) \subseteq Shards
  BY DEF SpeakersTypeOK, At, Nothing
<1> QED
  BY <1>1, <1>2

\* When every shard's report is in, what is merged is what is true.
LEMMA MergedIsTrue ==
  ASSUME PlaneTypeOK, SpeakersTypeOK, NEW id \in LiveRooms,
         \A s \in Shards : Reported(id, s, Loudest(OwnOf(s, id) \cap voices))
  PROVE  Merged(MergedTable, id) = TrueList(id)
<1> DEFINE W == MembersOf(id) \cap voices
           part == [s \in Shards |-> OwnOf(s, id) \cap voices]
           row == At(MergedTable, id, Nothing)
           T == MembersOf(id) \cap UNION {Range(row[s]) : s \in DOMAIN row}
<1>1. 0 \in Shards
  BY ShardAssumption DEF Shards
<1>2. id \in DOMAIN Latest
  BY <1>1 DEF Reported
<1>3. row = Latest[id]
  BY <1>2 DEF MergedTable, Restrict, At
<1>4. DOMAIN row = Shards
  BY <1>2, <1>3, LatestRows DEF Reported
<1>5. \A s \in Shards : part[s] = OwnOf(s, id) \cap voices /\ row[s] = Loudest(part[s])
  BY <1>3 DEF Reported
<1>6. W \in SUBSET Participants
  BY DEF MembersOf, PlaneTypeOK
<1>7. \A s \in Shards : part[s] \in SUBSET W
  BY <1>5 DEF OwnOf
<1>8. ASSUME NEW p \in W PROVE \E s \in Shards : p \in part[s]
  <2>1. p \in MembersOf(id) /\ p \in voices /\ seats[p].pid \in Nat
    BY DEF MembersOf, PlaneTypeOK, IsSeat
  <2>2. Home(seats[p].pid) \in Shards
    BY <2>1, ShardAssumption DEF Home, Shards
  <2>3. p \in part[Home(seats[p].pid)]
    BY <1>5, <2>1, <2>2 DEF OwnOf
  <2> QED
    BY <2>2, <2>3
<1> HIDE DEF part, row
<1>9. \A s \in Shards : Range(Loudest(part[s])) \subseteq part[s]
  <2> SUFFICES ASSUME NEW s \in Shards PROVE Range(Loudest(part[s])) \subseteq part[s]
    OBVIOUS
  <2> DEFINE V == part[s]
  <2>1. V \in SUBSET Participants
    BY <1>6, <1>7
  <2> HIDE DEF V
  <2>2. Range(Loudest(V)) \subseteq V
    BY <2>1, LoudestNames
  <2> QED
    BY <2>2 DEF V
<1>10. \A s \in Shards : Range(Loudest(part[s])) \subseteq T
  BY <1>4, <1>5, <1>7, <1>9
<1>11. T \in SUBSET W
  BY <1>4, <1>5, <1>7, <1>9
<1>12. Merged(MergedTable, id) = Loudest(T) /\ TrueList(id) = Loudest(W)
  BY DEF Merged, TrueList, row
<1> HIDE DEF T, W
<1>13. \A p \in W : \E s \in Shards : p \in part[s]
  BY <1>8
<1>14. Loudest(T) = Loudest(W)
  <2>1. PICK I : I = Shards
    OBVIOUS
  <2>2. /\ \A s \in I : part[s] \in SUBSET W
        /\ \A s \in I : Range(Loudest(part[s])) \subseteq T
        /\ \A p \in W : \E s \in I : p \in part[s]
    BY <1>7, <1>10, <1>13, <2>1
  <2> QED
    BY ONLY <1>6, <1>11, <2>2, LoudestOfLoudest
<1> QED
  BY <1>12, <1>14

-----------------------------------------------------------------------------
(* Who hears what in the end *)

LEMMA WillTellGrows ==
  ASSUME told' = told, NEW q, NEW k, NEW Q, Joint(q, k, Q), NEW p, NEW id, NEW list,
         \A j \in DOMAIN k : IsListOf(k[j], id) => k[j].top = list,
         WillTell(p, q, id, list) \/ \E j \in DOMAIN k : IsListOf(k[j], id)
  PROVE  WillTell(p, Q, id, list)
<1>1. /\ \A i \in DOMAIN q : i \in DOMAIN Q /\ Q[i] = q[i] /\ i \in Nat
      /\ \A j \in DOMAIN k : Len(q) + j \in DOMAIN Q /\ Q[Len(q) + j] = k[j] /\ Len(q) + j \in Nat
      /\ \A i \in DOMAIN Q : (i \in DOMAIN q /\ Q[i] = q[i]) \/ \E j \in DOMAIN k : i = Len(q) + j /\ Q[i] = k[j]
      /\ \A i \in DOMAIN q : \A j \in DOMAIN k : i < Len(q) + j
  <2>1. /\ \A i \in DOMAIN q : i \in DOMAIN Q /\ Q[i] = q[i] /\ i \in Nat
        /\ \A j \in DOMAIN k : Len(q) + j \in DOMAIN Q /\ Q[Len(q) + j] = k[j] /\ Len(q) + j \in Nat
        /\ \A i \in DOMAIN Q : i \in DOMAIN q \/ \E j \in DOMAIN k : i = Len(q) + j
    BY JointParts
  <2>2. \A i \in DOMAIN q : \A j \in DOMAIN k : i < Len(q) + j
    BY DEF Joint
  <2> QED
    BY <2>1, <2>2
<1>2. CASE \E j \in DOMAIN k : IsListOf(k[j], id)
  <2>1. PICK j \in DOMAIN k : IsListOf(k[j], id)
    BY <1>2
  <2> DEFINE n == Len(q) + j
  <2>2. n \in DOMAIN Q /\ IsListOf(Q[n], id) /\ Q[n].top = list
    BY <1>1, <2>1
  <2>3. ASSUME NEW i \in DOMAIN Q, i > n, IsListOf(Q[i], id) PROVE Q[i].top = list
    <3>1. CASE i \in DOMAIN q
      <4>1. i < n /\ i \in Nat /\ n \in Nat
        BY <1>1, <2>1, <3>1
      <4> HIDE DEF n
      <4> QED
        BY <2>3, <4>1
    <3>2. CASE \E x \in DOMAIN k : Q[i] = k[x]
      BY <2>3, <3>2
    <3> QED
      BY <1>1, <3>1, <3>2
  <2> HIDE DEF n
  <2> QED
    BY <2>2, <2>3 DEF WillTell
<1>3. CASE told[p] = list /\ \A i \in DOMAIN q : IsListOf(q[i], id) => q[i].top = list
  <2>1. \A i \in DOMAIN Q : IsListOf(Q[i], id) => Q[i].top = list
    BY <1>1, <1>3
  <2> QED
    BY <1>3, <2>1 DEF WillTell
<1>4. CASE \E i \in DOMAIN q : /\ IsListOf(q[i], id) /\ q[i].top = list
                              /\ \A j \in DOMAIN q : j > i /\ IsListOf(q[j], id) => q[j].top = list
  <2>1. PICK i \in DOMAIN q : /\ IsListOf(q[i], id) /\ q[i].top = list
                              /\ \A j \in DOMAIN q : j > i /\ IsListOf(q[j], id) => q[j].top = list
    BY <1>4
  <2>2. i \in DOMAIN Q /\ IsListOf(Q[i], id) /\ Q[i].top = list
    BY <1>1, <2>1
  <2>3. \A j \in DOMAIN Q : j > i /\ IsListOf(Q[j], id) => Q[j].top = list
    BY <1>1, <2>1
  <2> QED
    BY <2>2, <2>3 DEF WillTell
<1> QED
  BY <1>2, <1>3, <1>4 DEF WillTell

\* The first message of the queue is read: heard is what p has been told then.
LEMMA WillTellLater ==
  ASSUME NEW q, NEW q2, Rest(q, q2), NEW p, NEW id, NEW list, WillTell(p, q, id, list), NEW heard,
         heard = IF IsListOf(q[1], id) THEN q[1].top ELSE told[p]
  PROVE  \/ heard = list /\ \A i \in DOMAIN q2 : IsListOf(q2[i], id) => q2[i].top = list
         \/ \E i \in DOMAIN q2 : /\ IsListOf(q2[i], id) /\ q2[i].top = list
                                 /\ \A j \in DOMAIN q2 : j > i /\ IsListOf(q2[j], id) => q2[j].top = list
<1>1. /\ \A i \in DOMAIN q2 : i + 1 \in DOMAIN q /\ q2[i] = q[i + 1] /\ i \in Nat /\ i + 1 > 1
      /\ \A j \in DOMAIN q : j # 1 => j - 1 \in DOMAIN q2 /\ q2[j - 1] = q[j] /\ j \in Nat
      /\ 1 \in DOMAIN q
  BY DEF Rest
<1>2. CASE told[p] = list /\ \A i \in DOMAIN q : IsListOf(q[i], id) => q[i].top = list
  BY <1>1, <1>2
<1>3. CASE \E i \in DOMAIN q : /\ IsListOf(q[i], id) /\ q[i].top = list
                              /\ \A j \in DOMAIN q : j > i /\ IsListOf(q[j], id) => q[j].top = list
  <2>1. PICK i \in DOMAIN q : /\ IsListOf(q[i], id) /\ q[i].top = list
                              /\ \A j \in DOMAIN q : j > i /\ IsListOf(q[j], id) => q[j].top = list
    BY <1>3
  <2>2. CASE i = 1
    BY <1>1, <2>1, <2>2
  <2>3. CASE i # 1
    <3>1. i - 1 \in DOMAIN q2 /\ q2[i - 1] = q[i] /\ i \in Nat
      BY <1>1, <2>3
    <3>2. ASSUME NEW j \in DOMAIN q2, j > i - 1, IsListOf(q2[j], id) PROVE q2[j].top = list
      <4>1. j + 1 \in DOMAIN q /\ q2[j] = q[j + 1] /\ j \in Nat
        BY <1>1
      <4>2. j + 1 > i
        BY <3>1, <3>2, <4>1
      <4> QED
        BY <2>1, <3>2, <4>1, <4>2
    <3> QED
      BY <2>1, <3>1, <3>2
  <2> QED
    BY <2>2, <2>3
<1> QED
  BY <1>2, <1>3 DEF WillTell

-----------------------------------------------------------------------------
(* Every step *)

\* After a change, no report counts.
Forgets == round' = NoRound /\ UNCHANGED <<reports, parts>>

LEMMA ChangesRound ==
  ASSUME SpeakersTypeOK, Forgets
  PROVE  SpeakersTypeOK' /\ ReportsAreIn' /\ EverybodyHears'
<1>1. round'.heard = {} /\ round'.merged = FALSE /\ round' = [heard |-> round'.heard, merged |-> round'.merged]
  BY DEF Forgets, NoRound
<1>2. SpeakersTypeOK'
  BY <1>1 DEF SpeakersTypeOK, Forgets
<1> QED
  BY <1>1, <1>2 DEF ReportsAreIn, EverybodyHears

LEMMA ChangesNothing ==
  ASSUME SpeakersTypeOK, ReportsAreIn, EverybodyHears, UNCHANGED <<routerVars, speakerVars, voices, round>>
  PROVE  SpeakersTypeOK' /\ ReportsAreIn' /\ EverybodyHears'
<1>1. UNCHANGED <<roomId, seats, inbox, reports, parts, told, voices, round>>
  BY DEF routerVars, tableVars, speakerVars
<1>2. SpeakersTypeOK'
  BY <1>1 DEF SpeakersTypeOK
<1>3. /\ OnlyLists' = OnlyLists /\ LiveRooms' = LiveRooms
      /\ \A s, id : OwnOf(s, id)' = OwnOf(s, id)
      /\ \A id : TrueList(id)' = TrueList(id)
  BY <1>1 DEF OnlyLists, LiveRooms, OwnOf, TrueList, MembersOf
<1>4. ReportsAreIn'
  <2>1. \A id, s, list : Reported(id, s, list)' <=> Reported(id, s, list)
    BY <1>1 DEF Reported, Latest, ReportsOf
  <2> QED
    BY <1>1, <1>3, <2>1 DEF ReportsAreIn
<1>5. EverybodyHears'
  <2>1. \A p, q, id, list : WillTell(p, q, id, list)' <=> WillTell(p, q, id, list)
    BY <1>1 DEF WillTell
  <2> QED
    BY <1>1, <1>3, <2>1 DEF EverybodyHears
<1> QED
  BY <1>2, <1>4, <1>5

LEMMA ReportsStep ==
  ASSUME FollowInv, SpeakersTypeOK, ReportsAreIn, EverybodyHears, ReportsFit, NEW s \in Shards, Reports(s)
  PROVE  SpeakersTypeOK' /\ ReportsAreIn' /\ EverybodyHears'
<1>1. /\ UNCHANGED <<roomId, nextRoomId, seats, inbox, parts, told, voices>>
      /\ round' = [round EXCEPT !.heard = round.heard \cup {s}]
      /\ Report(s, shard[s], voices) /\ \A i \in DOMAIN reports : reports[i].shard # s
  BY DEF Reports, routerVars, tableVars, shardVars
<1>2. /\ round = [heard |-> round.heard, merged |-> round.merged] /\ round.heard \subseteq Shards
      /\ (round.merged => round.heard = Shards) /\ IsQueue(reports)
  BY DEF SpeakersTypeOK
<1>3. /\ round'.heard = round.heard \cup {s} /\ round'.merged = round.merged
      /\ round' = [heard |-> round'.heard, merged |-> round'.merged]
  BY <1>1, <1>2
<1>4. /\ OnlyLists' = OnlyLists /\ LiveRooms' = LiveRooms
      /\ \A x, id : OwnOf(x, id)' = OwnOf(x, id)
      /\ \A id : TrueList(id)' = TrueList(id)
  BY <1>1 DEF OnlyLists, LiveRooms, OwnOf, TrueList, MembersOf
<1>5. EverybodyHears'
  <2>1. \A p, q, id, list : WillTell(p, q, id, list)' <=> WillTell(p, q, id, list)
    BY <1>1 DEF WillTell
  <2> QED
    BY <1>1, <1>3, <1>4, <2>1 DEF EverybodyHears
<1>6. IsQueue(reports')
  <2> DEFINE sh == shard[s]
  <2>1. PICK n : n = Cardinality(DOMAIN sh.rooms)
    OBVIOUS
  <2>2. n \in Nat /\ Len(reports) + n <= ReportCap /\ Report(s, sh, voices)
    BY <1>1, <2>1, RoomsAreFew DEF ReportsFit
  <2> HIDE DEF sh
  <2>3. \E k : Joint(reports, k, reports')
    BY <1>2, <2>1, <2>2, ReportIs
  <2> QED
    BY <2>3 DEF Joint
<1>7. SpeakersTypeOK'
  BY <1>1, <1>2, <1>3, <1>6 DEF SpeakersTypeOK
<1>8. ReportsAreIn'
  <2> SUFFICES ASSUME OnlyLists, NEW x \in round'.heard, NEW id \in LiveRooms, NEW list,
                      list = Loudest(OwnOf(x, id) \cap voices)
               PROVE  Reported(id, x, list)'
    BY <1>1, <1>4 DEF ReportsAreIn
  <2> DEFINE sh == shard[s]
             n == nextRoomId
  <2>1. /\ n \in Nat /\ DOMAIN sh.rooms = 0 .. (n - 1) /\ id \in 0 .. (n - 1)
        /\ \A y \in DOMAIN sh.rooms : DOMAIN sh.rooms[y].locals = OwnOf(s, y)
    BY RoomsAreThere
  <2>2. Len(reports) + Cardinality(DOMAIN sh.rooms) <= ReportCap
    BY <1>1 DEF ReportsFit
  <2>3. Report(s, sh, voices)
    BY <1>1
  <2> HIDE DEF sh, n
  <2>4. /\ \A y \in 0 .. (n - 1) : \A l :
             l = Loudest(DOMAIN sh.rooms[y].locals \cap voices) => Reported(y, s, l)'
        /\ \A z \in Shards : z # s => \A y, l : Reported(y, z, l) => Reported(y, z, l)'
    BY <1>1, <1>2, <2>1, <2>2, <2>3, ReportCounts
  <2>5. CASE x = s
    BY <2>1, <2>4, <2>5
  <2>6. CASE x # s
    <3>1. x \in round.heard /\ x \in Shards
      BY <1>2, <1>3, <2>6
    <3>2. Reported(id, x, list)
      BY <3>1 DEF ReportsAreIn
    <3> QED
      BY <2>4, <2>6, <3>1, <3>2
  <2> QED
    BY <2>5, <2>6
<1> QED
  BY <1>5, <1>7, <1>8

LEMMA MergeStep ==
  ASSUME PlaneTypeOK, SpeakersTypeOK, NobodyToldYet, ReportsAreIn, EverybodyHears,
         NEW elapsed, Merge(elapsed), UNCHANGED <<tableVars, voices>>,
         round' = [round EXCEPT !.merged = @ \/ (elapsed /\ round.heard = Shards)],
         NEW k, Silent(k), \A s \in Shards : Lists(k[s], elapsed)
  PROVE  SpeakersTypeOK' /\ ReportsAreIn' /\ EverybodyHears'
<1>1. /\ round = [heard |-> round.heard, merged |-> round.merged] /\ round.heard \subseteq Shards
      /\ (round.merged => round.heard = Shards) /\ IsQueue(reports)
  BY DEF SpeakersTypeOK
<1>2. PICK now : now = (round.merged \/ (elapsed /\ round.heard = Shards))
  OBVIOUS
<1>3. round' = [round EXCEPT !.merged = now]
  BY <1>2
<1>4. /\ round'.heard = round.heard /\ round'.merged = now
      /\ round' = [heard |-> round'.heard, merged |-> round'.merged]
  BY <1>1, <1>3
<1>5. /\ UNCHANGED <<roomId, seats, told>> /\ \A s \in Shards : Joint(inbox[s], k[s], inbox'[s])
  BY DEF tableVars, Merge, Silent
<1>6. /\ LiveRooms' = LiveRooms
      /\ \A s, id : OwnOf(s, id)' = OwnOf(s, id)
      /\ \A id : TrueList(id)' = TrueList(id)
  BY <1>5 DEF LiveRooms, OwnOf, TrueList, MembersOf
<1>7. /\ reports' = <<>> /\ \A id \in DOMAIN parts' : DOMAIN parts'[id] \subseteq Shards
      /\ \A s \in Shards : \A id \in LiveRooms : \A list : Reported(id, s, list) => Reported(id, s, list)'
  BY MergeKeepsReports
<1>8. SpeakersTypeOK'
  <2>1. IsQueue(reports')
    BY <1>7, ShortQueues
  <2>2. round'.merged => round'.heard = Shards
    BY <1>1, <1>2, <1>4
  <2> QED
    BY <1>1, <1>4, <1>7, <2>1, <2>2 DEF SpeakersTypeOK
<1>9. OnlyLists' => OnlyLists
  <2> SUFFICES ASSUME OnlyLists', NEW s \in Shards, NEW i \in DOMAIN inbox[s] PROVE inbox[s][i].t = "ActiveSpeakers"
    BY DEF OnlyLists
  <2>1. Joint(inbox[s], k[s], inbox'[s])
    BY <1>5
  <2>2. i \in DOMAIN inbox'[s] /\ inbox'[s][i] = inbox[s][i]
    BY <2>1, JointParts
  <2> QED
    BY <2>2 DEF OnlyLists
<1>10. ReportsAreIn'
  <2> SUFFICES ASSUME OnlyLists, NEW s \in round.heard, NEW id \in LiveRooms, NEW list,
                      list = Loudest(OwnOf(s, id) \cap voices)
               PROVE  Reported(id, s, list)'
    BY <1>4, <1>6, <1>9 DEF ReportsAreIn
  <2>1. Reported(id, s, list)
    BY DEF ReportsAreIn
  <2> QED
    BY <1>1, <1>7, <2>1
<1>11. EverybodyHears'
  <2> SUFFICES ASSUME OnlyLists, now, NEW s \in Shards, NEW id \in LiveRooms, NEW p \in OwnOf(s, id)
               PROVE  WillTell(p, inbox[s], id, TrueList(id))'
    BY <1>4, <1>6, <1>9 DEF EverybodyHears
  <2>1. PICK list : list = TrueList(id)
    OBVIOUS
  <2>2. \A x \in Shards : Reported(id, x, Loudest(OwnOf(x, id) \cap voices))
    BY <1>1, <1>2 DEF ReportsAreIn
  <2>3. Merged(MergedTable, id) = list
    BY <2>1, <2>2, MergedIsTrue
  <2>4. \A j \in DOMAIN k[s] : IsListOf(k[s][j], id) => k[s][j].top = list
    <3> SUFFICES ASSUME NEW j \in DOMAIN k[s], IsListOf(k[s][j], id) PROVE k[s][j].top = list
      OBVIOUS
    <3>1. PICK x \in ListsDue(elapsed) : k[s][j] = ListOf(x)
      BY DEF Lists
    <3>2. x = id
      BY <3>1 DEF ListOf, IsListOf
    <3> QED
      BY <2>3, <3>1, <3>2 DEF ListOf
  <2>5. WillTell(p, inbox[s], id, list) \/ \E j \in DOMAIN k[s] : IsListOf(k[s][j], id)
    <3>1. CASE round.merged
      BY <2>1, <3>1 DEF EverybodyHears
    <3>2. CASE id \in ListsDue(elapsed)
      <4>1. PICK j \in DOMAIN k[s] : k[s][j] = ListOf(id)
        BY <3>2 DEF Lists
      <4> QED
        BY <4>1 DEF ListOf, IsListOf
    <3>3. CASE elapsed /\ id \notin ListsDue(elapsed)
      <4>1. id \notin DOMAIN sent /\ list = <<>>
        BY <2>3, <3>3 DEF ListsDue
      <4>2. told[p] = <<>> /\ \A i \in DOMAIN inbox[s] : ~IsListOf(inbox[s][i], id)
        BY <4>1 DEF NobodyToldYet, IsListOf, OwnOf
      <4> QED
        BY <4>1, <4>2 DEF WillTell
    <3> QED
      BY <1>2, <3>1, <3>2, <3>3
  <2>6. WillTell(p, inbox'[s], id, list)
    <3>1. Joint(inbox[s], k[s], inbox'[s])
      BY <1>5
    <3> QED
      BY <1>5, <2>4, <2>5, <3>1, WillTellGrows
  <2>7. WillTell(p, inbox[s], id, list)'
    BY <1>5, <2>6 DEF WillTell
  <2> QED
    BY <1>6, <2>1, <2>7 DEF WillTell
<1> QED
  BY <1>8, <1>10, <1>11

LEMMA TakingStep ==
  ASSUME FollowInv, SpeakersTypeOK, ReportsAreIn, EverybodyHears, NEW s \in Shards, OnShardControl(s)
  PROVE  SpeakersTypeOK' /\ ReportsAreIn' /\ EverybodyHears'
<1>1. PICK m : m = inbox[s][1]
  OBVIOUS
<1>2. Head(inbox[s]) = m
  BY <1>1, QueueTail DEF FollowInv, SpeakersInv, PlaneTypeOK, OnShardControl
<1>3. CASE m.t # "ActiveSpeakers"
  BY <1>2, <1>3, ChangesRound DEF OnShardControl, Forgets
<1>4. CASE m.t = "ActiveSpeakers"
  <2>1. /\ UNCHANGED <<roomId, seats, voices, round, reports, parts>>
        /\ Rest(inbox[s], inbox'[s]) /\ \A x \in Shards : x # s => inbox'[x] = inbox[x]
        /\ OnlyLists => \A id \in LiveRooms : \A p \in OwnOf(s, id) :
             IF id = m.room THEN told'[p] = m.top ELSE told'[p] = told[p]
    BY <1>1, <1>4, ListPassed
  <2>2. SpeakersTypeOK'
    BY <2>1 DEF SpeakersTypeOK
  <2>3. /\ LiveRooms' = LiveRooms
        /\ \A x, id : OwnOf(x, id)' = OwnOf(x, id)
        /\ \A id : TrueList(id)' = TrueList(id)
    BY <2>1 DEF LiveRooms, OwnOf, TrueList, MembersOf
  <2>4. OnlyLists' => OnlyLists
    <3> SUFFICES ASSUME OnlyLists', NEW x \in Shards, NEW i \in DOMAIN inbox[x] PROVE inbox[x][i].t = "ActiveSpeakers"
      BY DEF OnlyLists
    <3>1. CASE x # s
      BY <2>1, <3>1 DEF OnlyLists
    <3>2. CASE x = s /\ i = 1
      BY <1>1, <1>4, <3>2
    <3>3. CASE x = s /\ i # 1
      <4>1. i - 1 \in DOMAIN inbox'[s] /\ inbox'[s][i - 1] = inbox[s][i]
        BY <2>1, <3>3, RestOf
      <4> QED
        BY <3>3, <4>1 DEF OnlyLists
    <3> QED
      BY <3>1, <3>2, <3>3
  <2>5. ReportsAreIn'
    <3>1. \A id, x, list : Reported(id, x, list)' <=> Reported(id, x, list)
      BY <2>1 DEF Reported, Latest, ReportsOf
    <3> QED
      BY <2>1, <2>3, <2>4, <3>1 DEF ReportsAreIn
  <2>6. EverybodyHears'
    <3> SUFFICES ASSUME OnlyLists, round.merged, NEW x \in Shards, NEW id \in LiveRooms, NEW p \in OwnOf(x, id)
                 PROVE  WillTell(p, inbox[x], id, TrueList(id))'
      BY <2>1, <2>3, <2>4 DEF EverybodyHears
    <3>1. PICK list : list = TrueList(id)
      OBVIOUS
    <3>2. WillTell(p, inbox[x], id, list)
      BY <3>1 DEF EverybodyHears
    <3>3. WillTell(p, inbox[x], id, list)'
      <4>1. CASE x # s
        <5>1. inbox'[x] = inbox[x]
          BY <2>1, <4>1
        <5>2. told'[p] = told[p]
          <6>1. p \in Participants /\ ~GoneIn(inbox[s], p) /\ p \notin OwnOf(s, m.room)
            BY <4>1 DEF OwnOf, MembersOf, FollowInv, SpeakersInv, PlaneTypeOK, SeatedAreKnown
          <6> QED
            BY <1>1, <1>4, <6>1, ListPassed
        <5> QED
          BY <3>2, <5>1, <5>2 DEF WillTell
      <4>2. CASE x = s
        <5>1. told'[p] = IF IsListOf(m, id) THEN m.top ELSE told[p]
          BY <1>4, <2>1, <4>2 DEF IsListOf
        <5>2. PICK q : q = inbox[s]
          OBVIOUS
        <5>3. PICK q2 : q2 = inbox'[s]
          OBVIOUS
        <5>4. Rest(q, q2) /\ WillTell(p, q, id, list)
          BY <2>1, <3>2, <4>2, <5>2, <5>3
        <5>5. \/ told'[p] = list /\ \A i \in DOMAIN q2 : IsListOf(q2[i], id) => q2[i].top = list
              \/ \E i \in DOMAIN q2 : /\ IsListOf(q2[i], id) /\ q2[i].top = list
                                      /\ \A j \in DOMAIN q2 : j > i /\ IsListOf(q2[j], id) => q2[j].top = list
          BY <1>1, <5>1, <5>2, <5>4, WillTellLater
        <5> QED
          BY <4>2, <5>3, <5>5 DEF WillTell
      <4> QED
        BY <4>1, <4>2
    <3> QED
      BY <2>3, <3>1, <3>3 DEF WillTell
  <2> QED
    BY <2>2, <2>5, <2>6
<1> QED
  BY <1>3, <1>4

LEMMA ListsNext ==
  ASSUME ListsInv, QueuesHaveRoom', ReportsFit, [PlaneNext]_planeVars
  PROVE  ListsInv'
<1>0. /\ FollowInv /\ SpeakersTypeOK /\ NobodyToldYet /\ ReportsAreIn /\ EverybodyHears
      /\ SpeakersInv /\ PlaneTypeOK
  BY DEF ListsInv, FollowInv, SpeakersInv
<1>1. FollowInv'
  BY <1>0, FollowNext
<1> SUFFICES SpeakersTypeOK' /\ NobodyToldYet' /\ ReportsAreIn' /\ EverybodyHears'
  BY <1>1 DEF ListsInv
<1>2. CASE Sends
  BY <1>0, <1>2, UntoldSends, ChangesRound DEF Sends, Forgets, speakerVars
<1>3. CASE Routes
  BY <1>0, <1>3, UntoldRoutes, ChangesRound DEF Routes, Forgets, speakerVars
<1>4. CASE MergesSpeakers
  <2>1. PICK elapsed \in BOOLEAN :
          Merge(elapsed) /\ round' = [round EXCEPT !.merged = @ \/ (elapsed /\ round.heard = Shards)]
    BY <1>4 DEF MergesSpeakers
  <2>2. UNCHANGED <<ctl, phase, tableVars, shard, voices>>
    BY <1>4 DEF MergesSpeakers, shardVars
  <2>3. PICK k : Silent(k) /\ \A s \in Shards : Lists(k[s], elapsed)
    BY <1>0, <2>1, <2>2, MergeSends
  <2>4. NobodyToldYet'
    BY <1>0, <2>1, <2>2, <2>3, UntoldMerge
  <2>5. SpeakersTypeOK' /\ ReportsAreIn' /\ EverybodyHears'
    BY <1>0, <2>1, <2>2, <2>3, MergeStep
  <2> QED
    BY <2>4, <2>5
<1>5. ASSUME SameControl, UNCHANGED <<told, sent>> PROVE NobodyToldYet'
  BY <1>0, <1>5, UntoldSame
<1>6. CASE ShardSteps
  <2>1. ASSUME NEW s \in Shards, OnShardControl(s)
        PROVE  SpeakersTypeOK' /\ NobodyToldYet' /\ ReportsAreIn' /\ EverybodyHears'
    BY <1>0, <2>1, UntoldTaking, TakingStep
  <2>2. ASSUME NEW s \in Shards, OnForwarded(s)
        PROVE  SpeakersTypeOK' /\ NobodyToldYet' /\ ReportsAreIn' /\ EverybodyHears'
    BY <1>0, <1>5, <2>2, ForwardedSame, ChangesNothing DEF OnForwarded, speakerVars
  <2>3. ASSUME NEW s \in Shards, Reports(s)
        PROVE  SpeakersTypeOK' /\ NobodyToldYet' /\ ReportsAreIn' /\ EverybodyHears'
    <3>1. NobodyToldYet'
      BY <1>0, <1>5, <2>3, ForwardedSame DEF Reports
    <3>2. SpeakersTypeOK' /\ ReportsAreIn' /\ EverybodyHears'
      BY <1>0, <2>3, ReportsStep
    <3> QED
      BY <3>1, <3>2
  <2> QED
    BY <1>6, <2>1, <2>2, <2>3 DEF ShardSteps
<1>7. CASE Browsers
  <2>1. SameControl
    BY <1>0, <1>7, BrowsersSame
  <2>2. UNCHANGED speakerVars /\ (round' = NoRound \/ UNCHANGED <<routerVars, voices, round>>)
    BY <1>7 DEF Browsers, Connects, Drops, SenderReport, Speaks, Media, Feedback
  <2>3. UNCHANGED <<reports, parts, told, sent>>
    BY <2>2 DEF speakerVars
  <2> QED
    BY <1>0, <1>5, <2>1, <2>2, <2>3, ChangesRound, ChangesNothing DEF Forgets
<1>8. CASE UNCHANGED planeVars
  <2>1. UNCHANGED <<routerVars, speakerVars, phase, room, shard, voices, round>>
    BY <1>8 DEF planeVars, shardVars
  <2>2. SameControl
    BY <1>0, <2>1, SameTablesSelf DEF SameControl
  <2>3. UNCHANGED <<told, sent>>
    BY <2>1 DEF speakerVars
  <2> QED
    BY <1>0, <1>5, <2>1, <2>2, <2>3, ChangesNothing
<1> QED
  BY <1>2, <1>3, <1>4, <1>6, <1>7, <1>8 DEF PlaneNext

LEMMA ListsStart == PlaneInit => ListsInv
<1> SUFFICES ASSUME PlaneInit PROVE ListsInv
  OBVIOUS
<1>1. FollowInv
  BY FollowStart
<1>2. /\ reports = <<>> /\ parts = Nothing /\ sent = Nothing /\ told = [p \in Participants |-> <<>>]
      /\ round = [heard |-> {}, merged |-> FALSE]
  BY DEF PlaneInit, SpeakersInit, NoRound
<1>3. \A s \in Shards : inbox[s] = <<>>
  <2>1. CASE Fresh
    BY <2>1 DEF Fresh, RouterInit
  <2>2. ASSUME NEW r \in RoomIds, NEW place, SettledAs(r, place) PROVE \A s \in Shards : inbox[s] = <<>>
    BY <2>2 DEF SettledAs
  <2> QED
    BY <2>1, <2>2, PlaneStarts
<1>4. round.heard = {} /\ ~round.merged /\ round = [heard |-> round.heard, merged |-> round.merged]
  BY <1>2
<1>5. SpeakersTypeOK
  BY <1>2, <1>4, ShortQueues DEF SpeakersTypeOK, Nothing
<1>6. NobodyToldYet
  <2>1. DOMAIN seats \subseteq Participants
    BY <1>1 DEF FollowInv, SpeakersInv, PlaneTypeOK
  <2> QED
    BY <1>2, <1>3, <2>1 DEF NobodyToldYet, MembersOf
<1>7. ReportsAreIn /\ EverybodyHears
  BY <1>4 DEF ReportsAreIn, EverybodyHears
<1> QED
  BY <1>1, <1>5, <1>6, <1>7 DEF ListsInv

LEMMA ListsInvCurrent == ListsInv => ListsAreCurrent
<1> SUFFICES ASSUME ListsInv, round.merged, \A s \in Shards : inbox[s] = <<>>, NEW p \in DOMAIN seats
             PROVE  told[p] = Loudest(In(seats, seats[p].room) \cap voices)
  BY DEF ListsAreCurrent
<1>1. SpeakersInv /\ PlaneTypeOK /\ TablesInv /\ Tables(seats, roomId, nextRoomId) /\ EverybodyHears
  BY TablesAre DEF ListsInv, FollowInv, SpeakersInv
<1> DEFINE id == roomId[seats[p].room]
           s == Home(seats[p].pid)
<1>2. id \in LiveRooms /\ s \in Shards
  <2>1. seats[p].room \in RoomIds /\ seats[p].pid \in Nat /\ id # NoId
    BY <1>1 DEF PlaneTypeOK, IsSeat, TablesInv
  <2> QED
    BY <2>1, ShardAssumption DEF LiveRooms, Home, Shards
<1>3. p \in MembersOf(id) /\ MembersOf(id) = MembersIn(seats, roomId, id)
  BY DEF MembersOf, MembersIn
<1>4. p \in OwnOf(s, id) /\ inbox[s] = <<>>
  BY <1>2, <1>3 DEF OwnOf
<1>5. OnlyLists
  BY DEF OnlyLists
<1> HIDE DEF id, s
<1>6. WillTell(p, <<>>, id, TrueList(id))
  <2>1. WillTell(p, inbox[s], id, TrueList(id))
    BY <1>1, <1>2, <1>4, <1>5 DEF EverybodyHears
  <2> QED
    BY <1>4, <2>1
<1>7. told[p] = TrueList(id)
  BY <1>6 DEF WillTell
<1>8. In(seats, seats[p].room) = MembersOf(id)
  BY <1>1, <1>3, MembersAre
<1> QED
  BY <1>7, <1>8 DEF TrueList

\* Once nothing but lists is queued, what the shards have reported since the
\* last change is what their members are like; and once a merge has followed
\* all their reports, everybody has been told the true list, or reads it last.
THEOREM ListsInvHolds == PlaneSpec /\ []QueuesHaveRoom /\ []ReportsFit => []ListsInv
<1>1. PlaneInit => ListsInv
  BY ListsStart
<1>2. ListsInv /\ QueuesHaveRoom' /\ ReportsFit /\ [PlaneNext]_planeVars => ListsInv'
  BY ListsNext
<1> QED
  BY <1>1, <1>2, PTL DEF PlaneSpec

\* A second after the last change everybody in a room has been told the
\* loudest who speak in it, and nobody else.
THEOREM ListsAreCurrentHolds == PlaneSpec /\ []QueuesHaveRoom /\ []ReportsFit => []ListsAreCurrent
<1>1. ListsInv => ListsAreCurrent
  BY ListsInvCurrent
<1> QED
  BY <1>1, ListsInvHolds, PTL
=============================================================================
