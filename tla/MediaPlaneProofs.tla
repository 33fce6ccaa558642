-------------------------- MODULE MediaPlaneProofs --------------------------
(***************************************************************************)
(* Proofs about the media plane, first part: the types of its queues and   *)
(* tables, the order in which a shard reads what the router sends it, and  *)
(* that a list of speakers names nobody the shard does not know.           *)
(*                                                                         *)
(* A shard's control queue is bounded and a message that does not fit is   *)
(* lost, after which router and shard may disagree for ever.  So what is   *)
(* proved is about behaviours in which no queue ever fills (QueuesHaveRoom)*)
(*                                                                         *)
(* The inductive invariant (SpeakersInv) follows every participant through *)
(* the plane: it is announced once, so before its Joined nothing anywhere  *)
(* names it, a shard reads its MemberUp before anything else about it, and *)
(* once its MemberGone is queued nothing behind that names it: neither a   *)
(* list in the queue nor the reports and the table the next list is merged *)
(* from, whichever shard made them and however old they are.               *)
(***************************************************************************)
EXTENDS MediaPlane, FiniteSetTheorems, WellFoundedInduction, TLAPS

-----------------------------------------------------------------------------
(* Types.  A record is said to have its fields and no others, so that what *)
(* the model keeps in them need not be a set.                              *)

IsQueue(q) == q \in Seq(Range(q))

IsEvent(m) == m.r \in RoomIds /\ m.p \in Participants

IsSeat(x) ==
  /\ x = [room |-> x.room, pid |-> x.pid, published |-> x.published, wants |-> x.wants]
  /\ x.room \in RoomIds /\ x.pid \in Nat

ControlTypes == {"RoomUp", "MemberUp", "MemberGone", "WantsAll", "PublisherOffer", "OfferSub",
                 "SubscriberAnswer", "ActiveSpeakers"}
NamedTypes == ControlTypes \ {"RoomUp", "WantsAll", "ActiveSpeakers"}

IsControl(m) ==
  /\ m.t \in ControlTypes
  /\ m.room \in Nat
  /\ m.t \in NamedTypes => m.name \in Participants
  /\ m.t = "MemberUp" => m.pid \in Nat

IsRoom(x) ==
  x = [pids |-> x.pids, locals |-> x.locals, wants |-> x.wants, demand |-> x.demand,
       fan |-> x.fan, maxPid |-> x.maxPid]

IsShard(x) ==
  /\ x = [ids |-> x.ids, rooms |-> x.rooms, legs |-> x.legs]
  /\ DOMAIN x.rooms \subseteq Nat
  /\ \A id \in DOMAIN x.rooms : IsRoom(x.rooms[id])
  /\ DOMAIN x.legs \subseteq Participants \X {"pub", "sub"}

PlaneTypeOK ==
  /\ phase \in [Participants -> {"new", "up", "gone"}]
  /\ \A p \in Participants : phase[p] # "new" => room[p] \in RoomIds
  /\ room \in [Participants -> RoomIds \cup {NoRoom}]
  /\ IsQueue(ctl) /\ \A i \in DOMAIN ctl : IsEvent(ctl[i])
  /\ roomId \in [RoomIds -> Nat \cup {NoId}]
  /\ nextRoomId \in Nat
  /\ nextPid \in [RoomIds -> Nat]
  /\ DOMAIN seats \subseteq Participants
  /\ \A p \in DOMAIN seats : IsSeat(seats[p])
  /\ DOMAIN inbox = Shards
  /\ \A s \in Shards : /\ IsQueue(inbox[s])
                       /\ \A i \in DOMAIN inbox[s] : IsControl(inbox[s][i])
  /\ DOMAIN shard = Shards
  /\ \A s \in Shards : IsShard(shard[s])

-----------------------------------------------------------------------------
(* The router's side *)

\* Rooms and pids are given out once while they are in use.
TablesInv ==
  /\ \A r \in RoomIds : roomId[r] # NoId => roomId[r] < nextRoomId
  /\ \A r1, r2 \in RoomIds : roomId[r1] # NoId /\ roomId[r1] = roomId[r2] => r1 = r2
  /\ \A p \in DOMAIN seats : /\ roomId[seats[p].room] # NoId
                             /\ seats[p].pid < nextPid[seats[p].room]
  /\ \A p, q \in DOMAIN seats :
       seats[p].room = seats[q].room /\ seats[p].pid = seats[q].pid => p = q

\* Announced but not seated yet, or not even announced.
Newcomer(p) ==
  \/ phase[p] = "new"
  \/ \E i \in DOMAIN ctl : ctl[i].t = "Joined" /\ ctl[i].p = p

GoneIn(q, p) == \E j \in DOMAIN q : q[j].t = "MemberGone" /\ q[j].name = p

\* A Joined is the first event in the channel, and about somebody no queue
\* has the departure of.
NewcomersAreNew ==
  /\ \A i \in DOMAIN ctl : ctl[i].t = "Joined" => i = 1
  /\ \A i \in DOMAIN ctl : phase[ctl[i].p] # "new"
  /\ \A p \in Participants : Newcomer(p) =>
       p \notin DOMAIN seats /\ \A s \in Shards : ~GoneIn(inbox[s], p)

\* What a shard that has sh and is to read q knows when it comes to the i-th
\* message: of a room, and of a member.
Up(sh, q, id, i) ==
  \/ id \in DOMAIN sh.rooms
  \/ \E j \in DOMAIN q : j < i /\ q[j].t = "RoomUp" /\ q[j].room = id

Known(sh, q, p, id, i) ==
  \/ id \in DOMAIN sh.rooms /\ p \in DOMAIN sh.rooms[id].pids
  \/ \E j \in DOMAIN q : j < i /\ q[j].t = "MemberUp" /\ q[j].name = p /\ q[j].room = id

GoneBefore(q, p, i) == \E j \in DOMAIN q : j < i /\ q[j].t = "MemberGone" /\ q[j].name = p

\* RoomUp comes before whatever else is about a room, and whoever a list
\* names is there when the list gets its turn.
InOrder(sh, q) ==
  \A i \in DOMAIN q :
    /\ q[i].t # "RoomUp" => Up(sh, q, q[i].room, i)
    /\ q[i].t = "ActiveSpeakers" =>
         \A p \in Range(q[i].top) : Known(sh, q, p, q[i].room, i) /\ ~GoneBefore(q, p, i)

QueuesInOrder == \A s \in Shards : InOrder(shard[s], inbox[s])

RoomsComeUp ==
  \A s \in Shards : \A id \in LiveRooms : Up(shard[s], inbox[s], id, Len(inbox[s]) + 1)

\* Whoever is seated is known to every shard, or about to be, and not about
\* to go.
SeatedAreKnown ==
  \A s \in Shards : \A p \in DOMAIN seats :
    /\ ~GoneIn(inbox[s], p)
    /\ Known(shard[s], inbox[s], p, roomId[seats[p].room], Len(inbox[s]) + 1)

SpeakersInv ==
  /\ PlaneTypeOK /\ TablesInv /\ NewcomersAreNew
  /\ RoomsComeUp /\ SeatedAreKnown /\ QueuesInOrder

-----------------------------------------------------------------------------
(* What a shard will know of a room *)

NoRoomYet == [there |-> FALSE, pids |-> Nothing, wants |-> Nothing, own |-> {}]

RoomOf(sh, id) ==
  IF id \in DOMAIN sh.rooms
  THEN [there |-> TRUE, pids |-> sh.rooms[id].pids, wants |-> sh.rooms[id].wants,
        own |-> DOMAIN sh.rooms[id].locals]
  ELSE NoRoomYet

\* The wants after a table has been taken over.
Overwritten(wants, table) ==
  LET row(pp) == (CHOOSE x \in table : x[1] = pp)[2]
      named == {x[1] : x \in table}
  IN  [pp \in DOMAIN wants \cup named |-> IF pp \in named THEN row(pp) ELSE wants[pp]]

\* What message m to shard s changes of it.
Learn(c, m, s, id) ==
  IF m.room # id THEN c
  ELSE IF m.t = "RoomUp"
       THEN [there |-> TRUE, pids |-> c.pids, wants |-> c.wants, own |-> c.own]
  ELSE IF ~c.there THEN c
  ELSE IF m.t = "MemberUp"
       THEN [there |-> TRUE, pids |-> With(c.pids, m.name, m.pid),
             wants |-> With(c.wants, m.pid, Everything),
             own |-> IF Home(m.pid) = s THEN c.own \cup {m.name} ELSE c.own]
  ELSE IF m.t = "MemberGone"
       THEN [there |-> TRUE, pids |-> Without(c.pids, {m.name}),
             wants |-> Without(c.wants, {c.pids[q] : q \in {m.name} \cap DOMAIN c.pids}),
             own |-> c.own \ {m.name}]
  ELSE IF m.t = "WantsAll"
       THEN [there |-> TRUE, pids |-> c.pids, wants |-> Overwritten(c.wants, m.table),
             own |-> c.own]
  ELSE c

-----------------------------------------------------------------------------
(* Legs *)

SeatedAt(p, s) == p \in DOMAIN seats /\ Home(seats[p].pid) = s

-----------------------------------------------------------------------------
\* No control queue of a shard ever fills, so that no message is lost.
QueuesHaveRoom == \A s \in Shards : Len(inbox[s]) < ShardCap

-----------------------------------------------------------------------------
(* Induction *)

LEMMA LeastNatural ==
  ASSUME NEW S \in SUBSET Nat, S # {}
  PROVE  \E m \in S : \A n \in S : m <= n
<1> DEFINE Below == {0 .. n : n \in S}
           R == StrictSubsetOrdering(Nat)
<1>1. IsWellFoundedOn(R, FiniteSubsetsOf(Nat))
  BY FS_StrictSubsetOrderingWellFounded
<1>2. Below \subseteq FiniteSubsetsOf(Nat) /\ Below # {}
  <2>1. ASSUME NEW n \in S PROVE IsFiniteSet(0 .. n) /\ 0 .. n \in SUBSET Nat
    BY FS_Interval
  <2> QED
    BY <2>1 DEF FiniteSubsetsOf
<1>3. PICK x \in Below : \A y \in Below : ~(<<y, x>> \in R)
  <2> HIDE DEF Below, R
  <2> QED
    BY <1>1, <1>2, WFMin
<1>4. PICK m \in S : x = 0 .. m
  BY <1>3
<1>5. ASSUME NEW n \in S, n < m PROVE FALSE
  <2>1. <<0 .. n, 0 .. m>> \in R
    BY <1>5 DEF StrictSubsetOrdering
  <2> QED
    BY <1>3, <1>4, <2>1
<1> QED
  BY <1>5

\* A set of naturals with 0 and the successor of each of its elements.
LEMMA SetInduction ==
  ASSUME NEW S \in SUBSET Nat, 0 \in S, \A n \in S : n + 1 \in S
  PROVE  S = Nat
<1> SUFFICES ASSUME Nat \ S # {} PROVE FALSE
  OBVIOUS
<1>1. PICK m \in Nat \ S : \A n \in Nat \ S : m <= n
  BY LeastNatural
<1>2. m # 0 /\ m - 1 \in Nat /\ m - 1 < m
  BY <1>1
<1> QED
  BY <1>1, <1>2

-----------------------------------------------------------------------------
(* Queues *)

LEMMA JoinedQueues ==
  ASSUME NEW q, NEW k, IsQueue(q), IsQueue(k)
  PROVE  /\ IsQueue(q \o k)
         /\ Len(q) \in Nat /\ Len(k) \in Nat /\ Len(q \o k) = Len(q) + Len(k)
         /\ DOMAIN q = 1 .. Len(q) /\ DOMAIN k = 1 .. Len(k)
         /\ DOMAIN (q \o k) = 1 .. (Len(q) + Len(k))
         /\ \A i \in 1 .. Len(q) : (q \o k)[i] = q[i]
         /\ \A i \in 1 .. Len(k) : (q \o k)[Len(q) + i] = k[i]
<1> DEFINE S == Range(q) \cup Range(k)
<1>1. q \in Seq(Range(q)) /\ k \in Seq(Range(k))
  BY DEF IsQueue
<1>2. q \in Seq(S) /\ k \in Seq(S)
  BY <1>1
<1>3. /\ q \o k \in Seq(S)
      /\ Len(q) \in Nat /\ Len(k) \in Nat /\ Len(q \o k) = Len(q) + Len(k)
      /\ DOMAIN q = 1 .. Len(q) /\ DOMAIN k = 1 .. Len(k)
      /\ DOMAIN (q \o k) = 1 .. (Len(q) + Len(k))
      /\ \A i \in 1 .. Len(q) : (q \o k)[i] = q[i]
      /\ \A i \in 1 .. Len(k) : (q \o k)[Len(q) + i] = k[i]
  <2> HIDE DEF S
  <2> QED
    BY <1>2
<1>4. IsQueue(q \o k)
  <2> DEFINE w == q \o k
  <2>1. w \in Seq(S)
    BY <1>3
  <2> HIDE DEF w, S
  <2>2. w \in [1 .. Len(w) -> S] /\ Len(w) \in Nat
    BY <2>1
  <2>3. w \in [1 .. Len(w) -> Range(w)]
    BY <2>2 DEF Range
  <2>4. w \in Seq(Range(w))
    BY <2>2, <2>3
  <2> QED
    BY <2>4 DEF IsQueue, w
<1> QED
  BY <1>3, <1>4

LEMMA QueueTail ==
  ASSUME NEW q, IsQueue(q), q # <<>>
  PROVE  /\ IsQueue(Tail(q))
         /\ Len(q) \in Nat \ {0} /\ Len(Tail(q)) = Len(q) - 1
         /\ DOMAIN q = 1 .. Len(q) /\ DOMAIN Tail(q) = 1 .. (Len(q) - 1)
         /\ Head(q) = q[1]
         /\ \A i \in 1 .. (Len(q) - 1) : Tail(q)[i] = q[i + 1]
<1> DEFINE S == Range(q)
<1>1. q \in Seq(S)
  BY DEF IsQueue
<1>2. /\ Tail(q) \in Seq(S)
      /\ Len(q) \in Nat \ {0} /\ Len(Tail(q)) = Len(q) - 1
      /\ DOMAIN q = 1 .. Len(q) /\ DOMAIN Tail(q) = 1 .. (Len(q) - 1)
      /\ Head(q) = q[1]
      /\ \A i \in 1 .. (Len(q) - 1) : Tail(q)[i] = q[i + 1]
  <2> HIDE DEF S
  <2> QED
    BY <1>1
<1>3. IsQueue(Tail(q))
  <2> DEFINE w == Tail(q)
  <2>1. w \in Seq(S)
    BY <1>2
  <2> HIDE DEF w, S
  <2>2. w \in [1 .. Len(w) -> S] /\ Len(w) \in Nat
    BY <2>1
  <2>3. w \in [1 .. Len(w) -> Range(w)]
    BY <2>2 DEF Range
  <2>4. w \in Seq(Range(w))
    BY <2>2, <2>3
  <2> QED
    BY <2>4 DEF IsQueue, w
<1> QED
  BY <1>2, <1>3

LEMMA ShortQueues ==
  /\ IsQueue(<<>>)
  /\ \A a : IsQueue(<<a>>) /\ Len(<<a>>) = 1 /\ <<a>>[1] = a
  /\ \A a, b : IsQueue(<<a, b>>) /\ Len(<<a, b>>) = 2 /\ <<a, b>>[1] = a /\ <<a, b>>[2] = b
  /\ \A a, b, c : /\ IsQueue(<<a, b, c>>) /\ Len(<<a, b, c>>) = 3
                  /\ <<a, b, c>>[1] = a /\ <<a, b, c>>[2] = b /\ <<a, b, c>>[3] = c
BY DEF IsQueue, Range

LEMMA ShortJoins ==
  /\ \A a, b, c : <<a>> \o <<b, c>> = <<a, b, c>>
  /\ \A a, b : <<a>> \o <<b>> = <<a, b>>
  /\ \A a, b : <<>> \o <<a, b>> = <<a, b>>
  /\ \A a : <<a>> \o <<>> = <<a>>
  /\ \A q : IsQueue(q) => q \o <<>> = q /\ <<>> \o q = q
<1>1. ASSUME NEW q, NEW k, NEW w, IsQueue(q), IsQueue(k), IsQueue(w), Len(w) = Len(q) + Len(k),
             \A i \in 1 .. Len(q) : w[i] = q[i], \A i \in 1 .. Len(k) : w[Len(q) + i] = k[i]
      PROVE  q \o k = w
  <2> DEFINE v == q \o k
  <2>1. /\ IsQueue(v) /\ Len(v) = Len(w) /\ Len(q) \in Nat /\ Len(k) \in Nat
        /\ \A i \in 1 .. Len(q) : v[i] = w[i]
        /\ \A i \in 1 .. Len(k) : v[Len(q) + i] = w[Len(q) + i]
    BY <1>1, JoinedQueues
  <2> HIDE DEF v
  <2>2. ASSUME NEW i \in 1 .. Len(w) PROVE v[i] = w[i]
    <3>1. CASE i <= Len(q)
      BY <1>1, <2>1, <3>1
    <3>2. CASE ~(i <= Len(q))
      <4>1. PICK j \in 1 .. Len(k) : i = Len(q) + j
        <5>1. i - Len(q) \in 1 .. Len(k) /\ i = Len(q) + (i - Len(q))
          BY <1>1, <2>1, <3>2
        <5> QED
          BY <5>1
      <4> QED
        BY <2>1, <4>1
    <3> QED
      BY <3>1, <3>2
  <2>3. v = w
    BY <1>1, <2>1, <2>2 DEF IsQueue
  <2> QED
    BY <2>3 DEF v
<1>2. ASSUME NEW a, NEW b, NEW c PROVE <<a>> \o <<b, c>> = <<a, b, c>>
  <2> DEFINE q == <<a>>
             k == <<b, c>>
             w == <<a, b, c>>
  <2>1. /\ IsQueue(q) /\ IsQueue(k) /\ IsQueue(w) /\ Len(q) = 1 /\ Len(k) = 2 /\ Len(w) = 3
        /\ w[1] = q[1] /\ w[2] = k[1] /\ w[3] = k[2]
    BY ShortQueues
  <2> HIDE DEF q, k, w
  <2>3. Len(w) = Len(q) + Len(k) /\ \A i \in 1 .. Len(q) : w[i] = q[i]
    BY <2>1
  <2>4. \A i \in 1 .. Len(k) : w[Len(q) + i] = k[i]
    BY <2>1
  <2>2. q \o k = w
    BY <1>1, <2>1, <2>3, <2>4
  <2> QED
    BY <2>2 DEF q, k, w
<1>3. ASSUME NEW a, NEW b PROVE <<a>> \o <<b>> = <<a, b>>
  <2> DEFINE q == <<a>>
             k == <<b>>
             w == <<a, b>>
  <2>1. /\ IsQueue(q) /\ IsQueue(k) /\ IsQueue(w) /\ Len(q) = 1 /\ Len(k) = 1 /\ Len(w) = 2
        /\ w[1] = q[1] /\ w[2] = k[1]
    BY ShortQueues
  <2> HIDE DEF q, k, w
  <2>3. Len(w) = Len(q) + Len(k) /\ \A i \in 1 .. Len(q) : w[i] = q[i]
    BY <2>1
  <2>4. \A i \in 1 .. Len(k) : w[Len(q) + i] = k[i]
    BY <2>1
  <2>2. q \o k = w
    BY <1>1, <2>1, <2>3, <2>4
  <2> QED
    BY <2>2 DEF q, k, w
<1>4. ASSUME NEW q, IsQueue(q) PROVE <<>> \o q = q /\ q \o <<>> = q
  <2>1. Len(<<>>) = 0 /\ IsQueue(<<>>) /\ Len(q) \in Nat
    BY <1>4, ShortQueues, JoinedQueues
  <2> QED
    BY <1>1, <1>4, <2>1
<1> QED
  BY <1>2, <1>3, <1>4, ShortQueues

-----------------------------------------------------------------------------
(* What a shard does with a message *)

LEMMA InRoomIs ==
  ASSUME NEW sh, IsShard(sh), NEW id \in DOMAIN sh.rooms, NEW x, IsRoom(x)
  PROVE  /\ IsShard([sh EXCEPT !.rooms[id] = x])
         /\ [sh EXCEPT !.rooms[id] = x].legs = sh.legs
         /\ [sh EXCEPT !.rooms[id] = x].rooms = [sh.rooms EXCEPT ![id] = x]
BY DEF IsShard

LEMMA LegsChange ==
  ASSUME NEW sh, IsShard(sh), NEW legs, DOMAIN legs \subseteq Participants \X {"pub", "sub"}
  PROVE  /\ IsShard([sh EXCEPT !.legs = legs])
         /\ [sh EXCEPT !.legs = legs].legs = legs
         /\ [sh EXCEPT !.legs = legs].rooms = sh.rooms
BY DEF IsShard

\* The derived tables depend on nothing they do not show.
LEMMA DerivedFrom ==
  ASSUME NEW x, NEW y, y.pids = x.pids, y.wants = x.wants, y.maxPid = x.maxPid,
         DOMAIN y.locals = DOMAIN x.locals
  PROVE  DemandTable(y) = DemandTable(x) /\ FanTable(y) = FanTable(x)
<1>1. \A pp, kind : Takers(y, pp, kind) = Takers(x, pp, kind)
  BY DEF Takers
<1>2. DemandTable(y) = DemandTable(x)
  BY <1>1 DEF DemandTable
<1>3. FanTable(y) = FanTable(x)
  BY <1>1 DEF FanTable
<1> QED
  BY <1>2, <1>3

LEMMA RebuiltIs ==
  ASSUME NEW x, IsRoom(x)
  PROVE  /\ Rebuilt(x) = [pids |-> x.pids, locals |-> x.locals, wants |-> x.wants,
                          demand |-> DemandTable(x), fan |-> FanTable(x), maxPid |-> x.maxPid]
         /\ IsRoom(Rebuilt(x))
         /\ Rebuilt(x) = x <=> x.demand = DemandTable(x) /\ x.fan = FanTable(x)
         /\ Rebuilt(Rebuilt(x)) = Rebuilt(x)
<1> DEFINE y == Rebuilt(x)
<1>0. /\ DOMAIN x = {"pids", "locals", "wants", "demand", "fan", "maxPid"}
      /\ y = [k \in DOMAIN x |-> IF k = "fan" THEN FanTable(x)
                               ELSE IF k = "demand" THEN DemandTable(x) ELSE x[k]]
  BY DEF Rebuilt, IsRoom
<1>1. y = [pids |-> x.pids, locals |-> x.locals, wants |-> x.wants,
           demand |-> DemandTable(x), fan |-> FanTable(x), maxPid |-> x.maxPid]
  BY <1>0
<1>2. IsRoom(y) /\ y.demand = DemandTable(x) /\ y.fan = FanTable(x)
      /\ y.pids = x.pids /\ y.locals = x.locals /\ y.wants = x.wants /\ y.maxPid = x.maxPid
  BY <1>1 DEF IsRoom
<1> HIDE DEF y
<1>3. DemandTable(y) = DemandTable(x) /\ FanTable(y) = FanTable(x)
  BY <1>2, DerivedFrom
<1>4. Rebuilt(y) = y
  BY <1>2, <1>3 DEF Rebuilt, IsRoom
<1>5. y = x <=> x.demand = DemandTable(x) /\ x.fan = FanTable(x)
  BY <1>1 DEF IsRoom
<1> QED
  BY <1>1, <1>2, <1>4, <1>5 DEF y

\* The tables of a room fit together.
Sane(x) ==
  /\ DOMAIN x.locals \subseteq DOMAIN x.pids
  /\ x.maxPid \in Nat /\ \A q \in DOMAIN x.pids : x.pids[q] \in 0 .. (x.maxPid - 1)
  /\ Rebuilt(x) = x

LEMMA SaneRebuilt ==
  ASSUME NEW x, IsRoom(x), DOMAIN x.locals \subseteq DOMAIN x.pids, x.maxPid \in Nat,
         \A q \in DOMAIN x.pids : x.pids[q] \in 0 .. (x.maxPid - 1)
  PROVE  Sane(Rebuilt(x))
BY RebuiltIs DEF Sane

\* What is kept of a member: the lines it publishes, and for an SSRC a line
\* of a kind there is.
IsLocal(x) ==
  /\ x = [lines |-> x.lines, ssrcs |-> x.ssrcs]
  /\ \A y \in DOMAIN x.ssrcs : LineKind[x.ssrcs[y]] \in Kinds
LocalsOK(x) == \A q \in DOMAIN x.locals : IsLocal(x.locals[q])
ShardLocalsOK(sh) == \A id \in DOMAIN sh.rooms : LocalsOK(sh.rooms[id])

\* What a message may do to a shard, as far as the proofs tell.
Handles(sh, m, s, new) ==
  /\ IsShard(new)
  /\ \A id \in Nat : RoomOf(new, id) = Learn(RoomOf(sh, id), m, s, id)
  /\ (\A id \in DOMAIN sh.rooms : Sane(sh.rooms[id])) => \A id \in DOMAIN new.rooms : Sane(new.rooms[id])
  /\ ShardLocalsOK(sh) => ShardLocalsOK(new)
  /\ \A key \in DOMAIN new.legs :
       \/ key \in DOMAIN sh.legs
       \/ m.t \in {"PublisherOffer", "OfferSub"} /\ key[1] = m.name
  /\ m.t = "MemberGone" /\ m.room \in DOMAIN sh.rooms =>
       \A key \in DOMAIN new.legs : key[1] # m.name

\* A message that leaves the rooms alone, but for what is kept of members.
LEMMA LegsOnly ==
  ASSUME NEW sh, IsShard(sh), NEW m, NEW s, NEW new, IsShard(new),
         m.t \in {"PublisherOffer", "OfferSub", "SubscriberAnswer", "ActiveSpeakers"},
         DOMAIN new.rooms = DOMAIN sh.rooms,
         \A id \in DOMAIN sh.rooms :
           /\ new.rooms[id].pids = sh.rooms[id].pids /\ new.rooms[id].wants = sh.rooms[id].wants
           /\ new.rooms[id].maxPid = sh.rooms[id].maxPid
           /\ new.rooms[id].demand = sh.rooms[id].demand /\ new.rooms[id].fan = sh.rooms[id].fan
           /\ DOMAIN new.rooms[id].locals = DOMAIN sh.rooms[id].locals,
         \A key \in DOMAIN new.legs :
           \/ key \in DOMAIN sh.legs
           \/ m.t \in {"PublisherOffer", "OfferSub"} /\ key[1] = m.name,
         ShardLocalsOK(sh) => ShardLocalsOK(new)
  PROVE  Handles(sh, m, s, new)
<1>1. ASSUME NEW id \in Nat PROVE RoomOf(new, id) = RoomOf(sh, id)
  BY <1>1 DEF RoomOf
<1>2. ASSUME NEW id \in Nat PROVE RoomOf(sh, id) = Learn(RoomOf(sh, id), m, s, id)
  BY <1>2 DEF Learn
<1>3. ASSUME NEW id \in DOMAIN sh.rooms, Sane(sh.rooms[id]) PROVE Sane(new.rooms[id])
  <2> DEFINE x == sh.rooms[id]
             y == new.rooms[id]
  <2>1. IsRoom(x) /\ IsRoom(y)
    BY DEF IsShard
  <2>2. /\ y.pids = x.pids /\ y.wants = x.wants /\ y.maxPid = x.maxPid
        /\ y.demand = x.demand /\ y.fan = x.fan /\ DOMAIN y.locals = DOMAIN x.locals
    OBVIOUS
  <2>3. Sane(x)
    BY <1>3
  <2> HIDE DEF x, y
  <2>4. DemandTable(y) = DemandTable(x) /\ FanTable(y) = FanTable(x)
    BY <2>2, DerivedFrom
  <2>5. Sane(y)
    BY <2>1, <2>2, <2>3, <2>4, RebuiltIs DEF Sane
  <2> QED
    BY <2>5 DEF y
<1> QED
  BY <1>1, <1>2, <1>3 DEF Handles

LEMMA RoomUpHandled ==
  ASSUME NEW sh, IsShard(sh), NEW m, IsControl(m), m.t = "RoomUp", NEW s
  PROVE  Handles(sh, m, s, OnRoomUp(sh, m))
<1> DEFINE rooms == IF m.room \in DOMAIN sh.rooms THEN sh.rooms ELSE With(sh.rooms, m.room, NewRoom)
           new == OnRoomUp(sh, m)
<1>1. m.room \in Nat
  BY DEF IsControl
<1>2. new.rooms = rooms /\ new.legs = sh.legs /\ new = [ids |-> new.ids, rooms |-> rooms, legs |-> sh.legs]
  <2>1. DOMAIN sh = {"ids", "rooms", "legs"}
    BY DEF IsShard
  <2>2. new = [k \in DOMAIN sh |-> IF k = "rooms" THEN rooms
                                   ELSE IF k = "ids" THEN [sh.ids EXCEPT ![m.r] = m.room] ELSE sh[k]]
    BY DEF OnRoomUp, IsShard
  <2> HIDE DEF rooms, new
  <2> QED
    BY <2>1, <2>2
<1> HIDE DEF new
<1>3. /\ IsRoom(NewRoom) /\ NewRoom.pids = Nothing /\ NewRoom.wants = Nothing
      /\ NewRoom.locals = Nothing /\ NewRoom.maxPid = 0 /\ DOMAIN Nothing = {}
      /\ NewRoom.demand = Nothing /\ NewRoom.fan = Nothing
  BY DEF NewRoom, IsRoom, Nothing
<1>4. Sane(NewRoom)
  <2>1. DemandTable(NewRoom) = Nothing
    BY <1>3 DEF DemandTable, Range, Nothing
  <2>2. FanTable(NewRoom) = Nothing
    <3>1. 0 .. (NewRoom.maxPid - 1) = {}
      BY <1>3
    <3> QED
      BY <3>1 DEF FanTable, Nothing
  <2> QED
    BY <1>3, <2>1, <2>2, RebuiltIs DEF Sane
<1>5. /\ DOMAIN rooms = DOMAIN sh.rooms \cup {m.room}
      /\ \A id \in DOMAIN rooms : rooms[id] = IF id \in DOMAIN sh.rooms THEN sh.rooms[id] ELSE NewRoom
  BY DEF With
<1> HIDE DEF rooms
<1>6. IsShard(new)
  BY <1>1, <1>2, <1>3, <1>5 DEF IsShard
<1>7. ASSUME NEW id \in Nat PROVE RoomOf(new, id) = Learn(RoomOf(sh, id), m, s, id)
  <2>1. CASE m.room # id
    BY <1>2, <1>5, <2>1 DEF RoomOf, Learn
  <2>2. CASE m.room = id
    <3>1. RoomOf(sh, id) = IF id \in DOMAIN sh.rooms
                           THEN [there |-> TRUE, pids |-> sh.rooms[id].pids, wants |-> sh.rooms[id].wants,
                                 own |-> DOMAIN sh.rooms[id].locals]
                           ELSE NoRoomYet
      BY DEF RoomOf
    <3>2. RoomOf(new, id) = [there |-> TRUE, pids |-> new.rooms[id].pids, wants |-> new.rooms[id].wants,
                             own |-> DOMAIN new.rooms[id].locals]
      BY <1>2, <1>5, <2>2 DEF RoomOf
    <3>3. Learn(RoomOf(sh, id), m, s, id) =
            [there |-> TRUE, pids |-> RoomOf(sh, id).pids, wants |-> RoomOf(sh, id).wants,
             own |-> RoomOf(sh, id).own]
      BY <2>2 DEF Learn
    <3>4. CASE id \in DOMAIN sh.rooms
      BY <1>2, <1>5, <2>2, <3>1, <3>2, <3>3, <3>4
    <3>5. CASE id \notin DOMAIN sh.rooms
      <4>1. new.rooms[id] = NewRoom
        BY <1>2, <1>5, <2>2, <3>5
      <4>2. RoomOf(sh, id) = NoRoomYet
        BY <3>1, <3>5
      <4>3. RoomOf(new, id) = [there |-> TRUE, pids |-> Nothing, wants |-> Nothing, own |-> {}]
        BY <1>3, <3>2, <4>1
      <4>4. Learn(RoomOf(sh, id), m, s, id) =
              [there |-> TRUE, pids |-> Nothing, wants |-> Nothing, own |-> {}]
        BY <3>3, <4>2 DEF NoRoomYet
      <4> QED
        BY <4>3, <4>4
    <3> QED
      BY <3>4, <3>5
  <2> QED
    BY <2>1, <2>2
<1>8. ShardLocalsOK(sh) => ShardLocalsOK(new)
  <2>1. LocalsOK(NewRoom)
    BY <1>3 DEF LocalsOK
  <2> QED
    BY <1>2, <1>5, <2>1 DEF ShardLocalsOK
<1> QED
  BY <1>2, <1>4, <1>5, <1>6, <1>7, <1>8 DEF Handles, new

\* A message about a room the shard does not know is dropped.
LEMMA StrangeRoom ==
  ASSUME NEW sh, IsShard(sh), NEW m, m.room \notin DOMAIN sh.rooms, m.t # "RoomUp", NEW s
  PROVE  Handles(sh, m, s, sh)
<1>1. ASSUME NEW id \in Nat PROVE RoomOf(sh, id) = Learn(RoomOf(sh, id), m, s, id)
  BY DEF RoomOf, Learn, NoRoomYet
<1> QED
  BY <1>1 DEF Handles

\* One room changes, to x.
LEMMA OneRoom ==
  ASSUME NEW sh, IsShard(sh), NEW m, m.t \in {"MemberUp", "WantsAll"}, NEW s,
         m.room \in DOMAIN sh.rooms, NEW x, IsRoom(x),
         Sane(sh.rooms[m.room]) => Sane(x), LocalsOK(sh.rooms[m.room]) => LocalsOK(x),
         RoomOf([sh EXCEPT !.rooms[m.room] = x], m.room) = Learn(RoomOf(sh, m.room), m, s, m.room)
  PROVE  Handles(sh, m, s, [sh EXCEPT !.rooms[m.room] = x])
<1> DEFINE new == [sh EXCEPT !.rooms[m.room] = x]
<1>1. IsShard(new) /\ new.legs = sh.legs /\ new.rooms = [sh.rooms EXCEPT ![m.room] = x]
  BY InRoomIs
<1>0. RoomOf(new, m.room) = Learn(RoomOf(sh, m.room), m, s, m.room)
  OBVIOUS
<1> HIDE DEF new
<1>2. ASSUME NEW id \in Nat PROVE RoomOf(new, id) = Learn(RoomOf(sh, id), m, s, id)
  <2>1. CASE id # m.room
    BY <1>1, <2>1 DEF RoomOf, Learn
  <2> QED
    BY <1>0, <2>1
<1>3. ASSUME \A id \in DOMAIN sh.rooms : Sane(sh.rooms[id]), NEW id \in DOMAIN new.rooms
      PROVE  Sane(new.rooms[id])
  BY <1>1, <1>3
<1>5. ShardLocalsOK(sh) => ShardLocalsOK(new)
  BY <1>1 DEF ShardLocalsOK
<1>4. Handles(sh, m, s, new)
  BY <1>1, <1>2, <1>3, <1>5 DEF Handles
<1> QED
  BY <1>4 DEF new

LEMMA MemberUpHandled ==
  ASSUME NEW sh, IsShard(sh), NEW m, IsControl(m), m.t = "MemberUp", NEW s
  PROVE  Handles(sh, m, s, OnMemberUp(sh, m, s))
<1>1. CASE m.room \notin DOMAIN sh.rooms
  BY <1>1, StrangeRoom DEF OnMemberUp, InRoom
<1>2. CASE m.room \in DOMAIN sh.rooms
  <2> DEFINE old == sh.rooms[m.room]
             x == [old EXCEPT !.pids = With(@, m.name, m.pid),
                              !.wants = With(@, m.pid, Everything),
                              !.maxPid = IF m.pid < @ THEN @ ELSE m.pid + 1,
                              !.locals = IF Home(m.pid) = s THEN With(@, m.name, NewMember)
                                         ELSE @]
             pids == With(old.pids, m.name, m.pid)
             wants == With(old.wants, m.pid, Everything)
             maxPid == IF m.pid < old.maxPid THEN old.maxPid ELSE m.pid + 1
             locals == IF Home(m.pid) = s THEN With(old.locals, m.name, NewMember) ELSE old.locals
  <2>1. OnMemberUp(sh, m, s) = [sh EXCEPT !.rooms[m.room] = Rebuilt(x)]
    BY <1>2 DEF OnMemberUp, InRoom
  <2>2. IsRoom(old) /\ m.pid \in Nat
    BY <1>2 DEF IsShard, IsControl
  <2>3. x = [pids |-> pids, locals |-> locals, wants |-> wants, demand |-> old.demand,
             fan |-> old.fan, maxPid |-> maxPid]
    <3>1. DOMAIN old = {"pids", "locals", "wants", "demand", "fan", "maxPid"}
      BY <2>2 DEF IsRoom
    <3> HIDE DEF old
    <3>2. x = [k \in DOMAIN old |-> IF k = "locals" THEN locals ELSE IF k = "maxPid" THEN maxPid
                                    ELSE IF k = "wants" THEN wants
                                    ELSE IF k = "pids" THEN pids ELSE old[k]]
      BY <3>1
    <3> HIDE DEF x, pids, wants, locals, maxPid
    <3> QED
      BY <3>1, <3>2
  <2>4. /\ DOMAIN pids = DOMAIN old.pids \cup {m.name}
        /\ \A q \in DOMAIN pids : pids[q] = IF q = m.name THEN m.pid ELSE old.pids[q]
        /\ DOMAIN locals = IF Home(m.pid) = s THEN DOMAIN old.locals \cup {m.name} ELSE DOMAIN old.locals
        /\ \A q \in DOMAIN locals : locals[q] = NewMember \/ (q \in DOMAIN old.locals /\ locals[q] = old.locals[q])
    BY DEF With
  <2>5. RoomOf(sh, m.room) = [there |-> TRUE, pids |-> old.pids, wants |-> old.wants,
                              own |-> DOMAIN old.locals]
    BY <1>2 DEF RoomOf
  <2>6. Learn(RoomOf(sh, m.room), m, s, m.room) =
          [there |-> TRUE, pids |-> pids, wants |-> wants, own |-> DOMAIN locals]
    <3> DEFINE c == RoomOf(sh, m.room)
    <3>1. c.there /\ c.pids = old.pids /\ c.wants = old.wants /\ c.own = DOMAIN old.locals
      BY <2>5
    <3>2. /\ With(c.pids, m.name, m.pid) = pids /\ With(c.wants, m.pid, Everything) = wants
          /\ (IF Home(m.pid) = s THEN c.own \cup {m.name} ELSE c.own) = DOMAIN locals
      <4> HIDE DEF c
      <4> QED
        BY <2>4, <3>1
    <3> HIDE DEF c, pids, wants, locals
    <3>3. Learn(c, m, s, m.room) =
            [there |-> TRUE, pids |-> With(c.pids, m.name, m.pid),
             wants |-> With(c.wants, m.pid, Everything),
             own |-> IF Home(m.pid) = s THEN c.own \cup {m.name} ELSE c.own]
      BY <3>1 DEF Learn
    <3> QED
      BY <3>2, <3>3 DEF c
  <2> HIDE DEF old, x, pids, wants, maxPid, locals
  <2>7. IsRoom(x) /\ x.pids = pids /\ x.locals = locals /\ x.wants = wants /\ x.maxPid = maxPid
    BY <2>3 DEF IsRoom
  <2>8. /\ IsRoom(Rebuilt(x)) /\ Rebuilt(x).pids = pids /\ Rebuilt(x).wants = wants
        /\ Rebuilt(x).locals = locals
    BY <2>7, RebuiltIs
  <2>9. ASSUME Sane(old) PROVE Sane(Rebuilt(x))
    <3>1. old.maxPid \in Nat /\ maxPid \in Nat /\ old.maxPid <= maxPid /\ m.pid < maxPid
      BY <2>2, <2>9 DEF Sane, maxPid
    <3>2. \A q \in DOMAIN pids : pids[q] \in 0 .. (maxPid - 1)
      BY <2>2, <2>4, <2>9, <3>1 DEF Sane
    <3>3. DOMAIN locals \subseteq DOMAIN pids
      BY <2>4, <2>9 DEF Sane
    <3> QED
      BY <2>7, <3>1, <3>2, <3>3, SaneRebuilt
  <2>10. RoomOf([sh EXCEPT !.rooms[m.room] = Rebuilt(x)], m.room) =
           [there |-> TRUE, pids |-> pids, wants |-> wants, own |-> DOMAIN locals]
    <3>1. [sh EXCEPT !.rooms[m.room] = Rebuilt(x)].rooms = [sh.rooms EXCEPT ![m.room] = Rebuilt(x)]
      BY <1>2, <2>8, InRoomIs
    <3> QED
      BY <1>2, <2>8, <3>1 DEF RoomOf
  <2>11. LocalsOK(old) => LocalsOK(Rebuilt(x))
    <3>1. IsLocal(NewMember)
      BY DEF IsLocal, NewMember, Nothing
    <3> QED
      BY <2>4, <2>8, <3>1 DEF LocalsOK
  <2> QED
    BY <1>2, <2>1, <2>6, <2>8, <2>9, <2>10, <2>11, OneRoom DEF old
<1> QED
  BY <1>1, <1>2

LEMMA WantsAllHandled ==
  ASSUME NEW sh, IsShard(sh), NEW m, IsControl(m), m.t = "WantsAll", NEW s
  PROVE  Handles(sh, m, s, OnWantsAll(sh, m))
<1>1. CASE m.room \notin DOMAIN sh.rooms
  BY <1>1, StrangeRoom DEF OnWantsAll, InRoom
<1>2. CASE m.room \in DOMAIN sh.rooms
  <2> DEFINE old == sh.rooms[m.room]
             wants == Overwritten(old.wants, m.table)
             x == [old EXCEPT !.wants = wants]
  <2>1. OnWantsAll(sh, m) = [sh EXCEPT !.rooms[m.room] = Rebuilt(x)]
    BY <1>2 DEF OnWantsAll, InRoom, Overwritten
  <2>2. IsRoom(old)
    BY <1>2 DEF IsShard
  <2>5. RoomOf(sh, m.room) = [there |-> TRUE, pids |-> old.pids, wants |-> old.wants,
                              own |-> DOMAIN old.locals]
    BY <1>2 DEF RoomOf
  <2>6. Learn(RoomOf(sh, m.room), m, s, m.room) =
          [there |-> TRUE, pids |-> old.pids, wants |-> wants, own |-> DOMAIN old.locals]
    <3> HIDE DEF old
    <3> QED
      BY <2>5 DEF Learn
  <2> HIDE DEF old, wants
  <2>7. /\ IsRoom(x) /\ x.pids = old.pids /\ x.locals = old.locals /\ x.wants = wants
        /\ x.maxPid = old.maxPid
    BY <2>2 DEF IsRoom
  <2> HIDE DEF x
  <2>8. /\ IsRoom(Rebuilt(x)) /\ Rebuilt(x).pids = old.pids /\ Rebuilt(x).wants = wants
        /\ Rebuilt(x).locals = old.locals
    BY <2>7, RebuiltIs
  <2>9. ASSUME Sane(old) PROVE Sane(Rebuilt(x))
    BY <2>7, <2>9, SaneRebuilt DEF Sane
  <2>10. RoomOf([sh EXCEPT !.rooms[m.room] = Rebuilt(x)], m.room) =
           [there |-> TRUE, pids |-> old.pids, wants |-> wants, own |-> DOMAIN old.locals]
    <3>1. [sh EXCEPT !.rooms[m.room] = Rebuilt(x)].rooms = [sh.rooms EXCEPT ![m.room] = Rebuilt(x)]
      BY <1>2, <2>8, InRoomIs
    <3> QED
      BY <1>2, <2>8, <3>1 DEF RoomOf
  <2>11. LocalsOK(old) => LocalsOK(Rebuilt(x))
    BY <2>8 DEF LocalsOK
  <2> QED
    BY <1>2, <2>1, <2>6, <2>8, <2>9, <2>10, <2>11, OneRoom DEF old
<1> QED
  BY <1>1, <1>2

LEMMA MemberGoneHandled ==
  ASSUME NEW sh, IsShard(sh), NEW m, IsControl(m), m.t = "MemberGone", NEW s
  PROVE  Handles(sh, m, s, OnMemberGone(sh, m))
<1>1. CASE m.room \notin DOMAIN sh.rooms
  BY <1>1, StrangeRoom DEF OnMemberGone, InRoom
<1>2. CASE m.room \in DOMAIN sh.rooms
  <2> DEFINE old == sh.rooms[m.room]
             x == WithoutMember(old, m.name)
             pids == Without(old.pids, {m.name})
             wants == Without(old.wants, {old.pids[q] : q \in {m.name} \cap DOMAIN old.pids})
             locals == Without(old.locals, {m.name})
             legs == Without(sh.legs, LegsOf(m.name))
             left == [sh EXCEPT !.legs = legs]
             new == [left EXCEPT !.rooms[m.room] = Rebuilt(x)]
  <2>0. /\ DOMAIN legs = DOMAIN sh.legs \ LegsOf(m.name)
        /\ DOMAIN pids = DOMAIN old.pids \ {m.name} /\ DOMAIN locals = DOMAIN old.locals \ {m.name}
        /\ \A q \in DOMAIN pids : pids[q] = old.pids[q]
        /\ \A q \in DOMAIN locals : locals[q] = old.locals[q]
    BY DEF Without, Restrict
  <2>1. DOMAIN legs \subseteq Participants \X {"pub", "sub"}
    BY <2>0 DEF IsShard
  <2>2. IsShard(left) /\ left.legs = legs /\ left.rooms = sh.rooms
    <3> HIDE DEF legs
    <3> QED
      BY <2>1, LegsChange
  <2>3. OnMemberGone(sh, m) = new
    <3>1. left.rooms[m.room] = old
      BY <2>2
    <3> QED
      BY <1>2, <2>2, <3>1 DEF OnMemberGone, InRoom
  <2>4. IsRoom(old)
    BY <1>2 DEF IsShard
  <2>5. x = [pids |-> pids, locals |-> locals, wants |-> wants, demand |-> old.demand,
             fan |-> old.fan, maxPid |-> old.maxPid]
    <3>1. DOMAIN old = {"pids", "locals", "wants", "demand", "fan", "maxPid"}
      BY <2>4 DEF IsRoom
    <3> HIDE DEF old
    <3>2. x = [k \in DOMAIN old |-> IF k = "wants" THEN wants ELSE IF k = "locals" THEN locals
                                    ELSE IF k = "pids" THEN pids ELSE old[k]]
      BY <3>1 DEF WithoutMember
    <3> HIDE DEF x, pids, wants, locals
    <3> QED
      BY <3>1, <3>2
  <2>6. RoomOf(sh, m.room) = [there |-> TRUE, pids |-> old.pids, wants |-> old.wants,
                              own |-> DOMAIN old.locals]
    BY <1>2 DEF RoomOf
  <2>7. Learn(RoomOf(sh, m.room), m, s, m.room) =
          [there |-> TRUE, pids |-> pids, wants |-> wants, own |-> DOMAIN locals]
    <3> DEFINE c == RoomOf(sh, m.room)
    <3>1. c.there /\ c.pids = old.pids /\ c.wants = old.wants /\ c.own = DOMAIN old.locals
      BY <2>6
    <3>2. /\ Without(c.pids, {m.name}) = pids
          /\ Without(c.wants, {c.pids[q] : q \in {m.name} \cap DOMAIN c.pids}) = wants
          /\ c.own \ {m.name} = DOMAIN locals
      <4> HIDE DEF c
      <4> QED
        BY <2>0, <3>1
    <3> HIDE DEF c, pids, wants, locals
    <3>3. Learn(c, m, s, m.room) =
            [there |-> TRUE, pids |-> Without(c.pids, {m.name}),
             wants |-> Without(c.wants, {c.pids[q] : q \in {m.name} \cap DOMAIN c.pids}),
             own |-> c.own \ {m.name}]
      BY <3>1 DEF Learn
    <3> QED
      BY <3>2, <3>3 DEF c
  <2>8. IsRoom(x) /\ x.pids = pids /\ x.locals = locals /\ x.wants = wants /\ x.maxPid = old.maxPid
    BY <2>5 DEF IsRoom
  <2> HIDE DEF x, legs, left, new
  <2>9. /\ IsRoom(Rebuilt(x)) /\ Rebuilt(x).pids = pids /\ Rebuilt(x).wants = wants
        /\ Rebuilt(x).locals = locals
    BY <2>8, RebuiltIs
  <2>10. ASSUME Sane(old) PROVE Sane(Rebuilt(x))
    <3> HIDE DEF old, pids, locals, wants
    <3>1. DOMAIN locals \subseteq DOMAIN pids /\ \A q \in DOMAIN pids : pids[q] \in 0 .. (old.maxPid - 1)
      BY <2>0, <2>10 DEF Sane
    <3> QED
      BY <2>8, <2>10, <3>1, SaneRebuilt DEF Sane
  <2>11. /\ IsShard(new) /\ new.legs = legs
         /\ new.rooms = [sh.rooms EXCEPT ![m.room] = Rebuilt(x)]
    BY <1>2, <2>2, <2>9, InRoomIs DEF new
  <2>12. ASSUME NEW id \in Nat PROVE RoomOf(new, id) = Learn(RoomOf(sh, id), m, s, id)
    <3>1. CASE id = m.room
      <4>1. RoomOf(new, id) = [there |-> TRUE, pids |-> pids, wants |-> wants, own |-> DOMAIN locals]
        <5> HIDE DEF pids, wants, locals
        <5> QED
          BY <1>2, <2>9, <2>11, <3>1 DEF RoomOf
      <4> QED
        BY <2>7, <3>1, <4>1
    <3>2. CASE id # m.room
      BY <2>11, <3>2 DEF RoomOf, Learn
    <3> QED
      BY <3>1, <3>2
  <2>13. ASSUME \A id \in DOMAIN sh.rooms : Sane(sh.rooms[id]), NEW id \in DOMAIN new.rooms
         PROVE  Sane(new.rooms[id])
    BY <1>2, <2>10, <2>11, <2>13
  <2>14. \A key \in DOMAIN new.legs : key \in DOMAIN sh.legs /\ key[1] # m.name
    <3>1. \A key \in Participants \X {"pub", "sub"} : key[1] = m.name => key \in LegsOf(m.name)
      BY DEF LegsOf
    <3> QED
      BY <2>0, <2>11, <3>1 DEF IsShard
  <2>15. ShardLocalsOK(sh) => ShardLocalsOK(new)
    <3>1. LocalsOK(old) => LocalsOK(Rebuilt(x))
      <4> HIDE DEF old, locals
      <4> QED
        BY <2>0, <2>9 DEF LocalsOK
    <3> QED
      BY <1>2, <2>11, <3>1 DEF ShardLocalsOK
  <2> QED
    BY <2>3, <2>11, <2>12, <2>13, <2>14, <2>15 DEF Handles
<1> QED
  BY <1>1, <1>2

LEMMA PubOfferHandled ==
  ASSUME NEW sh, IsShard(sh), NEW m, IsControl(m), m.t = "PublisherOffer", NEW s, NEW lines
  PROVE  Handles(sh, m, s, OnPubOffer(sh, m, lines))
<1>1. CASE m.room \notin DOMAIN sh.rooms
  BY <1>1, StrangeRoom DEF OnPubOffer
<1>2. CASE m.room \in DOMAIN sh.rooms
  <2> DEFINE old == sh.rooms[m.room]
             key == <<m.name, "pub">>
             learned(member) == [lines |-> lines,
                                 ssrcs |-> Restrict(member.ssrcs,
                                     {x \in DOMAIN member.ssrcs : member.ssrcs[x] \in lines})]
             x == IF m.name \in DOMAIN old.locals
                  THEN [old EXCEPT !.locals[m.name] = learned(@)] ELSE old
             noted == [sh EXCEPT !.rooms[m.room] = x]
             legs == IF key \in DOMAIN sh.legs THEN sh.legs ELSE With(sh.legs, key, "ready")
             new == [noted EXCEPT !.legs = legs]
  <2>1. IsRoom(old) /\ m.name \in Participants
    BY <1>2 DEF IsShard, IsControl, NamedTypes, ControlTypes
  <2>2. /\ IsRoom(x) /\ x.pids = old.pids /\ x.wants = old.wants /\ x.maxPid = old.maxPid
        /\ x.demand = old.demand /\ x.fan = old.fan /\ DOMAIN x.locals = DOMAIN old.locals
    <3> HIDE DEF old, learned
    <3>1. CASE m.name \in DOMAIN old.locals
      <4> DEFINE locals == [old.locals EXCEPT ![m.name] = learned(@)]
      <4>1. DOMAIN locals = DOMAIN old.locals
        OBVIOUS
      <4>2. x = [old EXCEPT !.locals = locals]
        BY <2>1, <3>1 DEF IsRoom
      <4> HIDE DEF locals, x
      <4> QED
        BY <2>1, <4>1, <4>2 DEF IsRoom
    <3> QED
      BY <2>1, <3>1
  <2>12. LocalsOK(old) => LocalsOK(x)
    <3>1. ASSUME NEW member, IsLocal(member) PROVE IsLocal(learned(member))
      <4> DEFINE ssrcs == Restrict(member.ssrcs, {y \in DOMAIN member.ssrcs : member.ssrcs[y] \in lines})
      <4>1. \A y \in DOMAIN ssrcs : y \in DOMAIN member.ssrcs /\ ssrcs[y] = member.ssrcs[y]
        BY DEF Restrict
      <4>2. learned(member) = [lines |-> lines, ssrcs |-> ssrcs]
        OBVIOUS
      <4> HIDE DEF ssrcs, learned
      <4> QED
        BY <3>1, <4>1, <4>2 DEF IsLocal
    <3> HIDE DEF old, learned
    <3>2. CASE m.name \in DOMAIN old.locals
      <4> DEFINE locals == [old.locals EXCEPT ![m.name] = learned(@)]
      <4>1. \A q \in DOMAIN locals : /\ q \in DOMAIN old.locals
                                     /\ locals[q] = old.locals[q] \/ locals[q] = learned(old.locals[q])
        OBVIOUS
      <4>2. x.locals = locals
        BY <2>1, <3>2 DEF IsRoom
      <4> HIDE DEF locals, x
      <4> QED
        BY <3>1, <4>1, <4>2 DEF LocalsOK
    <3> QED
      BY <3>2
  <2> HIDE DEF x, learned
  <2>3. IsShard(noted) /\ noted.legs = sh.legs /\ noted.rooms = [sh.rooms EXCEPT ![m.room] = x]
    BY <1>2, <2>2, InRoomIs
  <2>4. OnPubOffer(sh, m, lines) = new
    <3>1. noted.legs = sh.legs
      BY <2>3
    <3> HIDE DEF noted
    <3>2. new = [noted EXCEPT !.legs = IF key \in DOMAIN @ THEN @ ELSE With(@, key, "ready")]
      BY <2>3, <3>1 DEF IsShard
    <3> QED
      BY <1>2, <3>2 DEF OnPubOffer, InRoom, noted, x, old, learned
  <2> HIDE DEF noted
  <2>5. DOMAIN legs = DOMAIN sh.legs \cup {key} /\ key \in Participants \X {"pub", "sub"}
    BY <2>1 DEF With
  <2>6. DOMAIN legs \subseteq Participants \X {"pub", "sub"}
    BY <2>5 DEF IsShard
  <2> HIDE DEF legs
  <2>7. IsShard(new) /\ new.legs = legs /\ new.rooms = noted.rooms
    BY <2>3, <2>6, LegsChange
  <2> HIDE DEF new
  <2>8. /\ DOMAIN new.rooms = DOMAIN sh.rooms
        /\ \A id \in DOMAIN sh.rooms : new.rooms[id] = IF id = m.room THEN x ELSE sh.rooms[id]
    BY <2>3, <2>7
  <2>9. \A id \in DOMAIN sh.rooms :
          /\ new.rooms[id].pids = sh.rooms[id].pids /\ new.rooms[id].wants = sh.rooms[id].wants
          /\ new.rooms[id].maxPid = sh.rooms[id].maxPid
          /\ new.rooms[id].demand = sh.rooms[id].demand /\ new.rooms[id].fan = sh.rooms[id].fan
          /\ DOMAIN new.rooms[id].locals = DOMAIN sh.rooms[id].locals
    BY <2>2, <2>8
  <2>10. \A k \in DOMAIN new.legs : k \in DOMAIN sh.legs \/ k[1] = m.name
    BY <2>5, <2>7
  <2>13. ShardLocalsOK(sh) => ShardLocalsOK(new)
    BY <1>2, <2>8, <2>12 DEF ShardLocalsOK
  <2>11. Handles(sh, m, s, new)
    BY <2>7, <2>8, <2>9, <2>10, <2>13, LegsOnly
  <2> QED
    BY <2>4, <2>11
<1> QED
  BY <1>1, <1>2

LEMMA OfferSubHandled ==
  ASSUME NEW sh, IsShard(sh), NEW m, IsControl(m), m.t = "OfferSub", NEW s
  PROVE  Handles(sh, m, s, OnOfferSub(sh, m))
<1> DEFINE key == <<m.name, "sub">>
           legs == IF key \in DOMAIN sh.legs THEN sh.legs ELSE With(sh.legs, key, "offered")
           new == [sh EXCEPT !.legs = legs]
<1>1. m.name \in Participants
  BY DEF IsControl, NamedTypes, ControlTypes
<1>2. DOMAIN legs = DOMAIN sh.legs \cup {key} /\ key \in Participants \X {"pub", "sub"}
  BY <1>1 DEF With
<1>3. DOMAIN legs \subseteq Participants \X {"pub", "sub"}
  BY <1>2 DEF IsShard
<1>4. OnOfferSub(sh, m) = new \/ OnOfferSub(sh, m) = sh
  BY DEF OnOfferSub
<1> HIDE DEF legs
<1>5. IsShard(new) /\ new.legs = legs /\ new.rooms = sh.rooms
  BY <1>3, LegsChange
<1> HIDE DEF new
<1>6. Handles(sh, m, s, new)
  <2>1. \A k \in DOMAIN new.legs : k \in DOMAIN sh.legs \/ k[1] = m.name
    BY <1>2, <1>5
  <2>2. ShardLocalsOK(sh) => ShardLocalsOK(new)
    BY <1>5 DEF ShardLocalsOK
  <2> QED
    BY <1>5, <2>1, <2>2, LegsOnly
<1>7. Handles(sh, m, s, sh)
  BY LegsOnly
<1> QED
  BY <1>4, <1>6, <1>7

LEMMA SubAnswerHandled ==
  ASSUME NEW sh, IsShard(sh), NEW m, IsControl(m), m.t = "SubscriberAnswer", NEW s
  PROVE  Handles(sh, m, s, OnSubAnswer(sh, m))
<1> DEFINE key == <<m.name, "sub">>
           legs == [sh.legs EXCEPT ![key] = "ready"]
           new == [sh EXCEPT !.legs = legs]
<1>1. DOMAIN legs = DOMAIN sh.legs /\ DOMAIN legs \subseteq Participants \X {"pub", "sub"}
  BY DEF IsShard
<1>2. OnSubAnswer(sh, m) = new \/ OnSubAnswer(sh, m) = sh
  BY DEF OnSubAnswer, IsShard
<1> HIDE DEF legs
<1>3. IsShard(new) /\ new.legs = legs /\ new.rooms = sh.rooms
  BY <1>1, LegsChange
<1> HIDE DEF new
<1>4. Handles(sh, m, s, new)
  <2>1. ShardLocalsOK(sh) => ShardLocalsOK(new)
    BY <1>3 DEF ShardLocalsOK
  <2> QED
    BY <1>1, <1>3, <2>1, LegsOnly
<1>5. Handles(sh, m, s, sh)
  BY LegsOnly
<1> QED
  BY <1>2, <1>4, <1>5

LEMMA MessagesHandled ==
  ASSUME NEW s \in Shards, IsShard(shard[s]), NEW m, IsControl(m), NEW new \in Handled(s, m)
  PROVE  Handles(shard[s], m, s, new)
<1> DEFINE sh == shard[s]
<1>1. CASE m.t = "RoomUp"
  BY <1>1, RoomUpHandled DEF Handled
<1>2. CASE m.t = "MemberUp"
  BY <1>2, MemberUpHandled DEF Handled
<1>3. CASE m.t = "MemberGone"
  BY <1>3, MemberGoneHandled DEF Handled
<1>4. CASE m.t = "WantsAll"
  BY <1>4, WantsAllHandled DEF Handled
<1>5. CASE m.t = "PublisherOffer"
  BY <1>5, PubOfferHandled DEF Handled
<1>6. CASE m.t = "OfferSub"
  BY <1>6, OfferSubHandled DEF Handled
<1>7. CASE m.t = "SubscriberAnswer"
  BY <1>7, SubAnswerHandled DEF Handled
<1>8. CASE m.t = "ActiveSpeakers"
  BY <1>8, LegsOnly DEF Handled
<1> QED
  BY <1>1, <1>2, <1>3, <1>4, <1>5, <1>6, <1>7, <1>8 DEF IsControl, ControlTypes

LEMMA HandlesKnown ==
  ASSUME NEW sh, NEW m, NEW s, NEW new, Handles(sh, m, s, new), NEW id \in Nat
  PROVE  /\ id \in DOMAIN sh.rooms => id \in DOMAIN new.rooms
         /\ m.t = "RoomUp" /\ m.room = id => id \in DOMAIN new.rooms
         /\ \A p : id \in DOMAIN sh.rooms /\ p \in DOMAIN sh.rooms[id].pids
                     /\ ~(m.t = "MemberGone" /\ m.name = p) => p \in DOMAIN new.rooms[id].pids
         /\ m.t = "MemberUp" /\ m.room = id /\ id \in DOMAIN sh.rooms =>
              m.name \in DOMAIN new.rooms[id].pids
<1> DEFINE c == RoomOf(sh, id)
           d == RoomOf(new, id)
<1>1. d = Learn(c, m, s, id)
  BY DEF Handles
<1>2. /\ c.there <=> id \in DOMAIN sh.rooms
      /\ id \in DOMAIN sh.rooms => c.pids = sh.rooms[id].pids
      /\ d.there <=> id \in DOMAIN new.rooms
      /\ id \in DOMAIN new.rooms => d.pids = new.rooms[id].pids
  BY DEF RoomOf, NoRoomYet
<1> HIDE DEF c, d
<1>3. c.there \/ (m.t = "RoomUp" /\ m.room = id) => d.there
  BY <1>1 DEF Learn
<1>4. ASSUME c.there, NEW p, p \in DOMAIN c.pids, ~(m.t = "MemberGone" /\ m.name = p)
      PROVE  p \in DOMAIN d.pids
  <2>1. d.pids = c.pids \/ d.pids = With(c.pids, m.name, m.pid)
        \/ (m.t = "MemberGone" /\ d.pids = Without(c.pids, {m.name}))
    BY <1>1 DEF Learn
  <2> QED
    BY <1>4, <2>1 DEF With, Without, Restrict
<1>5. c.there /\ m.t = "MemberUp" /\ m.room = id => m.name \in DOMAIN d.pids
  BY <1>1 DEF Learn, With
<1> QED
  BY <1>2, <1>3, <1>4, <1>5

-----------------------------------------------------------------------------
(* A shard takes a message *)

\* q2 is q without its first message.
Rest(q, q2) ==
  /\ IsQueue(q2) /\ Len(q) \in Nat \ {0} /\ Len(q2) = Len(q) - 1
  /\ DOMAIN q = 1 .. Len(q) /\ DOMAIN q2 = 1 .. (Len(q) - 1)
  /\ \A i \in 1 .. (Len(q) - 1) : q2[i] = q[i + 1]

\* What the step is.
Taking(s) ==
  /\ s \in Shards /\ inbox[s] # <<>>
  /\ Handles(shard[s], inbox[s][1], s, shard'[s])
  /\ Rest(inbox[s], inbox'[s])
  /\ \A x \in Shards : x # s => inbox'[x] = inbox[x] /\ shard'[x] = shard[x]
  /\ DOMAIN inbox' = Shards /\ DOMAIN shard' = Shards
  /\ UNCHANGED <<ctl, tableVars, dirty, offers, phase, room>>

LEMMA TakingIs == ASSUME PlaneTypeOK, NEW s \in Shards, OnShardControl(s) PROVE Taking(s)
<1>1. IsQueue(inbox[s]) /\ inbox[s] # <<>> /\ DOMAIN inbox = Shards /\ DOMAIN shard = Shards
  BY DEF PlaneTypeOK, OnShardControl
<1>2. /\ inbox' = [inbox EXCEPT ![s] = Tail(inbox[s])]
      /\ UNCHANGED <<ctl, tableVars, dirty, offers, phase, room>>
  BY DEF OnShardControl
<1>3. PICK sh \in Handled(s, Head(inbox[s])) : shard' = [shard EXCEPT ![s] = sh]
  BY DEF OnShardControl
<1>4. Head(inbox[s]) = inbox[s][1] /\ IsControl(inbox[s][1]) /\ IsShard(shard[s])
  BY <1>1, QueueTail DEF PlaneTypeOK
<1>5. Handles(shard[s], inbox[s][1], s, sh)
  BY <1>3, <1>4, MessagesHandled
<1>6. shard'[s] = sh /\ inbox'[s] = Tail(inbox[s])
  BY <1>1, <1>2, <1>3
<1>7. Rest(inbox[s], inbox'[s])
  BY <1>1, <1>6, QueueTail DEF Rest
<1> QED
  BY <1>1, <1>2, <1>3, <1>5, <1>6, <1>7 DEF Taking

LEMMA RestOf ==
  ASSUME NEW q, NEW q2, Rest(q, q2)
  PROVE  /\ \A i \in DOMAIN q2 : i + 1 \in DOMAIN q /\ q2[i] = q[i + 1] /\ i < i + 1 /\ i + 1 # 1
         /\ \A j \in DOMAIN q : j # 1 => j - 1 \in DOMAIN q2 /\ q2[j - 1] = q[j] /\ j \in Nat
         /\ 1 \in DOMAIN q
BY DEF Rest

LEMMA UpAfter ==
  ASSUME NEW sh, NEW q, NEW s, NEW new, NEW q2, Handles(sh, q[1], s, new), Rest(q, q2),
         NEW id \in Nat, NEW i \in Nat, Up(sh, q, id, i + 1)
  PROVE  Up(new, q2, id, i)
<1>1. CASE id \in DOMAIN sh.rooms
  BY <1>1, HandlesKnown DEF Up
<1>2. ASSUME NEW j \in DOMAIN q, j < i + 1, q[j].t = "RoomUp", q[j].room = id
      PROVE  Up(new, q2, id, i)
  <2>1. CASE j = 1
    BY <1>2, <2>1, HandlesKnown DEF Up
  <2>2. CASE j # 1
    <3>1. j - 1 \in DOMAIN q2 /\ q2[j - 1] = q[j] /\ j \in Nat
      BY <2>2, RestOf
    <3>2. j - 1 < i
      BY <1>2, <3>1
    <3> QED
      BY <1>2, <3>1, <3>2 DEF Up
  <2> QED
    BY <2>1, <2>2
<1> QED
  BY <1>1, <1>2 DEF Up

LEMMA KnownAfter ==
  ASSUME NEW sh, NEW q, NEW s, NEW new, NEW q2, Handles(sh, q[1], s, new), Rest(q, q2),
         InOrder(sh, q), NEW id \in Nat, NEW i \in Nat, NEW p,
         ~(q[1].t = "MemberGone" /\ q[1].name = p), Known(sh, q, p, id, i + 1)
  PROVE  Known(new, q2, p, id, i)
<1>0. 1 \in DOMAIN q
  BY RestOf
<1>1. CASE id \in DOMAIN sh.rooms /\ p \in DOMAIN sh.rooms[id].pids
  BY <1>1, HandlesKnown DEF Known
<1>2. ASSUME NEW j \in DOMAIN q, j < i + 1, q[j].t = "MemberUp", q[j].name = p, q[j].room = id
      PROVE  Known(new, q2, p, id, i)
  <2>1. CASE j = 1
    <3>1. id \in DOMAIN sh.rooms
      <4>1. Up(sh, q, id, 1)
        BY <1>0, <1>2, <2>1 DEF InOrder
      <4>2. \A k \in DOMAIN q : ~(k < 1)
        BY DEF Rest
      <4> QED
        BY <4>1, <4>2 DEF Up
    <3>2. p \in DOMAIN new.rooms[id].pids /\ id \in DOMAIN new.rooms
      BY <1>2, <2>1, <3>1, HandlesKnown
    <3> QED
      BY <3>2 DEF Known
  <2>2. CASE j # 1
    <3>1. j - 1 \in DOMAIN q2 /\ q2[j - 1] = q[j] /\ j \in Nat
      BY <2>2, RestOf
    <3>2. j - 1 < i
      BY <1>2, <3>1
    <3> QED
      BY <1>2, <3>1, <3>2 DEF Known
  <2> QED
    BY <2>1, <2>2
<1> QED
  BY <1>1, <1>2 DEF Known

LEMMA GoneLater ==
  ASSUME NEW q, NEW q2, Rest(q, q2), NEW p
  PROVE  /\ GoneIn(q2, p) => GoneIn(q, p)
         /\ GoneIn(q, p) => GoneIn(q2, p) \/ (q[1].t = "MemberGone" /\ q[1].name = p)
         /\ \A i \in Nat : GoneBefore(q2, p, i) => GoneBefore(q, p, i + 1)
<1>1. ASSUME NEW j \in DOMAIN q2, q2[j].t = "MemberGone", q2[j].name = p
      PROVE  /\ GoneIn(q, p)
             /\ \A i \in Nat : j < i => GoneBefore(q, p, i + 1)
  <2>1. j + 1 \in DOMAIN q /\ q2[j] = q[j + 1] /\ j \in Nat
    BY RestOf DEF Rest
  <2>2. GoneIn(q, p)
    BY <1>1, <2>1 DEF GoneIn
  <2>3. ASSUME NEW i \in Nat, j < i PROVE GoneBefore(q, p, i + 1)
    <3>1. j + 1 < i + 1
      BY <2>1, <2>3
    <3> QED
      BY <1>1, <2>1, <3>1 DEF GoneBefore
  <2> QED
    BY <2>2, <2>3
<1>2. ASSUME NEW j \in DOMAIN q, q[j].t = "MemberGone", q[j].name = p
      PROVE  GoneIn(q2, p) \/ (q[1].t = "MemberGone" /\ q[1].name = p)
  <2>1. j = 1 \/ (j - 1 \in DOMAIN q2 /\ q2[j - 1] = q[j])
    BY RestOf
  <2> QED
    BY <1>2, <2>1 DEF GoneIn
<1> QED
  BY <1>1, <1>2 DEF GoneIn, GoneBefore

LEMMA StaysInOrder ==
  ASSUME NEW sh, NEW q, NEW s, NEW new, NEW q2, Handles(sh, q[1], s, new), Rest(q, q2),
         InOrder(sh, q), \A i \in DOMAIN q : q[i].room \in Nat
  PROVE  InOrder(new, q2)
<1> SUFFICES ASSUME NEW i \in DOMAIN q2
             PROVE  /\ q2[i].t # "RoomUp" => Up(new, q2, q2[i].room, i)
                    /\ q2[i].t = "ActiveSpeakers" =>
                         \A p \in Range(q2[i].top) :
                           Known(new, q2, p, q2[i].room, i) /\ ~GoneBefore(q2, p, i)
  BY DEF InOrder
<1>1. i + 1 \in DOMAIN q /\ q2[i] = q[i + 1] /\ i \in Nat /\ 1 \in DOMAIN q /\ 1 < i + 1
  BY RestOf DEF Rest
<1>2. q2[i].room \in Nat
  BY <1>1
<1>3. ASSUME q2[i].t # "RoomUp" PROVE Up(new, q2, q2[i].room, i)
  <2>1. Up(sh, q, q2[i].room, i + 1)
    BY <1>1, <1>3 DEF InOrder
  <2> QED
    BY <1>1, <1>2, <2>1, UpAfter
<1>4. ASSUME q2[i].t = "ActiveSpeakers", NEW p \in Range(q2[i].top)
      PROVE  Known(new, q2, p, q2[i].room, i) /\ ~GoneBefore(q2, p, i)
  <2>1. Known(sh, q, p, q2[i].room, i + 1) /\ ~GoneBefore(q, p, i + 1)
    BY <1>1, <1>4 DEF InOrder
  <2>2. ~(q[1].t = "MemberGone" /\ q[1].name = p)
    BY <1>1, <2>1 DEF GoneBefore
  <2>3. Known(new, q2, p, q2[i].room, i)
    BY <1>1, <1>2, <2>1, <2>2, KnownAfter
  <2> QED
    BY <1>1, <2>1, <2>3, GoneLater
<1> QED
  BY <1>3, <1>4

LEMMA TakingSpeakers ==
  ASSUME SpeakersInv, NEW s \in Shards, Taking(s)
  PROVE  SpeakersInv'
<1>0. PlaneTypeOK /\ TablesInv /\ NewcomersAreNew /\ RoomsComeUp /\ SeatedAreKnown /\ QueuesInOrder
  BY DEF SpeakersInv
<1>1. \A x \in Shards : IsShard(shard'[x]) /\ IsQueue(inbox'[x])
  <2>1. IsShard(shard'[s]) /\ IsQueue(inbox'[s])
    BY DEF Taking, Handles, Rest
  <2> QED
    BY <1>0, <2>1 DEF Taking, PlaneTypeOK
<1>2. Rest(inbox[s], inbox'[s])
  BY DEF Taking
<1>3. \A i \in DOMAIN inbox[s] : IsControl(inbox[s][i]) /\ inbox[s][i].room \in Nat
  BY <1>0 DEF PlaneTypeOK, IsControl
<1>4. \A x \in Shards : \A i \in DOMAIN inbox'[x] : IsControl(inbox'[x][i])
  <2>1. \A i \in DOMAIN inbox'[s] : IsControl(inbox'[s][i])
    BY <1>2, <1>3, RestOf
  <2> QED
    BY <1>0, <2>1 DEF Taking, PlaneTypeOK
<1>5. PlaneTypeOK'
  BY <1>0, <1>1, <1>4 DEF Taking, PlaneTypeOK, tableVars
<1>6. TablesInv'
  BY <1>0 DEF Taking, TablesInv, tableVars
<1>7. \A x \in Shards : \A p : GoneIn(inbox'[x], p) => GoneIn(inbox[x], p)
  BY <1>2, GoneLater DEF Taking
<1>8. NewcomersAreNew'
  <2>1. \A p \in Participants : Newcomer(p)' <=> Newcomer(p)
    BY DEF Newcomer, Taking
  <2> QED
    BY <1>0, <1>7, <2>1 DEF NewcomersAreNew, Taking, tableVars
<1>9. Handles(shard[s], inbox[s][1], s, shard'[s]) /\ InOrder(shard[s], inbox[s])
  BY <1>0 DEF Taking, QueuesInOrder
<1>10. QueuesInOrder'
  <2>1. InOrder(shard'[s], inbox'[s])
    BY <1>2, <1>3, <1>9, StaysInOrder
  <2> QED
    BY <1>0, <2>1 DEF QueuesInOrder, Taking
<1>11. Len(inbox[s]) = Len(inbox'[s]) + 1 /\ Len(inbox'[s]) + 1 \in Nat
  BY <1>2 DEF Rest
<1>12. RoomsComeUp'
  <2>1. LiveRooms' = LiveRooms /\ LiveRooms \subseteq Nat
    BY <1>0 DEF Taking, tableVars, LiveRooms, PlaneTypeOK
  <2>2. ASSUME NEW id \in LiveRooms PROVE Up(shard'[s], inbox'[s], id, Len(inbox'[s]) + 1)
    <3>1. Up(shard[s], inbox[s], id, (Len(inbox'[s]) + 1) + 1) /\ id \in Nat
      BY <1>0, <1>11, <2>1 DEF RoomsComeUp
    <3> QED
      BY <1>2, <1>9, <1>11, <3>1, UpAfter
  <2> QED
    BY <1>0, <2>1, <2>2 DEF RoomsComeUp, Taking
<1>13. SeatedAreKnown'
  <2>1. ASSUME NEW p \in DOMAIN seats
        PROVE  Known(shard'[s], inbox'[s], p, roomId[seats[p].room], Len(inbox'[s]) + 1)
    <3>1. /\ Known(shard[s], inbox[s], p, roomId[seats[p].room], (Len(inbox'[s]) + 1) + 1)
          /\ ~GoneIn(inbox[s], p)
      BY <1>0, <1>11 DEF SeatedAreKnown
    <3>2. roomId[seats[p].room] \in Nat
      BY <1>0 DEF PlaneTypeOK, IsSeat, TablesInv
    <3>3. ~(inbox[s][1].t = "MemberGone" /\ inbox[s][1].name = p)
      BY <1>2, <3>1, RestOf DEF GoneIn
    <3> QED
      BY <1>2, <1>9, <1>11, <3>1, <3>2, <3>3, KnownAfter
  <2> QED
    BY <1>0, <1>7, <2>1 DEF SeatedAreKnown, Taking, tableVars
<1> QED
  BY <1>5, <1>6, <1>8, <1>10, <1>12, <1>13 DEF SpeakersInv

-----------------------------------------------------------------------------
(* Messages are put in the queues *)

\* Q is q with k behind it.
Joint(q, k, Q) ==
  /\ IsQueue(Q) /\ Len(q) \in Nat /\ Len(k) \in Nat /\ Len(Q) = Len(q) + Len(k)
  /\ DOMAIN q = 1 .. Len(q) /\ DOMAIN k = 1 .. Len(k) /\ DOMAIN Q = 1 .. (Len(q) + Len(k))
  /\ \A i \in 1 .. Len(q) : Q[i] = q[i]
  /\ \A i \in 1 .. Len(k) : Q[Len(q) + i] = k[i]

LEMMA JointIs == ASSUME NEW q, NEW k, IsQueue(q), IsQueue(k) PROVE Joint(q, k, q \o k)
BY JoinedQueues DEF Joint

LEMMA JointParts ==
  ASSUME NEW q, NEW k, NEW Q, Joint(q, k, Q)
  PROVE  /\ \A i \in DOMAIN q : i \in DOMAIN Q /\ Q[i] = q[i] /\ i \in Nat /\ i < Len(q) + 1
                                /\ i < Len(Q) + 1
         /\ \A i \in DOMAIN k : /\ Len(q) + i \in DOMAIN Q /\ Q[Len(q) + i] = k[i]
                                /\ Len(q) + i < Len(Q) + 1 /\ Len(q) + i \in Nat
                                /\ Len(q) < Len(q) + i
         /\ \A i \in DOMAIN Q : i \in DOMAIN q \/ \E j \in DOMAIN k : i = Len(q) + j
         /\ DOMAIN Q \subseteq Nat
<1>1. ASSUME NEW i \in DOMAIN Q, i \notin DOMAIN q PROVE \E j \in DOMAIN k : i = Len(q) + j
  <2>1. i - Len(q) \in DOMAIN k /\ i = Len(q) + (i - Len(q))
    BY <1>1 DEF Joint
  <2> QED
    BY <2>1
<1> QED
  BY <1>1 DEF Joint

LEMMA GrownKnows ==
  ASSUME NEW sh, NEW q, NEW k, NEW Q, Joint(q, k, Q), NEW id
  PROVE  /\ \A i \in 1 .. (Len(q) + 1) : \A n \in Nat : i <= n /\ Up(sh, q, id, i) => Up(sh, Q, id, n)
         /\ \A j \in DOMAIN k : \A n \in Nat :
              k[j].t = "RoomUp" /\ k[j].room = id /\ Len(q) + j < n => Up(sh, Q, id, n)
         /\ \A p : \A i \in 1 .. (Len(q) + 1) : \A n \in Nat :
              i <= n /\ Known(sh, q, p, id, i) => Known(sh, Q, p, id, n)
         /\ \A j \in DOMAIN k : \A n \in Nat :
              k[j].t = "MemberUp" /\ k[j].room = id /\ Len(q) + j < n => Known(sh, Q, k[j].name, id, n)
         /\ \A p : /\ GoneIn(Q, p) <=> GoneIn(q, p) \/ GoneIn(k, p)
                   /\ \A i \in DOMAIN q : GoneBefore(Q, p, i) => GoneBefore(q, p, i)
         /\ \A n \in Nat : Len(q) < n =>
              /\ Up(sh, q, id, Len(q) + 1) => Up(sh, Q, id, n)
              /\ \A p : Known(sh, q, p, id, Len(q) + 1) => Known(sh, Q, p, id, n)
<1>1. \A j \in DOMAIN q : \A i \in 1 .. (Len(q) + 1) : \A n \in Nat :
        i <= n /\ j < i => j \in DOMAIN Q /\ Q[j] = q[j] /\ j < n
  BY JointParts DEF Joint
<1>2. \A j \in DOMAIN k : Len(q) + j \in DOMAIN Q /\ Q[Len(q) + j] = k[j]
  BY JointParts
<1>3. ASSUME NEW p PROVE GoneIn(Q, p) <=> GoneIn(q, p) \/ GoneIn(k, p)
  <2>1. ASSUME GoneIn(Q, p) PROVE GoneIn(q, p) \/ GoneIn(k, p)
    <3>1. PICK i \in DOMAIN Q : Q[i].t = "MemberGone" /\ Q[i].name = p
      BY <2>1 DEF GoneIn
    <3>2. i \in DOMAIN q \/ \E j \in DOMAIN k : i = Len(q) + j
      BY JointParts
    <3> QED
      BY <1>2, <3>1, <3>2, JointParts DEF GoneIn
  <2> QED
    BY <1>2, <2>1, JointParts DEF GoneIn
<1>4. ASSUME NEW p, NEW i \in DOMAIN q, GoneBefore(Q, p, i) PROVE GoneBefore(q, p, i)
  <2>1. PICK j \in DOMAIN Q : j < i /\ Q[j].t = "MemberGone" /\ Q[j].name = p
    BY <1>4 DEF GoneBefore
  <2>2. j \in DOMAIN q /\ Q[j] = q[j]
    BY <2>1 DEF Joint
  <2> QED
    BY <2>1, <2>2 DEF GoneBefore
<1>5. ASSUME NEW i \in 1 .. (Len(q) + 1), NEW n \in Nat, i <= n
      PROVE  /\ Up(sh, q, id, i) => Up(sh, Q, id, n)
             /\ \A p : Known(sh, q, p, id, i) => Known(sh, Q, p, id, n)
  BY <1>1, <1>5 DEF Up, Known
<1>6. ASSUME NEW j \in DOMAIN k, NEW n \in Nat, k[j].room = id, Len(q) + j < n
      PROVE  /\ k[j].t = "RoomUp" => Up(sh, Q, id, n)
             /\ k[j].t = "MemberUp" => Known(sh, Q, k[j].name, id, n)
  BY <1>2, <1>6 DEF Up, Known
<1>7. ASSUME NEW n \in Nat, Len(q) < n
      PROVE  /\ Up(sh, q, id, Len(q) + 1) => Up(sh, Q, id, n)
             /\ \A p : Known(sh, q, p, id, Len(q) + 1) => Known(sh, Q, p, id, n)
  <2>1. Len(q) + 1 \in 1 .. (Len(q) + 1) /\ Len(q) + 1 <= n
    BY <1>7 DEF Joint
  <2> QED
    BY <1>5, <2>1
<1> QED
  BY <1>3, <1>4, <1>5, <1>6, <1>7

\* Whether k may follow.
Fitting(sh, q, k) ==
  \A i \in DOMAIN k :
    /\ IsControl(k[i])
    /\ k[i].t # "RoomUp" =>
         \/ Up(sh, q, k[i].room, Len(q) + 1)
         \/ \E j \in DOMAIN k : j < i /\ k[j].t = "RoomUp" /\ k[j].room = k[i].room
    /\ k[i].t = "ActiveSpeakers" =>
         \A p \in Range(k[i].top) : /\ Known(sh, q, p, k[i].room, Len(q) + 1)
                                    /\ ~GoneIn(q, p) /\ ~GoneIn(k, p)

LEMMA GrowsInOrder ==
  ASSUME NEW sh, NEW q, NEW k, NEW Q, Joint(q, k, Q), InOrder(sh, q), Fitting(sh, q, k)
  PROVE  InOrder(sh, Q)
<1> SUFFICES ASSUME NEW i \in DOMAIN Q
             PROVE  /\ Q[i].t # "RoomUp" => Up(sh, Q, Q[i].room, i)
                    /\ Q[i].t = "ActiveSpeakers" =>
                         \A p \in Range(Q[i].top) :
                           Known(sh, Q, p, Q[i].room, i) /\ ~GoneBefore(Q, p, i)
  BY DEF InOrder
<1>0. ASSUME NEW id, NEW n \in Nat
      PROVE  /\ Up(sh, q, id, Len(q) + 1) /\ Len(q) < n => Up(sh, Q, id, n)
             /\ \A j \in DOMAIN k :
                  k[j].t = "RoomUp" /\ k[j].room = id /\ Len(q) + j < n => Up(sh, Q, id, n)
             /\ \A p : Known(sh, q, p, id, Len(q) + 1) /\ Len(q) < n => Known(sh, Q, p, id, n)
  BY GrownKnows
<1>1. CASE i \in DOMAIN q
  <2>1. Q[i] = q[i] /\ i \in 1 .. (Len(q) + 1) /\ i \in Nat /\ i <= i
    BY <1>1, JointParts DEF Joint
  <2>2. Q[i].t # "RoomUp" => Up(sh, Q, Q[i].room, i)
    BY <1>1, <2>1, GrownKnows DEF InOrder
  <2>3. ASSUME Q[i].t = "ActiveSpeakers", NEW p \in Range(Q[i].top)
        PROVE  Known(sh, Q, p, Q[i].room, i) /\ ~GoneBefore(Q, p, i)
    <3>1. Known(sh, q, p, Q[i].room, i) /\ ~GoneBefore(q, p, i)
      BY <1>1, <2>1, <2>3 DEF InOrder
    <3> QED
      BY <1>1, <2>1, <3>1, GrownKnows
  <2> QED
    BY <2>2, <2>3
<1>2. ASSUME NEW j \in DOMAIN k, i = Len(q) + j
      PROVE  /\ Q[i].t # "RoomUp" => Up(sh, Q, Q[i].room, i)
             /\ Q[i].t = "ActiveSpeakers" =>
                  \A p \in Range(Q[i].top) :
                    Known(sh, Q, p, Q[i].room, i) /\ ~GoneBefore(Q, p, i)
  <2>1. Q[i] = k[j] /\ i \in Nat /\ Len(q) < i
    BY <1>2, JointParts
  <2>2. ASSUME Q[i].t # "RoomUp" PROVE Up(sh, Q, Q[i].room, i)
    <3>1. CASE Up(sh, q, k[j].room, Len(q) + 1)
      BY <1>0, <2>1, <3>1
    <3>2. ASSUME NEW n \in DOMAIN k, n < j, k[n].t = "RoomUp", k[n].room = k[j].room
          PROVE  Up(sh, Q, Q[i].room, i)
      <4>1. Len(q) + n < i
        BY <1>2, <3>2 DEF Joint
      <4> QED
        BY <1>0, <2>1, <3>2, <4>1
    <3> QED
      BY <2>1, <2>2, <3>1, <3>2 DEF Fitting
  <2>3. ASSUME Q[i].t = "ActiveSpeakers", NEW p \in Range(Q[i].top)
        PROVE  Known(sh, Q, p, Q[i].room, i) /\ ~GoneBefore(Q, p, i)
    <3>1. Known(sh, q, p, k[j].room, Len(q) + 1) /\ ~GoneIn(q, p) /\ ~GoneIn(k, p)
      BY <2>1, <2>3 DEF Fitting
    <3>2. Known(sh, Q, p, Q[i].room, i)
      BY <1>0, <2>1, <3>1
    <3>3. ~GoneIn(Q, p)
      BY <3>1, GrownKnows
    <3> QED
      BY <3>2, <3>3 DEF GoneBefore, GoneIn
  <2> QED
    BY <2>2, <2>3
<1> QED
  BY <1>1, <1>2, JointParts

\* Every queue gets what k has for it.
GrowingBy(k) ==
  /\ DOMAIN inbox' = Shards /\ shard' = shard
  /\ \A s \in Shards : /\ Joint(inbox[s], k[s], inbox'[s])
                       /\ Fitting(shard[s], inbox[s], k[s])

LEMMA GrowingQueues ==
  ASSUME SpeakersInv, NEW k, GrowingBy(k)
  PROVE  /\ DOMAIN inbox' = Shards /\ shard' = shard
         /\ \A s \in Shards : /\ IsQueue(inbox'[s])
                              /\ \A i \in DOMAIN inbox'[s] : IsControl(inbox'[s][i])
         /\ QueuesInOrder'
         /\ \A s \in Shards : \A id :
              /\ Up(shard[s], inbox[s], id, Len(inbox[s]) + 1) =>
                   Up(shard'[s], inbox'[s], id, Len(inbox'[s]) + 1)
              /\ \A j \in DOMAIN k[s] : k[s][j].t = "RoomUp" /\ k[s][j].room = id =>
                   Up(shard'[s], inbox'[s], id, Len(inbox'[s]) + 1)
              /\ \A p : Known(shard[s], inbox[s], p, id, Len(inbox[s]) + 1) =>
                   Known(shard'[s], inbox'[s], p, id, Len(inbox'[s]) + 1)
              /\ \A j \in DOMAIN k[s] : k[s][j].t = "MemberUp" /\ k[s][j].room = id =>
                   Known(shard'[s], inbox'[s], k[s][j].name, id, Len(inbox'[s]) + 1)
         /\ \A s \in Shards : \A p : GoneIn(inbox'[s], p) <=> GoneIn(inbox[s], p) \/ GoneIn(k[s], p)
<1>1. DOMAIN inbox' = Shards /\ shard' = shard
  BY DEF GrowingBy
<1> SUFFICES ASSUME NEW s \in Shards
             PROVE  /\ IsQueue(inbox'[s]) /\ \A i \in DOMAIN inbox'[s] : IsControl(inbox'[s][i])
                    /\ InOrder(shard'[s], inbox'[s])
                    /\ \A id :
                       /\ Up(shard[s], inbox[s], id, Len(inbox[s]) + 1) =>
                            Up(shard'[s], inbox'[s], id, Len(inbox'[s]) + 1)
                       /\ \A j \in DOMAIN k[s] : k[s][j].t = "RoomUp" /\ k[s][j].room = id =>
                            Up(shard'[s], inbox'[s], id, Len(inbox'[s]) + 1)
                       /\ \A p : Known(shard[s], inbox[s], p, id, Len(inbox[s]) + 1) =>
                            Known(shard'[s], inbox'[s], p, id, Len(inbox'[s]) + 1)
                       /\ \A j \in DOMAIN k[s] : k[s][j].t = "MemberUp" /\ k[s][j].room = id =>
                            Known(shard'[s], inbox'[s], k[s][j].name, id, Len(inbox'[s]) + 1)
                    /\ \A p : GoneIn(inbox'[s], p) <=> GoneIn(inbox[s], p) \/ GoneIn(k[s], p)
  BY <1>1 DEF QueuesInOrder
<1> DEFINE q == inbox[s]
           Q == inbox'[s]
           sh == shard[s]
           msgs == k[s]
<1>2. Joint(q, msgs, Q) /\ Fitting(sh, q, msgs) /\ InOrder(sh, q) /\ shard'[s] = sh
      /\ \A i \in DOMAIN q : IsControl(q[i])
  BY DEF GrowingBy, SpeakersInv, QueuesInOrder, PlaneTypeOK
<1>3. /\ IsQueue(Q) /\ \A i \in DOMAIN Q : IsControl(Q[i])
      /\ InOrder(sh, Q)
      /\ \A id : /\ Up(sh, q, id, Len(q) + 1) => Up(sh, Q, id, Len(Q) + 1)
                 /\ \A j \in DOMAIN msgs : msgs[j].t = "RoomUp" /\ msgs[j].room = id =>
                      Up(sh, Q, id, Len(Q) + 1)
                 /\ \A p : Known(sh, q, p, id, Len(q) + 1) => Known(sh, Q, p, id, Len(Q) + 1)
                 /\ \A j \in DOMAIN msgs : msgs[j].t = "MemberUp" /\ msgs[j].room = id =>
                      Known(sh, Q, msgs[j].name, id, Len(Q) + 1)
      /\ \A p : GoneIn(Q, p) <=> GoneIn(q, p) \/ GoneIn(msgs, p)
  <2> HIDE DEF q, Q, sh, msgs
  <2>1. Len(Q) + 1 \in Nat /\ Len(q) < Len(Q) + 1 /\ IsQueue(Q)
        /\ \A j \in DOMAIN msgs : Len(q) + j < Len(Q) + 1
    BY <1>2 DEF Joint
  <2>2. \A i \in DOMAIN msgs : IsControl(msgs[i])
    BY <1>2 DEF Fitting
  <2>3. \A i \in DOMAIN Q : IsControl(Q[i])
    <3>1. \A i \in DOMAIN q : Q[i] = q[i]
      BY <1>2, JointParts
    <3>2. \A j \in DOMAIN msgs : Q[Len(q) + j] = msgs[j]
      BY <1>2, JointParts
    <3>3. \A i \in DOMAIN Q : i \in DOMAIN q \/ \E j \in DOMAIN msgs : i = Len(q) + j
      BY <1>2, JointParts
    <3> QED
      BY <1>2, <2>2, <3>1, <3>2, <3>3
  <2>4. InOrder(sh, Q)
    BY <1>2, GrowsInOrder
  <2>5. ASSUME NEW id
        PROVE  /\ Up(sh, q, id, Len(q) + 1) => Up(sh, Q, id, Len(Q) + 1)
               /\ \A j \in DOMAIN msgs : msgs[j].t = "RoomUp" /\ msgs[j].room = id =>
                    Up(sh, Q, id, Len(Q) + 1)
               /\ \A p : Known(sh, q, p, id, Len(q) + 1) => Known(sh, Q, p, id, Len(Q) + 1)
               /\ \A j \in DOMAIN msgs : msgs[j].t = "MemberUp" /\ msgs[j].room = id =>
                    Known(sh, Q, msgs[j].name, id, Len(Q) + 1)
    <3>1. PICK n \in Nat : n = Len(Q) + 1
      BY <2>1
    <3>2. Len(q) < n /\ \A j \in DOMAIN msgs : Len(q) + j < n
      BY <2>1, <3>1
    <3>3. Joint(q, msgs, Q)
      BY <1>2
    <3>4. /\ Up(sh, q, id, Len(q) + 1) => Up(sh, Q, id, n)
          /\ \A p : Known(sh, q, p, id, Len(q) + 1) => Known(sh, Q, p, id, n)
      BY ONLY <3>2, <3>3, n \in Nat, GrownKnows
    <3>5. /\ \A j \in DOMAIN msgs : msgs[j].t = "RoomUp" /\ msgs[j].room = id => Up(sh, Q, id, n)
          /\ \A j \in DOMAIN msgs : msgs[j].t = "MemberUp" /\ msgs[j].room = id =>
               Known(sh, Q, msgs[j].name, id, n)
      BY ONLY <3>2, <3>3, n \in Nat, GrownKnows
    <3> QED
      BY <3>1, <3>4, <3>5
  <2>6. \A p : GoneIn(Q, p) <=> GoneIn(q, p) \/ GoneIn(msgs, p)
    BY <1>2, GrownKnows
  <2> QED
    BY <2>1, <2>3, <2>4, <2>5, <2>6
<1> QED
  BY <1>2, <1>3

LEMMA AcceptedIs ==
  ASSUME NEW q, NEW k, IsQueue(q), IsQueue(k), Len(Accepted(q, k)) < ShardCap
  PROVE  Accepted(q, k) = q \o k
<1> DEFINE all == q \o k
<1>1. IsQueue(all)
  BY JoinedQueues
<1>2. Accepted(q, k) = IF Len(all) <= ShardCap THEN all ELSE SubSeq(all, 1, ShardCap)
  BY DEF Accepted
<1> HIDE DEF all
<1>3. ASSUME ~(Len(all) <= ShardCap) PROVE FALSE
  <2>1. all \in Seq(Range(all)) /\ Len(all) \in Nat /\ ShardCap \in Nat
    BY <1>1, ShardAssumption DEF IsQueue
  <2>2. Len(SubSeq(all, 1, ShardCap)) = ShardCap
    BY <1>3, <2>1
  <2> QED
    BY <1>2, <1>3, <2>1, <2>2
<1> QED
  BY <1>2, <1>3 DEF all

LEMMA BroadcastIs ==
  ASSUME PlaneTypeOK, QueuesHaveRoom', NEW k, IsQueue(k), Broadcast(k)
  PROVE  /\ DOMAIN inbox' = Shards
         /\ \A s \in Shards : inbox'[s] = inbox[s] \o k /\ Joint(inbox[s], k, inbox'[s])
<1>1. inbox' = [s \in Shards |-> Accepted(inbox[s], k)]
  BY DEF Broadcast
<1>2. ASSUME NEW s \in Shards PROVE inbox'[s] = inbox[s] \o k /\ Joint(inbox[s], k, inbox'[s])
  <2>1. IsQueue(inbox[s]) /\ Len(Accepted(inbox[s], k)) < ShardCap
    BY <1>1 DEF PlaneTypeOK, QueuesHaveRoom
  <2>2. inbox'[s] = inbox[s] \o k
    BY <1>1, <2>1, AcceptedIs
  <2> QED
    BY <2>1, <2>2, JointIs
<1> QED
  BY <1>1, <1>2

-----------------------------------------------------------------------------
(* Events of the control channel *)

LEMMA EventTaken ==
  ASSUME SpeakersInv, RouterTakes, phase' = phase
  PROVE  /\ IsQueue(ctl')
         /\ \A i \in DOMAIN ctl' : IsEvent(ctl'[i]) /\ ctl'[i].t # "Joined" /\ phase[ctl'[i].p] # "new"
         /\ Head(ctl) = ctl[1] /\ IsEvent(ctl[1]) /\ phase[ctl[1].p] # "new"
         /\ ctl[1].t = "Joined" => Newcomer(ctl[1].p)
         /\ \A p : Newcomer(p)' <=> phase[p] = "new"
         /\ \A p : phase[p] = "new" => Newcomer(p)
<1>1. IsQueue(ctl) /\ ctl # <<>> /\ ctl' = Tail(ctl) /\ NewcomersAreNew
      /\ \A i \in DOMAIN ctl : IsEvent(ctl[i])
  BY DEF SpeakersInv, RouterTakes, PlaneTypeOK
<1>2. Rest(ctl, ctl') /\ Head(ctl) = ctl[1]
  BY <1>1, QueueTail DEF Rest
<1>3. \A i \in DOMAIN ctl' : i + 1 \in DOMAIN ctl /\ ctl'[i] = ctl[i + 1] /\ i + 1 # 1
  BY <1>2, RestOf
<1>4. 1 \in DOMAIN ctl /\ IsQueue(ctl')
  BY <1>2, RestOf DEF Rest
<1>5. \A i \in DOMAIN ctl' : IsEvent(ctl'[i]) /\ ctl'[i].t # "Joined" /\ phase[ctl'[i].p] # "new"
  BY <1>1, <1>3 DEF NewcomersAreNew
<1>6. ctl[1].t = "Joined" => Newcomer(ctl[1].p)
  BY <1>4 DEF Newcomer
<1>7. \A p : phase[p] = "new" => Newcomer(p)
  BY DEF Newcomer
<1>8. \A p : Newcomer(p)' <=> phase[p] = "new"
  BY <1>5 DEF Newcomer
<1> QED
  BY <1>1, <1>2, <1>4, <1>5, <1>6, <1>7, <1>8 DEF NewcomersAreNew

JoinId(m) == IF roomId[m.r] = NoId THEN nextRoomId ELSE roomId[m.r]
JoinPid(m) == IF roomId[m.r] = NoId THEN 0 ELSE nextPid[m.r]
JoinSeats(m) ==
  [p \in DOMAIN seats \cup {m.p} |->
     IF p = m.p THEN [room |-> m.r, pid |-> JoinPid(m), published |-> <<>>, wants |-> Everything]
     ELSE seats[p]]
JoinNews(m) ==
  LET up     == [t |-> "RoomUp", room |-> JoinId(m), r |-> m.r]
      member == [t |-> "MemberUp", room |-> JoinId(m), name |-> m.p, pid |-> JoinPid(m)]
      wants  == WantsAll(JoinId(m), JoinSeats(m), m.r)
  IN  IF roomId[m.r] = NoId THEN <<up, member, wants>> ELSE <<member, wants>>

\* What Joined does.
Joining(m) ==
  /\ IsEvent(m) /\ m.p \notin DOMAIN seats /\ \A s \in Shards : ~GoneIn(inbox[s], m.p)
  /\ phase[m.p] # "new" /\ Newcomer(m.p)
  /\ roomId' = [roomId EXCEPT ![m.r] = JoinId(m)]
  /\ nextRoomId' = IF roomId[m.r] = NoId THEN nextRoomId + 1 ELSE nextRoomId
  /\ nextPid' = [nextPid EXCEPT ![m.r] = JoinPid(m) + 1]
  /\ seats' = JoinSeats(m)
  /\ IsQueue(JoinNews(m)) /\ DOMAIN inbox' = Shards
  /\ \A s \in Shards : inbox'[s] = inbox[s] \o JoinNews(m) /\ Joint(inbox[s], JoinNews(m), inbox'[s])

LEMMA JoinedIs ==
  ASSUME SpeakersInv, QueuesHaveRoom', RouterTakes, phase' = phase, ctl[1].t = "Joined"
  PROVE  Joining(ctl[1])
<1> DEFINE m == ctl[1]
<1>1. /\ Head(ctl) = m /\ IsEvent(m) /\ phase[m.p] # "new" /\ Newcomer(m.p)
      /\ PlaneTypeOK /\ NewcomersAreNew
  BY EventTaken DEF SpeakersInv
<1>2. OnJoined(m)
  BY <1>1 DEF RouterTakes, OnControl
<1> HIDE DEF m
<1>3. m.p \notin DOMAIN seats /\ \A s \in Shards : ~GoneIn(inbox[s], m.p)
  BY <1>1 DEF NewcomersAreNew, IsEvent
<1>4. /\ roomId' = [roomId EXCEPT ![m.r] = JoinId(m)]
      /\ nextRoomId' = IF roomId[m.r] = NoId THEN nextRoomId + 1 ELSE nextRoomId
      /\ nextPid' = [nextPid EXCEPT ![m.r] = JoinPid(m) + 1]
      /\ seats' = JoinSeats(m)
  BY <1>2 DEF OnJoined, JoinId, JoinPid, JoinSeats
<1>5. Broadcast(JoinNews(m)) /\ IsQueue(JoinNews(m))
  <2> DEFINE up == [t |-> "RoomUp", room |-> JoinId(m), r |-> m.r]
             member == [t |-> "MemberUp", room |-> JoinId(m), name |-> m.p, pid |-> JoinPid(m)]
             wants == WantsAll(JoinId(m), JoinSeats(m), m.r)
  <2>1. Broadcast((IF roomId[m.r] = NoId THEN <<up>> ELSE <<>>) \o <<member, wants>>)
    BY <1>2 DEF OnJoined, JoinId, JoinPid, JoinSeats
  <2>2. JoinNews(m) = IF roomId[m.r] = NoId THEN <<up, member, wants>> ELSE <<member, wants>>
    BY DEF JoinNews
  <2> HIDE DEF up, member, wants
  <2>3. <<up>> \o <<member, wants>> = <<up, member, wants>> /\ <<>> \o <<member, wants>> = <<member, wants>>
    BY ShortJoins
  <2>4. CASE roomId[m.r] = NoId
    <3>1. JoinNews(m) = <<up>> \o <<member, wants>>
      BY <2>2, <2>3, <2>4
    <3> QED
      BY <2>1, <2>2, <2>4, <3>1, ShortQueues
  <2>5. CASE roomId[m.r] # NoId
    <3>1. JoinNews(m) = <<>> \o <<member, wants>>
      BY <2>2, <2>3, <2>5
    <3> QED
      BY <2>1, <2>2, <2>5, <3>1, ShortQueues
  <2> QED
    BY <2>4, <2>5
<1>6. /\ DOMAIN inbox' = Shards
      /\ \A s \in Shards : inbox'[s] = inbox[s] \o JoinNews(m) /\ Joint(inbox[s], JoinNews(m), inbox'[s])
  BY <1>1, <1>5, BroadcastIs
<1> QED
  BY <1>1, <1>3, <1>4, <1>5, <1>6 DEF Joining, m

\* What JoinNews says.
LEMMA JoinNewsIs ==
  ASSUME NEW m
  PROVE  /\ DOMAIN JoinNews(m) = IF roomId[m.r] = NoId THEN 1 .. 3 ELSE 1 .. 2
         /\ \A i \in DOMAIN JoinNews(m) : LET n == IF roomId[m.r] = NoId THEN i - 1 ELSE i IN
              /\ n = 0 => JoinNews(m)[i] = [t |-> "RoomUp", room |-> JoinId(m), r |-> m.r]
              /\ n = 1 => JoinNews(m)[i] = [t |-> "MemberUp", room |-> JoinId(m), name |-> m.p,
                                            pid |-> JoinPid(m)]
              /\ n = 2 => JoinNews(m)[i] = WantsAll(JoinId(m), JoinSeats(m), m.r)
<1> DEFINE up == [t |-> "RoomUp", room |-> JoinId(m), r |-> m.r]
           member == [t |-> "MemberUp", room |-> JoinId(m), name |-> m.p, pid |-> JoinPid(m)]
           wants == WantsAll(JoinId(m), JoinSeats(m), m.r)
<1>1. JoinNews(m) = IF roomId[m.r] = NoId THEN <<up, member, wants>> ELSE <<member, wants>>
  BY DEF JoinNews
<1> HIDE DEF up, member, wants
<1>2. /\ DOMAIN JoinNews(m) = IF roomId[m.r] = NoId THEN 1 .. 3 ELSE 1 .. 2
      /\ \A i \in DOMAIN JoinNews(m) : LET n == IF roomId[m.r] = NoId THEN i - 1 ELSE i IN
           /\ n = 0 => JoinNews(m)[i] = up
           /\ n = 1 => JoinNews(m)[i] = member
           /\ n = 2 => JoinNews(m)[i] = wants
  <2>1. CASE roomId[m.r] = NoId
    BY <1>1, <2>1
  <2>2. CASE roomId[m.r] # NoId
    BY <1>1, <2>2
  <2> QED
    BY <2>1, <2>2
<1> QED
  BY <1>2 DEF up, member, wants

LEMMA JoinedRooms ==
  ASSUME SpeakersInv, NEW m, Joining(m)
  PROVE  /\ TablesInv'
         /\ JoinId(m) \in Nat /\ JoinPid(m) \in Nat
         /\ roomId' \in [RoomIds -> Nat \cup {NoId}] /\ nextRoomId' \in Nat
         /\ nextPid' \in [RoomIds -> Nat] /\ DOMAIN seats' = DOMAIN seats \cup {m.p}
         /\ DOMAIN seats' \subseteq Participants
         /\ \A p \in DOMAIN seats' : IsSeat(seats'[p])
         /\ \A p \in DOMAIN seats : /\ seats'[p] = seats[p]
                                    /\ roomId'[seats'[p].room] = roomId[seats[p].room]
         /\ roomId'[seats'[m.p].room] = JoinId(m) /\ seats'[m.p].pid = JoinPid(m)
         /\ seats'[m.p].wants = Everything
         /\ roomId[m.r] # NoId => JoinId(m) \in LiveRooms
         /\ \A id \in LiveRooms' : id \in LiveRooms \/ id = JoinId(m)
<1>1. PlaneTypeOK /\ TablesInv /\ m.r \in RoomIds /\ m.p \in Participants /\ NoId \notin Nat
  BY DEF SpeakersInv, Joining, IsEvent, NoId
<1>2. JoinId(m) \in Nat /\ JoinPid(m) \in Nat
  BY <1>1 DEF PlaneTypeOK, JoinId, JoinPid
<1>3. /\ roomId' \in [RoomIds -> Nat \cup {NoId}] /\ nextRoomId' \in Nat
      /\ nextPid' \in [RoomIds -> Nat]
  BY <1>1, <1>2 DEF PlaneTypeOK, Joining
<1>4. /\ DOMAIN seats' = DOMAIN seats \cup {m.p} /\ DOMAIN seats' \subseteq Participants
      /\ \A p \in DOMAIN seats : seats'[p] = seats[p]
      /\ seats'[m.p] = [room |-> m.r, pid |-> JoinPid(m), published |-> <<>>, wants |-> Everything]
  BY <1>1 DEF Joining, JoinSeats, PlaneTypeOK
<1>5. \A p \in DOMAIN seats' : IsSeat(seats'[p])
  BY <1>1, <1>2, <1>4 DEF PlaneTypeOK, IsSeat
<1>6. \A r \in RoomIds : roomId'[r] = IF r = m.r THEN JoinId(m) ELSE roomId[r]
  BY <1>1 DEF PlaneTypeOK, Joining
<1>7. \A p \in DOMAIN seats : roomId'[seats'[p].room] = roomId[seats[p].room]
  BY <1>1, <1>4, <1>6 DEF PlaneTypeOK, IsSeat, TablesInv, JoinId
<1>8. /\ roomId[m.r] # NoId => JoinId(m) \in LiveRooms
      /\ \A id \in LiveRooms' : id \in LiveRooms \/ id = JoinId(m)
  BY <1>1, <1>6 DEF LiveRooms, JoinId
<1>9. TablesInv'
  <2>1. \A r \in RoomIds : roomId'[r] # NoId => roomId'[r] < nextRoomId'
    BY <1>1, <1>6 DEF TablesInv, JoinId, PlaneTypeOK, Joining
  <2>2. \A r1, r2 \in RoomIds : roomId'[r1] # NoId /\ roomId'[r1] = roomId'[r2] => r1 = r2
    BY <1>1, <1>6 DEF TablesInv, JoinId, PlaneTypeOK
  <2>3. \A p \in DOMAIN seats : seats[p].room = m.r =>
          roomId[m.r] # NoId /\ seats[p].pid < JoinPid(m)
    BY <1>1 DEF TablesInv, JoinPid
  <2>4. \A p \in DOMAIN seats' : roomId'[seats'[p].room] # NoId
                                 /\ seats'[p].pid < nextPid'[seats'[p].room]
    <3>1. \A r \in RoomIds : nextPid'[r] = IF r = m.r THEN JoinPid(m) + 1 ELSE nextPid[r]
      BY <1>1 DEF PlaneTypeOK, Joining
    <3>2. ASSUME NEW p \in DOMAIN seats
          PROVE  roomId'[seats'[p].room] # NoId /\ seats'[p].pid < nextPid'[seats'[p].room]
      <4>1. seats[p].room \in RoomIds /\ seats[p].pid \in Nat /\ roomId[seats[p].room] # NoId
            /\ seats[p].pid < nextPid[seats[p].room]
        BY <1>1 DEF PlaneTypeOK, IsSeat, TablesInv
      <4> QED
        BY <1>2, <1>4, <1>7, <2>3, <3>1, <4>1
    <3>3. roomId'[seats'[m.p].room] # NoId /\ seats'[m.p].pid < nextPid'[seats'[m.p].room]
      BY <1>1, <1>2, <1>4, <1>6, <3>1
    <3> QED
      BY <1>4, <3>2, <3>3
  <2>5. \A p, q \in DOMAIN seats' :
          seats'[p].room = seats'[q].room /\ seats'[p].pid = seats'[q].pid => p = q
    <3>1. \A p, q \in DOMAIN seats :
            seats[p].room = seats[q].room /\ seats[p].pid = seats[q].pid => p = q
      BY <1>1 DEF TablesInv
    <3>2. ASSUME NEW p \in DOMAIN seats, seats'[p].room = seats'[m.p].room PROVE seats'[p].pid # seats'[m.p].pid
      <4>1. seats[p].pid \in Nat /\ seats[p].pid < JoinPid(m)
        BY <1>1, <1>4, <2>3, <3>2 DEF PlaneTypeOK, IsSeat
      <4> QED
        BY <1>2, <1>4, <4>1
    <3> QED
      BY <1>4, <3>1, <3>2
  <2> QED
    BY <2>1, <2>2, <2>4, <2>5 DEF TablesInv
<1>10. roomId'[seats'[m.p].room] = JoinId(m) /\ seats'[m.p].pid = JoinPid(m)
       /\ seats'[m.p].wants = Everything
  BY <1>1, <1>4, <1>6
<1> QED
  BY <1>2, <1>3, <1>4, <1>5, <1>7, <1>8, <1>9, <1>10

\* What the event leaves in the channel.
LaterEvents ==
  /\ IsQueue(ctl')
  /\ \A i \in DOMAIN ctl' : IsEvent(ctl'[i]) /\ (ctl'[i].t = "Joined" => i = 1) /\ phase'[ctl'[i].p] # "new"
  /\ \A p \in Participants : Newcomer(p)' => Newcomer(p)
  /\ phase' \in [Participants -> {"new", "up", "gone"}]
  /\ \A p \in Participants : phase'[p] # "new" => room'[p] \in RoomIds
  /\ room' \in [Participants -> RoomIds \cup {NoRoom}]

\* An invariant step of the router, or of nobody.
LEMMA SpeakersStep ==
  ASSUME SpeakersInv, LaterEvents, NEW k, GrowingBy(k), TablesInv',
         roomId' \in [RoomIds -> Nat \cup {NoId}], nextRoomId' \in Nat,
         nextPid' \in [RoomIds -> Nat], DOMAIN seats' \subseteq Participants,
         \A p \in DOMAIN seats' : IsSeat(seats'[p]),
         \A p \in Participants : Newcomer(p)' => p \notin DOMAIN seats' /\ \A s \in Shards : ~GoneIn(k[s], p),
         \A id \in LiveRooms' : \/ id \in LiveRooms
                                \/ \A s \in Shards : \E j \in DOMAIN k[s] :
                                     k[s][j].t = "RoomUp" /\ k[s][j].room = id,
         \A p \in DOMAIN seats' :
           \/ /\ p \in DOMAIN seats /\ roomId'[seats'[p].room] = roomId[seats[p].room]
              /\ \A s \in Shards : ~GoneIn(k[s], p)
           \/ \A s \in Shards :
                /\ ~GoneIn(inbox[s], p) /\ ~GoneIn(k[s], p)
                /\ \E j \in DOMAIN k[s] : /\ k[s][j].t = "MemberUp" /\ k[s][j].name = p
                                          /\ k[s][j].room = roomId'[seats'[p].room]
  PROVE  SpeakersInv'
<1>0. PlaneTypeOK /\ TablesInv /\ NewcomersAreNew /\ RoomsComeUp /\ SeatedAreKnown /\ QueuesInOrder
  BY DEF SpeakersInv
<1>1. /\ DOMAIN inbox' = Shards /\ shard' = shard
      /\ \A s \in Shards : /\ IsQueue(inbox'[s])
                           /\ \A i \in DOMAIN inbox'[s] : IsControl(inbox'[s][i])
      /\ QueuesInOrder'
  BY GrowingQueues
<1>2. \A s \in Shards : \A id :
        /\ Up(shard[s], inbox[s], id, Len(inbox[s]) + 1) =>
             Up(shard'[s], inbox'[s], id, Len(inbox'[s]) + 1)
        /\ \A j \in DOMAIN k[s] : k[s][j].t = "RoomUp" /\ k[s][j].room = id =>
             Up(shard'[s], inbox'[s], id, Len(inbox'[s]) + 1)
  BY GrowingQueues
<1>3. \A s \in Shards : \A id :
        /\ \A p : Known(shard[s], inbox[s], p, id, Len(inbox[s]) + 1) =>
             Known(shard'[s], inbox'[s], p, id, Len(inbox'[s]) + 1)
        /\ \A j \in DOMAIN k[s] : k[s][j].t = "MemberUp" /\ k[s][j].room = id =>
             Known(shard'[s], inbox'[s], k[s][j].name, id, Len(inbox'[s]) + 1)
  BY GrowingQueues
<1>4. \A s \in Shards : \A p : GoneIn(inbox'[s], p) <=> GoneIn(inbox[s], p) \/ GoneIn(k[s], p)
  BY GrowingQueues
<1>5. PlaneTypeOK'
  BY <1>0, <1>1 DEF PlaneTypeOK, LaterEvents
<1>6. NewcomersAreNew'
  BY <1>0, <1>4 DEF NewcomersAreNew, LaterEvents
<1>7. RoomsComeUp'
  BY <1>0, <1>2 DEF RoomsComeUp
<1>8. SeatedAreKnown'
  <2> SUFFICES ASSUME NEW s \in Shards, NEW p \in DOMAIN seats'
               PROVE  /\ ~GoneIn(inbox'[s], p)
                      /\ Known(shard'[s], inbox'[s], p, roomId'[seats'[p].room], Len(inbox'[s]) + 1)
    BY DEF SeatedAreKnown
  <2>1. CASE /\ p \in DOMAIN seats /\ roomId'[seats'[p].room] = roomId[seats[p].room]
             /\ ~GoneIn(k[s], p)
    <3>1. ~GoneIn(inbox[s], p) /\ Known(shard[s], inbox[s], p, roomId[seats[p].room], Len(inbox[s]) + 1)
      BY <1>0, <2>1 DEF SeatedAreKnown
    <3> QED
      BY <1>3, <1>4, <2>1, <3>1
  <2>2. CASE /\ ~GoneIn(inbox[s], p) /\ ~GoneIn(k[s], p)
             /\ \E j \in DOMAIN k[s] : /\ k[s][j].t = "MemberUp" /\ k[s][j].name = p
                                       /\ k[s][j].room = roomId'[seats'[p].room]
    <3>1. PICK j \in DOMAIN k[s] : /\ k[s][j].t = "MemberUp" /\ k[s][j].name = p
                                   /\ k[s][j].room = roomId'[seats'[p].room]
      BY <2>2
    <3>2. Known(shard'[s], inbox'[s], k[s][j].name, roomId'[seats'[p].room], Len(inbox'[s]) + 1)
      BY <1>3, <3>1
    <3> QED
      BY <1>4, <2>2, <3>1, <3>2
  <2> QED
    BY <2>1, <2>2
<1> QED
  BY <1>1, <1>5, <1>6, <1>7, <1>8 DEF SpeakersInv

LEMMA TakenLater ==
  ASSUME SpeakersInv, RouterTakes, phase' = phase, room' = room
  PROVE  LaterEvents /\ \A p \in Participants : Newcomer(p)' => phase[p] = "new"
<1>1. /\ phase \in [Participants -> {"new", "up", "gone"}]
      /\ \A p \in Participants : phase[p] # "new" => room[p] \in RoomIds
      /\ room \in [Participants -> RoomIds \cup {NoRoom}]
  BY DEF SpeakersInv, PlaneTypeOK
<1> QED
  BY <1>1, EventTaken DEF LaterEvents

LEMMA JoiningSpeakers ==
  ASSUME SpeakersInv, LaterEvents, \A p \in Participants : Newcomer(p)' => phase[p] = "new",
         NEW m, Joining(m), shard' = shard
  PROVE  SpeakersInv'
<1> DEFINE k == [s \in Shards |-> JoinNews(m)]
<1>0. /\ m.p \in Participants /\ m.r \in RoomIds /\ phase[m.p] # "new"
      /\ m.p \notin DOMAIN seats /\ \A s \in Shards : ~GoneIn(inbox[s], m.p)
      /\ NewcomersAreNew /\ RoomsComeUp
  BY DEF Joining, IsEvent, SpeakersInv
<1>1. \A s \in Shards : k[s] = JoinNews(m)
  OBVIOUS
<1>2. JoinId(m) \in Nat /\ JoinPid(m) \in Nat /\ (roomId[m.r] # NoId => JoinId(m) \in LiveRooms)
  BY JoinedRooms
<1>3. \A i \in DOMAIN JoinNews(m) :
        /\ IsControl(JoinNews(m)[i]) /\ JoinNews(m)[i].room = JoinId(m)
        /\ JoinNews(m)[i].t \in {"RoomUp", "MemberUp", "WantsAll"}
  <2> SUFFICES ASSUME NEW i \in DOMAIN JoinNews(m)
               PROVE  /\ IsControl(JoinNews(m)[i]) /\ JoinNews(m)[i].room = JoinId(m)
                      /\ JoinNews(m)[i].t \in {"RoomUp", "MemberUp", "WantsAll"}
    OBVIOUS
  <2>1. \/ JoinNews(m)[i] = [t |-> "RoomUp", room |-> JoinId(m), r |-> m.r]
        \/ JoinNews(m)[i] = [t |-> "MemberUp", room |-> JoinId(m), name |-> m.p, pid |-> JoinPid(m)]
        \/ JoinNews(m)[i] = WantsAll(JoinId(m), JoinSeats(m), m.r)
    BY JoinNewsIs
  <2> QED
    BY <1>0, <1>2, <2>1 DEF WantsAll, IsControl, ControlTypes, NamedTypes
<1>4. roomId[m.r] = NoId => /\ 1 \in DOMAIN JoinNews(m) /\ \A i \in DOMAIN JoinNews(m) : i # 1 => 1 < i
                            /\ JoinNews(m)[1].t = "RoomUp" /\ JoinNews(m)[1].room = JoinId(m)
                            /\ \A i \in DOMAIN JoinNews(m) : JoinNews(m)[i].t # "RoomUp" => i # 1
  BY JoinNewsIs
<1>5. \E j \in DOMAIN JoinNews(m) : /\ JoinNews(m)[j].t = "MemberUp" /\ JoinNews(m)[j].name = m.p
                                    /\ JoinNews(m)[j].room = JoinId(m)
  <2> DEFINE j == IF roomId[m.r] = NoId THEN 2 ELSE 1
  <2>1. /\ j \in DOMAIN JoinNews(m)
        /\ JoinNews(m)[j] = [t |-> "MemberUp", room |-> JoinId(m), name |-> m.p, pid |-> JoinPid(m)]
    BY JoinNewsIs
  <2> HIDE DEF j
  <2> QED
    BY <2>1
<1>6. \A p : ~GoneIn(JoinNews(m), p)
  BY <1>3 DEF GoneIn
<1>7. \A s \in Shards : Fitting(shard[s], inbox[s], JoinNews(m))
  <2> SUFFICES ASSUME NEW s \in Shards, NEW i \in DOMAIN JoinNews(m), JoinNews(m)[i].t # "RoomUp"
               PROVE  \/ Up(shard[s], inbox[s], JoinId(m), Len(inbox[s]) + 1)
                      \/ \E j \in DOMAIN JoinNews(m) :
                           j < i /\ JoinNews(m)[j].t = "RoomUp" /\ JoinNews(m)[j].room = JoinId(m)
    BY <1>3 DEF Fitting
  <2>1. CASE roomId[m.r] = NoId
    BY <1>4, <2>1
  <2>2. CASE roomId[m.r] # NoId
    BY <1>0, <1>2, <2>2 DEF RoomsComeUp
  <2> QED
    BY <2>1, <2>2
<1>8. GrowingBy(k)
  BY <1>1, <1>7 DEF GrowingBy, Joining
<1>9. \A id \in LiveRooms' : \/ id \in LiveRooms
                             \/ \A s \in Shards : \E j \in DOMAIN k[s] :
                                  k[s][j].t = "RoomUp" /\ k[s][j].room = id
  BY <1>1, <1>2, <1>4, JoinedRooms
<1>10. \A p \in Participants : Newcomer(p)' => p \notin DOMAIN seats' /\ \A s \in Shards : ~GoneIn(k[s], p)
  <2>1. DOMAIN seats' = DOMAIN seats \cup {m.p}
    BY JoinedRooms
  <2>2. \A p : phase[p] = "new" => Newcomer(p)
    BY DEF Newcomer
  <2> QED
    BY <1>0, <1>1, <1>6, <2>1, <2>2 DEF NewcomersAreNew
<1>11. \A p \in DOMAIN seats' :
         \/ /\ p \in DOMAIN seats /\ roomId'[seats'[p].room] = roomId[seats[p].room]
            /\ \A s \in Shards : ~GoneIn(k[s], p)
         \/ \A s \in Shards :
              /\ ~GoneIn(inbox[s], p) /\ ~GoneIn(k[s], p)
              /\ \E j \in DOMAIN k[s] : /\ k[s][j].t = "MemberUp" /\ k[s][j].name = p
                                        /\ k[s][j].room = roomId'[seats'[p].room]
  <2>1. /\ DOMAIN seats' = DOMAIN seats \cup {m.p} /\ roomId'[seats'[m.p].room] = JoinId(m)
        /\ \A p \in DOMAIN seats : roomId'[seats'[p].room] = roomId[seats[p].room]
    BY JoinedRooms
  <2> QED
    BY <1>0, <1>1, <1>5, <1>6, <2>1
<1> HIDE DEF k
<1>12. /\ TablesInv' /\ roomId' \in [RoomIds -> Nat \cup {NoId}] /\ nextRoomId' \in Nat
       /\ nextPid' \in [RoomIds -> Nat] /\ DOMAIN seats' \subseteq Participants
       /\ \A p \in DOMAIN seats' : IsSeat(seats'[p])
  BY JoinedRooms
<1> QED
  BY <1>8, <1>9, <1>10, <1>11, <1>12, SpeakersStep

LeaveSeats(m) == [p \in DOMAIN seats \ {m.p} |-> seats[p]]
LeaveNews(m) ==
  LET gone  == [t |-> "MemberGone", room |-> roomId[m.r], name |-> m.p]
      wants == WantsAll(roomId[m.r], LeaveSeats(m), m.r)
  IN  IF In(LeaveSeats(m), m.r) = {} THEN <<gone>> ELSE <<gone, wants>>

\* What the Left of a member does.
Leaving(m) ==
  /\ IsEvent(m) /\ m.p \in DOMAIN seats /\ seats[m.p].room = m.r /\ phase[m.p] # "new"
  /\ roomId' = IF In(LeaveSeats(m), m.r) = {} THEN [roomId EXCEPT ![m.r] = NoId] ELSE roomId
  /\ UNCHANGED <<nextRoomId, nextPid>>
  /\ seats' = LeaveSeats(m)
  /\ IsQueue(LeaveNews(m)) /\ DOMAIN inbox' = Shards
  /\ \A s \in Shards : inbox'[s] = inbox[s] \o LeaveNews(m) /\ Joint(inbox[s], LeaveNews(m), inbox'[s])

LEMMA LeaveNewsIs ==
  ASSUME NEW m
  PROVE  /\ DOMAIN LeaveNews(m) = IF In(LeaveSeats(m), m.r) = {} THEN 1 .. 1 ELSE 1 .. 2
         /\ \A i \in DOMAIN LeaveNews(m) : i = 1 \/ i = 2
         /\ \A i \in DOMAIN LeaveNews(m) :
              /\ i = 1 => LeaveNews(m)[i] = [t |-> "MemberGone", room |-> roomId[m.r], name |-> m.p]
              /\ i = 2 => LeaveNews(m)[i] = WantsAll(roomId[m.r], LeaveSeats(m), m.r)
         /\ 1 \in DOMAIN LeaveNews(m)
<1> DEFINE gone == [t |-> "MemberGone", room |-> roomId[m.r], name |-> m.p]
           wants == WantsAll(roomId[m.r], LeaveSeats(m), m.r)
<1>1. LeaveNews(m) = IF In(LeaveSeats(m), m.r) = {} THEN <<gone>> ELSE <<gone, wants>>
  BY DEF LeaveNews
<1> HIDE DEF gone, wants
<1>2. /\ DOMAIN LeaveNews(m) = IF In(LeaveSeats(m), m.r) = {} THEN 1 .. 1 ELSE 1 .. 2
      /\ \A i \in DOMAIN LeaveNews(m) : i = 1 \/ i = 2
      /\ \A i \in DOMAIN LeaveNews(m) : /\ i = 1 => LeaveNews(m)[i] = gone
                                        /\ i = 2 => LeaveNews(m)[i] = wants
      /\ 1 \in DOMAIN LeaveNews(m)
  <2>1. CASE In(LeaveSeats(m), m.r) = {}
    BY <1>1, <2>1
  <2>2. CASE In(LeaveSeats(m), m.r) # {}
    BY <1>1, <2>2
  <2> QED
    BY <2>1, <2>2
<1> QED
  BY <1>2 DEF gone, wants

LEMMA LeavingIs ==
  ASSUME SpeakersInv, QueuesHaveRoom', RouterTakes, phase' = phase, ctl[1].t = "Left",
         IsMember(ctl[1].r, ctl[1].p)
  PROVE  Leaving(ctl[1])
<1> DEFINE m == ctl[1]
<1>1. Head(ctl) = m /\ IsEvent(m) /\ phase[m.p] # "new" /\ PlaneTypeOK /\ IsMember(m.r, m.p)
  BY EventTaken DEF SpeakersInv
<1>2. OnLeft(m)
  BY <1>1 DEF RouterTakes, OnControl
<1> HIDE DEF m
<1>3. m.p \in DOMAIN seats /\ seats[m.p].room = m.r
  BY <1>1 DEF IsMember, In
<1>4. /\ roomId' = IF In(LeaveSeats(m), m.r) = {} THEN [roomId EXCEPT ![m.r] = NoId] ELSE roomId
      /\ UNCHANGED <<nextRoomId, nextPid>>
      /\ seats' = LeaveSeats(m)
  BY <1>1, <1>2 DEF OnLeft, LeaveSeats
<1>5. Broadcast(LeaveNews(m)) /\ IsQueue(LeaveNews(m))
  <2> DEFINE gone == [t |-> "MemberGone", room |-> roomId[m.r], name |-> m.p]
             wants == WantsAll(roomId[m.r], LeaveSeats(m), m.r)
  <2>1. Broadcast(<<gone>> \o (IF In(LeaveSeats(m), m.r) = {} THEN <<>> ELSE <<wants>>))
    BY <1>1, <1>2 DEF OnLeft, LeaveSeats
  <2>2. LeaveNews(m) = IF In(LeaveSeats(m), m.r) = {} THEN <<gone>> ELSE <<gone, wants>>
    BY DEF LeaveNews
  <2> HIDE DEF gone, wants
  <2>3. <<gone>> \o <<>> = <<gone>> /\ <<gone>> \o <<wants>> = <<gone, wants>>
    BY ShortJoins
  <2>4. CASE In(LeaveSeats(m), m.r) = {}
    <3>1. LeaveNews(m) = <<gone>> \o <<>>
      BY <2>2, <2>3, <2>4
    <3> QED
      BY <2>1, <2>2, <2>4, <3>1, ShortQueues
  <2>5. CASE In(LeaveSeats(m), m.r) # {}
    <3>1. LeaveNews(m) = <<gone>> \o <<wants>>
      BY <2>2, <2>3, <2>5
    <3> QED
      BY <2>1, <2>2, <2>5, <3>1, ShortQueues
  <2> QED
    BY <2>4, <2>5
<1>6. /\ DOMAIN inbox' = Shards
      /\ \A s \in Shards : inbox'[s] = inbox[s] \o LeaveNews(m) /\ Joint(inbox[s], LeaveNews(m), inbox'[s])
  BY <1>1, <1>5, BroadcastIs
<1> QED
  BY <1>1, <1>3, <1>4, <1>5, <1>6 DEF Leaving, m

LEMMA LeftRooms ==
  ASSUME SpeakersInv, NEW m, Leaving(m)
  PROVE  /\ TablesInv'
         /\ roomId[m.r] \in LiveRooms /\ roomId[m.r] \in Nat
         /\ roomId' \in [RoomIds -> Nat \cup {NoId}]
         /\ DOMAIN seats' = DOMAIN seats \ {m.p}
         /\ \A p \in DOMAIN seats' : /\ IsSeat(seats'[p]) /\ seats'[p] = seats[p]
                                     /\ roomId'[seats'[p].room] = roomId[seats[p].room]
         /\ LiveRooms' \subseteq LiveRooms
<1>1. PlaneTypeOK /\ TablesInv /\ m.r \in RoomIds /\ NoId \notin Nat
  BY DEF SpeakersInv, Leaving, IsEvent, NoId
<1>2. roomId[m.r] \in LiveRooms /\ roomId[m.r] \in Nat
  BY <1>1 DEF Leaving, TablesInv, LiveRooms, PlaneTypeOK
<1>3. /\ roomId' \in [RoomIds -> Nat \cup {NoId}]
      /\ \A r \in RoomIds : roomId'[r] = roomId[r] \/ (r = m.r /\ roomId'[r] = NoId)
  BY <1>1 DEF PlaneTypeOK, Leaving
<1>4. /\ DOMAIN seats' = DOMAIN seats \ {m.p}
      /\ \A p \in DOMAIN seats' : IsSeat(seats'[p]) /\ seats'[p] = seats[p]
  BY <1>1 DEF Leaving, LeaveSeats, PlaneTypeOK
<1>5. \A p \in DOMAIN seats' : roomId'[seats'[p].room] = roomId[seats[p].room]
  <2>1. \A p \in DOMAIN seats' : seats'[p].room = m.r => In(LeaveSeats(m), m.r) # {}
    BY DEF Leaving, In
  <2>2. \A r \in RoomIds : r # m.r \/ In(LeaveSeats(m), m.r) # {} => roomId'[r] = roomId[r]
    BY <1>1 DEF Leaving, PlaneTypeOK
  <2>3. \A p \in DOMAIN seats' : seats'[p].room \in RoomIds
    BY <1>4 DEF IsSeat
  <2> QED
    BY <1>4, <2>1, <2>2, <2>3
<1>6. LiveRooms' \subseteq LiveRooms
  BY <1>3 DEF LiveRooms
<1>7. TablesInv'
  <2>1. \A r \in RoomIds : roomId'[r] # NoId => roomId'[r] < nextRoomId'
    BY <1>1, <1>3 DEF TablesInv, Leaving
  <2>2. \A r1, r2 \in RoomIds : roomId'[r1] # NoId /\ roomId'[r1] = roomId'[r2] => r1 = r2
    BY <1>1, <1>3 DEF TablesInv
  <2>3. \A p \in DOMAIN seats' : roomId'[seats'[p].room] # NoId /\ seats'[p].pid < nextPid'[seats'[p].room]
    BY <1>1, <1>4, <1>5 DEF TablesInv, Leaving
  <2>4. \A p, q \in DOMAIN seats' :
          seats'[p].room = seats'[q].room /\ seats'[p].pid = seats'[q].pid => p = q
    BY <1>1, <1>4 DEF TablesInv
  <2> QED
    BY <2>1, <2>2, <2>3, <2>4 DEF TablesInv
<1> QED
  BY <1>2, <1>3, <1>4, <1>5, <1>6, <1>7

LEMMA LeavingSpeakers ==
  ASSUME SpeakersInv, LaterEvents, \A p \in Participants : Newcomer(p)' => phase[p] = "new",
         NEW m, Leaving(m), shard' = shard
  PROVE  SpeakersInv'
<1> DEFINE k == [s \in Shards |-> LeaveNews(m)]
<1>0. m.p \in Participants /\ phase[m.p] # "new" /\ NewcomersAreNew /\ RoomsComeUp /\ PlaneTypeOK
  BY DEF Leaving, IsEvent, SpeakersInv
<1>1. \A s \in Shards : k[s] = LeaveNews(m)
  OBVIOUS
<1>2. \A i \in DOMAIN LeaveNews(m) :
        /\ IsControl(LeaveNews(m)[i]) /\ LeaveNews(m)[i].room = roomId[m.r]
        /\ LeaveNews(m)[i].t \in {"MemberGone", "WantsAll"}
        /\ LeaveNews(m)[i].t = "MemberGone" => LeaveNews(m)[i].name = m.p
  <2> SUFFICES ASSUME NEW i \in DOMAIN LeaveNews(m)
               PROVE  /\ IsControl(LeaveNews(m)[i]) /\ LeaveNews(m)[i].room = roomId[m.r]
                      /\ LeaveNews(m)[i].t \in {"MemberGone", "WantsAll"}
                      /\ LeaveNews(m)[i].t = "MemberGone" => LeaveNews(m)[i].name = m.p
    OBVIOUS
  <2>1. \/ LeaveNews(m)[i] = [t |-> "MemberGone", room |-> roomId[m.r], name |-> m.p]
        \/ LeaveNews(m)[i] = WantsAll(roomId[m.r], LeaveSeats(m), m.r)
    BY LeaveNewsIs
  <2>2. roomId[m.r] \in Nat
    BY LeftRooms
  <2> QED
    BY <1>0, <2>1, <2>2 DEF WantsAll, IsControl, ControlTypes, NamedTypes
<1>3. \A p : GoneIn(LeaveNews(m), p) => p = m.p
  BY <1>2 DEF GoneIn
<1>4. \A s \in Shards : Fitting(shard[s], inbox[s], LeaveNews(m))
  <2>1. \A s \in Shards : Up(shard[s], inbox[s], roomId[m.r], Len(inbox[s]) + 1)
    BY <1>0, LeftRooms DEF RoomsComeUp
  <2> QED
    BY <1>2, <2>1 DEF Fitting
<1>5. GrowingBy(k)
  BY <1>1, <1>4 DEF GrowingBy, Leaving
<1>6. /\ TablesInv' /\ roomId' \in [RoomIds -> Nat \cup {NoId}] /\ LiveRooms' \subseteq LiveRooms
      /\ DOMAIN seats' = DOMAIN seats \ {m.p}
      /\ \A p \in DOMAIN seats' : /\ IsSeat(seats'[p])
                                  /\ roomId'[seats'[p].room] = roomId[seats[p].room]
  BY LeftRooms
<1>7. /\ nextRoomId' \in Nat /\ nextPid' \in [RoomIds -> Nat] /\ DOMAIN seats' \subseteq Participants
  BY <1>0, <1>6 DEF Leaving, PlaneTypeOK
<1>8. \A p \in Participants : Newcomer(p)' => p \notin DOMAIN seats' /\ \A s \in Shards : ~GoneIn(k[s], p)
  <2>1. \A p : phase[p] = "new" => Newcomer(p)
    BY DEF Newcomer
  <2> QED
    BY <1>0, <1>1, <1>3, <1>6, <2>1 DEF NewcomersAreNew
<1>9. \A p \in DOMAIN seats' :
        /\ p \in DOMAIN seats /\ roomId'[seats'[p].room] = roomId[seats[p].room]
        /\ \A s \in Shards : ~GoneIn(k[s], p)
  BY <1>1, <1>3, <1>6
<1> HIDE DEF k
<1> QED
  BY <1>5, <1>6, <1>7, <1>8, <1>9, SpeakersStep

\* A message that changes nobody's place, for shard s.
QuietNews(s, m) ==
  /\ IsControl(m) /\ m.room \in LiveRooms
  /\ m.t \in {"WantsAll", "PublisherOffer", "OfferSub", "SubscriberAnswer", "ActiveSpeakers"}
  /\ m.t = "ActiveSpeakers" => Range(m.top) \subseteq MembersOf(m.room)
  /\ m.t \in {"PublisherOffer", "OfferSub"} => SeatedAt(m.name, s)

\* Everybody keeps the place, and the queues get k.
Quiet(k) ==
  /\ UNCHANGED <<roomId, nextRoomId, nextPid, shard>>
  /\ DOMAIN seats' = DOMAIN seats
  /\ \A p \in DOMAIN seats : /\ IsSeat(seats'[p])
                             /\ seats'[p].room = seats[p].room /\ seats'[p].pid = seats[p].pid
  /\ DOMAIN inbox' = Shards
  /\ \A s \in Shards : /\ inbox'[s] = inbox[s] \o k[s] /\ Joint(inbox[s], k[s], inbox'[s])
                       /\ \A i \in DOMAIN k[s] : QuietNews(s, k[s][i])

LEMMA QuietSpeakers ==
  ASSUME SpeakersInv, LaterEvents, NEW k, Quiet(k)
  PROVE  SpeakersInv'
<1>0. /\ PlaneTypeOK /\ TablesInv /\ NewcomersAreNew /\ RoomsComeUp /\ SeatedAreKnown
      /\ \A p \in DOMAIN seats : IsSeat(seats[p]) /\ p \in Participants
  BY DEF SpeakersInv, PlaneTypeOK
<1>1. \A s \in Shards : \A p : ~GoneIn(k[s], p)
  BY DEF Quiet, QuietNews, GoneIn
<1>2. \A s \in Shards : Fitting(shard[s], inbox[s], k[s])
  <2> SUFFICES ASSUME NEW s \in Shards, NEW i \in DOMAIN k[s]
               PROVE  /\ IsControl(k[s][i])
                      /\ Up(shard[s], inbox[s], k[s][i].room, Len(inbox[s]) + 1)
                      /\ k[s][i].t = "ActiveSpeakers" =>
                           \A p \in Range(k[s][i].top) :
                             /\ Known(shard[s], inbox[s], p, k[s][i].room, Len(inbox[s]) + 1)
                             /\ ~GoneIn(inbox[s], p) /\ ~GoneIn(k[s], p)
    BY DEF Fitting
  <2>1. QuietNews(s, k[s][i])
    BY DEF Quiet
  <2>2. ASSUME k[s][i].t = "ActiveSpeakers", NEW p \in Range(k[s][i].top)
        PROVE  /\ Known(shard[s], inbox[s], p, k[s][i].room, Len(inbox[s]) + 1)
               /\ ~GoneIn(inbox[s], p)
    <3>1. p \in DOMAIN seats /\ roomId[seats[p].room] = k[s][i].room
      BY <2>1, <2>2 DEF QuietNews, MembersOf
    <3> QED
      BY <1>0, <3>1 DEF SeatedAreKnown
  <2> QED
    BY <1>0, <1>1, <2>1, <2>2 DEF QuietNews, RoomsComeUp
<1>3. GrowingBy(k)
  BY <1>2 DEF GrowingBy, Quiet
<1>4. TablesInv'
  <2>1. \A p \in DOMAIN seats' : roomId'[seats'[p].room] # NoId /\ seats'[p].pid < nextPid'[seats'[p].room]
    BY <1>0 DEF TablesInv, Quiet
  <2>2. \A p, q \in DOMAIN seats' :
          seats'[p].room = seats'[q].room /\ seats'[p].pid = seats'[q].pid => p = q
    BY <1>0 DEF TablesInv, Quiet
  <2> QED
    BY <1>0, <2>1, <2>2 DEF TablesInv, Quiet
<1>5. LiveRooms' = LiveRooms
  BY DEF LiveRooms, Quiet
<1>6. /\ roomId' \in [RoomIds -> Nat \cup {NoId}] /\ nextRoomId' \in Nat
      /\ nextPid' \in [RoomIds -> Nat] /\ DOMAIN seats' \subseteq Participants
      /\ \A p \in DOMAIN seats' : IsSeat(seats'[p])
  BY <1>0 DEF PlaneTypeOK, Quiet
<1>7. \A p \in Participants : Newcomer(p)' => p \notin DOMAIN seats'
  BY <1>0 DEF LaterEvents, NewcomersAreNew, Quiet
<1>8. \A p \in DOMAIN seats' : p \in DOMAIN seats /\ roomId'[seats'[p].room] = roomId[seats[p].room]
  BY DEF Quiet
<1> QED
  BY <1>1, <1>3, <1>4, <1>5, <1>6, <1>7, <1>8, SpeakersStep

\* Nothing but the queues changes, and no wants are spread.
Silent(k) ==
  /\ UNCHANGED <<roomId, nextRoomId, nextPid, seats, shard>>
  /\ DOMAIN inbox' = Shards
  /\ \A s \in Shards :
       /\ inbox'[s] = inbox[s] \o k[s] /\ Joint(inbox[s], k[s], inbox'[s])
       /\ \A i \in DOMAIN k[s] : QuietNews(s, k[s][i]) /\ k[s][i].t # "WantsAll"

\* No list of speakers is among it.
NoLists(k) == \A s \in Shards : \A i \in DOMAIN k[s] : k[s][i].t # "ActiveSpeakers"

\* Something about the members of room r changes but their places, and the
\* wants in it are spread.
Spreading(r) ==
  /\ r \in RoomIds /\ roomId[r] # NoId
  /\ UNCHANGED <<roomId, nextRoomId, nextPid, shard>>
  /\ DOMAIN seats' = DOMAIN seats
  /\ \A p \in DOMAIN seats : /\ IsSeat(seats'[p])
                             /\ seats'[p].room = seats[p].room /\ seats'[p].pid = seats[p].pid
                             /\ seats[p].room # r => seats'[p] = seats[p]
  /\ DOMAIN inbox' = Shards
  /\ \A s \in Shards : LET k == <<WantsAll(roomId[r], seats', r)>> IN
       inbox'[s] = inbox[s] \o k /\ Joint(inbox[s], k, inbox'[s])

LEMMA SilentIsQuiet == ASSUME PlaneTypeOK, NEW k, Silent(k) PROVE Quiet(k)
BY DEF Silent, Quiet, PlaneTypeOK

LEMMA SpreadingIsQuiet ==
  ASSUME PlaneTypeOK, NEW r, Spreading(r)
  PROVE  Quiet([s \in Shards |-> <<WantsAll(roomId[r], seats', r)>>])
<1> DEFINE w == WantsAll(roomId[r], seats', r)
           k == [s \in Shards |-> <<w>>]
<1>1. \A s \in Shards : k[s] = <<w>>
  OBVIOUS
<1>2. w.t = "WantsAll" /\ w.room = roomId[r]
  BY DEF WantsAll
<1>3. roomId[r] \in Nat /\ roomId[r] \in LiveRooms
  BY DEF Spreading, PlaneTypeOK, LiveRooms
<1>4. \A s \in Shards : QuietNews(s, w)
  BY <1>2, <1>3 DEF QuietNews, IsControl, ControlTypes, NamedTypes
<1>5. \A s \in Shards : inbox'[s] = inbox[s] \o <<w>> /\ Joint(inbox[s], <<w>>, inbox'[s])
  BY DEF Spreading
<1> HIDE DEF w, k
<1>6. \A s \in Shards : \A i \in DOMAIN k[s] : QuietNews(s, k[s][i])
  BY <1>1, <1>4
<1>7. Quiet(k)
  BY <1>1, <1>5, <1>6 DEF Quiet, Spreading
<1> QED
  BY <1>7 DEF k, w

LEMMA UnchangedIsSilent ==
  ASSUME PlaneTypeOK, UNCHANGED <<roomId, nextRoomId, nextPid, seats, shard, inbox>>
  PROVE  Silent([s \in Shards |-> <<>>]) /\ NoLists([s \in Shards |-> <<>>])
<1>1. ASSUME NEW s \in Shards
      PROVE  inbox'[s] = inbox[s] \o <<>> /\ Joint(inbox[s], <<>>, inbox'[s]) /\ DOMAIN <<>> = {}
  <2>1. IsQueue(inbox[s]) /\ IsQueue(<<>>) /\ inbox'[s] = inbox[s]
    BY ShortQueues DEF PlaneTypeOK
  <2>2. inbox[s] \o <<>> = inbox[s]
    BY <2>1, ShortJoins
  <2>3. Joint(inbox[s], <<>>, inbox[s] \o <<>>)
    BY <2>1, JointIs
  <2>4. DOMAIN <<>> = {}
    OBVIOUS
  <2> QED
    BY <2>1, <2>2, <2>3, <2>4
<1> QED
  BY <1>1 DEF Silent, NoLists, PlaneTypeOK

LEMMA DescriptionsAreSilent ==
  ASSUME SpeakersInv, QueuesHaveRoom', RouterTakes, UNCHANGED <<phase, shard>>,
         ctl[1].t \in {"PublisherOffer", "SubscriberAnswer"}
  PROVE  \E k : Silent(k) /\ NoLists(k)
<1> DEFINE m == ctl[1]
           msg == [t |-> m.t, room |-> roomId[m.r], name |-> m.p]
           k == [s \in Shards |-> IF s = seats[m.p].pid % NShards THEN <<msg>> ELSE <<>>]
<1>1. Head(ctl) = m /\ IsEvent(m) /\ PlaneTypeOK /\ TablesInv
  BY EventTaken DEF SpeakersInv
<1>2. OnSessionDescription(m) /\ m.t \in {"PublisherOffer", "SubscriberAnswer"}
  BY <1>1 DEF RouterTakes, OnControl
<1>3. UNCHANGED <<roomId, nextRoomId, nextPid, seats>>
  BY <1>2 DEF OnSessionDescription, tableVars
<1>4. CASE ~IsMember(m.r, m.p)
  <2>1. UNCHANGED inbox
    BY <1>2, <1>4 DEF OnSessionDescription
  <2> QED
    BY <1>1, <1>3, <2>1, UnchangedIsSilent
<1>5. CASE IsMember(m.r, m.p)
  <2>1. ToHome(m.p, msg)
    BY <1>2, <1>5 DEF OnSessionDescription
  <2>2. m.p \in DOMAIN seats /\ seats[m.p].room = m.r /\ m.p \in Participants
    BY <1>1, <1>5 DEF IsMember, In, IsEvent
  <2>3. /\ msg.t = m.t /\ msg.room = roomId[m.r] /\ msg.name = m.p
        /\ roomId[m.r] \in Nat /\ roomId[m.r] \in LiveRooms
    BY <1>1, <2>2 DEF TablesInv, PlaneTypeOK, IsEvent, LiveRooms
  <2>4. ASSUME NEW s \in Shards
        PROVE  /\ inbox'[s] = inbox[s] \o k[s] /\ Joint(inbox[s], k[s], inbox'[s])
               /\ \A i \in DOMAIN k[s] : /\ QuietNews(s, k[s][i]) /\ k[s][i].t # "WantsAll"
                                      /\ k[s][i].t # "ActiveSpeakers"
    <3>1. IsQueue(inbox[s]) /\ Len(inbox'[s]) < ShardCap
      BY <1>1 DEF PlaneTypeOK, QueuesHaveRoom
    <3>2. inbox'[s] = IF s = seats[m.p].pid % NShards THEN Accepted(inbox[s], <<msg>>) ELSE inbox[s]
      BY <2>1 DEF ToHome
    <3>3. CASE s = seats[m.p].pid % NShards
      <4>1. k[s] = <<msg>>
        BY <3>3
      <4>2. SeatedAt(m.p, s)
        BY <2>2, <3>3 DEF SeatedAt, Home
      <4> HIDE DEF k, msg, m
      <4>3. IsQueue(<<msg>>) /\ inbox'[s] = Accepted(inbox[s], <<msg>>)
        BY <3>2, <3>3, ShortQueues
      <4>4. inbox'[s] = inbox[s] \o <<msg>> /\ Joint(inbox[s], <<msg>>, inbox'[s])
        BY <3>1, <4>3, AcceptedIs, JointIs
      <4>5. QuietNews(s, msg) /\ msg.t # "WantsAll" /\ msg.t # "ActiveSpeakers"
        BY <1>2, <2>2, <2>3, <4>2 DEF QuietNews, IsControl, ControlTypes, NamedTypes
      <4>6. \A i \in DOMAIN <<msg>> : <<msg>>[i] = msg
        OBVIOUS
      <4> QED
        BY <4>1, <4>4, <4>5, <4>6
    <3>4. CASE s # seats[m.p].pid % NShards
      <4>1. k[s] = <<>> /\ inbox'[s] = inbox[s] /\ DOMAIN <<>> = {}
        BY <3>2, <3>4
      <4> HIDE DEF k
      <4>2. inbox[s] \o <<>> = inbox[s] /\ IsQueue(<<>>)
        BY <3>1, ShortJoins, ShortQueues
      <4> QED
        BY <3>1, <4>1, <4>2, JointIs
    <3> QED
      BY <3>3, <3>4
  <2>5. DOMAIN inbox' = Shards
    BY <2>1 DEF ToHome
  <2> HIDE DEF k
  <2>6. Silent(k) /\ NoLists(k)
    BY <1>3, <2>4, <2>5 DEF Silent, NoLists
  <2> QED
    BY <2>6
<1> QED
  BY <1>4, <1>5

LEMMA WantsAreSpread ==
  ASSUME SpeakersInv, QueuesHaveRoom', RouterTakes, UNCHANGED <<phase, shard>>,
         ctl[1].t \in {"TracksPublished", "SubscriptionsChanged"}
  PROVE  Spreading(ctl[1].r) \/ \E k : Silent(k) /\ NoLists(k)
<1> DEFINE m == ctl[1]
<1>1. Head(ctl) = m /\ IsEvent(m) /\ PlaneTypeOK /\ TablesInv
  BY EventTaken DEF SpeakersInv
<1>2. OnTracksPublished(m) \/ OnSubscriptionsChanged(m)
  BY <1>1 DEF RouterTakes, OnControl
<1>3. UNCHANGED <<roomId, nextRoomId, nextPid>>
  BY <1>2 DEF OnTracksPublished, OnSubscriptionsChanged
<1>4. CASE roomId[m.r] = NoId
  <2>1. UNCHANGED <<seats, inbox>>
    BY <1>2, <1>4 DEF OnTracksPublished, OnSubscriptionsChanged
  <2> QED
    BY <1>1, <1>3, <2>1, UnchangedIsSilent
<1>5. CASE roomId[m.r] # NoId
  <2>1. /\ \/ seats' = seats
           \/ m.p \in In(seats, m.r) /\ seats' = [seats EXCEPT ![m.p].published = Extended(@, m.ids)]
           \/ m.p \in In(seats, m.r) /\ seats' = [seats EXCEPT ![m.p].wants = [all |-> FALSE, refs |-> m.refs]]
        /\ Broadcast(<<WantsAll(roomId[m.r], seats', m.r)>>)
    BY <1>2, <1>5 DEF OnTracksPublished, OnSubscriptionsChanged, IsMember
  <2> HIDE DEF m
  <2>2. /\ DOMAIN seats' = DOMAIN seats
        /\ \A p \in DOMAIN seats : /\ IsSeat(seats'[p])
                                   /\ seats'[p].room = seats[p].room /\ seats'[p].pid = seats[p].pid
                                   /\ seats[p].room # m.r => seats'[p] = seats[p]
    <3>1. \A p \in DOMAIN seats : IsSeat(seats[p])
      BY <1>1 DEF PlaneTypeOK
    <3>2. CASE seats' = seats
      BY <3>1, <3>2
    <3>3. CASE m.p \in In(seats, m.r) /\ seats' = [seats EXCEPT ![m.p].published = Extended(@, m.ids)]
      BY <3>1, <3>3 DEF In, IsSeat
    <3>4. CASE m.p \in In(seats, m.r) /\ seats' = [seats EXCEPT ![m.p].wants = [all |-> FALSE, refs |-> m.refs]]
      <4> DEFINE w == [all |-> FALSE, refs |-> m.refs]
                 x == seats[m.p]
      <4>1. x = [room |-> x.room, pid |-> x.pid, published |-> x.published, wants |-> x.wants]
            /\ m.p \in DOMAIN seats /\ x.room = m.r /\ x.room \in RoomIds /\ x.pid \in Nat
        BY <3>1, <3>4 DEF In, IsSeat
      <4>2. seats' = [seats EXCEPT ![m.p].wants = w]
        BY <3>4
      <4> HIDE DEF w, x
      <4>3. /\ DOMAIN seats' = DOMAIN seats /\ \A p \in DOMAIN seats : p # m.p => seats'[p] = seats[p]
            /\ seats'[m.p] = [x EXCEPT !.wants = w]
        BY <4>1, <4>2 DEF x
      <4>4. seats'[m.p] = [room |-> x.room, pid |-> x.pid, published |-> x.published, wants |-> w]
        BY <4>1, <4>3
      <4>5. IsSeat(seats'[m.p]) /\ seats'[m.p].room = x.room /\ seats'[m.p].pid = x.pid
        BY <4>1, <4>4 DEF IsSeat
      <4> QED
        BY <3>1, <4>1, <4>3, <4>5 DEF x
    <3> QED
      BY <2>1, <3>2, <3>3, <3>4
  <2> DEFINE w == WantsAll(roomId[m.r], seats', m.r)
  <2>3. Broadcast(<<w>>)
    BY <2>1
  <2> HIDE DEF w
  <2>4. /\ DOMAIN inbox' = Shards
        /\ \A s \in Shards : inbox'[s] = inbox[s] \o <<w>> /\ Joint(inbox[s], <<w>>, inbox'[s])
    BY <1>1, <2>3, BroadcastIs, ShortQueues
  <2>5. Spreading(m.r)
    BY <1>1, <1>3, <1>5, <2>2, <2>4 DEF Spreading, IsEvent, w
  <2> QED
    BY <2>5 DEF m
<1> QED
  BY <1>4, <1>5

LEMMA SecondLeftIsSilent ==
  ASSUME SpeakersInv, RouterTakes, UNCHANGED <<phase, shard>>,
         ctl[1].t = "Left", ~IsMember(ctl[1].r, ctl[1].p)
  PROVE  \E k : Silent(k) /\ NoLists(k)
<1>1. Head(ctl) = ctl[1] /\ PlaneTypeOK
  BY EventTaken DEF SpeakersInv
<1>2. OnLeft(ctl[1])
  BY <1>1 DEF RouterTakes, OnControl
<1>3. UNCHANGED <<roomId, nextRoomId, nextPid, seats, shard, inbox>>
  BY <1>2 DEF OnLeft
<1> QED
  BY <1>1, <1>3, UnchangedIsSilent

\* What the router does with an event.
LEMMA EventsAre ==
  ASSUME SpeakersInv, QueuesHaveRoom', RouterTakes, UNCHANGED <<phase, shard>>
  PROVE  \/ Joining(ctl[1]) \/ Leaving(ctl[1])
         \/ \E r : Spreading(r)
         \/ \E k : Silent(k) /\ NoLists(k)
<1>1. Head(ctl) = ctl[1]
  BY EventTaken
<1>2. ctl[1].t \in {"Joined", "PublisherOffer", "SubscriberAnswer", "TracksPublished",
                    "SubscriptionsChanged", "Left"}
  BY <1>1 DEF RouterTakes, OnControl
<1> QED
  BY <1>2, JoinedIs, LeavingIs, DescriptionsAreSilent, WantsAreSpread, SecondLeftIsSilent

-----------------------------------------------------------------------------
(* Offers are flushed *)

LEMMA JoinsAssociate ==
  ASSUME NEW q, NEW k, NEW w, IsQueue(q), IsQueue(k), IsQueue(w)
  PROVE  (q \o k) \o w = q \o (k \o w)
<1> DEFINE S == Range(q) \cup Range(k) \cup Range(w)
<1>1. q \in Seq(S) /\ k \in Seq(S) /\ w \in Seq(S)
  BY DEF IsQueue
<1> HIDE DEF S
<1> QED
  BY <1>1

\* What a queue accepts, or it is full.
LEMMA AcceptedOrFull ==
  ASSUME NEW q, NEW k, IsQueue(q), IsQueue(k)
  PROVE  /\ IsQueue(Accepted(q, k))
         /\ Accepted(q, k) = q \o k \/ Len(Accepted(q, k)) = ShardCap
         /\ Len(q) = ShardCap => Len(Accepted(q, k)) = ShardCap
<1> DEFINE all == q \o k
           w == SubSeq(all, 1, ShardCap)
<1>1. IsQueue(all) /\ Len(q) \in Nat /\ Len(k) \in Nat /\ Len(all) = Len(q) + Len(k)
  BY JoinedQueues
<1>2. Accepted(q, k) = IF Len(all) <= ShardCap THEN all ELSE w
  BY DEF Accepted
<1> HIDE DEF all
<1>3. ASSUME ~(Len(all) <= ShardCap) PROVE IsQueue(w) /\ Len(w) = ShardCap
  <2>1. all \in Seq(Range(all)) /\ Len(all) \in Nat /\ ShardCap \in Nat
    BY <1>1, ShardAssumption DEF IsQueue
  <2>2. w \in Seq(Range(all)) /\ Len(w) = ShardCap
    BY <1>3, <2>1
  <2> HIDE DEF w
  <2>3. w \in [1 .. Len(w) -> Range(all)] /\ Len(w) \in Nat
    BY <2>1, <2>2
  <2>4. w \in [1 .. Len(w) -> Range(w)]
    BY <2>3 DEF Range
  <2>5. w \in Seq(Range(w))
    BY <2>3, <2>4
  <2> QED
    BY <2>2, <2>5 DEF IsQueue
<1> HIDE DEF w
<1>4. ASSUME Len(q) = ShardCap PROVE Len(Accepted(q, k)) = ShardCap
  <2>1. ShardCap \in Nat
    BY ShardAssumption
  <2> QED
    BY <1>1, <1>2, <1>3, <1>4, <2>1
<1> QED
  BY <1>1, <1>2, <1>3, <1>4 DEF all

\* The queue of shard s with the offers k behind it.
Flushed(s, k, q) ==
  /\ IsQueue(k) /\ q = inbox[s] \o k
  /\ \A i \in DOMAIN k : QuietNews(s, k[i]) /\ k[i].t = "OfferSub"

LEMMA OneOffer ==
  ASSUME NEW s, IsQueue(inbox[s]), NEW k, NEW q, Flushed(s, k, q),
         NEW m, QuietNews(s, m), m.t = "OfferSub"
  PROVE  Len(Accepted(q, <<m>>)) = ShardCap \/ \E w : Flushed(s, w, Accepted(q, <<m>>))
<1> DEFINE w == k \o <<m>>
<1>1. IsQueue(k) /\ q = inbox[s] \o k /\ IsQueue(<<m>>) /\ Len(<<m>>) = 1 /\ <<m>>[1] = m
  BY ShortQueues DEF Flushed
<1>2. IsQueue(q)
  BY <1>1, JoinedQueues
<1>3. q \o <<m>> = inbox[s] \o w
  <2> DEFINE h == <<m>>
             b == inbox[s]
  <2>1. IsQueue(h) /\ IsQueue(k) /\ IsQueue(b) /\ q = b \o k
    BY <1>1
  <2> HIDE DEF h, b
  <2>2. (b \o k) \o h = b \o (k \o h)
    BY ONLY <2>1, JoinsAssociate
  <2> QED
    BY <2>1, <2>2 DEF h, b
<1>4. /\ IsQueue(w) /\ Len(k) \in Nat /\ DOMAIN w = 1 .. (Len(k) + 1) /\ DOMAIN k = 1 .. Len(k)
      /\ \A i \in 1 .. Len(k) : w[i] = k[i]
      /\ w[Len(k) + 1] = m
  BY <1>1, JoinedQueues
<1> HIDE DEF w
<1>5. \A i \in DOMAIN w : QuietNews(s, w[i]) /\ w[i].t = "OfferSub"
  <2>1. ASSUME NEW i \in DOMAIN w PROVE QuietNews(s, w[i]) /\ w[i].t = "OfferSub"
    <3>1. i \in DOMAIN k \/ i = Len(k) + 1
      BY <1>4
    <3> QED
      BY <1>4, <3>1 DEF Flushed
  <2> QED
    BY <2>1
<1>6. Accepted(q, <<m>>) = inbox[s] \o w => Flushed(s, w, Accepted(q, <<m>>))
  BY <1>4, <1>5 DEF Flushed
<1> QED
  BY <1>1, <1>2, <1>3, <1>6, AcceptedOrFull

LEMMA FlushIsSilent ==
  ASSUME SpeakersInv, QueuesHaveRoom', FlushOffers, shard' = shard
  PROVE  \E k : Silent(k) /\ NoLists(k)
<1>0. PlaneTypeOK /\ TablesInv
  BY DEF SpeakersInv
<1> DEFINE offer(p) == [t |-> "OfferSub", room |-> roomId[seats[p].room], name |-> p,
                        tracks |-> WantedTracks(seats, p)]
<1>1. ASSUME NEW p \in Due, NEW s \in Shards, s = seats[p].pid % NShards
      PROVE  QuietNews(s, offer(p)) /\ offer(p).t = "OfferSub"
  <2>1. p \in DOMAIN seats /\ p \in Participants /\ roomId[seats[p].room] \in Nat
        /\ roomId[seats[p].room] \in LiveRooms
    BY <1>0 DEF Due, PlaneTypeOK, IsSeat, TablesInv, LiveRooms
  <2>2. SeatedAt(p, s)
    BY <1>1, <2>1 DEF SeatedAt, Home
  <2> QED
    BY <2>1, <2>2 DEF QuietNews, IsControl, ControlTypes, NamedTypes
<1>2. PICK walk \in Walks(Due) :
        LET after[i \in Nat] ==
              IF i = 0 THEN inbox
              ELSE [s \in Shards |-> IF s = seats[walk[i]].pid % NShards
                                     THEN Accepted(after[i - 1][s], <<offer(walk[i])>>)
                                     ELSE after[i - 1][s]]
        IN  inbox' = after[Len(walk)]
  BY DEF FlushOffers
<1> DEFINE next(q, p) == [s \in Shards |-> IF s = seats[p].pid % NShards
                                           THEN Accepted(q[s], <<offer(p)>>) ELSE q[s]]
           after[i \in Nat] == IF i = 0 THEN inbox ELSE next(after[i - 1], walk[i])
<1>3. inbox' = after[Len(walk)]
  <2> HIDE DEF offer
  <2> QED
    BY <1>2
<1>4. after = [i \in Nat |-> IF i = 0 THEN inbox ELSE next(after[i - 1], walk[i])]
  <2> HIDE DEF next
  <2> QED
    OBVIOUS
<1> HIDE DEF after, next, offer
<1>5. after[0] = inbox /\ \A i \in Nat : after[i + 1] = next(after[i], walk[i + 1])
  <2>1. ASSUME NEW i \in Nat PROVE after[i + 1] = next(after[i], walk[i + 1])
    <3>1. i + 1 \in Nat /\ i + 1 # 0 /\ (i + 1) - 1 = i
      OBVIOUS
    <3> QED
      BY <1>4, <3>1
  <2> QED
    BY <1>4, <2>1
<1>6. Len(walk) \in Nat /\ \A i \in 1 .. Len(walk) : walk[i] \in Due
  <2>1. IsFiniteSet(Due)
    <3>1. Due \in SUBSET Participants /\ IsFiniteSet(Participants)
      BY <1>0, PlaneAssumption DEF Due, PlaneTypeOK
    <3> QED
      BY <3>1, FS_Subset
  <2>2. Cardinality(Due) \in Nat
    BY <2>1, FS_CardinalityType
  <2> QED
    BY <2>2 DEF Walks
<1> DEFINE Fine(s, q) == IsQueue(q) /\ (Len(q) = ShardCap \/ \E k : Flushed(s, k, q))
           S == {i \in Nat : i <= Len(walk) => \A s \in Shards : Fine(s, after[i][s])}
<1>7. 0 \in S
  <2>1. ASSUME NEW s \in Shards PROVE Fine(s, after[0][s])
    <3>1. IsQueue(inbox[s]) /\ after[0][s] = inbox[s]
      BY <1>0, <1>5 DEF PlaneTypeOK
    <3>2. IsQueue(<<>>) /\ DOMAIN <<>> = {} /\ inbox[s] \o <<>> = inbox[s]
      BY <3>1, ShortQueues, ShortJoins
    <3>3. Flushed(s, <<>>, inbox[s])
      BY <3>2 DEF Flushed
    <3> QED
      BY <3>1, <3>3
  <2> QED
    BY <2>1
<1>8. ASSUME NEW i \in S PROVE i + 1 \in S
  <2>1. i \in Nat /\ i + 1 \in Nat
    OBVIOUS
  <2> SUFFICES ASSUME i + 1 <= Len(walk), NEW s \in Shards PROVE Fine(s, after[i + 1][s])
    BY <2>1
  <2>2. Fine(s, after[i][s]) /\ walk[i + 1] \in Due
    BY <1>6, <2>1
  <2>3. after[i + 1][s] = IF s = seats[walk[i + 1]].pid % NShards
                          THEN Accepted(after[i][s], <<offer(walk[i + 1])>>) ELSE after[i][s]
    BY <1>5, <2>1 DEF next
  <2>4. CASE s # seats[walk[i + 1]].pid % NShards
    BY <2>2, <2>3, <2>4
  <2>5. CASE s = seats[walk[i + 1]].pid % NShards
    <3> DEFINE m == offer(walk[i + 1])
               q == after[i][s]
    <3>1. QuietNews(s, m) /\ m.t = "OfferSub" /\ after[i + 1][s] = Accepted(q, <<m>>)
      BY <1>1, <2>2, <2>3, <2>5
    <3>2. IsQueue(inbox[s]) /\ IsQueue(<<m>>) /\ IsQueue(q) /\ (Len(q) = ShardCap \/ \E k : Flushed(s, k, q))
      BY <1>0, <2>2, ShortQueues DEF PlaneTypeOK
    <3> HIDE DEF m, q
    <3>3. IsQueue(Accepted(q, <<m>>)) /\ (Len(q) = ShardCap => Len(Accepted(q, <<m>>)) = ShardCap)
      BY <3>2, AcceptedOrFull
    <3>4. ASSUME NEW k, Flushed(s, k, q)
          PROVE  Len(Accepted(q, <<m>>)) = ShardCap \/ \E w : Flushed(s, w, Accepted(q, <<m>>))
      BY <3>1, <3>2, <3>4, OneOffer
    <3> QED
      BY <3>1, <3>2, <3>3, <3>4
  <2> QED
    BY <2>4, <2>5
<1>9. S = Nat
  <2> HIDE DEF S
  <2>1. S \in SUBSET Nat
    BY DEF S
  <2> QED
    BY <1>7, <1>8, <2>1, SetInduction
<1>10. \A s \in Shards : Fine(s, inbox'[s])
  BY <1>3, <1>6, <1>9
<1>11. ASSUME NEW s \in Shards PROVE \E k : Flushed(s, k, inbox'[s])
  <2>1. Len(inbox'[s]) < ShardCap /\ ShardCap \in Nat
    BY ShardAssumption DEF QueuesHaveRoom
  <2> QED
    BY <1>10, <2>1
<1> DEFINE k == [s \in Shards |-> CHOOSE w : Flushed(s, w, inbox'[s])]
<1>12. ASSUME NEW s \in Shards PROVE Flushed(s, k[s], inbox'[s]) /\ IsQueue(inbox[s])
  BY <1>0, <1>11 DEF PlaneTypeOK
<1> HIDE DEF k
<1>13. ASSUME NEW s \in Shards
       PROVE  /\ inbox'[s] = inbox[s] \o k[s] /\ Joint(inbox[s], k[s], inbox'[s])
              /\ \A i \in DOMAIN k[s] : /\ QuietNews(s, k[s][i]) /\ k[s][i].t # "WantsAll"
                                         /\ k[s][i].t # "ActiveSpeakers"
  BY <1>12, JointIs DEF Flushed
<1>14. DOMAIN inbox' = Shards
  <2>1. CASE Len(walk) = 0
    BY <1>0, <1>3, <1>5, <2>1 DEF PlaneTypeOK
  <2>2. CASE Len(walk) # 0
    <3>1. Len(walk) - 1 \in Nat /\ (Len(walk) - 1) + 1 = Len(walk)
      BY <1>6, <2>2
    <3> QED
      BY <1>3, <1>5, <3>1 DEF next
  <2> QED
    BY <2>1, <2>2
<1>15. UNCHANGED <<roomId, nextRoomId, nextPid, seats, shard>>
  BY DEF FlushOffers, tableVars
<1>16. Silent(k) /\ NoLists(k)
  BY <1>13, <1>14, <1>15 DEF Silent, NoLists
<1> QED
  BY <1>16

-----------------------------------------------------------------------------
(* Lists of speakers *)

\* How many of names are louder than p, and how many names a list has.
Louder(p, names) == {q \in names : Loudness[q] > Loudness[p]}
Rank(p, names) == Cardinality(Louder(p, names))
Shown(names) == Min({TopN, Cardinality(names)})

\* Every rank up to the number of names is just one's.
LEMMA LoudestRanks ==
  ASSUME NEW names \in SUBSET Participants
  PROVE  /\ IsFiniteSet(names) /\ Cardinality(names) \in Nat
         /\ \A p \in names : Rank(p, names) \in 0 .. (Cardinality(names) - 1)
         /\ \A p, q \in names : Rank(p, names) = Rank(q, names) => p = q
         /\ \A i \in 0 .. (Cardinality(names) - 1) : \E p \in names : Rank(p, names) = i
         /\ Shown(names) \in {TopN, Cardinality(names)} /\ Shown(names) \in Nat
         /\ Shown(names) <= TopN /\ Shown(names) <= Cardinality(names)
         /\ Loudest(names) = [i \in 1 .. Shown(names) |-> CHOOSE p \in names : Rank(p, names) = i - 1]
<1> DEFINE louder(p) == Louder(p, names)
           rank(p) == Rank(p, names)
           n == Cardinality(names)
           T == 0 .. (n - 1)
           f == [p \in names |-> rank(p)]
<1>1. IsFiniteSet(names) /\ n \in Nat
  BY PlaneAssumption, FS_Subset, FS_CardinalityType
<1>2. IsFiniteSet(T) /\ Cardinality(T) = n
  <2>1. 0 \in Int /\ n - 1 \in Int
    BY <1>1
  <2> HIDE DEF n
  <2>2. IsFiniteSet(0 .. (n - 1)) /\ Cardinality(0 .. (n - 1)) = IF 0 > n - 1 THEN 0 ELSE (n - 1) - 0 + 1
    BY <2>1, FS_Interval
  <2> QED
    BY <1>1, <2>2
<1>3. \A p \in names : Loudness[p] \in Int
  BY SpeakersAssumption
<1>4. \A p \in names : IsFiniteSet(louder(p)) /\ rank(p) \in Nat /\ rank(p) = Cardinality(louder(p))
  <2>1. \A p \in names : louder(p) \in SUBSET names /\ rank(p) = Cardinality(louder(p))
    BY DEF Louder, Rank
  <2> HIDE DEF louder, rank
  <2> QED
    BY <1>1, <2>1, FS_Subset, FS_CardinalityType
<1>5. ASSUME NEW p \in names PROVE rank(p) \in T
  <2>1. louder(p) \in SUBSET (names \ {p})
    BY <1>3 DEF Louder
  <2>2. IsFiniteSet(names \ {p}) /\ Cardinality(names \ {p}) = n - 1
    BY <1>1, FS_RemoveElement
  <2> HIDE DEF louder, n, rank
  <2>3. Cardinality(louder(p)) <= n - 1
    BY <2>1, <2>2, FS_Subset
  <2> QED
    BY <1>1, <1>4, <2>3
<1>6. ASSUME NEW p \in names, NEW q \in names, rank(p) = rank(q), p # q PROVE FALSE
  <2>1. ASSUME NEW a \in names, NEW b \in names, Loudness[a] > Loudness[b], rank(a) = rank(b)
        PROVE  FALSE
    <3>1. louder(a) \in SUBSET louder(b) /\ a \in louder(b) /\ a \notin louder(a)
      BY <1>3, <2>1 DEF Louder
    <3>2. IsFiniteSet(louder(b)) /\ Cardinality(louder(b)) = Cardinality(louder(a))
      BY <1>4, <2>1
    <3> HIDE DEF louder, rank
    <3>3. louder(b) = louder(a)
      BY <3>1, <3>2, FS_Subset
    <3> QED
      BY <3>1, <3>3
  <2>2. Loudness[p] # Loudness[q]
    BY <1>6, SpeakersAssumption
  <2>3. Loudness[p] > Loudness[q] \/ Loudness[q] > Loudness[p]
    BY <1>3, <2>2
  <2> QED
    BY <1>6, <2>1, <2>3
<1>7. f \in Injection(names, T)
  <2>1. f \in [names -> T]
    BY <1>5
  <2>2. \A a, b \in DOMAIN f : f[a] = f[b] => a = b
    BY <1>6
  <2> HIDE DEF f
  <2> QED
    BY <2>1, <2>2 DEF Injection, IsInjective
<1>8. \A i \in T : \E p \in names : rank(p) = i
  <2> HIDE DEF T, rank
  <2>1. f \in Surjection(names, T)
    <3> HIDE DEF f
    <3> QED
      BY <1>1, <1>2, <1>7, FS_Injection
  <2> QED
    BY <2>1 DEF Surjection
<1> DEFINE top == Shown(names)
<1>9. top \in {TopN, n} /\ top \in Nat /\ top <= n /\ top <= TopN
  <2>1. TopN \in Nat /\ n \in Nat
    BY <1>1, SpeakersAssumption
  <2>4. top = Min({TopN, n})
    BY DEF Shown
  <2> HIDE DEF n
  <2>2. \E x \in {TopN, n} : \A y \in {TopN, n} : x =< y
    BY <2>1
  <2>3. top \in {TopN, n} /\ \A y \in {TopN, n} : top =< y
    BY <2>2, <2>4 DEF Min
  <2> QED
    BY <2>1, <2>3
<1>10. Loudest(names) = [i \in 1 .. top |-> CHOOSE p \in names : rank(p) = i - 1]
  BY DEF Loudest, Louder, Rank, Shown
<1> QED
  BY <1>1, <1>5, <1>6, <1>8, <1>9, <1>10

\* A list names only whom it is made of.
LEMMA LoudestNames ==
  ASSUME NEW names \in SUBSET Participants
  PROVE  Range(Loudest(names)) \subseteq names
<1> DEFINE n == Cardinality(names)
           top == Shown(names)
<1>1. /\ \A i \in 0 .. (n - 1) : \E p \in names : Rank(p, names) = i
      /\ n \in Nat /\ top \in Nat /\ top <= n
      /\ Loudest(names) = [i \in 1 .. top |-> CHOOSE p \in names : Rank(p, names) = i - 1]
  BY LoudestRanks
<1> HIDE DEF n, top
<1>2. ASSUME NEW i \in 1 .. top PROVE (CHOOSE p \in names : Rank(p, names) = i - 1) \in names
  <2>1. i - 1 \in 0 .. (n - 1)
    BY <1>1
  <2> QED
    BY <1>1, <2>1
<1> QED
  BY <1>1, <1>2 DEF Range

LEMMA SetAsQueue ==
  ASSUME NEW S, IsFiniteSet(S)
  PROVE  /\ IsQueue(SetToSeq(S)) /\ \A i \in DOMAIN SetToSeq(S) : SetToSeq(S)[i] \in S
         /\ \A x \in S : \E i \in DOMAIN SetToSeq(S) : SetToSeq(S)[i] = x
<1>1. Cardinality(S) \in Nat /\ \E f \in [1 .. Cardinality(S) -> S] : IsInjective(f)
  BY FS_CardinalityType DEF ExistsBijection, Bijection, Injection
<1>2. SetToSeq(S) \in [1 .. Cardinality(S) -> S] /\ IsInjective(SetToSeq(S))
  BY <1>1 DEF SetToSeq
<1> DEFINE f == SetToSeq(S)
           n == Cardinality(S)
<1>3. f \in [1 .. n -> S] /\ n \in Nat /\ f \in Injection(1 .. n, S)
  BY <1>1, <1>2 DEF Injection
<1>6. IsFiniteSet(1 .. n) /\ Cardinality(1 .. n) = n
  <2>1. n \in Nat
    BY <1>1
  <2> HIDE DEF n
  <2>2. IsFiniteSet(1 .. n) /\ Cardinality(1 .. n) = IF 1 > n THEN 0 ELSE n - 1 + 1
    BY <2>1, FS_Interval
  <2> QED
    BY <2>1, <2>2
<1>7. f \in Surjection(1 .. n, S)
  <2> HIDE DEF f
  <2> QED
    BY <1>3, <1>6, FS_Injection
<1> HIDE DEF f, n
<1>4. f \in [1 .. n -> Range(f)] /\ \A i \in DOMAIN f : f[i] \in S
  BY <1>3 DEF Range
<1>5. f \in Seq(Range(f))
  BY <1>3, <1>4
<1>8. \A x \in S : \E i \in DOMAIN f : f[i] = x
  BY <1>3, <1>7 DEF Surjection
<1> QED
  BY <1>4, <1>5, <1>8 DEF IsQueue, f

LEMMA LiveRoomsAreFew == ASSUME PlaneTypeOK PROVE IsFiniteSet(LiveRooms)
<1> DEFINE T == {roomId[r] : r \in RoomIds}
<1>1. roomId \in [RoomIds -> T] /\ \A t \in T : \E r \in RoomIds : roomId[r] = t
  BY DEF PlaneTypeOK
<1>2. roomId \in Surjection(RoomIds, T)
  <2> HIDE DEF T
  <2> QED
    BY <1>1 DEF Surjection
<1>3. IsFiniteSet(T)
  <2> HIDE DEF T
  <2> QED
    BY <1>2, PlaneAssumption, FS_Surjection
<1>4. LiveRooms \in SUBSET T
  BY DEF LiveRooms
<1> HIDE DEF T
<1> QED
  BY <1>3, <1>4, FS_Subset

\* The reports of the rooms there are, the rooms whose list is to go out, and
\* the lists as messages.
MergedTable == Restrict(Latest, DOMAIN Latest \cap LiveRooms)
ListsDue(elapsed) ==
  {id \in LiveRooms : IF id \in DOMAIN sent THEN elapsed \/ sent[id] # Merged(MergedTable, id)
                      ELSE Merged(MergedTable, id) # <<>>}
ListOf(id) == [t |-> "ActiveSpeakers", room |-> id, top |-> Merged(MergedTable, id)]
Lists(q, elapsed) ==
  /\ \A i \in DOMAIN q : \E id \in ListsDue(elapsed) : q[i] = ListOf(id)
  /\ \A id \in ListsDue(elapsed) : \E i \in DOMAIN q : q[i] = ListOf(id)

\* A merge sends every shard the lists that are due.
LEMMA MergeSends ==
  ASSUME SpeakersInv, QueuesHaveRoom', NEW elapsed, Merge(elapsed), UNCHANGED <<tableVars, shard>>
  PROVE  \E k : Silent(k) /\ \A s \in Shards : Lists(k[s], elapsed)
<1>0. PlaneTypeOK
  BY DEF SpeakersInv
<1> DEFINE known == Restrict(sent, DOMAIN sent \cap LiveRooms)
           due == {id \in LiveRooms : IF id \in DOMAIN known
                                      THEN elapsed \/ known[id] # Merged(MergedTable, id)
                                      ELSE Merged(MergedTable, id) # <<>>}
           lists == {ListOf(id) : id \in ListsDue(elapsed)}
           news == SetToSeq(lists)
           k == [s \in Shards |-> news]
<1>11. due = ListsDue(elapsed)
  <2>1. \A id \in LiveRooms : (id \in DOMAIN known <=> id \in DOMAIN sent) /\ (id \in DOMAIN known => known[id] = sent[id])
    BY DEF Restrict
  <2> HIDE DEF known
  <2> QED
    BY <2>1 DEF ListsDue
<1>12. Broadcast(SetToSeq({ListOf(id) : id \in due}))
  BY DEF Merge, MergedTable, ListOf
<1>1. Broadcast(news)
  BY <1>11, <1>12
<1> HIDE DEF known, due
<1>2. ListsDue(elapsed) \in SUBSET LiveRooms /\ IsFiniteSet(LiveRooms)
  <2>1. ListsDue(elapsed) \in SUBSET LiveRooms
    BY DEF ListsDue
  <2> QED
    BY <1>0, <2>1, LiveRoomsAreFew
<1>3. IsFiniteSet(ListsDue(elapsed))
  BY <1>2, FS_Subset
<1>4. ASSUME NEW id \in ListsDue(elapsed), NEW s \in Shards
      PROVE  QuietNews(s, ListOf(id)) /\ ListOf(id).t # "WantsAll"
  <2> DEFINE top == Merged(MergedTable, id)
             names == MembersOf(id) \cap UNION {Range(At(MergedTable, id, Nothing)[x]) :
                                                  x \in DOMAIN At(MergedTable, id, Nothing)}
  <2>1. id \in LiveRooms /\ id \in Nat
    BY <1>0, <1>2 DEF LiveRooms, PlaneTypeOK
  <2>2. Range(top) \subseteq MembersOf(id)
    <3>1. names \in SUBSET Participants /\ names \subseteq MembersOf(id) /\ top = Loudest(names)
      BY <1>0 DEF MembersOf, PlaneTypeOK, Merged
    <3> HIDE DEF names, top
    <3> QED
      BY <3>1, LoudestNames
  <2>3. ListOf(id) = [t |-> "ActiveSpeakers", room |-> id, top |-> top]
    BY DEF ListOf
  <2> HIDE DEF top
  <2> QED
    BY <2>1, <2>2, <2>3 DEF QuietNews, IsControl, ControlTypes, NamedTypes
<1>5. IsFiniteSet(lists)
  <2> DEFINE f == [id \in ListsDue(elapsed) |-> ListOf(id)]
  <2>1. f \in [ListsDue(elapsed) -> lists] /\ \A x \in lists : \E id \in ListsDue(elapsed) : f[id] = x
    OBVIOUS
  <2> HIDE DEF f, lists
  <2>2. f \in Surjection(ListsDue(elapsed), lists)
    BY <2>1 DEF Surjection
  <2> QED
    BY <1>3, <2>2, FS_Surjection
<1>6. /\ IsQueue(news) /\ \A i \in DOMAIN news : news[i] \in lists
      /\ \A x \in lists : \E i \in DOMAIN news : news[i] = x
  <2> HIDE DEF lists
  <2> QED
    BY <1>5, SetAsQueue
<1>13. Lists(news, elapsed)
  <2> HIDE DEF news
  <2>1. \A i \in DOMAIN news : \E id \in ListsDue(elapsed) : news[i] = ListOf(id)
    BY <1>6
  <2>2. \A id \in ListsDue(elapsed) : ListOf(id) \in lists
    OBVIOUS
  <2> HIDE DEF lists
  <2> QED
    BY <1>6, <2>1, <2>2 DEF Lists
<1> HIDE DEF news, lists
<1>7. \A s \in Shards : \A i \in DOMAIN news : QuietNews(s, news[i]) /\ news[i].t # "WantsAll"
  <2> SUFFICES ASSUME NEW s \in Shards, NEW i \in DOMAIN news
               PROVE  QuietNews(s, news[i]) /\ news[i].t # "WantsAll"
    OBVIOUS
  <2>1. PICK id \in ListsDue(elapsed) : news[i] = ListOf(id)
    BY <1>13 DEF Lists
  <2> QED
    BY <1>4, <2>1
<1>8. /\ DOMAIN inbox' = Shards
      /\ \A s \in Shards : inbox'[s] = inbox[s] \o news /\ Joint(inbox[s], news, inbox'[s])
  BY <1>0, <1>1, <1>6, BroadcastIs
<1>9. \A s \in Shards : k[s] = news
  OBVIOUS
<1> HIDE DEF k
<1>10. Silent(k)
  BY <1>7, <1>8, <1>9 DEF Silent, tableVars
<1> QED
  BY <1>9, <1>10, <1>13

LEMMA MergeIsSilent ==
  ASSUME SpeakersInv, QueuesHaveRoom', NEW elapsed, Merge(elapsed), UNCHANGED <<tableVars, shard>>
  PROVE  \E k : Silent(k)
BY MergeSends

-----------------------------------------------------------------------------
(* The steps of the plane *)

\* What becomes of a shard that takes no control message.
SameTables(sh, new) ==
  /\ IsShard(new) /\ (ShardLocalsOK(sh) => ShardLocalsOK(new))
  /\ DOMAIN new.legs \subseteq DOMAIN sh.legs
  /\ DOMAIN new.rooms = DOMAIN sh.rooms
  /\ \A id \in DOMAIN sh.rooms :
       /\ new.rooms[id].pids = sh.rooms[id].pids /\ new.rooms[id].wants = sh.rooms[id].wants
       /\ new.rooms[id].maxPid = sh.rooms[id].maxPid
       /\ new.rooms[id].demand = sh.rooms[id].demand /\ new.rooms[id].fan = sh.rooms[id].fan
       /\ DOMAIN new.rooms[id].locals = DOMAIN sh.rooms[id].locals

SameControl ==
  /\ UNCHANGED <<routerVars, phase, room>>
  /\ DOMAIN shard' = Shards /\ \A s \in Shards : SameTables(shard[s], shard'[s])

LEMMA SameControlIs ==
  ASSUME SpeakersInv, SameControl
  PROVE  SpeakersInv'
<1>0. PlaneTypeOK /\ TablesInv /\ NewcomersAreNew /\ RoomsComeUp /\ SeatedAreKnown /\ QueuesInOrder
  BY DEF SpeakersInv
<1>1. UNCHANGED <<ctl, roomId, nextRoomId, nextPid, seats, dirty, offers, inbox, phase, room>>
  BY DEF SameControl, routerVars, tableVars
<1>2. ASSUME NEW s \in Shards, NEW id, NEW i
      PROVE  /\ Up(shard[s], inbox[s], id, i) => Up(shard'[s], inbox[s], id, i)
             /\ \A p : Known(shard[s], inbox[s], p, id, i) => Known(shard'[s], inbox[s], p, id, i)
  BY DEF SameControl, SameTables, Up, Known
<1>3. PlaneTypeOK'
  <2>1. DOMAIN shard' = Shards /\ \A s \in Shards : IsShard(shard'[s])
    BY DEF SameControl, SameTables
  <2> QED
    BY <1>0, <1>1, <2>1 DEF PlaneTypeOK
<1>4. TablesInv'
  BY <1>0, <1>1 DEF TablesInv
<1>5. NewcomersAreNew'
  BY <1>0, <1>1 DEF NewcomersAreNew, Newcomer
<1>6. RoomsComeUp'
  <2>1. LiveRooms' = LiveRooms
    BY <1>1 DEF LiveRooms
  <2> QED
    BY <1>0, <1>1, <1>2, <2>1 DEF RoomsComeUp
<1>7. SeatedAreKnown'
  BY <1>0, <1>1, <1>2 DEF SeatedAreKnown
<1>8. QueuesInOrder'
  <2>1. ASSUME NEW s \in Shards PROVE InOrder(shard'[s], inbox[s])
    <3>1. InOrder(shard[s], inbox[s])
      BY <1>0 DEF QueuesInOrder
    <3> QED
      BY <1>2, <3>1 DEF InOrder
  <2> QED
    BY <1>1, <2>1 DEF QueuesInOrder
<1> QED
  BY <1>3, <1>4, <1>5, <1>6, <1>7, <1>8 DEF SpeakersInv

LEMMA SameTablesSelf ==
  ASSUME PlaneTypeOK, shard' = shard
  PROVE  DOMAIN shard' = Shards /\ \A s \in Shards : SameTables(shard[s], shard'[s])
BY DEF PlaneTypeOK, SameTables

LEMMA LegsOnlySame ==
  ASSUME NEW sh, IsShard(sh), NEW legs, DOMAIN legs \subseteq DOMAIN sh.legs
  PROVE  SameTables(sh, [sh EXCEPT !.legs = legs])
<1> DEFINE new == [sh EXCEPT !.legs = legs]
<1>1. DOMAIN legs \subseteq Participants \X {"pub", "sub"}
  BY DEF IsShard
<1>2. IsShard(new) /\ new.legs = legs /\ new.rooms = sh.rooms
  BY <1>1, LegsChange
<1> HIDE DEF new
<1>3. SameTables(sh, new)
  BY <1>2 DEF SameTables, ShardLocalsOK
<1> QED
  BY <1>3 DEF new

\* A leg that is there is there somewhere.
LEMMA HomeIsShard ==
  ASSUME NEW p, NEW leg, LegState(p, leg) # "none"
  PROVE  HomeOf(p, leg) \in Shards /\ <<p, leg>> \in DOMAIN shard[HomeOf(p, leg)].legs
BY DEF LegState, HomeOf

LEMMA ConnectsSame ==
  ASSUME PlaneTypeOK, NEW p, NEW leg, Connects(p, leg)
  PROVE  SameControl
<1> DEFINE s == HomeOf(p, leg)
           sh == shard[s]
           legs == [sh.legs EXCEPT ![<<p, leg>>] = "up"]
<1>1. s \in Shards /\ IsShard(sh) /\ DOMAIN shard = Shards
  BY HomeIsShard DEF Connects, PlaneTypeOK
<1>2. shard' = [shard EXCEPT ![s].legs[<<p, leg>>] = "up"] /\ UNCHANGED <<routerVars, phase, room>>
  BY DEF Connects
<1> HIDE DEF s
<1>3. shard' = [shard EXCEPT ![s] = [sh EXCEPT !.legs = legs]]
  BY <1>1, <1>2 DEF IsShard
<1>4. SameTables(sh, [sh EXCEPT !.legs = legs])
  <2>1. DOMAIN legs \subseteq DOMAIN sh.legs
    OBVIOUS
  <2> HIDE DEF sh, legs
  <2> QED
    BY <1>1, <2>1, LegsOnlySame
<1>5. \A x \in Shards : SameTables(shard[x], shard[x])
  BY DEF PlaneTypeOK, SameTables
<1> HIDE DEF legs
<1> QED
  BY <1>1, <1>2, <1>3, <1>4, <1>5 DEF SameControl

LEMMA DropsSame ==
  ASSUME PlaneTypeOK, NEW p, NEW leg, Drops(p, leg)
  PROVE  SameControl
<1> DEFINE s == HomeOf(p, leg)
           sh == shard[s]
           legs == Without(sh.legs, {<<p, leg>>})
<1>1. s \in Shards /\ IsShard(sh) /\ DOMAIN shard = Shards
  BY HomeIsShard DEF Drops, IsUp, PlaneTypeOK
<1>2. shard' = [shard EXCEPT ![s].legs = Without(@, {<<p, leg>>})] /\ UNCHANGED <<routerVars, phase, room>>
  BY DEF Drops
<1> HIDE DEF s
<1>3. shard' = [shard EXCEPT ![s] = [sh EXCEPT !.legs = legs]]
  BY <1>1, <1>2 DEF IsShard
<1>4. SameTables(sh, [sh EXCEPT !.legs = legs])
  <2>1. DOMAIN legs \subseteq DOMAIN sh.legs
    BY DEF Without, Restrict
  <2> HIDE DEF sh, legs
  <2> QED
    BY <1>1, <2>1, LegsOnlySame
<1>5. \A x \in Shards : SameTables(shard[x], shard[x])
  BY DEF PlaneTypeOK, SameTables
<1> HIDE DEF legs
<1> QED
  BY <1>1, <1>2, <1>3, <1>4, <1>5 DEF SameControl

\* The line a packet is taken for is of a kind there is.
LEMMA TagHasKind ==
  ASSUME NEW x, IsLocal(x), NEW line \in Lines, NEW named, NEW tag \in Tag(x, line, named)
  PROVE  LineKind[tag] \in Kinds
<1>1. LineKind[line] \in Kinds
  BY ShardAssumption
<1> QED
  BY <1>1 DEF Tag, IsLocal

LEMMA KindsLearned ==
  ASSUME NEW x, IsLocal(x), NEW line \in Lines, NEW named, NEW tag \in Tag(x, line, named)
  PROVE  IsLocal(Learned(x, line, tag))
<1>1. LineKind[tag] \in Kinds
  BY TagHasKind
<1> DEFINE ssrcs == With(x.ssrcs, line, tag)
<1>2. \A y \in DOMAIN ssrcs : ssrcs[y] = tag \/ (y \in DOMAIN x.ssrcs /\ ssrcs[y] = x.ssrcs[y])
  BY DEF With
<1>3. Learned(x, line, tag) = x \/ Learned(x, line, tag) = [lines |-> x.lines, ssrcs |-> ssrcs]
  BY DEF Learned, IsLocal
<1> HIDE DEF ssrcs
<1> QED
  BY <1>1, <1>2, <1>3 DEF IsLocal

LEMMA MediaSame ==
  ASSUME PlaneTypeOK, NEW p, NEW line \in Lines, NEW named, Media(p, line, named)
  PROVE  SameControl
<1> DEFINE s == HomeOf(p, "pub")
           sh == shard[s]
           id == IdAt(s, p)
           old == sh.rooms[id]
<1>1. s \in Shards /\ IsShard(sh) /\ DOMAIN shard = Shards
  BY HomeIsShard DEF Media, IsUp, PlaneTypeOK
<1>2. PICK tag \in Tag(MemberAt(s, p), line, named) :
        shard' = [shard EXCEPT ![s].rooms[id].locals[p] = Learned(@, line, tag)]
  BY DEF Media
<1>3. id \in DOMAIN sh.rooms /\ p \in DOMAIN old.locals /\ UNCHANGED <<routerVars, phase, room>>
  BY DEF Media, Remembered
<1> DEFINE locals == [old.locals EXCEPT ![p] = Learned(@, line, tag)]
           x == [old EXCEPT !.locals = locals]
           new == [sh EXCEPT !.rooms[id] = x]
<1>4. shard' = [shard EXCEPT ![s] = new]
  <2> HIDE DEF s, id
  <2>1. IsRoom(old)
    BY <1>1, <1>3 DEF IsShard
  <2> QED
    BY <1>1, <1>2, <1>3, <2>1 DEF IsShard, IsRoom
<1>7. LocalsOK(old) => LocalsOK(x)
  <2>1. MemberAt(s, p) = old.locals[p]
    BY DEF MemberAt
  <2> HIDE DEF s, sh, id
  <2>2. IsRoom(old)
    BY <1>1, <1>3 DEF IsShard
  <2> SUFFICES ASSUME LocalsOK(old) PROVE LocalsOK(x)
    OBVIOUS
  <2>3. IsLocal(old.locals[p])
    BY <1>3 DEF LocalsOK
  <2>4. IsLocal(Learned(old.locals[p], line, tag))
    BY <2>1, <2>3, KindsLearned
  <2>5. x.locals = locals /\ \A q \in DOMAIN locals :
          q \in DOMAIN old.locals /\ (locals[q] = old.locals[q] \/ locals[q] = Learned(old.locals[p], line, tag))
    BY <2>2 DEF IsRoom
  <2> HIDE DEF locals, x, old
  <2> QED
    BY <2>4, <2>5 DEF LocalsOK
<1>5. SameTables(sh, new)
  <2> HIDE DEF s, sh, id
  <2>1. IsRoom(old) /\ DOMAIN locals = DOMAIN old.locals
    BY <1>1, <1>3 DEF IsShard
  <2> HIDE DEF locals, old
  <2>2. /\ IsRoom(x) /\ x.pids = old.pids /\ x.wants = old.wants /\ x.maxPid = old.maxPid
        /\ x.demand = old.demand /\ x.fan = old.fan /\ x.locals = locals
    BY <2>1 DEF IsRoom
  <2> HIDE DEF x
  <2>3. IsShard(new) /\ new.legs = sh.legs /\ new.rooms = [sh.rooms EXCEPT ![id] = x]
    BY <1>1, <1>3, <2>2, InRoomIs
  <2> HIDE DEF new
  <2> QED
    BY <1>3, <1>7, <2>1, <2>2, <2>3 DEF SameTables, ShardLocalsOK, old
<1>6. \A y \in Shards : SameTables(shard[y], shard[y])
  BY DEF PlaneTypeOK, SameTables
<1> HIDE DEF new, s
<1> QED
  BY <1>1, <1>3, <1>4, <1>5, <1>6 DEF SameControl

LEMMA BrowsersSame == ASSUME PlaneTypeOK, Browsers PROVE SameControl
<1>1. ASSUME NEW p, SenderReport(p) \/ Speaks(p) PROVE SameControl
  BY <1>1, SameTablesSelf DEF SenderReport, Speaks, SameControl
<1>2. ASSUME NEW p, NEW q, NEW line, Feedback(p, q, line) PROVE SameControl
  BY <1>2, SameTablesSelf DEF Feedback, SameControl
<1> QED
  BY <1>1, <1>2, ConnectsSame, DropsSame, MediaSame DEF Browsers

LEMMA ForwardedSame ==
  ASSUME PlaneTypeOK, NEW s, OnForwarded(s) \/ Reports(s)
  PROVE  SameControl
BY SameTablesSelf DEF OnForwarded, Reports, SameControl, shardVars

LEMMA SendsLater == ASSUME SpeakersInv, Sends PROVE LaterEvents
<1>0. PlaneTypeOK
  BY DEF SpeakersInv
<1> SUFFICES /\ IsQueue(ctl')
             /\ \A i \in DOMAIN ctl' : IsEvent(ctl'[i]) /\ (ctl'[i].t = "Joined" => i = 1)
                                       /\ phase'[ctl'[i].p] # "new"
             /\ \A i \in DOMAIN ctl' : ctl'[i].t = "Joined" => phase[ctl'[i].p] = "new"
             /\ \A p \in Participants : phase'[p] = "new" => phase[p] = "new"
             /\ phase' \in [Participants -> {"new", "up", "gone"}]
             /\ \A p \in Participants : phase'[p] # "new" => room'[p] \in RoomIds
             /\ room' \in [Participants -> RoomIds \cup {NoRoom}]
  BY DEF LaterEvents, Newcomer
<1>1. ctl = <<>>
  BY DEF Sends
<1>2. PICK p \in Participants :
        \/ \E r \in RoomIds : Feed!Announce(p, r)
        \/ Feed!Negotiate(p) \/ Feed!Publish(p) \/ Feed!Want(p) \/ Feed!Depart(p)
  BY DEF Sends
<1>3. /\ phase \in [Participants -> {"new", "up", "gone"}]
      /\ \A q \in Participants : phase[q] # "new" => room[q] \in RoomIds
      /\ room \in [Participants -> RoomIds \cup {NoRoom}]
  BY <1>0 DEF PlaneTypeOK
<1>4. ASSUME NEW a, ctl' = ctl \o <<a>>
      PROVE  IsQueue(ctl') /\ DOMAIN ctl' = {1} /\ ctl'[1] = a
  <2>1. ctl' = <<a>>
    BY <1>1, <1>4, ShortQueues, ShortJoins
  <2> QED
    BY <2>1, ShortQueues
<1>5. ASSUME NEW a, NEW b, ctl' = ctl \o <<a, b>>
      PROVE  IsQueue(ctl') /\ DOMAIN ctl' = {1, 2} /\ ctl'[1] = a /\ ctl'[2] = b
  <2>1. ctl' = <<a, b>>
    BY <1>1, <1>5, ShortJoins
  <2> QED
    BY <2>1, ShortQueues
<1>6. CASE \E r \in RoomIds : Feed!Announce(p, r)
  <2>1. PICK r \in RoomIds : Feed!Announce(p, r)
    BY <1>6
  <2> DEFINE j == [t |-> "Joined", r |-> r, p |-> p]
             o == [t |-> "PublisherOffer", r |-> r, p |-> p]
  <2>2. /\ phase[p] = "new" /\ phase' = [phase EXCEPT ![p] = "up"] /\ room' = [room EXCEPT ![p] = r]
        /\ ctl' = ctl \o <<j>> \/ ctl' = ctl \o <<j, o>>
    BY <2>1 DEF Feed!Announce, Feed!Send, Feed!Offer
  <2>3. j.t = "Joined" /\ o.t = "PublisherOffer" /\ IsEvent(j) /\ IsEvent(o) /\ j.p = p /\ o.p = p
    BY DEF IsEvent
  <2> HIDE DEF j, o
  <2>4. IsQueue(ctl') /\ DOMAIN ctl' \subseteq {1, 2} /\ ctl'[1] = j /\ (2 \in DOMAIN ctl' => ctl'[2] = o)
    BY <1>4, <1>5, <2>2
  <2> QED
    BY <1>3, <2>2, <2>3, <2>4
<1>7. CASE Feed!Negotiate(p) \/ Feed!Publish(p) \/ Feed!Want(p)
  <2>1. /\ phase[p] = "up" /\ UNCHANGED <<phase, room>>
        /\ \E a : /\ ctl' = ctl \o <<a>> /\ a.t # "Joined" /\ a.r = room[p] /\ a.p = p
    <3>1. CASE Feed!Negotiate(p)
      <4>1. PICK type \in {"PublisherOffer", "SubscriberAnswer"} :
              ctl' = ctl \o <<[t |-> type, r |-> room[p], p |-> p]>>
        BY <3>1 DEF Feed!Negotiate, Feed!Send
      <4> DEFINE a == [t |-> type, r |-> room[p], p |-> p]
      <4>2. ctl' = ctl \o <<a>> /\ a.t # "Joined" /\ a.r = room[p] /\ a.p = p
        BY <4>1
      <4> HIDE DEF a
      <4> QED
        BY <3>1, <4>2 DEF Feed!Negotiate
    <3>2. CASE Feed!Publish(p)
      <4>1. PICK ids : ctl' = ctl \o <<[t |-> "TracksPublished", r |-> room[p], p |-> p, ids |-> ids]>>
        BY <3>2 DEF Feed!Publish, Feed!Send
      <4> DEFINE a == [t |-> "TracksPublished", r |-> room[p], p |-> p, ids |-> ids]
      <4>2. ctl' = ctl \o <<a>> /\ a.t # "Joined" /\ a.r = room[p] /\ a.p = p
        BY <4>1
      <4> HIDE DEF a
      <4> QED
        BY <3>2, <4>2 DEF Feed!Publish
    <3>3. CASE Feed!Want(p)
      <4>1. PICK refs :
              ctl' = ctl \o <<[t |-> "SubscriptionsChanged", r |-> room[p], p |-> p, refs |-> refs]>>
        BY <3>3 DEF Feed!Want, Feed!Send
      <4> DEFINE a == [t |-> "SubscriptionsChanged", r |-> room[p], p |-> p, refs |-> refs]
      <4>2. ctl' = ctl \o <<a>> /\ a.t # "Joined" /\ a.r = room[p] /\ a.p = p
        BY <4>1
      <4> HIDE DEF a
      <4> QED
        BY <3>3, <4>2 DEF Feed!Want
    <3> QED
      BY <1>7, <3>1, <3>2, <3>3
  <2>2. PICK a : ctl' = ctl \o <<a>> /\ a.t # "Joined" /\ a.r = room[p] /\ a.p = p
    BY <2>1
  <2>3. IsQueue(ctl') /\ DOMAIN ctl' = {1} /\ ctl'[1] = a
    BY <1>4, <2>2
  <2> QED
    BY <1>3, <2>1, <2>2, <2>3 DEF IsEvent
<1>8. CASE Feed!Depart(p)
  <2> DEFINE l == [t |-> "Left", r |-> room[p], p |-> p]
  <2>1. /\ phase[p] \in {"up", "gone"} /\ phase' = [phase EXCEPT ![p] = "gone"] /\ room' = room
        /\ ctl' = ctl \o <<l>> \/ ctl' = ctl \o <<l, l>>
    BY <1>8 DEF Feed!Depart, Feed!Send
  <2>2. l.t = "Left" /\ l.p = p /\ l.r = room[p]
    OBVIOUS
  <2> HIDE DEF l
  <2>3. IsQueue(ctl') /\ DOMAIN ctl' \subseteq {1, 2} /\ ctl'[1] = l /\ (2 \in DOMAIN ctl' => ctl'[2] = l)
    BY <1>4, <1>5, <2>1
  <2>4. IsEvent(l)
    BY <1>3, <2>1, <2>2 DEF IsEvent
  <2> QED
    BY <1>3, <2>1, <2>2, <2>3, <2>4
<1> QED
  BY <1>2, <1>6, <1>7, <1>8

LEMMA SilentSpeakers ==
  ASSUME SpeakersInv, LaterEvents, \E k : Silent(k)
  PROVE  SpeakersInv'
<1>1. PICK k : Silent(k)
  OBVIOUS
<1>2. Quiet(k)
  BY <1>1, SilentIsQuiet DEF SpeakersInv
<1> QED
  BY <1>2, QuietSpeakers

LEMMA SendsSilent == ASSUME SpeakersInv, Sends PROVE \E k : Silent(k)
<1>1. PlaneTypeOK /\ UNCHANGED <<roomId, nextRoomId, nextPid, seats, shard, inbox>>
  BY DEF SpeakersInv, Sends, tableVars, shardVars
<1> QED
  BY <1>1, UnchangedIsSilent

\* While the router does not touch the channel.
LEMMA SameLater ==
  ASSUME SpeakersInv, UNCHANGED <<ctl, phase, room>>
  PROVE  LaterEvents
BY DEF SpeakersInv, PlaneTypeOK, NewcomersAreNew, LaterEvents, Newcomer

LEMMA RoutesSpeakers ==
  ASSUME SpeakersInv, QueuesHaveRoom', Routes
  PROVE  SpeakersInv'
<1>1. UNCHANGED <<phase, room, shard>> /\ (RouterTakes \/ FlushOffers) /\ PlaneTypeOK
  BY DEF Routes, RouterNext, shardVars, SpeakersInv
<1>2. CASE RouterTakes
  <2>1. LaterEvents /\ \A p \in Participants : Newcomer(p)' => phase[p] = "new"
    BY <1>1, <1>2, TakenLater
  <2>2. ASSUME NEW r, Spreading(r) PROVE SpeakersInv'
    <3>1. Quiet([s \in Shards |-> <<WantsAll(roomId[r], seats', r)>>])
      BY <1>1, <2>2, SpreadingIsQuiet
    <3> QED
      BY <2>1, <3>1, QuietSpeakers
  <2>3. \/ Joining(ctl[1]) \/ Leaving(ctl[1])
        \/ \E r : Spreading(r)
        \/ \E k : Silent(k)
    BY <1>1, <1>2, EventsAre
  <2> QED
    BY <1>1, <2>1, <2>2, <2>3, JoiningSpeakers, LeavingSpeakers, SilentSpeakers
<1>3. CASE FlushOffers
  <2>1. UNCHANGED ctl
    BY <1>3 DEF FlushOffers
  <2> QED
    BY <1>1, <1>3, <2>1, FlushIsSilent, SilentSpeakers, SameLater
<1> QED
  BY <1>1, <1>2, <1>3

LEMMA MergesSpeakersIs ==
  ASSUME SpeakersInv, QueuesHaveRoom', MergesSpeakers
  PROVE  SpeakersInv'
<1>1. UNCHANGED <<ctl, tableVars, phase, room, shard>> /\ \E elapsed : Merge(elapsed)
  BY DEF MergesSpeakers, shardVars
<1>2. \E k : Silent(k)
  BY <1>1, MergeIsSilent
<1> QED
  BY <1>1, <1>2, SilentSpeakers, SameLater

LEMMA SpeakersNext ==
  ASSUME SpeakersInv, QueuesHaveRoom', [PlaneNext]_planeVars
  PROVE  SpeakersInv'
<1>0. PlaneTypeOK
  BY DEF SpeakersInv
<1>1. CASE Sends
  BY <1>1, SendsLater, SendsSilent, SilentSpeakers
<1>2. CASE Routes
  BY <1>2, RoutesSpeakers
<1>3. CASE MergesSpeakers
  BY <1>3, MergesSpeakersIs
<1>4. CASE ShardSteps
  BY <1>0, <1>4, TakingIs, TakingSpeakers, ForwardedSame, SameControlIs DEF ShardSteps
<1>5. CASE Browsers
  BY <1>0, <1>5, BrowsersSame, SameControlIs
<1>6. CASE UNCHANGED planeVars
  <2>1. UNCHANGED <<routerVars, phase, room, shard>>
    BY <1>6 DEF planeVars, shardVars
  <2>2. SameControl
    BY <1>0, <2>1, SameTablesSelf DEF SameControl
  <2> QED
    BY <2>2, SameControlIs
<1> QED
  BY <1>1, <1>2, <1>3, <1>4, <1>5, <1>6 DEF PlaneNext

\* The list of names and what is in front of it, in the words of the property.
LEMMA SpeakersInvPresent == SpeakersInv => SpeakersArePresent
<1> SUFFICES ASSUME SpeakersInv, NEW s \in Shards, NEW i \in DOMAIN inbox[s],
                    inbox[s][i].t = "ActiveSpeakers", NEW p \in Range(inbox[s][i].top)
             PROVE  LET before(t) == {inbox[s][j].name : j \in {k \in 1 .. (i - 1) : inbox[s][k].t = t}}
                        id == inbox[s][i].room
                        here == IF id \in DOMAIN shard[s].rooms
                                THEN DOMAIN shard[s].rooms[id].pids ELSE {}
                    IN  p \in (here \cup before("MemberUp")) \ before("MemberGone")
  BY DEF SpeakersArePresent
<1> DEFINE q == inbox[s]
           sh == shard[s]
<1>1. IsQueue(q) /\ DOMAIN q = 1 .. Len(q) /\ Len(q) \in Nat
  BY DEF SpeakersInv, PlaneTypeOK, IsQueue
<1>2. Known(sh, q, p, q[i].room, i) /\ ~GoneBefore(q, p, i)
  BY DEF SpeakersInv, QueuesInOrder, InOrder
<1>3. \A j \in DOMAIN q : j < i => j \in 1 .. (i - 1)
  BY <1>1
<1>4. \A j \in 1 .. (i - 1) : j \in DOMAIN q /\ j < i
  BY <1>1
<1> HIDE DEF q, sh
<1>5. ~\E j \in 1 .. (i - 1) : q[j].t = "MemberGone" /\ q[j].name = p
  BY <1>2, <1>4 DEF GoneBefore
<1>6. \/ q[i].room \in DOMAIN sh.rooms /\ p \in DOMAIN sh.rooms[q[i].room].pids
      \/ \E j \in 1 .. (i - 1) : q[j].t = "MemberUp" /\ q[j].name = p
  BY <1>2, <1>3 DEF Known
<1> QED
  BY <1>5, <1>6 DEF q, sh

-----------------------------------------------------------------------------
(* Where behaviours start *)

\* In a settled plane everybody is in the one room with its place as its pid,
\* and every shard has the tables that follow from it.
SettledAs(r, place) ==
  /\ place \in [Participants -> 1 .. Len(Roster)]
  /\ \A p, q \in Participants : place[p] = place[q] => p = q
  /\ \A i \in 1 .. Len(Roster) : \E p \in Participants : place[p] = i
  /\ phase = [p \in Participants |-> "up"] /\ room = [p \in Participants |-> r]
  /\ ctl = <<>> /\ inbox = [s \in Shards |-> <<>>]
  /\ roomId = [x \in RoomIds |-> IF x = r THEN 0 ELSE NoId] /\ nextRoomId = 1
  /\ nextPid = [x \in RoomIds |-> IF x = r THEN Len(Roster) ELSE 0]
  /\ DOMAIN seats = Participants
  /\ \A p \in Participants : /\ IsSeat(seats[p]) /\ seats[p].room = r
                             /\ seats[p].pid = place[p] - 1 /\ seats[p].wants = Everything
  /\ DOMAIN shard = Shards
  /\ \A s \in Shards :
       /\ IsShard(shard[s]) /\ DOMAIN shard[s].rooms = {0} /\ Sane(shard[s].rooms[0])
       /\ shard[s].rooms[0].pids = [p \in Participants |-> place[p] - 1]
       /\ shard[s].rooms[0].wants = [pp \in 0 .. (Len(Roster) - 1) |-> Everything]
       /\ DOMAIN shard[s].rooms[0].locals = {p \in Participants : Home(place[p] - 1) = s}
       /\ LocalsOK(shard[s].rooms[0])
       /\ \A key \in DOMAIN shard[s].legs : Home(place[key[1]] - 1) = s

LEMMA RoomWith ==
  ASSUME NEW pids, NEW wants, NEW locals, NEW n
  PROVE  [NewRoom EXCEPT !.pids = pids, !.wants = wants, !.locals = locals, !.maxPid = n] =
           [pids |-> pids, locals |-> locals, wants |-> wants, demand |-> Nothing, fan |-> Nothing,
            maxPid |-> n]
<1> DEFINE a == [NewRoom EXCEPT !.pids = pids]
           b == [a EXCEPT !.wants = wants]
           c == [b EXCEPT !.locals = locals]
           d == [c EXCEPT !.maxPid = n]
<1>1. [NewRoom EXCEPT !.pids = pids, !.wants = wants, !.locals = locals, !.maxPid = n] = d
  BY DEF NewRoom
<1>2. a = [pids |-> pids, locals |-> Nothing, wants |-> Nothing, demand |-> Nothing, fan |-> Nothing,
           maxPid |-> 0]
  BY DEF NewRoom
<1> HIDE DEF a
<1>3. b = [pids |-> pids, locals |-> Nothing, wants |-> wants, demand |-> Nothing, fan |-> Nothing,
           maxPid |-> 0]
  BY <1>2
<1> HIDE DEF b
<1>4. c = [pids |-> pids, locals |-> locals, wants |-> wants, demand |-> Nothing, fan |-> Nothing,
           maxPid |-> 0]
  BY <1>3
<1> HIDE DEF c
<1>5. d = [pids |-> pids, locals |-> locals, wants |-> wants, demand |-> Nothing, fan |-> Nothing,
           maxPid |-> n]
  BY <1>4
<1> QED
  BY <1>1, <1>5

LEMMA SettledIs ==
  ASSUME NEW r \in RoomIds, NEW ids, Settled(r, ids)
  PROVE  \E place : SettledAs(r, place)
<1> DEFINE at(p) == CHOOSE i \in DOMAIN Roster : Roster[i] = p
           n == Len(Roster)
           place == [p \in Participants |-> at(p)]
           pids == [p \in Participants |-> at(p) - 1]
           wants == [pp \in 0 .. (n - 1) |-> Everything]
           locals(s) == [p \in {q \in Participants : Home(at(q) - 1) = s} |->
                           [NewMember EXCEPT !.lines = IF at(p) = 1 THEN Lines ELSE {}]]
           base(s) == [NewRoom EXCEPT !.pids = pids, !.wants = wants, !.locals = locals(s),
                                      !.maxPid = n]
           legs(s) == [key \in (DOMAIN Rebuilt(base(s)).locals) \X {"pub", "sub"} |->
                         IF key = <<Roster[n], "sub">> THEN "ready" ELSE "up"]
<1>1. /\ n \in Nat /\ DOMAIN Roster = 1 .. n
      /\ \A p \in Participants : \E i \in 1 .. n : Roster[i] = p
      /\ \A i \in 1 .. n : Roster[i] \in Participants
      /\ \A i, j \in 1 .. n : Roster[i] = Roster[j] => i = j
  BY PlaneAssumption
<1>2. \A p \in Participants : at(p) \in 1 .. n /\ Roster[at(p)] = p
  BY <1>1
<1>3. \A i \in 1 .. n : \E p \in Participants : at(p) = i
  BY <1>1, <1>2
<1>4. /\ phase = [p \in Participants |-> "up"] /\ room = [p \in Participants |-> r]
      /\ ctl = <<>> /\ inbox = [s \in Shards |-> <<>>]
      /\ roomId = [x \in RoomIds |-> IF x = r THEN 0 ELSE NoId] /\ nextRoomId = 1
      /\ nextPid = [x \in RoomIds |-> IF x = r THEN n ELSE 0]
  BY DEF Settled
<1>5. seats = [p \in Participants |->
                 [room |-> r, pid |-> at(p) - 1, wants |-> Everything,
                  published |-> IF at(p) = 1 THEN ids ELSE <<>>]]
  BY DEF Settled
<1>6. shard = [s \in Shards |-> [ids |-> [x \in RoomIds |-> roomId[x]],
                                 rooms |-> [id \in {0} |-> Rebuilt(base(s))], legs |-> legs(s)]]
  BY DEF Settled
<1> HIDE DEF at
<1>7. ASSUME NEW s \in Shards
      PROVE  /\ IsShard(shard[s]) /\ DOMAIN shard[s].rooms = {0} /\ Sane(shard[s].rooms[0])
             /\ shard[s].rooms[0].pids = pids /\ shard[s].rooms[0].wants = wants
             /\ DOMAIN shard[s].rooms[0].locals = {p \in Participants : Home(at(p) - 1) = s}
             /\ LocalsOK(shard[s].rooms[0])
             /\ \A key \in DOMAIN shard[s].legs : Home(at(key[1]) - 1) = s
  <2> DEFINE own == {p \in Participants : Home(at(p) - 1) = s}
             ls == locals(s)
             x == base(s)
  <2>1. DOMAIN ls = own
    OBVIOUS
  <2>11. \A q \in own : IsLocal(ls[q])
    <3> SUFFICES ASSUME NEW q \in own PROVE IsLocal(ls[q])
      OBVIOUS
    <3> DEFINE y == IF at(q) = 1 THEN Lines ELSE {}
    <3>1. ls[q] = [NewMember EXCEPT !.lines = y]
      OBVIOUS
    <3> HIDE DEF y, ls
    <3>2. ls[q] = [lines |-> y, ssrcs |-> Nothing] /\ DOMAIN Nothing = {}
      BY <3>1 DEF NewMember, Nothing
    <3> QED
      BY <3>2 DEF IsLocal
  <2> HIDE DEF pids, wants, locals, legs
  <2>2. x = [pids |-> pids, locals |-> ls, wants |-> wants, demand |-> Nothing, fan |-> Nothing,
             maxPid |-> n]
    <3> HIDE DEF n
    <3> QED
      BY RoomWith DEF locals
  <2> HIDE DEF base, x, ls
  <2>3. IsRoom(x) /\ x.pids = pids /\ x.locals = ls /\ x.wants = wants /\ x.maxPid = n
    BY <2>2 DEF IsRoom
  <2>4. DOMAIN pids = Participants /\ \A q \in DOMAIN pids : pids[q] \in 0 .. (n - 1)
    BY <1>1, <1>2 DEF pids
  <2>5. /\ IsRoom(Rebuilt(x)) /\ Rebuilt(x).pids = pids /\ Rebuilt(x).wants = wants
        /\ Rebuilt(x).locals = ls /\ Rebuilt(x).maxPid = n /\ Rebuilt(Rebuilt(x)) = Rebuilt(x)
    BY <2>3, RebuiltIs
  <2>6. Sane(Rebuilt(x))
    BY <1>1, <2>1, <2>4, <2>5 DEF Sane
  <2>7. DOMAIN legs(s) = own \X {"pub", "sub"}
    BY <2>1, <2>5 DEF legs, x
  <2>8. shard[s] = [ids |-> [y \in RoomIds |-> roomId[y]], rooms |-> [id \in {0} |-> Rebuilt(x)],
                    legs |-> legs(s)]
    BY <1>6 DEF x
  <2>9. DOMAIN shard[s].rooms = {0} /\ shard[s].rooms[0] = Rebuilt(x)
        /\ DOMAIN shard[s].legs = own \X {"pub", "sub"}
    BY <2>7, <2>8
  <2>10. IsShard(shard[s])
    <3>1. shard[s] = [ids |-> shard[s].ids, rooms |-> shard[s].rooms, legs |-> shard[s].legs]
      BY <2>8
    <3> QED
      BY <2>5, <2>9, <3>1 DEF IsShard
  <2>12. LocalsOK(Rebuilt(x))
    BY <2>1, <2>5, <2>11 DEF LocalsOK
  <2> QED
    BY <2>1, <2>5, <2>6, <2>9, <2>10, <2>12
<1>8. DOMAIN shard = Shards
  BY <1>6
<1>9. /\ DOMAIN seats = Participants
      /\ \A p \in Participants : /\ IsSeat(seats[p]) /\ seats[p].room = r
                                 /\ seats[p].pid = at(p) - 1 /\ seats[p].wants = Everything
  BY <1>1, <1>2, <1>5 DEF IsSeat
<1>10. /\ place \in [Participants -> 1 .. n]
       /\ \A p, q \in Participants : place[p] = place[q] => p = q
       /\ \A i \in 1 .. n : \E p \in Participants : place[p] = i
       /\ \A p \in Participants : place[p] = at(p)
  BY <1>2, <1>3
<1>11. pids = [p \in Participants |-> place[p] - 1]
  BY <1>10
<1>12. \A s \in Shards : \A key \in DOMAIN shard[s].legs : Home(place[key[1]] - 1) = s
  <2> SUFFICES ASSUME NEW s \in Shards, NEW key \in DOMAIN shard[s].legs
               PROVE  Home(place[key[1]] - 1) = s
    OBVIOUS
  <2>1. key[1] \in Participants /\ Home(at(key[1]) - 1) = s
    BY <1>7 DEF IsShard
  <2> QED
    BY <1>10, <2>1
<1> HIDE DEF place
<1>13. ASSUME NEW s \in Shards
       PROVE  DOMAIN shard[s].rooms[0].locals = {p \in Participants : Home(place[p] - 1) = s}
  <2>1. {p \in Participants : Home(at(p) - 1) = s} = {p \in Participants : Home(place[p] - 1) = s}
    BY <1>10
  <2>2. DOMAIN shard[s].rooms[0].locals = {p \in Participants : Home(at(p) - 1) = s}
    BY <1>7
  <2> QED
    BY ONLY <2>1, <2>2
<1>14. SettledAs(r, place)
  BY <1>4, <1>7, <1>8, <1>9, <1>10, <1>11, <1>12, <1>13 DEF SettledAs
<1> QED
  BY <1>14

LEMMA FreshSpeakers == ASSUME Fresh PROVE SpeakersInv
<1>1. /\ phase = [p \in Participants |-> "new"] /\ room = [p \in Participants |-> NoRoom] /\ ctl = <<>>
      /\ roomId = [r \in RoomIds |-> NoId] /\ nextRoomId = 0 /\ nextPid = [r \in RoomIds |-> 0]
      /\ DOMAIN seats = {} /\ inbox = [s \in Shards |-> <<>>]
      /\ shard = [s \in Shards |-> NewShard]
  BY DEF Fresh, Feed!FeedInit, RouterInit
<1>2. IsShard(NewShard)
  BY DEF IsShard, NewShard, Nothing
<1>3. \A s \in Shards : inbox[s] = <<>> /\ DOMAIN inbox[s] = {} /\ Len(inbox[s]) = 0
  BY <1>1
<1>4. IsQueue(<<>>) /\ DOMAIN ctl = {}
  BY <1>1, ShortQueues
<1>5. PlaneTypeOK
  BY <1>1, <1>2, <1>3, <1>4 DEF PlaneTypeOK
<1>6. LiveRooms = {}
  BY <1>1 DEF LiveRooms
<1>7. TablesInv /\ NewcomersAreNew /\ RoomsComeUp /\ SeatedAreKnown /\ QueuesInOrder
  BY <1>1, <1>3, <1>4, <1>6
  DEF TablesInv, NewcomersAreNew, GoneIn, RoomsComeUp, SeatedAreKnown, QueuesInOrder, InOrder
<1> QED
  BY <1>5, <1>7 DEF SpeakersInv

LEMMA SettledSpeakers ==
  ASSUME NEW r \in RoomIds, NEW place, SettledAs(r, place)
  PROVE  SpeakersInv
<1>1. /\ phase = [p \in Participants |-> "up"] /\ room = [p \in Participants |-> r] /\ ctl = <<>>
      /\ roomId = [x \in RoomIds |-> IF x = r THEN 0 ELSE NoId] /\ nextRoomId = 1
      /\ nextPid = [x \in RoomIds |-> IF x = r THEN Len(Roster) ELSE 0]
      /\ DOMAIN seats = Participants /\ inbox = [s \in Shards |-> <<>>] /\ DOMAIN shard = Shards
      /\ \A p \in Participants : IsSeat(seats[p]) /\ seats[p].room = r /\ seats[p].pid = place[p] - 1
  BY DEF SettledAs
<1>2. /\ place \in [Participants -> 1 .. Len(Roster)] /\ Len(Roster) \in Nat
      /\ \A p, q \in Participants : place[p] = place[q] => p = q
  BY PlaneAssumption DEF SettledAs
<1>3. \A s \in Shards : inbox[s] = <<>> /\ DOMAIN inbox[s] = {} /\ Len(inbox[s]) = 0
  BY <1>1
<1>4. IsQueue(<<>>) /\ DOMAIN ctl = {}
  BY <1>1, ShortQueues
<1>5. \A s \in Shards : IsShard(shard[s]) /\ 0 \in DOMAIN shard[s].rooms
                        /\ DOMAIN shard[s].rooms[0].pids = Participants
  <2>1. \A s \in Shards : IsShard(shard[s]) /\ DOMAIN shard[s].rooms = {0}
    BY DEF SettledAs
  <2>2. \A s \in Shards : shard[s].rooms[0].pids = [p \in Participants |-> place[p] - 1]
    BY DEF SettledAs
  <2>3. \A s \in Shards : DOMAIN shard[s].rooms[0].pids = Participants
    BY ONLY <2>2
  <2> QED
    BY ONLY <2>1, <2>3
<1>6. PlaneTypeOK
  BY <1>1, <1>2, <1>3, <1>4, <1>5 DEF PlaneTypeOK, NoId
<1>7. TablesInv
  BY <1>1, <1>2 DEF TablesInv, NoId
<1>8. \A id \in LiveRooms : id = 0
  BY <1>1 DEF LiveRooms
<1>9. NewcomersAreNew /\ RoomsComeUp /\ SeatedAreKnown /\ QueuesInOrder
  BY <1>1, <1>3, <1>4, <1>5, <1>8
  DEF NewcomersAreNew, Newcomer, GoneIn, RoomsComeUp, Up, SeatedAreKnown, Known, QueuesInOrder, InOrder
<1> QED
  BY <1>6, <1>7, <1>9 DEF SpeakersInv

LEMMA PlaneStarts == PlaneInit => Fresh \/ \E r \in RoomIds : \E place : SettledAs(r, place)
<1> SUFFICES ASSUME PlaneInit PROVE Fresh \/ \E r \in RoomIds : \E place : SettledAs(r, place)
  OBVIOUS
<1>1. Fresh \/ \E r \in RoomIds, ids \in Batches : Settled(r, ids)
  BY DEF PlaneInit
<1>2. ASSUME NEW r \in RoomIds, NEW ids \in Batches, Settled(r, ids)
      PROVE  \E place : SettledAs(r, place)
  BY <1>2, SettledIs
<1> QED
  BY <1>1, <1>2

LEMMA SpeakersStart == PlaneInit => SpeakersInv
BY PlaneStarts, FreshSpeakers, SettledSpeakers

-----------------------------------------------------------------------------
(* What holds in every behaviour in which no queue fills *)

\* The inductive invariant: a shard reads of a room's announcement before
\* anything else about it, of a member's before a list that names it, and
\* of nobody's departure before a list that still names it.
THEOREM SpeakersInvHolds == PlaneSpec /\ []QueuesHaveRoom => []SpeakersInv
<1>1. PlaneInit => SpeakersInv
  BY SpeakersStart
<1>2. SpeakersInv /\ QueuesHaveRoom' /\ [PlaneNext]_planeVars => SpeakersInv'
  BY SpeakersNext
<1> QED
  BY <1>1, <1>2, PTL DEF PlaneSpec

\* No shard is handed a list of speakers that names somebody it does not
\* know at that moment, however old the reports the list was merged from.
THEOREM SpeakersArePresentHolds == PlaneSpec /\ []QueuesHaveRoom => []SpeakersArePresent
<1>1. SpeakersInv => SpeakersArePresent
  BY SpeakersInvPresent
<1> QED
  BY <1>1, SpeakersInvHolds, PTL
=============================================================================
