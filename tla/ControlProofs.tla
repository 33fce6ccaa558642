---------------------------- MODULE ControlProofs ----------------------------
(***************************************************************************)
(* Proofs about the control plane: the media router's tables follow the    *)
(* registry, and its offers can be trusted.                                *)
(*                                                                         *)
(* Hub and router together do nothing the signaling plane with any reader  *)
(* of its channel could not do, so whatever is proved of SignalingSpec     *)
(* holds of ControlSpec.  What the router is about to know of a            *)
(* participant is a recursive function of the channel (SeatAhead), as the  *)
(* roster of a client is one of its queue; the inductive invariant says    *)
(* that it agrees with the registry, that a Joined in the channel is about *)
(* somebody new, that mids in offers still mean what they meant, and that  *)
(* a member that is not marked dirty has been offered all it wants.        *)
(***************************************************************************)
EXTENDS ControlPlane, SignalingProofs

-----------------------------------------------------------------------------
(* What the channel says of a participant *)

Absent == [here |-> FALSE, room |-> NoRoom, known |-> {}, wants |-> R!Everything]

\* What the router knows of p.
Seat(p) ==
  IF p \in DOMAIN seats
  THEN [here |-> TRUE, room |-> seats[p].room, known |-> R!PublishedBy(seats, p),
        wants |-> seats[p].wants]
  ELSE Absent

\* What event m changes in it.
Hear(s, p, m) ==
  IF m.p # p THEN s
  ELSE IF m.t = "Joined"
       THEN [here |-> TRUE, room |-> m.r, known |-> {}, wants |-> R!Everything]
  ELSE IF ~s.here \/ s.room # m.r THEN s
  ELSE IF m.t = "TracksPublished"
       THEN [here |-> TRUE, room |-> s.room, known |-> s.known \cup {m.ids[i] : i \in DOMAIN m.ids},
             wants |-> s.wants]
  ELSE IF m.t = "SubscriptionsChanged"
       THEN [here |-> TRUE, room |-> s.room, known |-> s.known,
             wants |-> [all |-> FALSE, refs |-> m.refs]]
  ELSE IF m.t = "Left" THEN Absent
  ELSE s

Hearing(s, p, q) ==
  LET after[i \in Nat] == IF i = 0 THEN s ELSE Hear(after[i - 1], p, q[i])
  IN  after

\* What the router will know of p once the channel is empty.
SeatAhead(p) == Hearing(Seat(p), p, ctl)[Len(ctl)]

\* The registry's record of p is what the router is about to know, s.
Matches(s, p) ==
  /\ s.here <=> p \in Everyone
  /\ s.here => /\ s.room \in RoomIds /\ p \in members[s.room]
               /\ tracks[p] \subseteq s.known
               /\ s.wants.all => revision[p] = NoRevision
               /\ ~s.wants.all => s.wants.refs = subs[p]

Mirrored(p) == Matches(SeatAhead(p), p)

\* A Joined about p in the channel q is about somebody the router, which
\* starts from s, does not know when it takes it, and who was sent no offer.
NewIn(s, sent, p, q) ==
  \A i \in DOMAIN q : q[i].t = "Joined" /\ q[i].p = p =>
    ~Hearing(s, p, q)[i - 1].here /\ sent = {}

JoinsAreNew ==
  \A p \in Pid : /\ NewIn(Seat(p), offers[p], p, ctl)
                 /\ p >= nextSeq => offers[p] = {}

-----------------------------------------------------------------------------
(* The router's tables *)

SeatType == [room: RoomIds, pid: Nat, published: Seq(TrackIds), wants: R!Wants]
OfferType == [owner: Pid, id: TrackIds, mid: Nat \X Nat]

TablesTypeOK ==
  /\ roomId \in [RoomIds -> Nat \cup {R!NoId}]
  /\ nextRoomId \in Nat
  /\ nextPid \in [RoomIds -> Nat]
  /\ DOMAIN seats \subseteq Pid
  /\ seats \in [DOMAIN seats -> SeatType]
  /\ offers \in [Pid -> SUBSET OfferType]

\* A room is there while somebody is in it.
RoomsLive == \A r \in RoomIds : roomId[r] # R!NoId <=> R!In(seats, r) # {}

\* The pids of a room are given out once.
PidsDiffer ==
  /\ \A p \in DOMAIN seats : seats[p].pid < nextPid[seats[p].room]
  /\ \A p, q \in DOMAIN seats :
       seats[p].room = seats[q].room /\ seats[p].pid = seats[q].pid => p = q

\* A mid in an offer still means what it meant, while its owner is there,
\* and nobody else gets its pid.
OffersHold ==
  \A p \in DOMAIN seats : \A o \in offers[p] :
    /\ o.mid[1] < nextPid[seats[p].room]
    /\ \A q \in DOMAIN seats :
         seats[q].room = seats[p].room /\ seats[q].pid = o.mid[1] =>
           /\ q = o.owner
           /\ o.mid[2] + 1 \in DOMAIN seats[q].published
           /\ seats[q].published[o.mid[2] + 1] = o.id

MidsAgree ==
  \A p, q \in DOMAIN seats : seats[p].room = seats[q].room =>
    \A o \in offers[p], n \in offers[q] :
      o.mid = n.mid => o.owner = n.owner /\ o.id = n.id

TablesInv == TablesTypeOK /\ RoomsLive /\ PidsDiffer /\ OffersHold /\ MidsAgree

\* A member that is not dirty has been offered all it wants.
Covered(p) ==
  \A q \in R!In(seats, seats[p].room) \ {p} : \A t \in R!PublishedBy(seats, q) :
    seats[p].wants.all \/ <<q, t>> \in seats[p].wants.refs =>
      \E o \in offers[p] : o.owner = q /\ o.id = t

CleanAreCovered ==
  \A p \in DOMAIN seats : <<roomId[seats[p].room], p>> \notin dirty => Covered(p)

\* The inductive invariant.
ControlInv ==
  /\ FeedInv
  /\ TablesInv
  /\ CleanAreCovered
  /\ JoinsAreNew
  /\ \A p \in Pid : Mirrored(p)

-----------------------------------------------------------------------------
(* Hearing the channel *)

LEMMA HearingStep ==
  ASSUME NEW s, NEW p, NEW q
  PROVE  /\ Hearing(s, p, q)[0] = s
         /\ \A i \in Nat : Hearing(s, p, q)[i + 1] = Hear(Hearing(s, p, q)[i], p, q[i + 1])
<1> DEFINE after[i \in Nat] == IF i = 0 THEN s ELSE Hear(after[i - 1], p, q[i])
<1>1. after = [i \in Nat |-> IF i = 0 THEN s ELSE Hear(after[i - 1], p, q[i])]
  OBVIOUS
<1>2. Hearing(s, p, q) = after
  BY DEF Hearing
<1> HIDE DEF after
<1>3. after[0] = s
  BY <1>1
<1>4. ASSUME NEW i \in Nat PROVE after[i + 1] = Hear(after[i], p, q[i + 1])
  <2>1. i + 1 \in Nat /\ i + 1 # 0 /\ (i + 1) - 1 = i
    OBVIOUS
  <2> QED
    BY <1>1, <2>1
<1> QED
  BY <1>2, <1>3, <1>4

\* Two channels with the same first n events.
LEMMA HearingPrefix ==
  ASSUME NEW s, NEW p, NEW q, NEW k, NEW n \in Nat, \A i \in 1 .. n : q[i] = k[i]
  PROVE  \A i \in 0 .. n : Hearing(s, p, q)[i] = Hearing(s, p, k)[i]
<1> DEFINE S == {i \in Nat : i <= n => Hearing(s, p, q)[i] = Hearing(s, p, k)[i]}
<1>1. 0 \in S
  BY HearingStep
<1>2. ASSUME NEW i \in S PROVE i + 1 \in S
  <2>1. i \in Nat /\ i + 1 \in Nat
    OBVIOUS
  <2>2. CASE i + 1 <= n
    <3>1. q[i + 1] = k[i + 1] /\ i <= n
      BY <2>1, <2>2
    <3>2. Hearing(s, p, q)[i] = Hearing(s, p, k)[i]
      BY <3>1
    <3> QED
      BY <2>1, <3>1, <3>2, HearingStep
  <2> QED
    BY <2>1, <2>2
<1>3. S = Nat
  <2> HIDE DEF S
  <2>1. S \in SUBSET Nat
    BY DEF S
  <2> QED
    BY <1>1, <1>2, <2>1, SetInduction
<1> QED
  BY <1>3

\* Taking the first event now leaves the same to be heard.
LEMMA HearingTail ==
  ASSUME NEW s, NEW p, NEW q \in Seq(MediaControl), q # <<>>
  PROVE  \A i \in 0 .. Len(q) - 1 :
           Hearing(Hear(s, p, Head(q)), p, Tail(q))[i] = Hearing(s, p, q)[i + 1]
<1> DEFINE w == Hear(s, p, Head(q))
           t == Tail(q)
           n == Len(q) - 1
           S == {i \in Nat : i <= n => Hearing(w, p, t)[i] = Hearing(s, p, q)[i + 1]}
<1>0. n \in Nat /\ w = Hear(s, p, q[1]) /\ \A i \in 1 .. n : t[i] = q[i + 1]
  OBVIOUS
<1> HIDE DEF w, t, n
<1>1. 0 \in S
  <2>1. Hearing(w, p, t)[0] = w /\ Hearing(s, p, q)[0] = s
    BY HearingStep
  <2>2. Hearing(s, p, q)[0 + 1] = Hear(Hearing(s, p, q)[0], p, q[0 + 1])
    BY HearingStep
  <2> QED
    BY <1>0, <2>1, <2>2
<1>2. ASSUME NEW i \in S PROVE i + 1 \in S
  <2>1. i \in Nat /\ i + 1 \in Nat
    OBVIOUS
  <2>2. CASE i + 1 <= n
    <3>1. t[i + 1] = q[(i + 1) + 1] /\ i <= n
      BY <1>0, <2>1, <2>2
    <3>2. Hearing(w, p, t)[i] = Hearing(s, p, q)[i + 1]
      BY <3>1
    <3>3. Hearing(w, p, t)[i + 1] = Hear(Hearing(w, p, t)[i], p, t[i + 1])
      BY <2>1, HearingStep
    <3>4. Hearing(s, p, q)[(i + 1) + 1] = Hear(Hearing(s, p, q)[i + 1], p, q[(i + 1) + 1])
      BY <2>1, HearingStep
    <3>5. Hearing(w, p, t)[i + 1] = Hearing(s, p, q)[(i + 1) + 1]
      BY <3>1, <3>2, <3>3, <3>4
    <3> QED
      BY <2>1, <3>5
  <2> QED
    BY <1>0, <2>1, <2>2
<1>3. S = Nat
  <2> HIDE DEF S
  <2>1. S \in SUBSET Nat
    BY DEF S
  <2> QED
    BY <1>1, <1>2, <2>1, SetInduction
<1>4. ASSUME NEW i \in 0 .. n PROVE Hearing(w, p, t)[i] = Hearing(s, p, q)[i + 1]
  BY <1>0, <1>3
<1> QED
  BY <1>4 DEF w, t, n

-----------------------------------------------------------------------------
(* The router is a reader of the channel *)

LEMMA ControlStepSignals == [ControlNext]_controlVars => [SignalingNext]_signalingVars
<1> SUFFICES ASSUME [ControlNext]_controlVars PROVE [SignalingNext]_signalingVars
  OBVIOUS
<1>1. CASE HubSteps
  BY <1>1 DEF HubSteps, SignalingNext
<1>2. CASE R!RouterTakes /\ UNCHANGED hubVars
  BY <1>2 DEF R!RouterTakes, MediaTakes, SignalingNext, hubVars, registryVars, clientVars
<1>3. CASE R!FlushOffers /\ UNCHANGED hubVars
  BY <1>3 DEF R!FlushOffers, hubVars, signalingVars, registryVars
<1>4. CASE UNCHANGED controlVars
  BY <1>4 DEF controlVars, hubVars, signalingVars, registryVars
<1> QED
  BY <1>1, <1>2, <1>3, <1>4 DEF ControlNext, RouterSteps, R!RouterNext

\* Hub and router together behave as signaling alone with any reader: what is
\* proved of the signaling plane holds of the two (wroomd main.rs runs both
\* over one channel).
THEOREM ControlRefinesSignaling == ControlSpec => SignalingSpec
<1>1. ControlInit => SignalingInit
  BY DEF ControlInit
<1> QED
  BY <1>1, ControlStepSignals, PTL DEF ControlSpec, SignalingSpec

-----------------------------------------------------------------------------
(* The published list *)

Listed(list) == {list[i] : i \in DOMAIN list}

\* The list after each of the ids.
Extending(list, ids) ==
  LET after[i \in Nat] == IF i = 0 THEN list ELSE R!WithTrack(after[i - 1], ids[i])
  IN  after

LEMMA WithTrackOne ==
  ASSUME NEW list \in Seq(TrackIds), NEW id \in TrackIds
  PROVE  /\ R!WithTrack(list, id) \in Seq(TrackIds) /\ Len(list) <= Len(R!WithTrack(list, id))
         /\ \A i \in 1 .. Len(list) : R!WithTrack(list, id)[i] = list[i]
         /\ Listed(R!WithTrack(list, id)) = Listed(list) \cup {id}
<1> SUFFICES ASSUME NEW e, e = R!WithTrack(list, id)
             PROVE  /\ e \in Seq(TrackIds) /\ Len(list) <= Len(e)
                    /\ \A i \in 1 .. Len(list) : e[i] = list[i]
                    /\ Listed(e) = Listed(list) \cup {id}
  OBVIOUS
<1>1. CASE \E i \in DOMAIN list : list[i] = id
  BY <1>1 DEF R!WithTrack, Listed
<1>2. CASE ~ \E i \in DOMAIN list : list[i] = id
  <2>1. e = Append(list, id)
    BY <1>2 DEF R!WithTrack
  <2>2. /\ e \in Seq(TrackIds) /\ Len(e) = Len(list) + 1 /\ e[Len(list) + 1] = id
        /\ \A i \in 1 .. Len(list) : e[i] = list[i]
        /\ DOMAIN e = 1 .. Len(list) + 1 /\ DOMAIN list = 1 .. Len(list) /\ Len(list) \in Nat
    BY <2>1
  <2>3. \A x : x \in Listed(e) <=> x \in Listed(list) \cup {id}
    BY <2>2 DEF Listed
  <2> QED
    BY <2>2, <2>3
<1> QED
  BY <1>1, <1>2

LEMMA ExtendingStep ==
  ASSUME NEW list, NEW ids
  PROVE  /\ R!Extended(list, ids) = Extending(list, ids)[Len(ids)]
         /\ Extending(list, ids)[0] = list
         /\ \A i \in Nat : Extending(list, ids)[i + 1] = R!WithTrack(Extending(list, ids)[i], ids[i + 1])
<1> DEFINE after[i \in Nat] == IF i = 0 THEN list ELSE R!WithTrack(after[i - 1], ids[i])
<1>1. after = [i \in Nat |-> IF i = 0 THEN list ELSE R!WithTrack(after[i - 1], ids[i])]
  OBVIOUS
<1>2. Extending(list, ids) = after
  BY DEF Extending
<1>3. R!Extended(list, ids) = after[Len(ids)]
  BY DEF R!Extended
<1> HIDE DEF after
<1>4. after[0] = list
  BY <1>1
<1>5. ASSUME NEW i \in Nat PROVE after[i + 1] = R!WithTrack(after[i], ids[i + 1])
  <2>1. i + 1 \in Nat /\ i + 1 # 0 /\ (i + 1) - 1 = i
    OBVIOUS
  <2> QED
    BY <1>1, <2>1
<1> QED
  BY <1>2, <1>3, <1>4, <1>5

\* A published list keeps its order, and gets exactly the new ids.
LEMMA ExtendedList ==
  ASSUME NEW list \in Seq(TrackIds), NEW ids \in Seq(TrackIds), NEW e, e = R!Extended(list, ids)
  PROVE  /\ e \in Seq(TrackIds) /\ Len(list) <= Len(e)
         /\ \A i \in 1 .. Len(list) : e[i] = list[i]
         /\ Listed(e) = Listed(list) \cup Listed(ids)
<1> DEFINE Good(l, n) == /\ l \in Seq(TrackIds) /\ Len(list) <= Len(l)
                         /\ \A i \in 1 .. Len(list) : l[i] = list[i]
                         /\ Listed(l) = Listed(list) \cup {ids[i] : i \in 1 .. n}
<1>1. PICK after : /\ e = after[Len(ids)] /\ after[0] = list
                   /\ \A i \in Nat : after[i + 1] = R!WithTrack(after[i], ids[i + 1])
  <2> HIDE DEF Good
  <2> WITNESS Extending(list, ids)
  <2>1. R!Extended(list, ids) = Extending(list, ids)[Len(ids)]
    BY ONLY ExtendingStep
  <2>2. Extending(list, ids)[0] = list
    BY ONLY ExtendingStep
  <2>3. ASSUME NEW i \in Nat PROVE Extending(list, ids)[i + 1] = R!WithTrack(Extending(list, ids)[i], ids[i + 1])
    BY ONLY <2>3, ExtendingStep
  <2> QED
    BY <2>1, <2>2, <2>3
<1> DEFINE S == {n \in Nat : n <= Len(ids) => Good(after[n], n)}
<1>5. 0 \in S
  <2>1. Good(after[0], 0)
    BY <1>1
  <2> HIDE DEF Good
  <2> QED
    BY <2>1
<1>6. ASSUME NEW n \in S PROVE n + 1 \in S
  <2>1. CASE n + 1 <= Len(ids)
    <3>1. Good(after[n], n) /\ ids[n + 1] \in TrackIds /\ n \in Nat
      BY <2>1
    <3> DEFINE l == after[n]
               k == after[n + 1]
               id == ids[n + 1]
    <3>2. k = R!WithTrack(l, id)
      BY <1>1, <3>1
    <3>3. l \in Seq(TrackIds) /\ id \in TrackIds
      BY <3>1
    <3> HIDE DEF k, l, id
    <3>4. /\ k \in Seq(TrackIds) /\ Len(l) <= Len(k)
          /\ \A i \in 1 .. Len(l) : k[i] = l[i]
          /\ Listed(k) = Listed(l) \cup {id}
      <4>1. /\ R!WithTrack(l, id) \in Seq(TrackIds) /\ Len(l) <= Len(R!WithTrack(l, id))
            /\ \A i \in 1 .. Len(l) : R!WithTrack(l, id)[i] = l[i]
            /\ Listed(R!WithTrack(l, id)) = Listed(l) \cup {id}
        BY ONLY <3>3, WithTrackOne
      <4> QED
        BY ONLY <4>1, <3>2
    <3>5. /\ Len(list) <= Len(l) /\ \A i \in 1 .. Len(list) : l[i] = list[i]
          /\ Listed(l) = Listed(list) \cup {ids[i] : i \in 1 .. n}
          /\ Len(l) \in Nat /\ Len(k) \in Nat /\ Len(list) \in Nat
      BY <3>1, <3>3, <3>4 DEF l
    <3>6. {ids[i] : i \in 1 .. n + 1} = {ids[i] : i \in 1 .. n} \cup {id}
      BY <3>1 DEF id
    <3>7. \A i \in 1 .. Len(list) : k[i] = list[i]
      BY <3>4, <3>5
    <3>8. Listed(k) = Listed(list) \cup {ids[i] : i \in 1 .. n + 1}
      BY <3>4, <3>5, <3>6
    <3>9. Good(k, n + 1)
      BY <3>4, <3>5, <3>7, <3>8
    <3> QED
      BY <3>1, <3>9 DEF k
  <2>2. n \in Nat /\ n + 1 \in Nat /\ Len(ids) \in Nat
    OBVIOUS
  <2>3. n + 1 <= Len(ids) => Good(after[n + 1], n + 1)
    <3> HIDE DEF Good
    <3> QED
      BY <2>1, <2>2
  <2> QED
    BY <2>2, <2>3
<1>7. S = Nat
  <2> HIDE DEF S
  <2>1. S \in SUBSET Nat
    BY DEF S
  <2> QED
    BY <1>5, <1>6, <2>1, SetInduction
<1>8. Good(after[Len(ids)], Len(ids))
  <2> HIDE DEF Good
  <2>1. Len(ids) \in S /\ Len(ids) <= Len(ids)
    BY <1>7
  <2> QED
    BY <2>1
<1>9. Listed(ids) = {ids[i] : i \in 1 .. Len(ids)}
  BY DEF Listed
<1> QED
  BY <1>1, <1>8, <1>9

-----------------------------------------------------------------------------
(* What the hub posts *)

\* k is the channel q with the event m behind.
Posted(k, q, m) ==
  /\ q \in Seq(MediaControl) /\ k \in Seq(MediaControl) /\ m \in MediaControl
  /\ Len(k) = Len(q) + 1 /\ k[Len(q) + 1] = m
  /\ \A i \in 1 .. Len(q) : k[i] = q[i]

LEMMA PostedEvents ==
  ASSUME NEW q \in Seq(MediaControl), NEW m \in MediaControl, NEW n \in MediaControl
  PROVE  /\ Posted(q \o <<m>>, q, m)
         /\ Posted(q \o <<m, n>>, q \o <<m>>, n)
BY DEF Posted

LEMMA NewMore ==
  ASSUME NEW s, NEW sent, NEW p, NEW q, NEW m, NEW k, Posted(k, q, m), NewIn(s, sent, p, q),
         m.t = "Joined" /\ m.p = p => ~Hearing(s, p, q)[Len(q)].here /\ sent = {}
  PROVE  /\ NewIn(s, sent, p, k)
         /\ Hearing(s, p, k)[Len(k)] = Hear(Hearing(s, p, q)[Len(q)], p, m)
<1> DEFINE n == Len(q)
<1>1. /\ n \in Nat /\ Len(k) = n + 1 /\ k[n + 1] = m /\ DOMAIN k = 1 .. n + 1 /\ DOMAIN q = 1 .. n
      /\ \A i \in 1 .. n : k[i] = q[i]
  BY DEF Posted
<1>2. /\ \A i \in 0 .. n : Hearing(s, p, k)[i] = Hearing(s, p, q)[i]
      /\ Hearing(s, p, k)[Len(k)] = Hear(Hearing(s, p, q)[n], p, m)
  <2> HIDE DEF n
  <2>0. n \in Nat /\ \A i \in 1 .. n : k[i] = q[i]
    BY <1>1
  <2>1. \A i \in 0 .. n : Hearing(s, p, k)[i] = Hearing(s, p, q)[i]
    BY ONLY <2>0, HearingPrefix
  <2>2. Hearing(s, p, k)[n + 1] = Hear(Hearing(s, p, k)[n], p, k[n + 1])
    BY ONLY <2>0, HearingStep
  <2>3. n \in 0 .. n
    BY <1>1
  <2> QED
    BY <1>1, <2>1, <2>2, <2>3
<1> HIDE DEF n
<1>3. ASSUME NEW i \in DOMAIN k, k[i].t = "Joined", k[i].p = p
      PROVE  ~Hearing(s, p, k)[i - 1].here /\ sent = {}
  <2>1. CASE i \in 1 .. n
    <3>1. k[i] = q[i] /\ i - 1 \in 0 .. n /\ i \in DOMAIN q
      BY <1>1, <2>1
    <3> QED
      BY <1>2, <1>3, <3>1 DEF NewIn
  <2>2. CASE i = n + 1
    <3>1. k[i] = m /\ i - 1 = n /\ n \in 0 .. n
      BY <1>1, <2>2
    <3>2. Hearing(s, p, k)[n] = Hearing(s, p, q)[n]
      BY <1>2, <3>1
    <3> QED
      BY <1>3, <3>1, <3>2 DEF n
  <2> QED
    BY <1>1, <1>3, <2>1, <2>2
<1> QED
  BY <1>2, <1>3 DEF n, NewIn

LEMMA NewTail ==
  ASSUME NEW s, NEW sent, NEW p, NEW q \in Seq(MediaControl), q # <<>>, NewIn(s, sent, p, q)
  PROVE  /\ NewIn(Hear(s, p, Head(q)), sent, p, Tail(q))
         /\ Hearing(Hear(s, p, Head(q)), p, Tail(q))[Len(Tail(q))] = Hearing(s, p, q)[Len(q)]
         /\ Head(q).t = "Joined" /\ Head(q).p = p => ~s.here /\ sent = {}
<1> DEFINE n == Len(q) - 1
           k == Tail(q)
           w == Hear(s, p, Head(q))
<1>1. /\ n \in Nat /\ Len(q) = n + 1 /\ Len(k) = n /\ DOMAIN k = 1 .. n /\ DOMAIN q = 1 .. n + 1
      /\ \A i \in 1 .. n : k[i] = q[i + 1]
      /\ Head(q) = q[1]
  OBVIOUS
<1>2. \A i \in 0 .. n : Hearing(w, p, k)[i] = Hearing(s, p, q)[i + 1]
  BY HearingTail
<1> HIDE DEF n, k, w
<1>3. ASSUME NEW i \in DOMAIN k, k[i].t = "Joined", k[i].p = p
      PROVE  ~Hearing(w, p, k)[i - 1].here /\ sent = {}
  <2>1. /\ k[i] = q[i + 1] /\ i - 1 \in 0 .. n /\ i + 1 \in DOMAIN q /\ i \in Nat
        /\ (i + 1) - 1 = i /\ (i - 1) + 1 = i
    BY <1>1
  <2>2. ~Hearing(s, p, q)[i].here /\ sent = {}
    BY <1>3, <2>1 DEF NewIn
  <2>3. Hearing(w, p, k)[i - 1] = Hearing(s, p, q)[(i - 1) + 1]
    BY <1>2, <2>1
  <2> QED
    BY <2>1, <2>2, <2>3
<1>4. Hearing(w, p, k)[n] = Hearing(s, p, q)[n + 1]
  BY <1>1, <1>2
<1>5. ASSUME Head(q).t = "Joined", Head(q).p = p PROVE ~s.here /\ sent = {}
  <2>1. 1 \in DOMAIN q /\ 1 - 1 = 0
    BY <1>1
  <2>2. Hearing(s, p, q)[0] = s
    BY HearingStep
  <2>3. ~Hearing(s, p, q)[1 - 1].here /\ sent = {}
    BY <1>1, <1>5, <2>1 DEF NewIn
  <2> QED
    BY <2>1, <2>2, <2>3
<1>6. NewIn(w, sent, p, k)
  BY <1>3 DEF NewIn
<1> QED
  BY <1>1, <1>4, <1>5, <1>6 DEF k, w

\* The hub leaves the router's tables alone.
LEMMA SeatsStay == ASSUME UNCHANGED mediaVars PROVE \A p : Seat(p)' = Seat(p)
BY DEF mediaVars, Seat, R!PublishedBy

\* What the router is about to know of p after one more event, or two.
LEMMA PostedOne ==
  ASSUME UNCHANGED mediaVars, NEW m, Posted(ctl', ctl, m),
         NEW p \in Pid, NewIn(Seat(p), offers[p], p, ctl),
         m.t = "Joined" /\ m.p = p => ~SeatAhead(p).here /\ offers[p] = {}
  PROVE  /\ NewIn(Seat(p), offers[p], p, ctl)'
         /\ SeatAhead(p)' = Hear(SeatAhead(p), p, m)
<1> DEFINE s == Seat(p)
           sent == offers[p]
           k == ctl'
<1>1. Seat(p)' = s /\ offers'[p] = sent
  BY SeatsStay DEF mediaVars
<1>2. NewIn(s, sent, p, ctl) /\ (m.t = "Joined" /\ m.p = p => ~Hearing(s, p, ctl)[Len(ctl)].here /\ sent = {})
  BY DEF SeatAhead
<1>3. Posted(k, ctl, m)
  OBVIOUS
<1> HIDE DEF s, sent, k
<1>4. /\ NewIn(s, sent, p, k)
      /\ Hearing(s, p, k)[Len(k)] = Hear(Hearing(s, p, ctl)[Len(ctl)], p, m)
  BY ONLY <1>2, <1>3, NewMore
<1> QED
  BY <1>1, <1>4 DEF SeatAhead, s, k

LEMMA PostedTwo ==
  ASSUME UNCHANGED mediaVars, NEW m, NEW n, NEW l, Posted(l, ctl, m), Posted(ctl', l, n),
         NEW p \in Pid, NewIn(Seat(p), offers[p], p, ctl), n.t # "Joined",
         m.t = "Joined" /\ m.p = p => ~SeatAhead(p).here /\ offers[p] = {}
  PROVE  /\ NewIn(Seat(p), offers[p], p, ctl)'
         /\ SeatAhead(p)' = Hear(Hear(SeatAhead(p), p, m), p, n)
<1> DEFINE s == Seat(p)
           sent == offers[p]
           k == ctl'
<1>1. Seat(p)' = s /\ offers'[p] = sent
  BY SeatsStay DEF mediaVars
<1>2. NewIn(s, sent, p, ctl) /\ (m.t = "Joined" /\ m.p = p => ~Hearing(s, p, ctl)[Len(ctl)].here /\ sent = {})
  BY DEF SeatAhead
<1>3. Posted(l, ctl, m) /\ Posted(k, l, n)
  OBVIOUS
<1> HIDE DEF s, sent, k
<1>4. /\ NewIn(s, sent, p, l)
      /\ Hearing(s, p, l)[Len(l)] = Hear(Hearing(s, p, ctl)[Len(ctl)], p, m)
  BY ONLY <1>2, <1>3, NewMore
<1>5. /\ NewIn(s, sent, p, k)
      /\ Hearing(s, p, k)[Len(k)] = Hear(Hearing(s, p, l)[Len(l)], p, n)
  BY ONLY <1>3, <1>4, n.t # "Joined", NewMore
<1> QED
  BY <1>1, <1>4, <1>5 DEF SeatAhead, s, k

-----------------------------------------------------------------------------
(* The hub's steps *)

\* What the two parts say of one participant.
Standing(p) ==
  /\ NewIn(Seat(p), offers[p], p, ctl)
  /\ p >= nextSeq => offers[p] = {}
  /\ Mirrored(p)

\* A step that posts nothing and leaves the records alone.
LEMMA QuietStands ==
  ASSUME UNCHANGED mediaVars, NEW p \in Pid, Standing(p),
         UNCHANGED <<members, tracks, subs, revision, nextSeq, ctl>>
  PROVE  Standing(p)'
<1>1. SeatAhead(p)' = SeatAhead(p) /\ NewIn(Seat(p), offers[p], p, ctl)'
  BY SeatsStay DEF SeatAhead, Standing, mediaVars
<1> QED
  BY <1>1 DEF Standing, Mirrored, Matches, Everyone, mediaVars

\* An event about somebody else is not heard.
LEMMA OthersHearNothing ==
  ASSUME NEW s, NEW p, NEW m, m.p # p
  PROVE  Hear(s, p, m) = s
BY DEF Hear

\* An admitted participant is announced to the router.
LEMMA JoinStands ==
  ASSUME FeedInv, UNCHANGED mediaVars, NEW p \in Pid, Standing(p),
         NEW c \in Conns, NEW r \in RoomIds, NEW offer \in BOOLEAN, JoinRoom(c, r, offer)
  PROVE  Standing(p)'
<1> DEFINE m == [t |-> "Joined", r |-> r, p |-> nextSeq]
           n == [t |-> "PublisherOffer", r |-> r, p |-> nextSeq]
<1>1. /\ nextSeq \in Pid /\ nextSeq' = nextSeq + 1 /\ nextSeq \in Nat
      /\ members' = [members EXCEPT ![r] = @ \cup {nextSeq}] /\ members \in [RoomIds -> SUBSET Pid]
      /\ UNCHANGED <<tracks, subs, revision>> /\ nextSeq \notin Everyone
      /\ ctl \in Seq(MediaControl)
  BY RegistryAssumption DEF JoinRoom, Join, FeedInv, HubInv, RegistryInv, RegistryTypeOK, Pid,
                            RoomsAreOccupied, WiresTypeOK, ChannelTypeOK
<1>2. m \in MediaControl /\ n \in MediaControl
  BY <1>1 DEF MediaControl
<1>3. Posted(ctl', ctl, m) \/ \E l : Posted(l, ctl, m) /\ Posted(ctl', l, n)
  <2>1. CASE offer
    <3>1. ctl' = ctl \o <<m, n>>
      BY <2>1 DEF JoinRoom, Post
    <3> HIDE DEF m, n
    <3> QED
      BY <1>1, <1>2, <3>1, PostedEvents
  <2>2. CASE ~offer
    <3>1. ctl' = ctl \o <<m>>
      BY <2>2 DEF JoinRoom, Post
    <3> HIDE DEF m, n
    <3> QED
      BY <1>1, <1>2, <3>1, PostedEvents
  <2> QED
    BY <2>1, <2>2
<1>4. Everyone' = Everyone \cup {nextSeq}
  BY <1>1 DEF Everyone
<1>5. m.t = "Joined" /\ m.p = p => ~SeatAhead(p).here /\ offers[p] = {}
  BY <1>1 DEF Standing, Mirrored, Matches
<1>6. /\ m.t = "Joined" /\ m.p = nextSeq /\ m.r = r
      /\ n.t = "PublisherOffer" /\ n.p = nextSeq /\ n.r = r /\ n.t # "Joined"
  OBVIOUS
<1> HIDE DEF m, n
<1>7. /\ NewIn(Seat(p), offers[p], p, ctl)'
      /\ \/ SeatAhead(p)' = Hear(SeatAhead(p), p, m)
         \/ SeatAhead(p)' = Hear(Hear(SeatAhead(p), p, m), p, n)
  <2>1. CASE Posted(ctl', ctl, m)
    BY <1>5, <2>1, PostedOne DEF Standing
  <2>2. CASE \E l : Posted(l, ctl, m) /\ Posted(ctl', l, n)
    BY <1>5, <1>6, <2>2, PostedTwo DEF Standing
  <2> QED
    BY <1>3, <2>1, <2>2
<1>8. p >= nextSeq' => offers'[p] = {}
  BY <1>1 DEF Standing, mediaVars, Pid
<1>9. CASE p # nextSeq
  <2>1. SeatAhead(p)' = SeatAhead(p)
    BY <1>6, <1>7, <1>9, OthersHearNothing
  <2>2. Mirrored(p)'
    BY <1>1, <1>4, <1>9, <2>1 DEF Standing, Mirrored, Matches
  <2> QED
    BY <1>7, <1>8, <2>2 DEF Standing
<1>10. CASE p = nextSeq
  <2> DEFINE w == [here |-> TRUE, room |-> r, known |-> {}, wants |-> R!Everything]
  <2>1. Hear(SeatAhead(p), p, m) = w
    BY <1>6, <1>10 DEF Hear
  <2>2. Hear(w, p, n) = w
    BY <1>6, <1>10 DEF Hear
  <2>3. SeatAhead(p)' = w
    BY <1>7, <2>1, <2>2
  <2>4. tracks[p] = {} /\ revision[p] = NoRevision
    BY <1>1, <1>10 DEF FeedInv, HubInv, RegistryInv, RoomsAreOccupied
  <2>5. Mirrored(p)'
    BY <1>1, <1>4, <1>10, <2>3, <2>4 DEF Mirrored, Matches, R!Everything
  <2> QED
    BY <1>7, <1>8, <2>5 DEF Standing
<1> QED
  BY <1>9, <1>10

\* A participant that is in a room is in its connection's.
LEMMA HomeOfPid ==
  ASSUME FeedInv, NEW c \in Conns, pid[c] # NoPid
  PROVE  /\ pid[c] \in Pid /\ home[c] \in RoomIds /\ ctl \in Seq(MediaControl)
         /\ \A r \in RoomIds : pid[c] \in members[r] => r = home[c]
         /\ pid[c] \in Everyone <=> pid[c] \in members[home[c]]
<1>1. pid[c] \in Pid /\ home[c] \in RoomIds /\ ctl \in Seq(MediaControl)
  BY DEF FeedInv, HubInv, HubTypeOK, SessionsAreSane, WiresTypeOK, ChannelTypeOK
<1>2. ASSUME NEW r \in RoomIds, pid[c] \in members[r] PROVE r = home[c]
  <2>1. pid[c] \in Everyone
    BY <1>2 DEF Everyone
  <2>2. PICK d \in Conns : pid[d] = pid[c] /\ pid[c] \in members[home[d]]
    BY <2>1 DEF FeedInv, HubInv, SessionsMatchRegistry
  <2>3. d = c
    BY <2>2 DEF FeedInv, HubInv, SessionsMatchRegistry
  <2>4. pid[c] \in members[home[c]]
    BY <2>2, <2>3
  <2> QED
    BY <1>1, <1>2, <2>4, RoomOfMember DEF FeedInv, HubInv
<1> QED
  BY <1>1, <1>2 DEF Everyone

\* An event about p is all that changes what the router will know of p.
LEMMA OneEventStands ==
  ASSUME UNCHANGED <<mediaVars, nextSeq>>, NEW p \in Pid, Standing(p), NEW m, m.t # "Joined",
         Posted(ctl', ctl, m), NEW w, w = Hear(SeatAhead(p), p, m), Matches(w, p)'
  PROVE  Standing(p)'
<1>1. /\ NewIn(Seat(p), offers[p], p, ctl)'
      /\ SeatAhead(p)' = Hear(SeatAhead(p), p, m)
  BY PostedOne DEF Standing
<1>2. Mirrored(p)'
  BY <1>1 DEF Mirrored, Matches
<1> QED
  BY <1>1, <1>2 DEF Standing, mediaVars

\* Session descriptions tell the router nothing it keeps.
LEMMA NegotiationStands ==
  ASSUME FeedInv, UNCHANGED mediaVars, NEW p \in Pid, Standing(p),
         NEW c \in Conns, NEW type \in {"PublisherOffer", "SubscriberAnswer"},
         SessionDescription(c, type)
  PROVE  Standing(p)'
<1> DEFINE m == Event(type, c)
<1>0. pid[c] # NoPid
  BY DEF SessionDescription, FeedInv, HubInv, SessionsMatchRegistry, Pid, NoPid
<1>1. m \in MediaControl /\ m.t \in {"PublisherOffer", "SubscriberAnswer"}
  BY <1>0, HomeOfPid DEF Event, MediaControl
<1>2. ctl' = ctl \o <<m>> /\ UNCHANGED registryVars
  BY DEF SessionDescription, Post
<1> HIDE DEF m
<1>3. Posted(ctl', ctl, m)
  BY <1>0, <1>1, <1>2, HomeOfPid, PostedEvents
<1>4. SeatAhead(p) = Hear(SeatAhead(p), p, m)
  BY <1>1 DEF Hear
<1>5. ASSUME NEW w, w = SeatAhead(p) PROVE Matches(w, p)'
  BY <1>2, <1>5 DEF Standing, Mirrored, Matches, registryVars, Everyone
<1> QED
  BY <1>1, <1>2, <1>3, <1>4, <1>5, OneEventStands DEF registryVars

\* A batch of tracks adds to what is known of its owner.
LEMMA BatchStands ==
  ASSUME FeedInv, UNCHANGED mediaVars, NEW p \in Pid, Standing(p),
         NEW c \in Conns, sess[c] = "Joined",
         NEW pub \in SUBSET TrackIds, NEW unpub \in SUBSET TrackIds, NEW pubMuted \in SUBSET pub,
         NEW fresh \in Fresh(pid[c], pub), NEW list \in Listings(fresh),
         LocalTracks(c, pub, pubMuted, unpub, list)
  PROVE  Standing(p)'
<1> DEFINE m == [t |-> "TracksPublished", r |-> home[c], p |-> pid[c], ids |-> list]
<1>0. pid[c] # NoPid /\ pid[c] \in Everyone /\ pid[c] \in Pid
  BY DEF FeedInv, HubInv, SessionsMatchRegistry, Reachable, Pid, NoPid
<1>1. /\ UNCHANGED <<members, subs, revision, nextSeq>>
      /\ tracks' = [tracks EXCEPT ![pid[c]] = (@ \cup {list[i] : i \in DOMAIN list}) \ unpub]
      /\ tracks \in [Pid -> SUBSET TrackIds]
  BY DEF LocalTracks, UpdateTracks, FeedInv, HubInv, RegistryInv, RegistryTypeOK
<1>2. CASE list = <<>>
  <2>1. ctl' = ctl \o <<>>
    BY <1>2 DEF LocalTracks, Post
  <2>2. ctl' = ctl
    BY <1>0, <2>1, HomeOfPid
  <2>3. {list[i] : i \in DOMAIN list} = {}
    BY <1>2
  <2>4. SeatAhead(p)' = SeatAhead(p) /\ NewIn(Seat(p), offers[p], p, ctl)'
    BY <2>2, SeatsStay DEF SeatAhead, Standing, mediaVars
  <2>5. tracks'[p] \subseteq tracks[p]
    BY <1>0, <1>1, <2>3
  <2>6. Mirrored(p)'
    BY <1>1, <2>4, <2>5 DEF Standing, Mirrored, Matches, Everyone
  <2> QED
    BY <1>1, <2>4, <2>6 DEF Standing, mediaVars
<1>3. CASE list # <<>>
  <2>1. ctl' = ctl \o <<m>>
    BY <1>3 DEF LocalTracks, Post
  <2>2. m \in MediaControl
    <3>1. list \in Seq(TrackIds)
      <4>1. fresh \in SUBSET TrackIds /\ IsFiniteSet(fresh)
        BY RegistryAssumption, FS_Subset DEF Fresh
      <4>2. Cardinality(fresh) \in Nat
        BY <4>1, FS_CardinalityType
      <4> QED
        BY <4>1, <4>2 DEF Listings
    <3> QED
      BY <1>0, <3>1, HomeOfPid DEF MediaControl
  <2>3. m.t = "TracksPublished" /\ m.p = pid[c] /\ m.r = home[c] /\ m.ids = list
    OBVIOUS
  <2> HIDE DEF m
  <2>4. Posted(ctl', ctl, m)
    BY <1>0, <2>1, <2>2, HomeOfPid, PostedEvents
  <2>5. ASSUME NEW s, s = SeatAhead(p), NEW w, w = Hear(s, p, m) PROVE Matches(w, p)'
    <3>1. CASE p # pid[c]
      <4>1. w = s
        BY <2>3, <2>5, <3>1 DEF Hear
      <4>2. tracks'[p] = tracks[p]
        BY <1>1, <3>1
      <4> QED
        BY <1>1, <2>5, <4>1, <4>2 DEF Standing, Mirrored, Matches, Everyone
    <3>2. CASE p = pid[c]
      <4>1. s.here /\ s.room = home[c]
        BY <1>0, <2>5, <3>2, HomeOfPid DEF Standing, Mirrored, Matches
      <4>2. w = [here |-> TRUE, room |-> s.room, known |-> s.known \cup {list[i] : i \in DOMAIN list},
                 wants |-> s.wants]
        BY <2>3, <2>5, <3>2, <4>1 DEF Hear
      <4>3. tracks'[p] \subseteq tracks[p] \cup {list[i] : i \in DOMAIN list}
        BY <1>1, <3>2
      <4>4. Matches(s, p)
        BY <2>5 DEF Standing, Mirrored
      <4>5. w.here /\ w.room = s.room /\ w.wants = s.wants
            /\ w.known = s.known \cup {list[i] : i \in DOMAIN list}
        BY <4>2
      <4> QED
        BY <1>1, <4>1, <4>3, <4>4, <4>5 DEF Matches, Everyone
    <3> QED
      BY <3>1, <3>2
  <2> QED
    BY <1>1, <2>3, <2>4, <2>5, OneEventStands
<1> QED
  BY <1>2, <1>3

\* After a batch of subscriptions the router will want what the registry has.
LEMMA WantStands ==
  ASSUME FeedInv, UNCHANGED mediaVars, NEW p \in Pid, Standing(p),
         NEW c \in Conns, NEW upsert \in SUBSET Refs, NEW remove \in SUBSET Refs,
         NEW rev \in Revisions, Subscriptions(c, upsert, remove, rev)
  PROVE  Standing(p)'
<1> DEFINE m == [t |-> "SubscriptionsChanged", r |-> home[c], p |-> pid[c], refs |-> subs'[pid[c]]]
<1>0. pid[c] # NoPid /\ pid[c] \in Everyone /\ pid[c] \in Pid
  BY DEF Subscriptions, FeedInv, HubInv, SessionsMatchRegistry, Reachable, Pid, NoPid
<1>1. /\ UNCHANGED <<members, tracks, nextSeq>> /\ UpdateSubscriptions(pid[c], upsert, remove, rev)
      /\ subs \in [Pid -> SUBSET Refs] /\ revision \in [Pid -> Nat \cup {NoRevision}]
  BY DEF Subscriptions, UpdateSubscriptions, FeedInv, HubInv, RegistryInv, RegistryTypeOK
<1>2. subs'[pid[c]] \in SUBSET Refs
  BY <1>0, <1>1, UpdateSubscriptionsInv DEF FeedInv, HubInv, RegistryInv, RegistryTypeOK
<1>3. p # pid[c] => subs'[p] = subs[p] /\ revision'[p] = revision[p]
  BY <1>1 DEF UpdateSubscriptions
<1>4. ctl' = ctl \o <<m>> /\ m \in MediaControl
  BY <1>0, <1>2, HomeOfPid DEF Subscriptions, Post, MediaControl
<1>5. m.t = "SubscriptionsChanged" /\ m.p = pid[c] /\ m.r = home[c] /\ m.refs = subs'[pid[c]]
  OBVIOUS
<1> HIDE DEF m
<1>6. Posted(ctl', ctl, m)
  BY <1>0, <1>4, HomeOfPid, PostedEvents
<1>7. ASSUME NEW s, s = SeatAhead(p), NEW w, w = Hear(s, p, m) PROVE Matches(w, p)'
  <2>1. CASE p # pid[c]
    <3>1. w = s
      BY <1>5, <1>7, <2>1 DEF Hear
    <3> QED
      BY <1>1, <1>3, <1>7, <2>1, <3>1 DEF Standing, Mirrored, Matches, Everyone
  <2>2. CASE p = pid[c]
    <3>1. Matches(s, p)
      BY <1>7 DEF Standing, Mirrored
    <3>2. s.here /\ s.room = home[c]
      BY <1>0, <2>2, <3>1, HomeOfPid DEF Matches
    <3>3. w = [here |-> TRUE, room |-> s.room, known |-> s.known,
               wants |-> [all |-> FALSE, refs |-> subs'[p]]]
      BY <1>5, <1>7, <2>2, <3>2 DEF Hear
    <3>4. w.here /\ w.room = s.room /\ w.known = s.known /\ ~w.wants.all /\ w.wants.refs = subs'[p]
      BY <3>3
    <3> QED
      BY <1>1, <3>1, <3>2, <3>4 DEF Matches, Everyone
  <2> QED
    BY <2>1, <2>2
<1> QED
  BY <1>1, <1>5, <1>6, <1>7, OneEventStands

\* A departure, reported once or twice.
LEMMA DepartureStands ==
  ASSUME FeedInv, UNCHANGED mediaVars, NEW p \in Pid, Standing(p),
         NEW c \in Conns, pid[c] # NoPid,
         \/ pid[c] \in members[home[c]] /\ Leave(home[c], pid[c])
         \/ pid[c] \notin members[home[c]] /\ UNCHANGED registryVars,
         \/ ctl' = ctl \o <<Event("Left", c)>>
         \/ ctl' = ctl \o <<Event("Left", c), Event("Left", c)>>
  PROVE  Standing(p)'
<1> DEFINE m == Event("Left", c)
<1>1. m \in MediaControl /\ m.t = "Left" /\ m.p = pid[c] /\ m.r = home[c]
  BY HomeOfPid DEF Event, MediaControl
<1>2. /\ ctl' = ctl \o <<m>> \/ ctl' = ctl \o <<m, m>>
      /\ ctl \in Seq(MediaControl) /\ home[c] \in RoomIds /\ pid[c] \in Pid
  BY HomeOfPid
<1> HIDE DEF m
<1>3. Posted(ctl', ctl, m) \/ \E l : Posted(l, ctl, m) /\ Posted(ctl', l, m)
  BY <1>1, <1>2, PostedEvents
<1>4. nextSeq' = nextSeq
  BY DEF Leave, registryVars
<1>5. /\ NewIn(Seat(p), offers[p], p, ctl)'
      /\ \/ SeatAhead(p)' = Hear(SeatAhead(p), p, m)
         \/ SeatAhead(p)' = Hear(Hear(SeatAhead(p), p, m), p, m)
  <2>1. CASE Posted(ctl', ctl, m)
    BY <1>1, <2>1, PostedOne DEF Standing
  <2>2. CASE \E l : Posted(l, ctl, m) /\ Posted(ctl', l, m)
    BY <1>1, <2>2, PostedTwo DEF Standing
  <2> QED
    BY <1>3, <2>1, <2>2
<1>6. CASE p # pid[c]
  <2>1. SeatAhead(p)' = SeatAhead(p)
    BY <1>1, <1>5, <1>6, OthersHearNothing
  <2>2. /\ tracks'[p] = tracks[p] /\ subs'[p] = subs[p] /\ revision'[p] = revision[p]
        /\ \A r \in RoomIds : p \in members'[r] <=> p \in members[r]
    <3>1. /\ tracks \in [Pid -> SUBSET TrackIds] /\ subs \in [Pid -> SUBSET Refs]
          /\ revision \in [Pid -> Nat \cup {NoRevision}] /\ members \in [RoomIds -> SUBSET Pid]
      BY DEF FeedInv, HubInv, RegistryInv, RegistryTypeOK
    <3>2. CASE Leave(home[c], pid[c])
      <4>1. tracks'[p] = tracks[p] /\ subs'[p] = subs[p] /\ revision'[p] = revision[p]
        BY <1>6, <3>1, <3>2 DEF Leave
      <4>2. ASSUME NEW r \in RoomIds PROVE p \in members'[r] <=> p \in members[r]
        BY <1>2, <1>6, <3>1, <3>2 DEF Leave
      <4> QED
        BY <4>1, <4>2
    <3>3. CASE UNCHANGED registryVars
      BY <3>3 DEF registryVars
    <3> QED
      BY <3>2, <3>3
  <2>3. p \in Everyone' <=> p \in Everyone
    BY <2>2 DEF Everyone
  <2>4. Mirrored(p)'
    BY <2>1, <2>2, <2>3 DEF Standing, Mirrored, Matches
  <2> QED
    BY <1>4, <1>5, <2>4 DEF Standing, mediaVars
<1>7. CASE p = pid[c]
  <2>0. Matches(SeatAhead(p), p)
    BY DEF Standing, Mirrored
  <2> DEFINE s == SeatAhead(p)
  <2>1. ~Hear(s, p, m).here
    <3>1. CASE s.here
      <4>1. s.room = home[c]
        BY <1>7, <2>0, <3>1, HomeOfPid DEF Matches
      <4>2. Hear(s, p, m) = Absent
        BY <1>1, <1>7, <3>1, <4>1 DEF Hear
      <4> QED
        BY <4>2 DEF Absent
    <3>2. CASE ~s.here
      BY <1>1, <3>2 DEF Hear
    <3> QED
      BY <3>1, <3>2
  <2>2. ~Hear(Hear(s, p, m), p, m).here
    <3> DEFINE w == Hear(s, p, m)
    <3>1. ~w.here
      BY <2>1
    <3> HIDE DEF w
    <3>2. ~Hear(w, p, m).here
      BY <1>1, <3>1 DEF Hear
    <3> QED
      BY <3>2 DEF w
  <2>3. ~SeatAhead(p)'.here
    BY <1>5, <2>1, <2>2
  <2>4. p \notin Everyone'
    <3>1. CASE pid[c] \in members[home[c]] /\ Leave(home[c], pid[c])
      BY <1>2, <1>7, <3>1, HomeOfPid DEF Leave, Everyone, FeedInv, HubInv, RegistryInv, RegistryTypeOK
    <3>2. CASE pid[c] \notin members[home[c]] /\ UNCHANGED registryVars
      BY <1>7, <3>2, HomeOfPid DEF registryVars, Everyone
    <3> QED
      BY <3>1, <3>2
  <2>5. Mirrored(p)'
    BY <2>3, <2>4 DEF Mirrored, Matches
  <2> QED
    BY <1>4, <1>5, <2>5 DEF Standing, mediaVars
<1> QED
  BY <1>6, <1>7

\* Every step of the hub.
LEMMA HubStands ==
  ASSUME FeedInv, HubSteps, NEW p \in Pid, Standing(p)
  PROVE  Standing(p)'
<1>0. UNCHANGED mediaVars
  BY DEF HubSteps
<1>1. ASSUME NEW c \in Conns, MediaReplies(c) PROVE Standing(p)'
  BY <1>0, <1>1, QuietStands DEF MediaReplies, registryVars
<1>2. ASSUME NEW c \in Conns, ConnStep(c) PROVE Standing(p)'
  <2>1. CASE PollFrame(c) \/ WriteOut(c) \/ Flush(c) \/ SocketEnds(c) \/ Malformed(c)
               \/ RejectFirst(c) \/ RejectSecondJoin(c) \/ Ignored(c) \/ SendChat(c)
    <3>1. UNCHANGED <<members, tracks, subs, revision, nextSeq, ctl>>
      BY <2>1 DEF PollFrame, WriteOut, Flush, SocketEnds, Malformed, RejectFirst, RejectSecondJoin,
                  Reject, Ignored, SendChat, registryVars
    <3> QED
      BY <1>0, <3>1, QuietStands
  <2>2. CASE \E r \in RoomIds, offer \in BOOLEAN : JoinRoom(c, r, offer)
    BY <1>0, <2>2, JoinStands
  <2>3. CASE \E type \in {"PublisherOffer", "SubscriberAnswer"} : SessionDescription(c, type)
    BY <1>0, <2>3, NegotiationStands
  <2>4. ASSUME sess[c] = "Joined",
               NEW pub \in SUBSET TrackIds, NEW unpub \in SUBSET TrackIds, NEW pubMuted \in SUBSET pub,
               NEW fresh \in Fresh(pid[c], pub), NEW list \in Listings(fresh),
               LocalTracks(c, pub, pubMuted, unpub, list)
        PROVE  Standing(p)'
    BY <1>0, <2>4, BatchStands
  <2>5. ASSUME NEW upsert \in SUBSET Refs, NEW remove \in SUBSET Refs, NEW rev \in Revisions,
               Subscriptions(c, upsert, remove, rev)
        PROVE  Standing(p)'
    BY <1>0, <2>5, WantStands
  <2>6. CASE LeaveRequest(c)
    <3>1. pid[c] # NoPid /\ pid[c] \in members[home[c]]
      BY <2>6 DEF LeaveRequest, FeedInv, HubInv, SessionsMatchRegistry, Pid, NoPid
    <3> QED
      BY <1>0, <2>6, <3>1, DepartureStands DEF LeaveRequest, Post
  <2>7. CASE TransportClose(c)
    <3>1. CASE CloseSilently(c)
      BY <1>0, <3>1, QuietStands DEF CloseSilently, registryVars
    <3>2. CASE CloseMember(c)
      BY <1>0, <3>2, DepartureStands DEF CloseMember, Post
    <3>3. CASE CloseAfterLeave(c)
      BY <1>0, <3>3, DepartureStands DEF CloseAfterLeave, Post
    <3> QED
      BY <2>7, <3>1, <3>2, <3>3 DEF TransportClose
  <2> QED
    BY <1>2, <2>1, <2>2, <2>3, <2>4, <2>5, <2>6, <2>7 DEF ConnStep, RoomFrame
<1> QED
  BY <1>1, <1>2 DEF HubSteps, HubNext

-----------------------------------------------------------------------------
(* The router's steps: one event *)

LEMMA EventFields ==
  ASSUME NEW m \in MediaControl
  PROVE  /\ m.r \in RoomIds /\ m.p \in Pid
         /\ m.t = "TracksPublished" => m.ids \in Seq(TrackIds)
         /\ m.t = "SubscriptionsChanged" => m.refs \in SUBSET Refs
BY DEF MediaControl

\* The tables know the room of each of their members.
LEMMA SeatFields ==
  ASSUME TablesInv, NEW p \in DOMAIN seats
  PROVE  /\ p \in Pid /\ seats[p] \in SeatType
         /\ seats[p].room \in RoomIds /\ seats[p].pid \in Nat
         /\ seats[p].published \in Seq(TrackIds) /\ seats[p].wants \in R!Wants
         /\ p \in R!In(seats, seats[p].room) /\ roomId[seats[p].room] # R!NoId
BY DEF TablesInv, TablesTypeOK, SeatType, RoomsLive, R!In

LEMMA SeatUntouched ==
  ASSUME NEW p, p \in DOMAIN seats' <=> p \in DOMAIN seats, p \in DOMAIN seats => seats'[p] = seats[p]
  PROVE  Seat(p)' = Seat(p)
<1>1. CASE p \in DOMAIN seats
  BY <1>1 DEF Seat, R!PublishedBy
<1>2. CASE p \notin DOMAIN seats
  BY <1>2 DEF Seat
<1> QED
  BY <1>1, <1>2

\* A member that joins gets a number nobody in its room has had.
LEMMA JoinedTables ==
  ASSUME TablesInv, CleanAreCovered, NEW m \in MediaControl, m.t = "Joined",
         m.p \notin DOMAIN seats, offers[m.p] = {}, R!OnJoined(m)
  PROVE  /\ TablesInv' /\ CleanAreCovered'
         /\ \A p \in Pid : Seat(p)' = Hear(Seat(p), p, m)
<1> DEFINE x == m.p
           r == m.r
           isNew == roomId[r] = R!NoId
           id == IF isNew THEN nextRoomId ELSE roomId[r]
           n == IF isNew THEN 0 ELSE nextPid[r]
           seat == [room |-> r, pid |-> n, published |-> <<>>, wants |-> R!Everything]
<1>1. /\ roomId' = [roomId EXCEPT ![r] = id]
      /\ nextRoomId' = IF isNew THEN nextRoomId + 1 ELSE nextRoomId
      /\ nextPid' = [nextPid EXCEPT ![r] = n + 1]
      /\ seats' = [p \in DOMAIN seats \cup {x} |-> IF p = x THEN seat ELSE seats[p]]
      /\ dirty' = dirty \cup {<<id, x>>}
      /\ offers' = offers
  BY DEF R!OnJoined
<1>2. r \in RoomIds /\ x \in Pid
  BY EventFields
<1>3. /\ roomId \in [RoomIds -> Nat \cup {R!NoId}] /\ nextRoomId \in Nat
      /\ nextPid \in [RoomIds -> Nat] /\ DOMAIN seats \subseteq Pid
      /\ offers \in [Pid -> SUBSET OfferType]
  BY DEF TablesInv, TablesTypeOK
<1>4. id \in Nat /\ id # R!NoId /\ n \in Nat
  BY <1>2, <1>3 DEF R!NoId
<1>5. seat \in SeatType /\ seat.room = r /\ seat.pid = n /\ seat.published = <<>> /\ seat.wants = R!Everything
  BY <1>2, <1>4 DEF SeatType, R!Wants, R!Everything
<1>6. isNew => \A p \in DOMAIN seats : seats[p].room # r
  BY <1>2 DEF TablesInv, RoomsLive, R!In
<1>7. ~isNew => id = roomId[r] /\ n = nextPid[r]
  OBVIOUS
<1> HIDE DEF id, n, seat
<1>8. /\ DOMAIN seats' = DOMAIN seats \cup {x} /\ seats'[x] = seat
      /\ \A p \in DOMAIN seats : seats'[p] = seats[p] /\ p # x
  BY <1>1
<1>9. /\ roomId'[r] = id /\ nextPid'[r] = n + 1
      /\ \A s \in RoomIds : s # r => roomId'[s] = roomId[s] /\ nextPid'[s] = nextPid[s]
  BY <1>1, <1>2, <1>3
<1>10. TablesTypeOK'
  <2>1. seats' \in [DOMAIN seats' -> SeatType]
    BY <1>1, <1>5 DEF TablesInv, TablesTypeOK
  <2>2. roomId' \in [RoomIds -> Nat \cup {R!NoId}] /\ nextRoomId' \in Nat /\ nextPid' \in [RoomIds -> Nat]
    <3>1. n + 1 \in Nat /\ nextRoomId + 1 \in Nat
      BY <1>3, <1>4
    <3>2. nextPid' \in [RoomIds -> Nat]
      BY <1>1, <1>3, <3>1
    <3>3. roomId' \in [RoomIds -> Nat \cup {R!NoId}]
      BY <1>1, <1>3, <1>4
    <3> QED
      BY <1>1, <1>3, <3>1, <3>2, <3>3
  <2> QED
    BY <1>1, <1>2, <1>3, <1>8, <2>1, <2>2 DEF TablesTypeOK
<1>11. RoomsLive'
  <2> SUFFICES ASSUME NEW s \in RoomIds PROVE roomId'[s] # R!NoId <=> R!In(seats', s) # {}
    BY DEF RoomsLive
  <2>1. CASE s = r
    <3>1. x \in R!In(seats', s)
      BY <1>5, <1>8, <2>1 DEF R!In
    <3> QED
      BY <1>4, <1>9, <2>1, <3>1
  <2>2. CASE s # r
    <3>1. R!In(seats', s) = R!In(seats, s)
      BY <1>5, <1>8, <2>2 DEF R!In
    <3> QED
      BY <1>9, <2>2, <3>1 DEF TablesInv, RoomsLive
  <2> QED
    BY <2>1, <2>2
<1>12. ASSUME NEW p \in DOMAIN seats
       PROVE  /\ seats[p].room = r => nextPid'[r] = nextPid[r] + 1 /\ n = nextPid[r] /\ roomId'[r] = roomId[r]
              /\ seats[p].room # r => nextPid'[seats[p].room] = nextPid[seats[p].room]
                                      /\ roomId'[seats[p].room] = roomId[seats[p].room]
              /\ seats[p].pid < nextPid[seats[p].room] /\ seats[p].pid \in Nat /\ nextPid[seats[p].room] \in Nat
              /\ seats[p].room \in RoomIds
  BY <1>3, <1>6, <1>7, <1>9, SeatFields DEF TablesInv, PidsDiffer
<1>13. PidsDiffer'
  <2>1. ASSUME NEW p \in DOMAIN seats' PROVE seats'[p].pid < nextPid'[seats'[p].room]
    BY <1>4, <1>5, <1>8, <1>9, <1>12
  <2>2. ASSUME NEW p \in DOMAIN seats', NEW q \in DOMAIN seats',
               seats'[p].room = seats'[q].room /\ seats'[p].pid = seats'[q].pid
        PROVE  p = q
    <3>1. CASE p = x \/ q = x
      BY <1>5, <1>8, <1>12, <2>2, <3>1
    <3>2. CASE p # x /\ q # x
      BY <1>8, <2>2, <3>2 DEF TablesInv, PidsDiffer
    <3> QED
      BY <3>1, <3>2
  <2> QED
    BY <2>1, <2>2 DEF PidsDiffer
<1>14. OffersHold'
  <2> SUFFICES ASSUME NEW p \in DOMAIN seats', NEW o \in offers'[p]
               PROVE  /\ o.mid[1] < nextPid'[seats'[p].room]
                      /\ \A q \in DOMAIN seats' :
                           seats'[q].room = seats'[p].room /\ seats'[q].pid = o.mid[1] =>
                             /\ q = o.owner
                             /\ o.mid[2] + 1 \in DOMAIN seats'[q].published
                             /\ seats'[q].published[o.mid[2] + 1] = o.id
    BY DEF OffersHold
  <2>1. p \in DOMAIN seats /\ o \in offers[p] /\ seats'[p] = seats[p]
    BY <1>1, <1>8
  <2>2. o.mid[1] \in Nat /\ o.mid[1] < nextPid[seats[p].room]
    BY <1>3, <2>1 DEF TablesInv, OffersHold, OfferType
  <2>3. o.mid[1] < nextPid'[seats'[p].room]
    BY <1>12, <2>1, <2>2
  <2>4. ASSUME NEW q \in DOMAIN seats', seats'[q].room = seats'[p].room, seats'[q].pid = o.mid[1]
        PROVE  /\ q = o.owner
               /\ o.mid[2] + 1 \in DOMAIN seats'[q].published
               /\ seats'[q].published[o.mid[2] + 1] = o.id
    <3>1. q # x
      BY <1>5, <1>8, <1>12, <2>1, <2>2, <2>4
    <3>2. q \in DOMAIN seats /\ seats'[q] = seats[q]
      BY <1>8, <3>1
    <3> QED
      BY <2>1, <2>4, <3>2 DEF TablesInv, OffersHold
  <2> QED
    BY <2>3, <2>4
<1>15. MidsAgree'
  BY <1>1, <1>8 DEF TablesInv, MidsAgree
<1>16. CleanAreCovered'
  <2> SUFFICES ASSUME NEW p \in DOMAIN seats', <<roomId'[seats'[p].room], p>> \notin dirty',
                      NEW q \in R!In(seats', seats'[p].room) \ {p}, NEW t \in R!PublishedBy(seats', q),
                      seats'[p].wants.all \/ <<q, t>> \in seats'[p].wants.refs
               PROVE  \E o \in offers'[p] : o.owner = q /\ o.id = t
    BY DEF CleanAreCovered, Covered
  <2>1. p # x
    BY <1>1, <1>5, <1>8, <1>9
  <2>2. p \in DOMAIN seats /\ seats'[p] = seats[p] /\ roomId'[seats[p].room] = roomId[seats[p].room]
    BY <1>8, <1>12, <2>1
  <2>3. <<roomId[seats[p].room], p>> \notin dirty
    BY <1>1, <2>2
  <2>4. q # x
    BY <1>5, <1>8 DEF R!PublishedBy
  <2>5. q \in R!In(seats, seats[p].room) \ {p} /\ t \in R!PublishedBy(seats, q)
    BY <1>8, <2>2, <2>4 DEF R!In, R!PublishedBy
  <2> QED
    BY <1>1, <2>2, <2>3, <2>5 DEF CleanAreCovered, Covered
<1>17. ASSUME NEW p \in Pid PROVE Seat(p)' = Hear(Seat(p), p, m)
  <2>1. CASE p = x
    <3>1. R!PublishedBy(seats', x) = {}
      BY <1>5, <1>8 DEF R!PublishedBy
    <3>2. Seat(p)' = [here |-> TRUE, room |-> r, known |-> {}, wants |-> R!Everything]
      BY <1>5, <1>8, <2>1, <3>1 DEF Seat
    <3> QED
      BY <2>1, <3>2 DEF Hear
  <2>2. CASE p # x
    <3>1. Seat(p)' = Seat(p)
      BY <1>8, <2>2, SeatUntouched
    <3> QED
      BY <2>2, <3>1, OthersHearNothing
  <2> QED
    BY <2>1, <2>2
<1> QED
  BY <1>10, <1>11, <1>13, <1>14, <1>15, <1>16, <1>17 DEF TablesInv

\* Members that keep their seats, and lists that only get longer, disturb no mid.
LEMMA SeatsKeptTables ==
  ASSUME TablesInv, UNCHANGED <<roomId, nextRoomId, nextPid, offers>>,
         DOMAIN seats' = DOMAIN seats, seats' \in [DOMAIN seats' -> SeatType],
         \A p \in DOMAIN seats :
           /\ seats'[p].room = seats[p].room /\ seats'[p].pid = seats[p].pid
           /\ \A i \in DOMAIN seats[p].published :
                /\ i \in DOMAIN seats'[p].published
                /\ seats'[p].published[i] = seats[p].published[i]
  PROVE  TablesInv' /\ \A r \in RoomIds : R!In(seats', r) = R!In(seats, r)
<1>1. TablesTypeOK'
  BY DEF TablesInv, TablesTypeOK
<1>2. \A r \in RoomIds : R!In(seats', r) = R!In(seats, r)
  BY DEF R!In
<1>3. RoomsLive'
  BY <1>2 DEF TablesInv, RoomsLive
<1>4. PidsDiffer'
  BY DEF TablesInv, PidsDiffer
<1>5. OffersHold'
  BY DEF TablesInv, OffersHold
<1>6. MidsAgree'
  BY DEF TablesInv, MidsAgree
<1> QED
  BY <1>1, <1>2, <1>3, <1>4, <1>5, <1>6 DEF TablesInv

LEMMA NegotiatedTables ==
  ASSUME TablesInv, CleanAreCovered, NEW m \in MediaControl,
         m.t \in {"PublisherOffer", "SubscriberAnswer"}, R!OnSessionDescription(m)
  PROVE  /\ TablesInv' /\ CleanAreCovered'
         /\ \A p \in Pid : Seat(p)' = Hear(Seat(p), p, m)
<1>1. UNCHANGED <<roomId, nextRoomId, nextPid, seats, dirty, offers>>
  BY DEF R!OnSessionDescription, R!tableVars
<1>2. TablesInv'
  BY <1>1, SeatsKeptTables DEF TablesInv, TablesTypeOK
<1>3. CleanAreCovered'
  BY <1>1 DEF CleanAreCovered, Covered, R!In, R!PublishedBy
<1>4. ASSUME NEW p \in Pid PROVE Seat(p)' = Hear(Seat(p), p, m)
  <2>1. Seat(p)' = Seat(p)
    BY <1>1 DEF Seat, R!PublishedBy
  <2>2. Hear(Seat(p), p, m) = Seat(p)
    BY DEF Hear
  <2> QED
    BY <2>1, <2>2
<1> QED
  BY <1>2, <1>3, <1>4

\* An event about somebody who is not in the room changes nothing known.
LEMMA StrangersHearNothing ==
  ASSUME NEW m \in MediaControl, m.t # "Joined", ~R!IsMember(m.r, m.p), NEW p \in Pid
  PROVE  Hear(Seat(p), p, m) = Seat(p)
BY DEF R!IsMember, R!In, Hear, Seat, Absent

\* New tracks go behind the old, and whoever wants one is due an offer.
LEMMA PublishedTables ==
  ASSUME TablesInv, CleanAreCovered, NEW m \in MediaControl, m.t = "TracksPublished",
         R!OnTracksPublished(m)
  PROVE  /\ TablesInv' /\ CleanAreCovered'
         /\ \A p \in Pid : Seat(p)' = Hear(Seat(p), p, m)
<1> DEFINE x == m.p
           r == m.r
<1>1. UNCHANGED <<roomId, nextRoomId, nextPid, offers>> /\ r \in RoomIds /\ x \in Pid
      /\ m.ids \in Seq(TrackIds)
  BY EventFields DEF R!OnTracksPublished
<1>2. CASE ~R!IsMember(r, x)
  <2>1. seats' = seats /\ dirty \subseteq dirty'
    BY <1>2 DEF R!OnTracksPublished
  <2>2. TablesInv'
    BY <1>1, <2>1, SeatsKeptTables DEF TablesInv, TablesTypeOK
  <2>3. CleanAreCovered'
    BY <1>1, <2>1 DEF CleanAreCovered, Covered, R!In, R!PublishedBy
  <2>4. ASSUME NEW p \in Pid PROVE Seat(p)' = Hear(Seat(p), p, m)
    <3>1. Seat(p)' = Seat(p)
      BY <2>1 DEF Seat, R!PublishedBy
    <3> QED
      BY <1>2, <3>1, StrangersHearNothing
  <2> QED
    BY <2>2, <2>3, <2>4
<1>3. CASE R!IsMember(r, x)
  <2> DEFINE list == seats[x].published
             e == R!Extended(list, m.ids)
  <2>1. x \in DOMAIN seats /\ seats[x].room = r /\ roomId[r] # R!NoId
    BY <1>3, SeatFields DEF R!IsMember, R!In
  <2>2. /\ seats' = [seats EXCEPT ![x].published = e]
        /\ dirty' = dirty \cup {<<roomId[r], q>> : q \in R!Interested(seats', r, x, m.ids)}
    BY <1>3, <2>1 DEF R!OnTracksPublished
  <2>3. list \in Seq(TrackIds) /\ seats[x] \in SeatType
    BY <2>1, SeatFields
  <2>4. /\ e \in Seq(TrackIds) /\ Len(list) <= Len(e)
        /\ \A i \in 1 .. Len(list) : e[i] = list[i]
        /\ Listed(e) = Listed(list) \cup Listed(m.ids)
    BY <1>1, <2>3, ExtendedList
  <2> HIDE DEF e, list
  <2>5. /\ DOMAIN seats' = DOMAIN seats
        /\ seats'[x] = [seats[x] EXCEPT !.published = e]
        /\ \A p \in DOMAIN seats : p # x => seats'[p] = seats[p]
    BY <2>1, <2>2
  <2>6. /\ seats'[x] \in SeatType /\ seats'[x].room = seats[x].room /\ seats'[x].pid = seats[x].pid
        /\ seats'[x].published = e /\ seats'[x].wants = seats[x].wants
    BY <2>3, <2>4, <2>5 DEF SeatType
  <2>7. seats' \in [DOMAIN seats' -> SeatType]
    BY <2>1, <2>2, <2>5, <2>6 DEF TablesInv, TablesTypeOK
  <2>8. ASSUME NEW p \in DOMAIN seats, NEW i \in DOMAIN seats[p].published
        PROVE  i \in DOMAIN seats'[p].published /\ seats'[p].published[i] = seats[p].published[i]
    <3>1. CASE p = x
      <4>1. seats[p].published = list /\ seats'[p].published = e
        BY <2>6, <3>1 DEF list
      <4>2. i \in 1 .. Len(list) /\ Len(list) \in Nat /\ Len(e) \in Nat /\ DOMAIN e = 1 .. Len(e)
        BY <2>3, <2>4, <2>8, <4>1
      <4> QED
        BY <2>4, <4>1, <4>2
    <3>2. CASE p # x
      BY <2>5, <3>2
    <3> QED
      BY <3>1, <3>2
  <2>9. TablesInv' /\ \A s \in RoomIds : R!In(seats', s) = R!In(seats, s)
    BY <1>1, <2>5, <2>6, <2>7, <2>8, SeatsKeptTables
  <2>10. CleanAreCovered'
    <3> SUFFICES ASSUME NEW p \in DOMAIN seats', <<roomId'[seats'[p].room], p>> \notin dirty',
                        NEW q \in R!In(seats', seats'[p].room) \ {p}, NEW t \in R!PublishedBy(seats', q),
                        seats'[p].wants.all \/ <<q, t>> \in seats'[p].wants.refs
                 PROVE  \E o \in offers'[p] : o.owner = q /\ o.id = t
      BY DEF CleanAreCovered, Covered
    <3>1. /\ p \in DOMAIN seats /\ seats'[p].room = seats[p].room /\ seats'[p].wants = seats[p].wants
          /\ seats[p].room \in RoomIds
      BY <2>5, <2>6, SeatFields
    <3>2. q \in R!In(seats, seats[p].room) \ {p}
      BY <2>9, <3>1
    <3>3. <<roomId[seats[p].room], p>> \notin dirty
      BY <1>1, <2>2, <3>1
    <3>4. CASE t \in R!PublishedBy(seats, q)
      BY <1>1, <3>1, <3>2, <3>3, <3>4 DEF CleanAreCovered, Covered
    <3>5. CASE t \notin R!PublishedBy(seats, q)
      <4>1. q = x
        BY <2>5, <3>2, <3>5 DEF R!PublishedBy, R!In
      <4>2. t \in Listed(e) /\ t \notin Listed(list)
        BY <2>6, <3>5, <4>1 DEF R!PublishedBy, Listed, list
      <4>3. PICK i \in DOMAIN m.ids : m.ids[i] = t
        BY <2>4, <4>2 DEF Listed
      <4>4. seats[p].room = r
        BY <2>1, <3>2, <4>1 DEF R!In
      <4>5. p \in R!In(seats', r) \ {x}
        BY <3>1, <4>1, <4>4 DEF R!In
      <4>6. p \in R!Interested(seats', r, x, m.ids)
        BY <4>1, <4>3, <4>5 DEF R!Interested
      <4>7. <<roomId[r], p>> \in dirty'
        BY <2>2, <4>6
      <4> QED
        BY <1>1, <3>1, <4>4, <4>7
    <3> QED
      BY <3>4, <3>5
  <2>11. ASSUME NEW p \in Pid PROVE Seat(p)' = Hear(Seat(p), p, m)
    <3>1. CASE p = x
      <4>1. /\ R!PublishedBy(seats', x) = Listed(e) /\ R!PublishedBy(seats, x) = Listed(list)
        BY <2>6 DEF R!PublishedBy, Listed, list
      <4>2. Seat(p) = [here |-> TRUE, room |-> r, known |-> Listed(list), wants |-> seats[x].wants]
        BY <2>1, <3>1, <4>1 DEF Seat
      <4>3. Seat(p)' = [here |-> TRUE, room |-> r, known |-> Listed(list) \cup Listed(m.ids),
                        wants |-> seats[x].wants]
        BY <2>1, <2>4, <2>5, <2>6, <3>1, <4>1 DEF Seat
      <4>4. Listed(m.ids) = {m.ids[i] : i \in DOMAIN m.ids}
        BY DEF Listed
      <4> DEFINE s == Seat(p)
      <4>5. s.here /\ s.room = r /\ s.known = Listed(list) /\ s.wants = seats[x].wants
        BY <4>2
      <4> HIDE DEF s
      <4>6. Hear(s, p, m) = [here |-> TRUE, room |-> r, known |-> Listed(list) \cup Listed(m.ids),
                             wants |-> seats[x].wants]
        BY <3>1, <4>4, <4>5 DEF Hear
      <4> QED
        BY <4>3, <4>6 DEF s
    <3>2. CASE p # x
      <4>1. Seat(p)' = Seat(p)
        BY <2>5, <3>2, SeatUntouched
      <4> QED
        BY <3>2, <4>1, OthersHearNothing
    <3> QED
      BY <3>1, <3>2
  <2> QED
    BY <2>9, <2>10, <2>11
<1> QED
  BY <1>2, <1>3

\* The last set of a member is what it wants, and it is due an offer.
LEMMA WantedTables ==
  ASSUME TablesInv, CleanAreCovered, NEW m \in MediaControl, m.t = "SubscriptionsChanged",
         R!OnSubscriptionsChanged(m)
  PROVE  /\ TablesInv' /\ CleanAreCovered'
         /\ \A p \in Pid : Seat(p)' = Hear(Seat(p), p, m)
<1> DEFINE x == m.p
           r == m.r
           w == [all |-> FALSE, refs |-> m.refs]
<1>1. UNCHANGED <<roomId, nextRoomId, nextPid, offers>> /\ r \in RoomIds /\ x \in Pid
      /\ m.refs \in SUBSET Refs
  BY EventFields DEF R!OnSubscriptionsChanged
<1>2. CASE ~R!IsMember(r, x)
  <2>1. seats' = seats /\ dirty \subseteq dirty'
    BY <1>2 DEF R!OnSubscriptionsChanged
  <2>2. TablesInv'
    BY <1>1, <2>1, SeatsKeptTables DEF TablesInv, TablesTypeOK
  <2>3. CleanAreCovered'
    BY <1>1, <2>1 DEF CleanAreCovered, Covered, R!In, R!PublishedBy
  <2>4. ASSUME NEW p \in Pid PROVE Seat(p)' = Hear(Seat(p), p, m)
    <3>1. Seat(p)' = Seat(p)
      BY <2>1, SeatUntouched
    <3> QED
      BY <1>2, <3>1, StrangersHearNothing
  <2> QED
    BY <2>2, <2>3, <2>4
<1>3. CASE R!IsMember(r, x)
  <2>1. x \in DOMAIN seats /\ seats[x].room = r /\ roomId[r] # R!NoId /\ seats[x] \in SeatType
    BY <1>3, SeatFields DEF R!IsMember, R!In
  <2>2. seats' = [seats EXCEPT ![x].wants = w] /\ dirty' = dirty \cup {<<roomId[r], x>>}
    BY <1>3, <2>1 DEF R!OnSubscriptionsChanged
  <2>3. w \in R!Wants /\ w.all = FALSE /\ w.refs = m.refs
    BY <1>1 DEF R!Wants
  <2> HIDE DEF w
  <2>4. /\ DOMAIN seats' = DOMAIN seats
        /\ seats'[x] = [seats[x] EXCEPT !.wants = w]
        /\ \A p \in DOMAIN seats : p # x => seats'[p] = seats[p]
    BY <2>1, <2>2
  <2>5. /\ seats'[x] \in SeatType /\ seats'[x].room = seats[x].room /\ seats'[x].pid = seats[x].pid
        /\ seats'[x].published = seats[x].published /\ seats'[x].wants = w
    BY <2>1, <2>3, <2>4 DEF SeatType
  <2>6. seats' \in [DOMAIN seats' -> SeatType]
    BY <2>1, <2>2, <2>4, <2>5 DEF TablesInv, TablesTypeOK
  <2>7. TablesInv' /\ \A s \in RoomIds : R!In(seats', s) = R!In(seats, s)
    BY <1>1, <2>4, <2>5, <2>6, SeatsKeptTables
  <2>8. CleanAreCovered'
    <3> SUFFICES ASSUME NEW p \in DOMAIN seats', <<roomId'[seats'[p].room], p>> \notin dirty',
                        NEW q \in R!In(seats', seats'[p].room) \ {p}, NEW t \in R!PublishedBy(seats', q),
                        seats'[p].wants.all \/ <<q, t>> \in seats'[p].wants.refs
                 PROVE  \E o \in offers'[p] : o.owner = q /\ o.id = t
      BY DEF CleanAreCovered, Covered
    <3>1. p # x
      BY <1>1, <2>1, <2>2, <2>5
    <3>2. p \in DOMAIN seats /\ seats'[p] = seats[p] /\ seats[p].room \in RoomIds
      BY <2>4, <3>1, SeatFields
    <3>3. q \in R!In(seats, seats[p].room) \ {p}
      BY <2>7, <3>2
    <3>4. t \in R!PublishedBy(seats, q)
      <4>1. q \in DOMAIN seats
        BY <3>3 DEF R!In
      <4>2. seats'[q].published = seats[q].published
        BY <2>4, <2>5, <4>1
      <4> QED
        BY <4>2 DEF R!PublishedBy
    <3>5. <<roomId[seats[p].room], p>> \notin dirty
      BY <1>1, <2>2, <3>2
    <3> QED
      BY <1>1, <3>2, <3>3, <3>4, <3>5 DEF CleanAreCovered, Covered
  <2>9. ASSUME NEW p \in Pid PROVE Seat(p)' = Hear(Seat(p), p, m)
    <3>1. CASE p = x
      <4>1. R!PublishedBy(seats', x) = R!PublishedBy(seats, x)
        BY <2>5 DEF R!PublishedBy
      <4>2. Seat(p) = [here |-> TRUE, room |-> r, known |-> R!PublishedBy(seats, x),
                       wants |-> seats[x].wants]
        BY <2>1, <3>1 DEF Seat
      <4>3. Seat(p)' = [here |-> TRUE, room |-> r, known |-> R!PublishedBy(seats, x), wants |-> w]
        BY <2>1, <2>4, <2>5, <3>1, <4>1 DEF Seat
      <4> DEFINE s == Seat(p)
      <4>4. s.here /\ s.room = r /\ s.known = R!PublishedBy(seats, x)
        BY <4>2
      <4> HIDE DEF s
      <4>5. Hear(s, p, m) = [here |-> TRUE, room |-> r, known |-> R!PublishedBy(seats, x), wants |-> w]
        BY <3>1, <4>4 DEF Hear, w
      <4> QED
        BY <4>3, <4>5 DEF s
    <3>2. CASE p # x
      <4>1. Seat(p)' = Seat(p)
        BY <2>4, <3>2, SeatUntouched
      <4> QED
        BY <3>2, <4>1, OthersHearNothing
    <3> QED
      BY <3>1, <3>2
  <2> QED
    BY <2>7, <2>8, <2>9
<1> QED
  BY <1>2, <1>3

\* Who leaves takes its seat along, and the last one the room.
LEMMA LeftTables ==
  ASSUME TablesInv, CleanAreCovered, NEW m \in MediaControl, m.t = "Left", R!OnLeft(m)
  PROVE  /\ TablesInv' /\ CleanAreCovered'
         /\ \A p \in Pid : Seat(p)' = Hear(Seat(p), p, m)
<1> DEFINE x == m.p
           r == m.r
<1>1. UNCHANGED <<nextRoomId, nextPid, offers>> /\ r \in RoomIds /\ x \in Pid
  BY EventFields DEF R!OnLeft
<1>2. CASE ~R!IsMember(r, x)
  <2>1. UNCHANGED <<seats, roomId, dirty>>
    BY <1>2 DEF R!OnLeft
  <2>2. TablesInv'
    BY <1>1, <2>1, SeatsKeptTables DEF TablesInv, TablesTypeOK
  <2>3. CleanAreCovered'
    BY <1>1, <2>1 DEF CleanAreCovered, Covered, R!In, R!PublishedBy
  <2>4. ASSUME NEW p \in Pid PROVE Seat(p)' = Hear(Seat(p), p, m)
    <3>1. Seat(p)' = Seat(p)
      BY <2>1, SeatUntouched
    <3> QED
      BY <1>2, <3>1, StrangersHearNothing
  <2> QED
    BY <2>2, <2>3, <2>4
<1>3. CASE R!IsMember(r, x)
  <2>1. x \in DOMAIN seats /\ seats[x].room = r
    BY <1>3 DEF R!IsMember, R!In
  <2>2. /\ seats' = [p \in DOMAIN seats \ {x} |-> seats[p]]
        /\ roomId' = IF R!In(seats', r) = {} THEN [roomId EXCEPT ![r] = R!NoId] ELSE roomId
        /\ dirty' = dirty \ {<<roomId[r], x>>}
    BY <1>3 DEF R!OnLeft
  <2>3. /\ DOMAIN seats' = DOMAIN seats \ {x}
        /\ \A p \in DOMAIN seats' : seats'[p] = seats[p] /\ p # x
    BY <2>2
  <2>4. roomId \in [RoomIds -> Nat \cup {R!NoId}]
    BY DEF TablesInv, TablesTypeOK
  <2>5. \A s \in RoomIds : R!In(seats', s) = R!In(seats, s) \ {x}
    BY <2>3 DEF R!In
  <2>6. TablesTypeOK'
    <3>1. roomId' \in [RoomIds -> Nat \cup {R!NoId}]
      BY <2>2, <2>4
    <3>2. seats' \in [DOMAIN seats' -> SeatType]
      BY <2>2 DEF TablesInv, TablesTypeOK
    <3> QED
      BY <1>1, <2>3, <3>1, <3>2 DEF TablesInv, TablesTypeOK
  <2>7. RoomsLive'
    <3> SUFFICES ASSUME NEW s \in RoomIds PROVE roomId'[s] # R!NoId <=> R!In(seats', s) # {}
      BY DEF RoomsLive
    <3>1. CASE s = r
      <4>1. roomId[r] # R!NoId
        BY <1>1, <2>1 DEF TablesInv, RoomsLive, R!In
      <4> QED
        BY <1>1, <2>2, <2>4, <3>1, <4>1
    <3>2. CASE s # r
      <4>1. roomId'[s] = roomId[s]
        BY <2>2, <2>4, <3>2
      <4>2. x \notin R!In(seats, s)
        BY <2>1, <3>2 DEF R!In
      <4> QED
        BY <2>5, <4>1, <4>2 DEF TablesInv, RoomsLive
    <3> QED
      BY <3>1, <3>2
  <2>8. PidsDiffer'
    BY <1>1, <2>3 DEF TablesInv, PidsDiffer
  <2>9. OffersHold'
    BY <1>1, <2>3 DEF TablesInv, OffersHold
  <2>10. MidsAgree'
    BY <1>1, <2>3 DEF TablesInv, MidsAgree
  <2>11. CleanAreCovered'
    <3> SUFFICES ASSUME NEW p \in DOMAIN seats', <<roomId'[seats'[p].room], p>> \notin dirty',
                        NEW q \in R!In(seats', seats'[p].room) \ {p}, NEW t \in R!PublishedBy(seats', q),
                        seats'[p].wants.all \/ <<q, t>> \in seats'[p].wants.refs
                 PROVE  \E o \in offers'[p] : o.owner = q /\ o.id = t
      BY DEF CleanAreCovered, Covered
    <3>1. p \in DOMAIN seats /\ seats'[p] = seats[p] /\ seats[p].room \in RoomIds /\ p # x
      BY <2>3, SeatFields
    <3>2. roomId'[seats[p].room] = roomId[seats[p].room]
      <4>1. CASE seats[p].room = r
        <5>1. p \in R!In(seats', r)
          BY <3>1, <4>1 DEF R!In
        <5> QED
          BY <2>2, <5>1
      <4>2. CASE seats[p].room # r
        BY <2>2, <2>4, <3>1, <4>2
      <4> QED
        BY <4>1, <4>2
    <3>3. <<roomId[seats[p].room], p>> \notin dirty
      BY <2>2, <3>1, <3>2
    <3>4. q \in R!In(seats, seats[p].room) \ {p} /\ q \in DOMAIN seats'
      BY <2>5, <3>1 DEF R!In
    <3>5. t \in R!PublishedBy(seats, q)
      BY <2>3, <3>4 DEF R!PublishedBy
    <3> QED
      BY <1>1, <3>1, <3>3, <3>4, <3>5 DEF CleanAreCovered, Covered
  <2>12. ASSUME NEW p \in Pid PROVE Seat(p)' = Hear(Seat(p), p, m)
    <3>1. CASE p = x
      <4>1. Seat(p)' = Absent
        BY <2>3, <3>1 DEF Seat
      <4> DEFINE s == Seat(p)
      <4>2. s.here /\ s.room = r
        BY <2>1, <3>1 DEF Seat
      <4> HIDE DEF s
      <4>3. Hear(s, p, m) = Absent
        BY <3>1, <4>2 DEF Hear
      <4> QED
        BY <4>1, <4>3 DEF s
    <3>2. CASE p # x
      <4>1. Seat(p)' = Seat(p)
        BY <2>3, <3>2, SeatUntouched
      <4> QED
        BY <3>2, <4>1, OthersHearNothing
    <3> QED
      BY <3>1, <3>2
  <2> QED
    BY <2>6, <2>7, <2>8, <2>9, <2>10, <2>11, <2>12 DEF TablesInv
<1> QED
  BY <1>2, <1>3

\* The router takes an event.
LEMMA TakeStands ==
  ASSUME FeedInv, TablesInv, CleanAreCovered, \A p \in Pid : Standing(p),
         R!RouterTakes, UNCHANGED hubVars
  PROVE  TablesInv' /\ CleanAreCovered' /\ \A p \in Pid : Standing(p)'
<1> DEFINE m == Head(ctl)
<1>1. /\ ctl \in Seq(MediaControl) /\ ctl # <<>> /\ ctl' = Tail(ctl) /\ m \in MediaControl
      /\ R!OnControl(m)
  BY DEF FeedInv, WiresTypeOK, ChannelTypeOK, R!RouterTakes
<1>2. offers' = offers
  BY <1>1 DEF R!OnControl, R!OnJoined, R!OnSessionDescription, R!OnTracksPublished,
              R!OnSubscriptionsChanged, R!OnLeft
<1>3. ASSUME NEW p \in Pid
      PROVE  /\ NewIn(Hear(Seat(p), p, m), offers[p], p, Tail(ctl))
             /\ Hearing(Hear(Seat(p), p, m), p, Tail(ctl))[Len(Tail(ctl))] = SeatAhead(p)
             /\ m.t = "Joined" /\ m.p = p => ~Seat(p).here /\ offers[p] = {}
  <2> DEFINE s == Seat(p)
             sent == offers[p]
  <2>1. NewIn(s, sent, p, ctl)
    BY DEF Standing
  <2> HIDE DEF s, sent
  <2>2. /\ NewIn(Hear(s, p, Head(ctl)), sent, p, Tail(ctl))
        /\ Hearing(Hear(s, p, Head(ctl)), p, Tail(ctl))[Len(Tail(ctl))] = Hearing(s, p, ctl)[Len(ctl)]
        /\ Head(ctl).t = "Joined" /\ Head(ctl).p = p => ~s.here /\ sent = {}
    BY <1>1, <2>1, NewTail
  <2> QED
    BY <2>2 DEF s, sent, SeatAhead
<1> HIDE DEF m
<1>4. m.p \in Pid
  BY <1>1, EventFields
<1>5. m.t = "Joined" => m.p \notin DOMAIN seats /\ offers[m.p] = {}
  BY <1>3, <1>4 DEF Seat
<1>6. TablesInv' /\ CleanAreCovered' /\ \A p \in Pid : Seat(p)' = Hear(Seat(p), p, m)
  BY <1>1, <1>5, JoinedTables, NegotiatedTables, PublishedTables, WantedTables, LeftTables
     DEF R!OnControl
<1>7. ASSUME NEW p \in Pid PROVE Standing(p)'
  <2> DEFINE s == Hear(Seat(p), p, m)
             k == Tail(ctl)
  <2>1. Seat(p)' = s /\ ctl' = k /\ offers'[p] = offers[p]
    BY <1>1, <1>2, <1>6
  <2>2. NewIn(s, offers[p], p, k) /\ Hearing(s, p, k)[Len(k)] = SeatAhead(p)
    BY <1>3
  <2> HIDE DEF s, k
  <2>3. NewIn(Seat(p), offers[p], p, ctl)'
    BY <2>1, <2>2
  <2>4. SeatAhead(p)' = SeatAhead(p)
    BY <2>1, <2>2 DEF SeatAhead
  <2>5. Mirrored(p)'
    BY <2>4 DEF Standing, Mirrored, Matches, hubVars, registryVars, Everyone
  <2> QED
    BY <2>1, <2>3, <2>5 DEF Standing, hubVars, registryVars
<1> QED
  BY <1>6, <1>7

-----------------------------------------------------------------------------
(* The router's steps: a flush of offers *)

\* A wanted track is on its owner's list where its mid says.
LEMMA WantedFields ==
  ASSUME TablesInv, NEW p \in DOMAIN seats, NEW o \in R!WantedTracks(seats, p)
  PROVE  /\ o \in OfferType
         /\ o.owner \in DOMAIN seats /\ seats[o.owner].room = seats[p].room
         /\ o.mid[1] = seats[o.owner].pid
         /\ o.mid[2] + 1 \in DOMAIN seats[o.owner].published
         /\ seats[o.owner].published[o.mid[2] + 1] = o.id
<1>0. PICK q \in R!In(seats, seats[p].room) \ {p} : \E i \in DOMAIN seats[q].published :
        o = [owner |-> q, id |-> seats[q].published[i], mid |-> <<seats[q].pid, i - 1>>]
  BY DEF R!WantedTracks
<1>1. PICK i \in DOMAIN seats[q].published :
        o = [owner |-> q, id |-> seats[q].published[i], mid |-> <<seats[q].pid, i - 1>>]
  BY <1>0
<1>2. q \in DOMAIN seats /\ seats[q].room = seats[p].room
  BY <1>1 DEF R!In
<1>3. q \in Pid /\ seats[q].pid \in Nat /\ seats[q].published \in Seq(TrackIds)
  BY <1>2, SeatFields
<1>4. i \in Nat /\ i - 1 \in Nat /\ (i - 1) + 1 = i /\ seats[q].published[i] \in TrackIds
  BY <1>1, <1>3
<1>5. o.owner = q /\ o.id = seats[q].published[i] /\ o.mid = <<seats[q].pid, i - 1>>
      /\ o.mid[1] = seats[q].pid /\ o.mid[2] = i - 1
  BY <1>1
<1>6. o \in OfferType
  BY <1>1, <1>3, <1>4 DEF OfferType
<1> QED
  BY <1>1, <1>2, <1>4, <1>5, <1>6

\* An offer that is due has every track that is wanted.
LEMMA WantedAll ==
  ASSUME TablesInv, NEW p \in DOMAIN seats, NEW q \in R!In(seats, seats[p].room) \ {p},
         NEW t \in R!PublishedBy(seats, q), seats[p].wants.all \/ <<q, t>> \in seats[p].wants.refs
  PROVE  \E o \in R!WantedTracks(seats, p) : o.owner = q /\ o.id = t
<1> DEFINE w == R!Resolved(seats, p)
<1>1. PICK i \in DOMAIN seats[q].published : seats[q].published[i] = t
  BY DEF R!PublishedBy
<1>2. w.all \/ <<seats[q].pid, Kind[seats[q].published[i]]>> \in w.refs
  <2>1. CASE seats[p].wants.all
    BY <2>1 DEF R!Resolved, R!Everything
  <2>2. CASE ~seats[p].wants.all
    <3> DEFINE known == {x \in seats[p].wants.refs : /\ x[1] \in R!In(seats, seats[p].room)
                                                     /\ x[2] \in R!PublishedBy(seats, x[1])}
    <3>1. w = [all |-> FALSE, refs |-> {<<seats[ref[1]].pid, Kind[ref[2]]>> : ref \in known}]
      BY <2>2 DEF R!Resolved
    <3>2. <<q, t>> \in known
      BY <2>2
    <3>3. <<seats[q].pid, Kind[t]>> \in {<<seats[ref[1]].pid, Kind[ref[2]]>> : ref \in known}
      <4> HIDE DEF known
      <4> QED
        BY <3>2
    <3> QED
      BY <1>1, <3>1, <3>3
  <2> QED
    BY <2>1, <2>2
<1> HIDE DEF w
<1>3. [owner |-> q, id |-> seats[q].published[i], mid |-> <<seats[q].pid, i - 1>>]
        \in R!WantedTracks(seats, p)
  BY <1>2 DEF R!WantedTracks, w
<1> QED
  BY <1>1, <1>3

\* A flush leaves nobody without what it wants, and every mid true.
LEMMA FlushedTables ==
  ASSUME TablesInv, CleanAreCovered, R!FlushOffers
  PROVE  TablesInv' /\ CleanAreCovered'
<1>1. UNCHANGED <<roomId, nextRoomId, nextPid, seats>> /\ dirty' = {}
      /\ offers' = [p \in Pid |-> IF p \in R!Due THEN R!WantedTracks(seats, p) ELSE offers[p]]
  BY DEF R!FlushOffers, R!tableVars
<1>2. ASSUME NEW p \in DOMAIN seats, NEW o \in offers'[p]
      PROVE  o \in R!WantedTracks(seats, p) \/ o \in offers[p]
  BY <1>1, SeatFields
<1>3. TablesTypeOK'
  <2>1. ASSUME NEW p \in Pid PROVE offers'[p] \in SUBSET OfferType
    <3>1. CASE p \in R!Due
      <4>1. p \in DOMAIN seats
        BY <3>1 DEF R!Due
      <4> QED
        BY <1>1, <3>1, <4>1, WantedFields
    <3>2. CASE p \notin R!Due
      BY <1>1, <3>2 DEF TablesInv, TablesTypeOK
    <3> QED
      BY <3>1, <3>2
  <2>2. offers' \in [Pid -> SUBSET OfferType]
    BY <1>1, <2>1
  <2> QED
    BY <1>1, <2>2 DEF TablesInv, TablesTypeOK
<1>4. RoomsLive' /\ PidsDiffer'
  BY <1>1 DEF TablesInv, RoomsLive, PidsDiffer, R!In
<1>5. ASSUME NEW p \in DOMAIN seats, NEW o \in offers'[p]
      PROVE  /\ o.mid[1] < nextPid[seats[p].room]
             /\ \A q \in DOMAIN seats :
                  seats[q].room = seats[p].room /\ seats[q].pid = o.mid[1] =>
                    /\ q = o.owner
                    /\ o.mid[2] + 1 \in DOMAIN seats[q].published
                    /\ seats[q].published[o.mid[2] + 1] = o.id
  <2>1. CASE o \in offers[p]
    BY <2>1 DEF TablesInv, OffersHold
  <2>2. CASE o \in R!WantedTracks(seats, p)
    BY <2>2, WantedFields DEF TablesInv, PidsDiffer
  <2> QED
    BY <1>2, <1>5, <2>1, <2>2
<1>6. OffersHold'
  BY <1>1, <1>5 DEF OffersHold
<1>7. ASSUME NEW p \in DOMAIN seats, NEW q \in DOMAIN seats, seats[p].room = seats[q].room,
             NEW o \in R!WantedTracks(seats, p), NEW n \in offers'[q], o.mid = n.mid
      PROVE  o.owner = n.owner /\ o.id = n.id
  <2>1. /\ o.owner \in DOMAIN seats /\ seats[o.owner].room = seats[q].room
        /\ n.mid[1] = seats[o.owner].pid
        /\ seats[o.owner].published[n.mid[2] + 1] = o.id
    BY <1>7, WantedFields
  <2> QED
    BY <1>5, <2>1
<1>8. MidsAgree'
  <2> SUFFICES ASSUME NEW p \in DOMAIN seats, NEW q \in DOMAIN seats, seats[p].room = seats[q].room,
                      NEW o \in offers'[p], NEW n \in offers'[q], o.mid = n.mid
               PROVE  o.owner = n.owner /\ o.id = n.id
    BY <1>1 DEF MidsAgree
  <2>1. CASE o \in R!WantedTracks(seats, p)
    BY <1>7, <2>1
  <2>2. CASE n \in R!WantedTracks(seats, q)
    BY <1>7, <2>2
  <2>3. CASE o \in offers[p] /\ n \in offers[q]
    BY <2>3 DEF TablesInv, MidsAgree
  <2> QED
    BY <1>2, <2>1, <2>2, <2>3
<1>9. CleanAreCovered'
  <2> SUFFICES ASSUME NEW p \in DOMAIN seats',
                      NEW q \in R!In(seats', seats'[p].room) \ {p}, NEW t \in R!PublishedBy(seats', q),
                      seats'[p].wants.all \/ <<q, t>> \in seats'[p].wants.refs
               PROVE  \E o \in offers'[p] : o.owner = q /\ o.id = t
    BY DEF CleanAreCovered, Covered
  <2>0. /\ p \in DOMAIN seats /\ q \in R!In(seats, seats[p].room) \ {p} /\ t \in R!PublishedBy(seats, q)
        /\ seats[p].wants.all \/ <<q, t>> \in seats[p].wants.refs
    BY <1>1
  <2>1. \E o \in R!WantedTracks(seats, p) : o.owner = q /\ o.id = t
    BY <2>0, WantedAll
  <2>2. p \in Pid
    BY <2>0, SeatFields
  <2>3. CASE p \in R!Due
    BY <1>1, <2>1, <2>2, <2>3
  <2>4. CASE p \notin R!Due
    <3>1. <<roomId[seats[p].room], p>> \notin dirty
      BY <2>0, <2>1, <2>4 DEF R!Due
    <3>2. offers'[p] = offers[p]
      BY <1>1, <2>2, <2>4
    <3> QED
      BY <2>0, <3>1, <3>2 DEF CleanAreCovered, Covered
  <2> QED
    BY <2>3, <2>4
<1> QED
  BY <1>3, <1>4, <1>6, <1>8, <1>9 DEF TablesInv

\* The channel is empty then, so nobody the router knows is unknown to the
\* registry, and nobody to come is sent an offer.
LEMMA FlushStands ==
  ASSUME FeedInv, TablesInv, R!FlushOffers, UNCHANGED hubVars, NEW p \in Pid, Standing(p)
  PROVE  Standing(p)'
<1>1. ctl = <<>> /\ ctl' = ctl /\ seats' = seats
      /\ offers' = [x \in Pid |-> IF x \in R!Due THEN R!WantedTracks(seats, x) ELSE offers[x]]
  BY DEF R!FlushOffers, R!tableVars
<1>2. SeatAhead(p)' = SeatAhead(p)
  BY <1>1, SeatUntouched DEF SeatAhead
<1>3. NewIn(Seat(p), offers[p], p, ctl)'
  BY <1>1 DEF NewIn
<1>4. Mirrored(p)'
  BY <1>2 DEF Standing, Mirrored, Matches, hubVars, registryVars, Everyone
<1>5. ASSUME p >= nextSeq PROVE offers'[p] = {}
  <2>1. p \notin Everyone
    BY <1>5 DEF FeedInv, HubInv, RegistryInv, RegistryTypeOK, RoomsAreOccupied, Pid
  <2>2. SeatAhead(p) = Seat(p)
    BY <1>1, HearingStep DEF SeatAhead
  <2>3. p \notin DOMAIN seats
    BY <2>1, <2>2 DEF Standing, Mirrored, Matches, Seat
  <2> QED
    BY <1>1, <1>5, <2>3 DEF R!Due, Standing
<1> QED
  BY <1>3, <1>4, <1>5 DEF Standing, hubVars, registryVars

-----------------------------------------------------------------------------
(* The invariant and the theorems *)

LEMMA ControlInitInv == ControlInit => TablesInv /\ CleanAreCovered /\ \A p \in Pid : Standing(p)
<1> SUFFICES ASSUME ControlInit PROVE TablesInv /\ CleanAreCovered /\ \A p \in Pid : Standing(p)
  OBVIOUS
<1>1. /\ roomId = [r \in RoomIds |-> R!NoId] /\ nextRoomId = 0 /\ nextPid = [r \in RoomIds |-> 0]
      /\ seats = [p \in {} |-> 0] /\ offers = [p \in Pid |-> {}] /\ ctl = <<>>
  BY DEF ControlInit, R!RouterInit, SignalingInit
<1>2. DOMAIN seats = {}
  BY <1>1
<1>3. TablesTypeOK
  <2>1. seats \in [DOMAIN seats -> SeatType]
    BY <1>1, <1>2
  <2> QED
    BY <1>1, <1>2, <2>1 DEF TablesTypeOK
<1>4. RoomsLive /\ PidsDiffer /\ OffersHold /\ MidsAgree /\ CleanAreCovered
  BY <1>1, <1>2 DEF RoomsLive, PidsDiffer, OffersHold, MidsAgree, CleanAreCovered, R!In
<1>5. ASSUME NEW p \in Pid PROVE Standing(p)
  <2>1. Seat(p) = Absent
    BY <1>2 DEF Seat
  <2>2. SeatAhead(p) = Absent
    BY <1>1, <2>1, HearingStep DEF SeatAhead
  <2>3. p \notin Everyone
    BY DEF ControlInit, SignalingInit, RegistryInit, Everyone
  <2>4. Mirrored(p)
    BY <2>2, <2>3 DEF Mirrored, Matches, Absent
  <2> QED
    BY <1>1, <2>4 DEF Standing, NewIn
<1> QED
  BY <1>3, <1>4, <1>5 DEF TablesInv

\* The inductive invariant holds in every state.
LEMMA ControlInvariant == ControlSpec => []ControlInv
<1> DEFINE Inv == TablesInv /\ CleanAreCovered /\ \A p \in Pid : Standing(p)
<1>1. ControlInit => Inv
  BY ControlInitInv
<1>2. FeedInv /\ Inv /\ [ControlNext]_controlVars => Inv'
  <2> SUFFICES ASSUME FeedInv, Inv, [ControlNext]_controlVars PROVE Inv'
    OBVIOUS
  <2>0. TablesInv /\ CleanAreCovered /\ \A p \in Pid : Standing(p)
    OBVIOUS
  <2>1. CASE HubSteps
    <3>1. UNCHANGED <<roomId, nextRoomId, nextPid, seats, dirty, offers>>
      BY <2>1 DEF HubSteps, mediaVars
    <3>2. TablesInv'
      BY <2>0, <3>1, SeatsKeptTables DEF TablesInv, TablesTypeOK
    <3>3. CleanAreCovered'
      BY <2>0, <3>1 DEF CleanAreCovered, Covered, R!In, R!PublishedBy
    <3>4. \A p \in Pid : Standing(p)'
      BY <2>0, <2>1, HubStands
    <3> QED
      BY <3>2, <3>3, <3>4
  <2>2. CASE R!RouterTakes /\ UNCHANGED hubVars
    BY <2>0, <2>2, TakeStands
  <2>3. CASE R!FlushOffers /\ UNCHANGED hubVars
    <3>1. TablesInv' /\ CleanAreCovered'
      BY <2>0, <2>3, FlushedTables
    <3>2. \A p \in Pid : Standing(p)'
      BY <2>0, <2>3, FlushStands
    <3> QED
      BY <3>1, <3>2
  <2>4. CASE UNCHANGED controlVars
    <3>1. UNCHANGED <<roomId, nextRoomId, nextPid, seats, dirty, offers>> /\ UNCHANGED mediaVars
          /\ UNCHANGED <<members, tracks, subs, revision, nextSeq, ctl>>
      BY <2>4 DEF controlVars, mediaVars, hubVars, registryVars
    <3>2. TablesInv'
      BY <2>0, <3>1, SeatsKeptTables DEF TablesInv, TablesTypeOK
    <3>3. CleanAreCovered'
      BY <2>0, <3>1 DEF CleanAreCovered, Covered, R!In, R!PublishedBy
    <3>4. \A p \in Pid : Standing(p)'
      BY <2>0, <3>1, QuietStands
    <3> QED
      BY <3>2, <3>3, <3>4
  <2> QED
    BY <2>1, <2>2, <2>3, <2>4 DEF ControlNext, RouterSteps, R!RouterNext
<1>3. FeedInv /\ Inv => ControlInv
  BY DEF ControlInv, JoinsAreNew, Standing
<1> QED
  BY <1>1, <1>2, <1>3, ControlRefinesSignaling, FeedInvariant, PTL DEF ControlSpec

\* With the channel empty the router knows of p what the registry has.
LEMMA SeatWhenDry ==
  ASSUME ControlInv, ctl = <<>>, NEW p \in Pid
  PROVE  /\ p \in DOMAIN seats <=> p \in Everyone
         /\ p \in DOMAIN seats =>
              /\ seats[p].room \in RoomIds /\ p \in members[seats[p].room]
              /\ tracks[p] \subseteq R!PublishedBy(seats, p)
              /\ seats[p].wants.all => revision[p] = NoRevision
              /\ ~seats[p].wants.all => seats[p].wants.refs = subs[p]
<1>1. SeatAhead(p) = Seat(p)
  BY HearingStep DEF SeatAhead
<1>2. Matches(Seat(p), p)
  BY <1>1 DEF ControlInv, Mirrored
<1>3. CASE p \in DOMAIN seats
  <2> DEFINE s == Seat(p)
  <2>1. /\ s.here /\ s.room = seats[p].room /\ s.known = R!PublishedBy(seats, p)
        /\ s.wants = seats[p].wants
    BY <1>3 DEF Seat
  <2> HIDE DEF s
  <2>2. Matches(s, p)
    BY <1>2 DEF s
  <2> QED
    BY <1>3, <2>1, <2>2 DEF Matches
<1>4. CASE p \notin DOMAIN seats
  BY <1>2, <1>4 DEF Matches, Seat, Absent
<1> QED
  BY <1>3, <1>4

\* Once the control channel is empty the router of media.rs has exactly the
\* members of every room of the registry, and a room for exactly the occupied
\* ones, for any number of connections, rooms and participants.
THEOREM MediaMirrorsRoomAlways == ControlSpec => []MediaMirrorsRoom
<1>1. ControlInv => MediaMirrorsRoom
  <2> SUFFICES ASSUME ControlInv, ctl = <<>>, NEW r \in RoomIds
               PROVE  /\ R!In(seats, r) = members[r]
                      /\ r \in rooms <=> roomId[r] # R!NoId
    BY DEF MediaMirrorsRoom
  <2>0. /\ RegistryInv /\ TablesInv /\ members[r] \in SUBSET Pid
    BY DEF ControlInv, FeedInv, HubInv, RegistryInv, RegistryTypeOK
  <2>1. ASSUME NEW p \in R!In(seats, r) PROVE p \in members[r]
    <3>1. p \in DOMAIN seats /\ seats[p].room = r /\ p \in Pid
      BY <2>0, SeatFields DEF R!In
    <3> QED
      BY <3>1, SeatWhenDry
  <2>2. ASSUME NEW p \in members[r] PROVE p \in R!In(seats, r)
    <3>1. p \in Pid /\ p \in Everyone
      BY <2>0 DEF Everyone
    <3>2. p \in DOMAIN seats /\ seats[p].room \in RoomIds /\ p \in members[seats[p].room]
      BY <3>1, SeatWhenDry
    <3>3. seats[p].room = r
      BY <2>0, <3>2, RoomOfMember
    <3> QED
      BY <3>2, <3>3 DEF R!In
  <2>3. R!In(seats, r) = members[r]
    BY <2>1, <2>2
  <2> QED
    BY <2>0, <2>3 DEF TablesInv, RoomsLive, RegistryInv, RoomsAreOccupied
<1> QED
  BY <1>1, ControlInvariant, PTL

\* Then, too, the router's copy of every member's wishes is the registry's,
\* and it knows everything that is published.
THEOREM MediaFollowsIntentAlways == ControlSpec => []MediaFollowsIntent
<1>1. ControlInv => MediaFollowsIntent
  <2> SUFFICES ASSUME ControlInv, ctl = <<>>, NEW p \in DOMAIN seats
               PROVE  /\ seats[p].wants.all => revision[p] = NoRevision
                      /\ ~seats[p].wants.all => seats[p].wants.refs = subs[p]
                      /\ tracks[p] \subseteq R!PublishedBy(seats, p)
    BY DEF MediaFollowsIntent
  <2>1. p \in Pid
    BY SeatFields DEF ControlInv
  <2> QED
    BY <2>1, SeatWhenDry
<1> QED
  BY <1>1, ControlInvariant, PTL

\* With the channel empty and nothing marked dirty, the last offer of every
\* member has all it asked for (Router flush_offers).
THEOREM OffersCoverIntentAlways == ControlSpec => []OffersCoverIntent
<1>1. ControlInv => OffersCoverIntent
  <2> SUFFICES ASSUME ControlInv, ctl = <<>>, dirty = {}, NEW p \in DOMAIN seats, NEW ref \in Asked(p)
               PROVE  \E o \in offers[p] : ref = <<o.owner, o.id>>
    BY DEF OffersCoverIntent
  <2> DEFINE q == ref[1]
             t == ref[2]
  <2>1. /\ ref = <<q, t>> /\ q \in R!In(seats, seats[p].room) \ {p} /\ t \in tracks[q]
        /\ seats[p].wants.all \/ <<q, t>> \in subs[p]
    BY DEF Asked
  <2>2. TablesInv /\ p \in Pid /\ q \in DOMAIN seats /\ q \in Pid
    BY <2>1, SeatFields DEF ControlInv, R!In
  <2> HIDE DEF q, t
  <2>3. t \in R!PublishedBy(seats, q)
    BY <2>1, <2>2, SeatWhenDry
  <2>4. seats[p].wants.all \/ <<q, t>> \in seats[p].wants.refs
    BY <2>1, <2>2, SeatWhenDry
  <2>5. Covered(p)
    BY DEF ControlInv, CleanAreCovered
  <2> QED
    BY <2>1, <2>3, <2>4, <2>5 DEF Covered
<1> QED
  BY <1>1, ControlInvariant, PTL

\* A mid that was offered for one track is offered for no other, by no step
\* of hub or router.
THEOREM MidsAreStableAlways == ControlSpec => MidsAreStable
<1>1. ControlInv /\ ControlInv' /\ [ControlNext]_controlVars =>
        \A p, q \in DOMAIN seats \cap DOMAIN seats' :
          seats[p].room = seats[q].room =>
            \A o \in offers[p], n \in offers'[q] :
              o.mid = n.mid => o.owner = n.owner /\ o.id = n.id
  <2> SUFFICES ASSUME ControlInv, ControlInv', [ControlNext]_controlVars,
                      NEW p \in DOMAIN seats, NEW q \in DOMAIN seats, seats[p].room = seats[q].room,
                      NEW o \in offers[p], NEW n \in offers'[q], o.mid = n.mid
               PROVE  o.owner = n.owner /\ o.id = n.id
    OBVIOUS
  <2>0. TablesInv
    BY DEF ControlInv
  <2>1. CASE n \in offers[q]
    BY <2>0, <2>1 DEF TablesInv, MidsAgree
  <2>2. CASE n \notin offers[q]
    <3>1. R!FlushOffers
      BY <2>2 DEF ControlNext, HubSteps, RouterSteps, R!RouterNext, R!RouterTakes, R!OnControl,
                  R!OnJoined, R!OnSessionDescription, R!OnTracksPublished,
                  R!OnSubscriptionsChanged, R!OnLeft, controlVars, mediaVars
    <3>2. n \in R!WantedTracks(seats, q)
      BY <2>0, <2>2, <3>1, SeatFields DEF R!FlushOffers
    <3>3. /\ n.owner \in DOMAIN seats /\ seats[n.owner].room = seats[p].room
          /\ o.mid[1] = seats[n.owner].pid
          /\ seats[n.owner].published[o.mid[2] + 1] = n.id
      BY <2>0, <3>2, WantedFields
    <3> QED
      BY <2>0, <3>3 DEF TablesInv, OffersHold
  <2> QED
    BY <2>1, <2>2
<1> QED
  BY <1>1, ControlInvariant, PTL DEF ControlSpec, MidsAreStable
=============================================================================
