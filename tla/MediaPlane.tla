----------------------------- MODULE MediaPlane -----------------------------
(***************************************************************************)
(* The media runtime as a whole (wroomd/src/media.rs): the control channel *)
(* (MediaFeed) feeds the router (Router), the router's deltas feed the     *)
(* shards (ShardTables), and the shards pass packets and feedback between  *)
(* their members' legs, through each other's rings where a member lives on *)
(* another shard.  Every queue runs at its own pace.                       *)
(*                                                                         *)
(* The browsers are the environment: they connect legs, send media, sender *)
(* reports and feedback, speak and fall silent.  budget bounds how much of *)
(* each a behaviour has.                                                   *)
(***************************************************************************)
EXTENDS Speakers

CONSTANTS
  NoRoom,         (* the room of a participant not announced yet           *)
  Roster,         (* the order in which participants are announced         *)
  Batches,        (* batches of tracks that are published                  *)
  WantSets,       (* subscription sets that are asked for                  *)
  Offers,         (* sets of lines a publisher's offer can publish         *)
  RingCap,        (* capacity of a shard's packet ring                     *)
  SsrcCap,        (* SSRCs remembered per publisher (8)                    *)
  Budgets         (* what a behaviour may do, see budget                   *)

\* Everybody there is has one place on the roster; a ring has a capacity.
ASSUME PlaneAssumption ==
  /\ RingCap \in Nat
  /\ IsFiniteSet(RoomIds) /\ IsFiniteSet(Participants)
  /\ Roster \in Seq(Participants)
  /\ \A p \in Participants : \E i \in DOMAIN Roster : Roster[i] = p
  /\ \A i, j \in DOMAIN Roster : Roster[i] = Roster[j] => i = j

VARIABLES
  phase, room,    (* see MediaFeed                                         *)
  shard,          (* shard -> its tables and legs                          *)
  ring,           (* shard -> packets other shards handed to it            *)
  voices,         (* participants whose microphone is audible              *)
  post,           (* what was sent, and whom it reached (history)          *)
  round,          (* reports since the last change, and their merge (hist.)*)
  budget          (* what is left of the behaviour's share                 *)

Feed == INSTANCE MediaFeed WITH Tracks <- TrackIds

shardVars == <<shard, ring, voices>>
planeVars == <<routerVars, speakerVars, phase, room, shardVars, post, round, budget>>

NoRound == [heard |-> {}, merged |-> FALSE]

\* Nothing has happened yet.
Fresh ==
  /\ Feed!FeedInit
  /\ RouterInit
  /\ shard = [s \in Shards |-> NewShard]

\* Everybody on the roster is in the room r, the first publishes the tracks
\* of a batch, legs are up but for the last one's subscriber leg.
Settled(r, ids) ==
  LET place(p) == CHOOSE i \in DOMAIN Roster : Roster[i] = p
      last == Roster[Len(Roster)]
      tables(s) == Rebuilt([NewRoom EXCEPT
                     !.pids = [p \in Participants |-> place(p) - 1],
                     !.wants = [pp \in 0 .. (Len(Roster) - 1) |-> Everything],
                     !.locals = [p \in {q \in Participants : Home(place(q) - 1) = s} |->
                                   [NewMember EXCEPT !.lines = IF place(p) = 1 THEN Lines ELSE {}]],
                     !.maxPid = Len(Roster)])
  IN  /\ phase = [p \in Participants |-> "up"] /\ room = [p \in Participants |-> r]
      /\ ctl = <<>> /\ dirty = {} /\ inbox = [s \in Shards |-> <<>>]
      /\ roomId = [x \in RoomIds |-> IF x = r THEN 0 ELSE NoId]
      /\ nextRoomId = 1
      /\ nextPid = [x \in RoomIds |-> IF x = r THEN Len(Roster) ELSE 0]
      /\ seats = [p \in Participants |->
                    [room |-> r, pid |-> place(p) - 1, wants |-> Everything,
                     published |-> IF place(p) = 1 THEN ids ELSE <<>>]]
      /\ offers = [p \in Participants |-> WantedTracks(seats, p)]
      /\ shard = [s \in Shards |->
                    [ids |-> [x \in RoomIds |-> roomId[x]], rooms |-> [id \in {0} |-> tables(s)],
                     legs |-> [key \in (DOMAIN tables(s).locals) \X {"pub", "sub"} |->
                                 IF key = <<last, "sub">> THEN "ready" ELSE "up"]]]

PlaneInit ==
  /\ budget \in Budgets
  /\ IF budget.settled THEN \E r \in RoomIds, ids \in Batches : Settled(r, ids) ELSE Fresh
  /\ SpeakersInit
  /\ ring = [s \in Shards |-> <<>>]
  /\ voices = {}
  /\ post = Nothing
  /\ round = NoRound

Spend(what) == /\ budget[what] > 0
               /\ budget' = [budget EXCEPT ![what] = @ - 1]

\* Whether anything of post n is still on its way.
Travels(n) == \E s \in Shards : \E i \in DOMAIN ring[s] : ring[s][i].n = n

\* What has arrived everywhere need not be remembered any longer.
Open == {n \in DOMAIN post : Travels(n)}

\* Who a post is for is only settled while nothing else changes.
Upset(changes) == [n \in Open |-> [post[n] EXCEPT !.calm = @ /\ ~changes]]
Disturbed == post' = Upset(TRUE)

-----------------------------------------------------------------------------
(* The control side *)

\* Another event on the control channel.
Sends ==
  /\ Spend("events")
  /\ \A s \in Shards : Len(inbox[s]) <= budget.lag
  /\ ctl = <<>>
  /\ \E p \in Participants :
       \/ /\ \A i \in DOMAIN Roster : Roster[i] = p =>
               \A j \in 1 .. (i - 1) : phase[Roster[j]] # "new"
          /\ \E r \in RoomIds : Feed!Announce(p, r)
       \/ Feed!Negotiate(p)
       \/ \E ids \in Batches : Feed!Publish(p) /\ ctl'[1].ids = ids
       \/ \E refs \in WantSets : Feed!Want(p) /\ ctl'[1].refs = refs
       \/ Feed!Depart(p)
  /\ ctl'[1].t \in budget.types
  /\ round' = NoRound
  /\ UNCHANGED <<tableVars, dirty, offers, inbox, speakerVars, shardVars, post>>

\* The router's loop.
Routes ==
  /\ RouterNext
  /\ Disturbed
  /\ round' = NoRound
  /\ UNCHANGED <<phase, room, speakerVars, shardVars, budget>>

\* Shard s handles the oldest message of its control queue.  An offer that does
\* not parse changes nothing, and is not among Offers.
Handled(s, m) ==
  CASE m.t = "RoomUp" -> {OnRoomUp(shard[s], m)}
    [] m.t = "MemberUp" -> {OnMemberUp(shard[s], m, s)}
    [] m.t = "MemberGone" -> {OnMemberGone(shard[s], m)}
    [] m.t = "WantsAll" -> {OnWantsAll(shard[s], m)}
    [] m.t = "PublisherOffer" -> {OnPubOffer(shard[s], m, lines) : lines \in Offers}
    [] m.t = "OfferSub" -> {OnOfferSub(shard[s], m)}
    [] m.t = "SubscriberAnswer" -> {OnSubAnswer(shard[s], m)}
    [] m.t = "ActiveSpeakers" -> {shard[s]}

OnShardControl(s) ==
  /\ inbox[s] # <<>>
  /\ inbox' = [inbox EXCEPT ![s] = Tail(@)]
  /\ LET m == Head(inbox[s])
     IN  /\ \E sh \in Handled(s, m) : shard' = [shard EXCEPT ![s] = sh]
         /\ IF m.t = "ActiveSpeakers"
            THEN PassOn(shard[s], m) /\ UNCHANGED <<post, round>>
            ELSE Disturbed /\ round' = NoRound /\ UNCHANGED told
         /\ voices' = IF m.t = "MemberGone" THEN voices \ {m.name} ELSE voices
  /\ UNCHANGED <<ctl, tableVars, dirty, offers, reports, parts, sent, phase, room, ring, budget>>

-----------------------------------------------------------------------------
(* Legs.  "ready" legs can connect, "up" ones carry packets.               *)

LegState(p, leg) == LET at == {s \in Shards : <<p, leg>> \in DOMAIN shard[s].legs}
                    IN  IF at = {} THEN "none" ELSE shard[CHOOSE s \in at : TRUE].legs[<<p, leg>>]

IsUp(p, leg) == LegState(p, leg) = "up"
HomeOf(p, leg) == CHOOSE s \in Shards : <<p, leg>> \in DOMAIN shard[s].legs

\* The member record of p on its home shard s, and the room's id there.
IdAt(s, p) == shard[s].ids[room[p]]
MemberAt(s, p) == shard[s].rooms[IdAt(s, p)].locals[p]
Remembered(s, p) == /\ IdAt(s, p) \in DOMAIN shard[s].rooms
                    /\ p \in DOMAIN shard[s].rooms[IdAt(s, p)].locals

-----------------------------------------------------------------------------
(* Rings.  A message carries the number n of the post it belongs to.       *)

\* push_shard: a full ring drops the message.
Pushed(js, m) == [s \in Shards |-> IF s \in js /\ Len(ring[s]) < RingCap
                                   THEN Append(ring[s], m) ELSE ring[s]]
Lost(js) == \E s \in js : Len(ring[s]) >= RingCap

Reached(record, names) ==
  [record EXCEPT !.got = [q \in Participants |-> IF q \in names THEN @[q] + 1 ELSE @[q]]]

\* The number of the next post.
Number == CHOOSE n \in 1 .. (Cardinality(Open) + 1) : n \notin Open

\* A post of p that is due to the members in due, delivered at once to those
\* in now and handed to the shards in js as m; changes says that the step does
\* more than that.
Posts(p, due, now, js, m, changes) ==
  /\ ring' = Pushed(js, m)
  /\ post' = With(Upset(changes), Number,
                  Reached([from |-> p, due |-> due,
                           calm |-> ~Lost(js) /\ ctl = <<>> /\ \A s \in Shards : inbox[s] = <<>>,
                           got |-> [q \in Participants |-> 0]], now))

-----------------------------------------------------------------------------
(* Media, publisher to subscribers *)

Covered(id, kinds, pp, s) == UNION {At(shard[s].rooms[id].fan, pp, [k \in Kinds |-> {}])[kind] :
                                      kind \in kinds}

\* fanout_send: the targets of shard s whose leg carries packets.  A shard
\* that has not heard of the room has nobody to send to.
FanOut(s, id, pp, kinds) ==
  IF id \notin DOMAIN shard[s].rooms THEN {}
  ELSE {q \in Covered(id, kinds, pp, s) : At(shard[s].legs, <<q, "sub">>, "none") = "up"}

\* The other shards with anybody to serve; Fault: this one as well.
DemandOfAll(s, id, pp, kinds) ==
  UNION {At(shard[s].rooms[id].demand, pp, [k \in Kinds |-> {}])[kind] : kind \in kinds}

Demand(s, id, pp, kinds) ==
  (UNION {At(shard[s].rooms[id].demand, pp, [k \in Kinds |-> {}])[kind] : kind \in kinds}) \ {s}

\* Whom the router's tables say a publisher's packets are for, as far as
\* their legs carry any.
Audience(p, kinds) ==
  {q \in In(seats, seats[p].room) \ {p} :
     /\ \E kind \in kinds : Covers(Resolved(seats, q), seats[p].pid, kind)
     /\ IsUp(q, "sub")}

\* The line a packet is taken for: the one its mid names if that publishes,
\* else the one its SSRC was last seen with, else the only line of its kind.
Tag(member, line, named) ==
  LET same == {i \in member.lines : LineKind[i] = LineKind[line]}
  IN  IF named /\ line \in member.lines THEN {line}
      ELSE IF line \in DOMAIN member.ssrcs THEN {member.ssrcs[line]}
      ELSE IF Cardinality(same) = 1 THEN same ELSE {}

\* ssrc_map: a new SSRC is learned while there is room for one.
Learned(member, line, tag) ==
  IF Cardinality(DOMAIN member.ssrcs) < SsrcCap
  THEN [member EXCEPT !.ssrcs = With(@, line, tag)] ELSE member

\* on_datagram, fanout_start: a packet of p's line, with or without its mid.
Media(p, line, named) ==
  /\ IsUp(p, "pub")
  /\ LET s == HomeOf(p, "pub")
         id == IdAt(s, p)
         pp == shard[s].rooms[id].pids[p]
     IN  /\ Remembered(s, p)
         /\ \E tag \in Tag(MemberAt(s, p), line, named) :
              LET kinds == {LineKind[tag]}
              IN  /\ Spend("posts")
                  /\ Posts(p, IF p \in DOMAIN seats THEN Audience(p, kinds) ELSE {},
                           FanOut(s, id, pp, kinds), Demand(s, id, pp, kinds),
                           [t |-> "media", room |-> id, pid |-> pp, kinds |-> kinds, n |-> Number],
                           line \notin DOMAIN MemberAt(s, p).ssrcs)
                  /\ shard' = [shard EXCEPT ![s].rooms[id].locals[p] = Learned(@, line, tag)]
  /\ UNCHANGED <<routerVars, speakerVars, phase, room, voices, round>>

\* fanout_rtcp: a sender report goes to whoever takes anything of p.
SenderReport(p) ==
  /\ IsUp(p, "pub")
  /\ LET s == HomeOf(p, "pub")
         id == IdAt(s, p)
         pp == shard[s].rooms[id].pids[p]
     IN  /\ Remembered(s, p)
         /\ Spend("posts")
         /\ Posts(p, IF p \in DOMAIN seats THEN Audience(p, Kinds) ELSE {},
                  FanOut(s, id, pp, Kinds), Demand(s, id, pp, Kinds),
                  [t |-> "media", room |-> id, pid |-> pp, kinds |-> Kinds, n |-> Number],
                  FALSE)
  /\ UNCHANGED <<routerVars, speakerVars, phase, room, shard, voices, round>>

-----------------------------------------------------------------------------
(* Feedback, subscriber to publishers *)

Siblings(s) == Shards \ {s}

\* pli_local_pubs: shard s asks its publishers for key frames, but for the
\* one the request is for.
Nudged(s, id, pp) ==
  IF id \notin DOMAIN shard[s].rooms THEN {}
  ELSE {q \in DOMAIN shard[s].rooms[id].locals :
          /\ shard[s].rooms[id].pids[q] # pp
          /\ shard[s].rooms[id].locals[q].ssrcs # Nothing
          /\ At(shard[s].legs, <<q, "pub">>, "none") = "up"}

\* A leg comes up; a subscriber's is followed by a request for key frames.
Connects(p, leg) ==
  /\ LegState(p, leg) = "ready"
  /\ LET s == HomeOf(p, leg)
         id == IdAt(s, p)
         pp == shard[s].rooms[id].pids[p]
     IN  /\ shard' = [shard EXCEPT ![s].legs[<<p, leg>>] = "up"]
         /\ IF leg = "sub"
            THEN Posts(p, UNION {Nudged(x, id, pp) : x \in Shards}, Nudged(s, id, pp),
                       Siblings(s), [t |-> "pliAll", room |-> id, pid |-> pp, n |-> Number], TRUE)
            ELSE Disturbed /\ UNCHANGED ring
  /\ UNCHANGED <<routerVars, speakerVars, phase, room, voices, round, budget>>

\* The local member an SSRC (of q's line) is known to belong to, if it is
\* served.
Owner(s, id, q, line) ==
  IF id \in DOMAIN shard[s].rooms /\ q \in DOMAIN shard[s].rooms[id].locals
     /\ line \in DOMAIN shard[s].rooms[id].locals[q].ssrcs
     /\ At(shard[s].legs, <<q, "pub">>, "none") = "up"
  THEN {q} ELSE {}

\* forward_sub_rtcp: p asks for something of q's line.
Feedback(p, q, line) ==
  /\ p # q /\ room[p] = room[q] /\ IsUp(p, "sub")
  /\ \E s \in Shards : <<p, "sub">> \in DOMAIN shard[s].legs /\
       LET id == IdAt(s, p)
       IN  /\ \E x \in Shards : Owner(x, id, q, line) # {}
           /\ Spend("posts")
           /\ Posts(p, UNION {Owner(x, id, q, line) : x \in Shards}, Owner(s, id, q, line),
                    Siblings(s),
                    [t |-> "back", room |-> id, owner |-> q, line |-> line, n |-> Number], FALSE)
  /\ UNCHANGED <<routerVars, speakerVars, phase, room, shard, voices, round>>

-----------------------------------------------------------------------------
\* Shard s takes the oldest packet of its ring (on_fwd).
Receivers(s, m) ==
  CASE m.t = "media" -> FanOut(s, m.room, m.pid, m.kinds)
    [] m.t = "pliAll" -> Nudged(s, m.room, m.pid)
    [] m.t = "back" -> Owner(s, m.room, m.owner, m.line)

OnForwarded(s) ==
  /\ ring[s] # <<>>
  /\ ring' = [ring EXCEPT ![s] = Tail(@)]
  /\ LET m == Head(ring[s])
     IN  post' = [post EXCEPT ![m.n] = Reached(@, Receivers(s, m))]
  /\ UNCHANGED <<routerVars, speakerVars, phase, room, shard, voices, round, budget>>

\* A leg fails or is closed (drop_transport).
Drops(p, leg) ==
  /\ IsUp(p, leg)
  /\ Spend("drops")
  /\ shard' = [shard EXCEPT ![HomeOf(p, leg)].legs = Without(@, {<<p, leg>>})]
  /\ Disturbed
  /\ round' = NoRound
  /\ UNCHANGED <<routerVars, speakerVars, phase, room, ring, voices>>

-----------------------------------------------------------------------------
(* Speakers *)

\* Somebody with a microphone that is up speaks, or has not for a while.
Speaks(p) ==
  /\ Spend("voices")
  /\ IsUp(p, "pub")
  /\ voices' = (voices \ {p}) \cup ({p} \ voices)
  /\ round' = NoRound
  /\ UNCHANGED <<routerVars, speakerVars, phase, room, shard, ring, post>>

\* Shards report as often as the router merges, so that one report of each
\* is in the ring at a time.
Reports(s) ==
  /\ budget["talk"]
  /\ \A i \in DOMAIN reports : reports[i].shard # s
  /\ Report(s, shard[s], voices)
  /\ round' = [round EXCEPT !.heard = @ \cup {s}]
  /\ UNCHANGED <<routerVars, parts, sent, told, phase, room, shardVars, post, budget>>

MergesSpeakers ==
  /\ budget["talk"]
  /\ \A s \in Shards : Len(inbox[s]) <= budget.lag
  /\ \E elapsed \in BOOLEAN :
       /\ Merge(elapsed)
       /\ round' = [round EXCEPT !.merged = @ \/ (elapsed /\ round.heard = Shards)]
  /\ UNCHANGED <<ctl, tableVars, dirty, offers, phase, room, shardVars, post, budget>>

-----------------------------------------------------------------------------
Browsers ==
  \/ \E p \in Participants, leg \in {"pub", "sub"} : Connects(p, leg) \/ Drops(p, leg)
  \/ \E p \in Participants : SenderReport(p) \/ Speaks(p)
  \/ \E p \in Participants, line \in Lines, named \in BOOLEAN : Media(p, line, named)
  \/ \E p, q \in Participants, line \in Lines : Feedback(p, q, line)

ShardSteps == \E s \in Shards : OnShardControl(s) \/ OnForwarded(s) \/ Reports(s)

PlaneNext == Sends \/ Routes \/ MergesSpeakers \/ ShardSteps \/ Browsers

PlaneSpec == PlaneInit /\ [][PlaneNext]_planeVars

-----------------------------------------------------------------------------
(* What a shard must agree with *)

\* What the router's tables make of the room with id for shard s.
TrueRoom(s, id) ==
  LET members == MembersOf(id)
      takers(p, kind) == {q \in members \ {p} : Covers(Resolved(seats, q), seats[p].pid, kind)}
      own == {q \in members : Home(seats[q].pid) = s}
  IN  [pids   |-> [q \in members |-> seats[q].pid],
       own    |-> own,
       wants  |-> {<<seats[q].pid, Resolved(seats, q)>> : q \in members},
       demand |-> UNION {{<<seats[p].pid, kind, Home(seats[q].pid)>> : q \in takers(p, kind)} :
                           p \in members, kind \in Kinds},
       fan    |-> UNION {{<<seats[p].pid, kind, q>> : q \in own \cap takers(p, kind)} :
                           p \in members, kind \in Kinds}]

\* The same of the tables the shard has.
ShardRoom(sh, id) ==
  LET r == sh.rooms[id]
  IN  [pids   |-> r.pids,
       own    |-> DOMAIN r.locals,
       wants  |-> {<<pp, r.wants[pp]>> : pp \in DOMAIN r.wants},
       demand |-> {x \in (DOMAIN r.demand) \X Kinds \X Shards : x[3] \in r.demand[x[1]][x[2]]},
       fan    |-> {x \in (DOMAIN r.fan) \X Kinds \X Participants : x[3] \in r.fan[x[1]][x[2]]}]

\* A shard that has handled all its control messages knows of every room what
\* the router knows, its forwarding tables are those of the members' wants,
\* and it has legs of nobody but the members it is home to.
ShardsFollowRouter ==
  \A s \in Shards : inbox[s] = <<>> =>
    /\ LiveRooms \subseteq DOMAIN shard[s].rooms
    /\ \A id \in DOMAIN shard[s].rooms : ShardRoom(shard[s], id) = TrueRoom(s, id)
    /\ \A key \in DOMAIN shard[s].legs :
         \E id \in LiveRooms : key[1] \in TrueRoom(s, id).own

\* A packet, report or request that travels while nothing changes reaches
\* exactly those it is for, through whatever rings: every member that wants
\* it, whichever shard it lives on, or the publisher it asks.  Whatever
\* changes on the way, nobody gets it twice and its sender never.
TrafficArrives ==
  \A n \in DOMAIN post :
    /\ \A q \in Participants : post[n].got[q] <= IF q = post[n].from THEN 0 ELSE 1
    /\ post[n].calm /\ ~Travels(n) => {q \in Participants : post[n].got[q] = 1} = post[n].due

\* "Never name a departed speaker": when a list of speakers gets its turn in
\* a shard's queue, the shard still knows everybody it names, however old the
\* report that named them.
SpeakersArePresent ==
  \A s \in Shards : \A i \in DOMAIN inbox[s] :
    inbox[s][i].t = "ActiveSpeakers" =>
      LET before(t) == {inbox[s][j].name : j \in {k \in 1 .. (i - 1) : inbox[s][k].t = t}}
          id == inbox[s][i].room
          here == IF id \in DOMAIN shard[s].rooms THEN DOMAIN shard[s].rooms[id].pids ELSE {}
      IN  Range(inbox[s][i].top) \subseteq (here \cup before("MemberUp")) \ before("MemberGone")

\* Who fell silent or left is taken off the list, who speaks is put on it: a
\* second after the last change, once all shards have reported and the router
\* has merged their reports, everybody in a room has been told the loudest
\* who speak in it, and nobody else.
ListsAreCurrent ==
  round.merged /\ (\A s \in Shards : inbox[s] = <<>>) =>
    \A p \in DOMAIN seats : told[p] = Loudest(In(seats, seats[p].room) \cap voices)
=============================================================================
