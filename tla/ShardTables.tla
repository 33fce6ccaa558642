---------------------------- MODULE ShardTables ----------------------------
(***************************************************************************)
(* What one media shard keeps of the rooms, and how each control message   *)
(* changes it (wroomd/src/media.rs RoomShard, Shard::on_control): every    *)
(* member's pid and resolved wants, the state of its own members, and,     *)
(* rebuilt from those, which of its members and which other shards a       *)
(* publisher's packets go to.                                              *)
(*                                                                         *)
(* A shard is a record: ids (room name -> id), rooms (id -> room) and legs *)
(* (its transports).  A subscriber offer's m-lines are the subject of      *)
(* WireFormats, the way a transport comes up that of LegSetup.             *)
(***************************************************************************)
EXTENDS Router, Functions

CONSTANTS
  LineKind        (* m-line of a publisher's offer -> "audio" or "video"   *)

Lines == DOMAIN LineKind
Kinds == {"audio", "video"}

\* There is a shard, its queue has a capacity, and a line is of one of the
\* two kinds.
ASSUME ShardAssumption ==
  NShards \in Nat \ {0} /\ ShardCap \in Nat /\ LineKind \in [Lines -> Kinds]

Home(n) == n % NShards

\* A key without a value gives the default.
At(f, x, default) == IF x \in DOMAIN f THEN f[x] ELSE default

Without(f, xs) == Restrict(f, DOMAIN f \ xs)
With(f, x, y) == [z \in DOMAIN f \cup {x} |-> IF z = x THEN y ELSE f[z]]

Nothing == [x \in {} |-> x]

NewShard == [ids |-> [r \in RoomIds |-> NoId], rooms |-> Nothing, legs |-> Nothing]

NewRoom == [pids |-> Nothing, locals |-> Nothing, wants |-> Nothing,
            demand |-> Nothing, fan |-> Nothing, maxPid |-> 0]

\* mid_track as the set of the offer's lines that publish (a line's index is
\* its mid's place and its canonical index), ssrc_map as SSRC -> line.
NewMember == [lines |-> {}, ssrcs |-> Nothing]

-----------------------------------------------------------------------------
(* The derived tables *)

Covers(w, pp, kind) == w.all \/ <<pp, kind>> \in w.refs

\* Members of the room a publisher's packets of a kind are for.
Takers(room, pp, kind) ==
  {q \in DOMAIN room.pids : /\ room.pids[q] # pp
                            /\ Covers(At(room.wants, room.pids[q], Everything), pp, kind)}

\* The shards that have somebody to serve, for who is wanted at all.
DemandTable(room) ==
  [pp \in {x \in Range(room.pids) : \E kind \in Kinds : Takers(room, x, kind) # {}} |->
     [kind \in Kinds |-> {Home(room.pids[q]) : q \in Takers(room, pp, kind)}]]

\* The shard's own members to serve, for every pid there may be.
FanTable(room) ==
  [pp \in 0 .. (room.maxPid - 1) |->
     [kind \in Kinds |-> IF pp \in Range(room.pids)
                         THEN Takers(room, pp, kind) \cap DOMAIN room.locals ELSE {}]]

\* rebuild_fanout
Rebuilt(room) == [room EXCEPT !.demand = DemandTable(room), !.fan = FanTable(room)]

-----------------------------------------------------------------------------
(* The control messages; sh is the shard before, s its number              *)

OnRoomUp(sh, m) ==
  [sh EXCEPT !.ids[m.r] = m.room,
             !.rooms = IF m.room \in DOMAIN @ THEN @ ELSE With(@, m.room, NewRoom)]

InRoom(sh, id, Op(_)) ==
  IF id \in DOMAIN sh.rooms THEN [sh EXCEPT !.rooms[id] = Op(@)] ELSE sh

OnMemberUp(sh, m, s) ==
  InRoom(sh, m.room, LAMBDA room :
    Rebuilt([room EXCEPT !.pids = With(@, m.name, m.pid),
                         !.wants = With(@, m.pid, Everything),
                         !.maxPid = IF m.pid < @ THEN @ ELSE m.pid + 1,
                         !.locals = IF Home(m.pid) = s THEN With(@, m.name, NewMember)
                                    ELSE @]))

WithoutMember(room, name) ==
  [room EXCEPT !.pids = Without(@, {name}),
               !.locals = Without(@, {name}),
               !.wants = Without(@, {room.pids[q] : q \in {name} \cap DOMAIN room.pids})]

LegsOf(name) == {name} \X {"pub", "sub"}

\* Fault: only the publisher's leg goes with the member.
OnMemberGoneKeepsSub(sh, m) ==
  LET left == IF m.room \in DOMAIN sh.rooms
              THEN [sh EXCEPT !.legs = Without(@, {<<m.name, "pub">>})] ELSE sh
  IN  InRoom(left, m.room, LAMBDA room : Rebuilt(WithoutMember(room, m.name)))

OnMemberGone(sh, m) ==
  LET left == IF m.room \in DOMAIN sh.rooms
              THEN [sh EXCEPT !.legs = Without(@, LegsOf(m.name))] ELSE sh
  IN  InRoom(left, m.room, LAMBDA room : Rebuilt(WithoutMember(room, m.name)))

\* The table only ever adds: who left was taken out by its MemberGone.
OnWantsAll(sh, m) ==
  InRoom(sh, m.room, LAMBDA room :
    LET row(pp) == (CHOOSE x \in m.table : x[1] = pp)[2]
        named == {x[1] : x \in m.table}
    IN  Rebuilt([room EXCEPT !.wants =
                   [pp \in DOMAIN @ \cup named |-> IF pp \in named THEN row(pp) ELSE @[pp]]]))

\* on_pub_offer with the lines the offer publishes.  A re-offer keeps the
\* transport; a line that publishes no more is forgotten under every SSRC.
OnPubOffer(sh, m, lines) ==
  LET key == <<m.name, "pub">>
      learned(member) == [lines |-> lines,
                          ssrcs |-> Restrict(member.ssrcs,
                                     {x \in DOMAIN member.ssrcs : member.ssrcs[x] \in lines})]
      noted == InRoom(sh, m.room, LAMBDA room :
                 IF m.name \in DOMAIN room.locals
                 THEN [room EXCEPT !.locals[m.name] = learned(@)] ELSE room)
  IN  IF m.room \in DOMAIN sh.rooms
      THEN [noted EXCEPT !.legs = IF key \in DOMAIN @ THEN @ ELSE With(@, key, "ready")]
      ELSE sh

\* offer_subscriber: the transport is there from the first offer on.
OnOfferSub(sh, m) ==
  LET key == <<m.name, "sub">>
  IN  IF m.room \in DOMAIN sh.rooms /\ m.name \in DOMAIN sh.rooms[m.room].locals
      THEN [sh EXCEPT !.legs = IF key \in DOMAIN @ THEN @ ELSE With(@, key, "offered")]
      ELSE sh

\* on_sub_answer: with the browser's half the leg can come up.
OnSubAnswer(sh, m) ==
  LET key == <<m.name, "sub">>
  IN  IF m.room \in DOMAIN sh.rooms /\ At(sh.legs, key, "none") = "offered"
      THEN [sh EXCEPT !.legs[key] = "ready"] ELSE sh
=============================================================================
