------------------------------- MODULE Router -------------------------------
(***************************************************************************)
(* The control half of the media runtime (wroomd/src/media.rs Router): it  *)
(* reads the control channel the signaling hub writes, keeps its own       *)
(* tables of rooms, members, published tracks and wanted tracks, and       *)
(* pushes deltas to the shards.  Subscriber offers are coalesced: members  *)
(* are marked dirty and get one offer when the channel has run dry.        *)
(*                                                                         *)
(* The router owns nothing but its side of two kinds of queue: ctl, which  *)
(* signaling fills, and inbox[s], the bounded control queue of shard s.    *)
(* Active speakers, its third duty, have no influence on these tables.     *)
(***************************************************************************)
EXTENDS Integers, Sequences, FiniteSets

CONSTANTS
  Participants,   (* participant names (ids the registry assigned)         *)
  RoomIds,        (* room names                                            *)
  TrackIds,       (* track ids                                             *)
  Refs,           (* (owner, track id) pairs a subscription can name       *)
  Kind,           (* track id -> "audio" or "video"                        *)
  NShards,        (* n_shards                                              *)
  ShardCap        (* capacity of a shard's control queue                   *)

VARIABLES
  ctl,            (* the control channel, oldest event first               *)
  roomId,         (* room name -> numeric id, NoId when not there          *)
  nextRoomId,     (* next_room_id                                          *)
  nextPid,        (* room name -> next_pid of the room that is there       *)
  seats,          (* member name -> room, pid, published, wants            *)
  dirty,          (* dirty_offers: (room id, member name)                  *)
  offers,         (* member name -> tracks of its last OfferSub (history)  *)
  inbox           (* shard -> control queue                                *)

tableVars == <<roomId, nextRoomId, nextPid, seats>>
routerVars == <<ctl, tableVars, dirty, offers, inbox>>

NoId == -1
Shards == 0 .. (NShards - 1)

\* wants is None (everything the others publish) or a set of raw refs.
Everything == [all |-> TRUE, refs |-> {}]
Wants == [all: BOOLEAN, refs: SUBSET Refs]

RouterInit ==
  /\ roomId = [r \in RoomIds |-> NoId]
  /\ nextRoomId = 0
  /\ nextPid = [r \in RoomIds |-> 0]
  /\ seats = [p \in {} |-> 0]
  /\ dirty = {}
  /\ offers = [p \in Participants |-> {}]
  /\ inbox = [s \in Shards |-> <<>>]

-----------------------------------------------------------------------------
(* Tables.  st is seats before or after the event at hand.                 *)

In(st, r) == {p \in DOMAIN st : st[p].room = r}
IsMember(r, p) == p \in In(seats, r)

PublishedBy(st, p) == {st[p].published[i] : i \in DOMAIN st[p].published}

\* resolve_wants: refs become (pid, kind) pairs of what is published; a ref
\* to a camera therefore covers every video track of its owner.
Resolved(st, p) ==
  LET w == st[p].wants
  IN  IF w.all THEN Everything
      ELSE [all |-> FALSE,
            refs |-> {<<st[ref[1]].pid, Kind[ref[2]]>> :
                        ref \in {x \in w.refs : /\ x[1] \in In(st, st[p].room)
                                                /\ x[2] \in PublishedBy(st, x[1])}}]

\* wanted_tracks: what the next offer to p will carry, each track with the
\* canonical mid "m{pid}.{index}" of its place in the owner's list.
WantedTracks(st, p) ==
  LET w == Resolved(st, p)
  IN  UNION {{[owner |-> q, id |-> st[q].published[i], mid |-> <<st[q].pid, i - 1>>] :
                i \in {j \in DOMAIN st[q].published :
                         \/ w.all
                         \/ <<st[q].pid, Kind[st[q].published[j]]>> \in w.refs}} :
             q \in In(st, st[p].room) \ {p}}

\* The whole want-table of a room, as WantsAll carries it.
WantsTable(st, r) == {<<st[p].pid, Resolved(st, p)>> : p \in In(st, r)}

-----------------------------------------------------------------------------
(* Shard queues *)

\* ShardCtlQ::send, one message after the other: what does not fit is lost.
Accepted(q, msgs) ==
  LET all == q \o msgs
  IN  IF Len(all) <= ShardCap THEN all ELSE SubSeq(all, 1, ShardCap)

Broadcast(msgs) == inbox' = [s \in Shards |-> Accepted(inbox[s], msgs)]

ToHome(p, msg) ==
  inbox' = [s \in Shards |-> IF s = seats[p].pid % NShards
                             THEN Accepted(inbox[s], <<msg>>) ELSE inbox[s]]

WantsAll(id, st, r) == [t |-> "WantsAll", room |-> id, table |-> WantsTable(st, r)]

-----------------------------------------------------------------------------
(* Router::on_control, one event                                           *)

\* A member takes the next pid of its room; its first offer is due.
OnJoined(m) ==
  LET isNew == roomId[m.r] = NoId
      id    == IF isNew THEN nextRoomId ELSE roomId[m.r]
      seat  == [room |-> m.r, pid |-> IF isNew THEN 0 ELSE nextPid[m.r],
                published |-> <<>>, wants |-> Everything]
      after == [p \in DOMAIN seats \cup {m.p} |-> IF p = m.p THEN seat ELSE seats[p]]
  IN  /\ roomId' = [roomId EXCEPT ![m.r] = id]
      /\ nextRoomId' = IF isNew THEN nextRoomId + 1 ELSE nextRoomId
      /\ nextPid' = [nextPid EXCEPT ![m.r] = seat.pid + 1]
      /\ seats' = after
      /\ dirty' = dirty \cup {<<id, m.p>>}
      /\ UNCHANGED offers
      /\ Broadcast((IF isNew THEN <<[t |-> "RoomUp", room |-> id, r |-> m.r]>> ELSE <<>>)
                     \o <<[t |-> "MemberUp", room |-> id, name |-> m.p, pid |-> seat.pid],
                          WantsAll(id, after, m.r)>>)

\* PublisherOffer and SubscriberAnswer go to the member's home shard.
OnSessionDescription(m) ==
  /\ IF IsMember(m.r, m.p)
     THEN ToHome(m.p, [t |-> m.t, room |-> roomId[m.r], name |-> m.p])
     ELSE UNCHANGED inbox
  /\ UNCHANGED <<tableVars, dirty, offers>>

\* A track id is pushed unless the list has it.
WithTrack(list, id) == IF \E i \in DOMAIN list : list[i] = id THEN list ELSE Append(list, id)

\* The list of published tracks only ever grows, in the order of arrival.
Extended(list, ids) ==
  LET after[i \in Nat] == IF i = 0 THEN list ELSE WithTrack(after[i - 1], ids[i])
  IN  after[Len(ids)]

\* Fault: whoever has ever subscribed is left to its next update.
InterestedDefaultsOnly(st, r, p, ids) == {q \in In(st, r) \ {p} : st[q].wants.all}

\* Members whose wants cover one of the publisher's new tracks.
Interested(st, r, p, ids) ==
  {q \in In(st, r) \ {p} : \/ st[q].wants.all
                           \/ \E i \in DOMAIN ids : <<p, ids[i]>> \in st[q].wants.refs}

\* Fault: a batch replaces what was published before.
OnTracksPublishedReplaces(m) ==
  LET id    == roomId[m.r]
      after == IF IsMember(m.r, m.p)
               THEN [seats EXCEPT ![m.p].published = m.ids] ELSE seats
  IN  /\ IF id = NoId
         THEN UNCHANGED <<seats, dirty, inbox>>
         ELSE /\ seats' = after
              /\ dirty' = dirty \cup {<<id, q>> : q \in Interested(after, m.r, m.p, m.ids)}
              /\ Broadcast(<<WantsAll(id, after, m.r)>>)
      /\ UNCHANGED <<roomId, nextRoomId, nextPid, offers>>

OnTracksPublished(m) ==
  LET id    == roomId[m.r]
      after == IF IsMember(m.r, m.p)
               THEN [seats EXCEPT ![m.p].published = Extended(@, m.ids)] ELSE seats
  IN  /\ IF id = NoId
         THEN UNCHANGED <<seats, dirty, inbox>>
         ELSE /\ seats' = after
              /\ dirty' = dirty \cup {<<id, q>> : q \in Interested(after, m.r, m.p, m.ids)}
              /\ Broadcast(<<WantsAll(id, after, m.r)>>)
      /\ UNCHANGED <<roomId, nextRoomId, nextPid, offers>>

\* Fault: a new set is added to the wants that are there.
OnSubscriptionsChangedMerges(m) ==
  LET id    == roomId[m.r]
      after == IF IsMember(m.r, m.p)
               THEN [seats EXCEPT ![m.p].wants =
                       [all |-> FALSE, refs |-> @.refs \cup m.refs]] ELSE seats
  IN  /\ IF id = NoId
         THEN UNCHANGED <<seats, dirty, inbox>>
         ELSE /\ seats' = after
              /\ dirty' = dirty \cup {<<id, m.p>>}
              /\ Broadcast(<<WantsAll(id, after, m.r)>>)
      /\ UNCHANGED <<roomId, nextRoomId, nextPid, offers>>

OnSubscriptionsChanged(m) ==
  LET id    == roomId[m.r]
      after == IF IsMember(m.r, m.p)
               THEN [seats EXCEPT ![m.p].wants = [all |-> FALSE, refs |-> m.refs]] ELSE seats
  IN  /\ IF id = NoId
         THEN UNCHANGED <<seats, dirty, inbox>>
         ELSE /\ seats' = after
              /\ dirty' = dirty \cup {<<id, m.p>>}
              /\ Broadcast(<<WantsAll(id, after, m.r)>>)
      /\ UNCHANGED <<roomId, nextRoomId, nextPid, offers>>

\* Fault: an empty room stays.
OnLeftKeepsRoom(m) ==
  LET id    == roomId[m.r]
      after == [p \in DOMAIN seats \ {m.p} |-> seats[p]]
  IN  /\ IF IsMember(m.r, m.p)
         THEN /\ seats' = after
              /\ dirty' = dirty \ {<<id, m.p>>}
              /\ Broadcast(<<[t |-> "MemberGone", room |-> id, name |-> m.p],
                             WantsAll(id, after, m.r)>>)
         ELSE UNCHANGED <<seats, dirty, inbox>>
      /\ UNCHANGED <<roomId, nextRoomId, nextPid, offers>>

\* Only the first Left of a member does anything; the last member takes the
\* room with it.
OnLeft(m) ==
  LET id    == roomId[m.r]
      after == [p \in DOMAIN seats \ {m.p} |-> seats[p]]
      empty == In(after, m.r) = {}
  IN  /\ IF IsMember(m.r, m.p)
         THEN /\ seats' = after
              /\ roomId' = IF empty THEN [roomId EXCEPT ![m.r] = NoId] ELSE roomId
              /\ dirty' = dirty \ {<<id, m.p>>}
              /\ Broadcast(<<[t |-> "MemberGone", room |-> id, name |-> m.p]>>
                             \o (IF empty THEN <<>> ELSE <<WantsAll(id, after, m.r)>>))
         ELSE UNCHANGED <<seats, roomId, dirty, inbox>>
      /\ UNCHANGED <<nextRoomId, nextPid, offers>>

OnControl(m) ==
  \/ m.t = "Joined" /\ OnJoined(m)
  \/ m.t \in {"PublisherOffer", "SubscriberAnswer"} /\ OnSessionDescription(m)
  \/ m.t = "TracksPublished" /\ OnTracksPublished(m)
  \/ m.t = "SubscriptionsChanged" /\ OnSubscriptionsChanged(m)
  \/ m.t = "Left" /\ OnLeft(m)

-----------------------------------------------------------------------------
(* Router::run *)

RouterTakes ==
  /\ ctl # <<>>
  /\ ctl' = Tail(ctl)
  /\ OnControl(Head(ctl))

\* The members flush_offers sends an offer to.
Due == {p \in DOMAIN seats : /\ <<roomId[seats[p].room], p>> \in dirty
                             /\ WantedTracks(seats, p) # {}}

\* The orders in which the set can be walked.
Walks(S) == {f \in [1 .. Cardinality(S) -> S] : \A x \in S : \E i \in DOMAIN f : f[i] = x}

\* The channel has run dry: one offer for every dirty member that wants
\* anything.  Events posted while the router flushes change nothing it reads.
FlushOffers ==
  /\ ctl = <<>>
  /\ dirty # {}
  /\ dirty' = {}
  /\ offers' = [p \in Participants |-> IF p \in Due THEN WantedTracks(seats, p) ELSE offers[p]]
  /\ \E walk \in Walks(Due) :
       LET offer(p) == [t |-> "OfferSub", room |-> roomId[seats[p].room], name |-> p,
                        tracks |-> WantedTracks(seats, p)]
           sent[i \in Nat] ==
             IF i = 0 THEN inbox
             ELSE [s \in Shards |-> IF s = seats[walk[i]].pid % NShards
                                    THEN Accepted(sent[i - 1][s], <<offer(walk[i])>>)
                                    ELSE sent[i - 1][s]]
       IN  inbox' = sent[Len(walk)]
  /\ UNCHANGED <<ctl, tableVars>>

RouterNext == RouterTakes \/ FlushOffers
=============================================================================
