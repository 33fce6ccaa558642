------------------------- MODULE SignalingProperties -------------------------
(***************************************************************************)
(* What the signaling plane promises, stated over module Signaling.        *)
(***************************************************************************)
EXTENDS Signaling

-----------------------------------------------------------------------------
\* Types; an outbound queue never holds more than its capacity.
SignalingTypeOK ==
  /\ RegistryTypeOK
  /\ task \in [Conns -> {"poll", "frame", "flush", "closing", "done"}]
  /\ sess \in [Conns -> {"AwaitingJoin", "Joined", "Closed"}]
  /\ pid \in [Conns -> Pid \cup {NoPid}]
  /\ home \in [Conns -> RoomIds \cup {NoRoom}]
  /\ outbounds \subseteq Pid
  /\ queue \in [Conns -> Seq(ServerMessage)]
  /\ \A c \in Conns : Len(queue[c]) <= OutCap
  /\ lost \in [Conns -> BOOLEAN]
  /\ view \in [Conns -> Roster]
  /\ chat \in [Conns -> Seq(Pid \X Nat)]
  /\ chatSeq \in [Conns -> Nat]
  /\ frames \in 0 .. MaxFrames
  /\ ctl \in Seq(MediaControl)

-----------------------------------------------------------------------------
(* The hub *)

\* A connection whose participant can be sent room updates.
Reachable(c) == pid[c] \in outbounds

\* Sessions, registry and outbound channels fit together.  A joined session
\* is in exactly the room it was admitted to and is reachable ("no broadcast
\* can slip between in-the-room and reachable", ws.rs); an outbound channel
\* belongs to a member; a member without one is a session that was rejected
\* and whose task has not finished; and no two sessions hold the same id.
SessionsMatchRegistry ==
  /\ \A c \in Conns : sess[c] = "Joined" =>
       pid[c] \in Pid /\ pid[c] \in members[home[c]] /\ Reachable(c)
  /\ \A p \in outbounds : p \in Everyone
  /\ \A p \in Everyone : \E c \in Conns :
       /\ pid[c] = p
       /\ p \in members[home[c]]
       /\ task[c] # "done"
       /\ p \notin outbounds => sess[c] = "Closed" /\ task[c] \in {"flush", "closing"}
  /\ \A c, d \in Conns : c # d /\ pid[c] # NoPid => pid[c] # pid[d]

-----------------------------------------------------------------------------
(* The rosters of the clients *)

\* The rosters of a client that starts from v and reads the messages of q:
\* the one after i messages is Reading(v, q)[i].
Reading(v, q) ==
  LET after[i \in Nat] == IF i = 0 THEN v ELSE Apply(after[i - 1], q[i])
  IN  after

\* The roster of c's client once it has read everything queued for it, and
\* what it is before it reads message i.
RosterBefore(c, i) == Reading(view[c], queue[c])[i - 1]
RosterAhead(c) == Reading(view[c], queue[c])[Len(queue[c])]

\* No lost or doubled update: a client that has been sent everything ends up,
\* after reading its queue, with the registry's members of its room and with
\* the tracks and mute flags of everybody else in it.  It relates the
\* snapshot in JoinResponse to the deltas that follow, for joins, leaves,
\* publishes and mutes racing with the join ("every registry mutation +
\* fan-out atomic: no session can observe a half-applied RoomDelta", ws.rs).
RostersAgree ==
  \A c \in Conns : Reachable(c) /\ ~lost[c] =>
    LET v == RosterAhead(c)
    IN  /\ v.here = members[home[c]]
        /\ \A p \in v.here \ {pid[c]} : v.tracks[p] = tracks[p] /\ v.muted[p] = muted[p]

\* A delta makes sense for the roster it is applied to: joined names somebody
\* new, left and track changes somebody present, and a published track is not
\* there yet.
MakesSense(m, v) ==
  /\ m.t = "joined" => m.p \notin v.here
  /\ m.t = "left" => m.p \in v.here
  /\ m.t = "tracks" => /\ m.p \in v.here
                       /\ m.pub \cap v.tracks[m.p] = {}
                       /\ m.unpub \subseteq v.tracks[m.p] \cup m.pub

\* Every delta a client will read makes sense when it reads it.  The web
\* client depends on it: it appends published tracks without looking for the
\* id and drops changes about unknown ids (session.ts applyRoomDelta).
DeltasApplyCleanly ==
  \A c \in Conns : ~lost[c] =>
    \A i \in DOMAIN queue[c] : MakesSense(queue[c][i], RosterBefore(c, i))

-----------------------------------------------------------------------------
(* Chat *)

\* What c's client will have in its log after reading its queue.
Logging(l, q) ==
  LET after[i \in Nat] == IF i = 0 THEN l ELSE Log(after[i - 1], q[i])
  IN  after

LogAhead(c) == Logging(chat[c], queue[c])[Len(queue[c])]

\* "Order is server-defined" (signaling.proto): any two clients show the
\* messages they have in common in the same order, the sender's own echo
\* included, and no message twice.
ChatOrderIsShared ==
  \A c, d \in Conns :
    LET l == LogAhead(c)
        k == LogAhead(d)
    IN  \A i, j \in DOMAIN l : \A x, y \in DOMAIN k :
          /\ (i < j /\ l[i] = k[x] /\ l[j] = k[y]) => x < y
          /\ (c = d /\ l[i] = l[j]) => i = j

-----------------------------------------------------------------------------
(* The control channel *)

Holder(p) == CHOOSE c \in Conns : pid[c] = p

\* An id is new until it is assigned, up while it is in the registry.
FeedPhase == [p \in Pid |-> IF p >= nextSeq THEN "new"
                            ELSE IF p \in Everyone THEN "up" ELSE "gone"]
FeedRoom == [p \in Pid |-> IF p >= nextSeq THEN NoRoom ELSE home[Holder(p)]]

Feed == INSTANCE MediaFeed WITH
  Participants <- Pid, Tracks <- TrackIds, phase <- FeedPhase, room <- FeedRoom

\* Signaling keeps the promises of MediaFeed to the media plane, whatever the
\* order of frames, rejections, leaves and closing sockets.
FeedIsOrderly == Feed!FeedSpec

-----------------------------------------------------------------------------
(* Progress *)

\* A websocket task that has something to do gets to do it: tokio schedules
\* every ready task, and a pending write ends, because the client reads or
\* because the socket fails, and the media task drains its channel.  Clients
\* owe no frames and need not hang up; the fairness of WriteOut and Flush is
\* the assumption that a write completes.
SignalingFairness ==
  /\ \A c \in Conns : /\ WF_signalingVars(WriteOut(c))
                      /\ WF_signalingVars(Flush(c))
                      /\ WF_signalingVars(TransportClose(c))
  /\ WF_signalingVars(MediaTakes)

FairSignaling == SignalingSpec /\ SignalingFairness

\* ws.rs, deliver: "A full queue means the peer's socket is wedged; the write
\* half of its task will error out and close."
FullQueueMeansWedged == \A c \in Conns : lost[c] ~> task[c] = "done"
=============================================================================
