---------------------------- MODULE ControlPlane ----------------------------
(***************************************************************************)
(* The control plane end to end: the signaling hub (Signaling) writes the  *)
(* control channel that the media runtime's router (Router) reads.  The    *)
(* two run concurrently and share nothing else, so the router's tables     *)
(* trail the registry by the events that are in flight.                    *)
(***************************************************************************)
EXTENDS Signaling

CONSTANTS
  Kind,          (* track id -> "audio" or "video"                         *)
  NShards,       (* media shards                                           *)
  ShardCap       (* capacity of a shard's control queue                    *)

VARIABLES roomId, nextRoomId, nextPid, seats, dirty, offers, inbox

R == INSTANCE Router WITH Participants <- Pid

mediaVars == <<roomId, nextRoomId, nextPid, seats, dirty, offers, inbox>>
hubVars == <<registryVars, task, sess, pid, home, outbounds, queue, lost, view,
             chat, chatSeq, frames>>
controlVars == <<hubVars, ctl, mediaVars>>

ControlInit == SignalingInit /\ R!RouterInit

HubSteps == /\ HubNext \/ \E c \in Conns : MediaReplies(c)
            /\ UNCHANGED mediaVars

RouterSteps == R!RouterNext /\ UNCHANGED hubVars

ControlNext == HubSteps \/ RouterSteps

ControlSpec == ControlInit /\ [][ControlNext]_controlVars

-----------------------------------------------------------------------------
\* Whatever the order of joins, rejections, leaves and closing sockets, once
\* the control channel is empty the router has exactly the members of every
\* room of the registry: no ghost that is forwarded to for ever, nobody the
\* media plane does not know of, and a room for exactly the occupied rooms.
MediaMirrorsRoom ==
  ctl = <<>> =>
    \A r \in RoomIds : /\ R!In(seats, r) = members[r]
                       /\ r \in rooms <=> roomId[r] # R!NoId

\* The router's copy of what a member wants is the registry's applied set
\* ("latest wins", media.rs), and only a member that never had a batch
\* applied is served everything.  Everything a member publishes is known to
\* the router under some index.
MediaFollowsIntent ==
  ctl = <<>> =>
    \A p \in DOMAIN seats :
      /\ seats[p].wants.all => revision[p] = NoRevision
      /\ ~seats[p].wants.all => seats[p].wants.refs = subs[p]
      /\ tracks[p] \subseteq R!PublishedBy(seats, p)

\* The tracks p asked for: its subscriptions, or everything when it has none
\* applied.
Asked(p) ==
  {ref \in (R!In(seats, seats[p].room) \ {p}) \X TrackIds :
     /\ ref[2] \in tracks[ref[1]]
     /\ seats[p].wants.all \/ ref \in subs[p]}

\* Coalescing loses no offer: when the channel is empty and nothing is marked
\* dirty, the last offer every member got has each track it asked for and
\* that is published, in whatever order subscriptions and publishes came.
OffersCoverIntent ==
  ctl = <<>> /\ dirty = {} =>
    \A p \in DOMAIN seats :
      Asked(p) \subseteq {<<o.owner, o.id>> : o \in offers[p]}

\* A canonical mid ("m{pid}.{index}", the subscriber's m-line) that one offer
\* gave to a track of a member is given to no other track or member by the
\* offers after it, to whomever in the room: a browser keeps an m-line's
\* receiver, and would show the wrong source.
MidsAreStable ==
  [][\A p, q \in DOMAIN seats \cap DOMAIN seats' :
       seats[p].room = seats[q].room =>
         \A o \in offers[p], n \in offers'[q] :
           o.mid = n.mid => o.owner = n.owner /\ o.id = n.id
    ]_controlVars

-----------------------------------------------------------------------------
(* Progress *)

\* The hub's tasks finish what they started (see SignalingFairness), and the
\* router's loop takes the next event, or flushes, whenever it can.
ControlFairness ==
  /\ \A c \in Conns : /\ WF_controlVars(WriteOut(c) /\ UNCHANGED mediaVars)
                      /\ WF_controlVars(Flush(c) /\ UNCHANGED mediaVars)
                      /\ WF_controlVars(TransportClose(c) /\ UNCHANGED mediaVars)
  /\ WF_controlVars(RouterSteps)

FairControl == ControlSpec /\ ControlFairness

\* A session that ended, by leaving, by rejection or with its socket, is some
\* day out of the registry and out of the router for good, though a rejected
\* one stays a member until its task has flushed: its task ends, and no
\* Joined that is still in flight can bring it back.
EndedSessionsAreForgotten ==
  \A c \in Conns :
    (task[c] = "closing" \/ sess[c] = "Closed") ~>
      [](task[c] = "done" /\ pid[c] \notin Everyone /\ pid[c] \notin DOMAIN seats)
=============================================================================
