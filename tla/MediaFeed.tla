----------------------------- MODULE MediaFeed -----------------------------
(***************************************************************************)
(* What the media runtime is promised about the control channel it reads   *)
(* (wroom-signaling/src/media.rs MediaControl): an abstract specification  *)
(* of the sender.  A participant is announced once, by Joined, before any  *)
(* other event about it; its events always name the room it joined; and    *)
(* once Left has been sent nothing but a repeated Left follows.  The       *)
(* router relies on all three: it drops events about unknown participants, *)
(* and a second Joined under the same name would replace a live member.    *)
(*                                                                         *)
(* Signaling implements this specification (SignalingProperties).          *)
(***************************************************************************)
EXTENDS Naturals, Sequences, FiniteSets

CONSTANTS
  Participants,    (* participant ids                                      *)
  RoomIds,         (* room names                                           *)
  NoRoom,          (* the room of a participant not announced yet          *)
  Tracks,          (* track ids                                            *)
  Refs             (* (owner, track id) pairs a subscription can name      *)

VARIABLES
  phase,           (* participant -> "new", "up" or "gone"                 *)
  room,            (* participant -> the room it was announced in          *)
  ctl              (* the control channel                                  *)

feedVars == <<phase, room, ctl>>

FeedInit ==
  /\ phase = [p \in Participants |-> "new"]
  /\ room = [p \in Participants |-> NoRoom]
  /\ ctl = <<>>

Send(msgs) == ctl' = ctl \o msgs

Offer(p, r) == [t |-> "PublisherOffer", r |-> r, p |-> p]

\* A participant appears, possibly with the publisher offer of its join.
Announce(p, r) ==
  /\ phase[p] = "new"
  /\ phase' = [phase EXCEPT ![p] = "up"]
  /\ room' = [room EXCEPT ![p] = r]
  /\ \/ Send(<<[t |-> "Joined", r |-> r, p |-> p]>>)
     \/ Send(<<[t |-> "Joined", r |-> r, p |-> p], Offer(p, r)>>)

\* Something about a live participant.
Negotiate(p) ==
  /\ phase[p] = "up"
  /\ \E type \in {"PublisherOffer", "SubscriberAnswer"} :
       Send(<<[t |-> type, r |-> room[p], p |-> p]>>)
  /\ UNCHANGED <<phase, room>>

\* A batch of tracks, none of them named twice.
Publish(p) ==
  /\ phase[p] = "up"
  /\ \E batch \in (SUBSET Tracks) \ {{}} :
       \E ids \in [1 .. Cardinality(batch) -> batch] :
         /\ \A i, j \in DOMAIN ids : ids[i] = ids[j] => i = j
         /\ Send(<<[t |-> "TracksPublished", r |-> room[p], p |-> p, ids |-> ids]>>)
  /\ UNCHANGED <<phase, room>>

Want(p) ==
  /\ phase[p] = "up"
  /\ \E refs \in SUBSET Refs :
       Send(<<[t |-> "SubscriptionsChanged", r |-> room[p], p |-> p, refs |-> refs]>>)
  /\ UNCHANGED <<phase, room>>

\* The departure, reported once or twice, and once more at any later time.
Depart(p) ==
  /\ phase[p] \in {"up", "gone"}
  /\ phase' = [phase EXCEPT ![p] = "gone"]
  /\ LET left == [t |-> "Left", r |-> room[p], p |-> p]
     IN  Send(<<left>>) \/ Send(<<left, left>>)
  /\ UNCHANGED room

\* The media runtime takes the oldest event.
Take ==
  /\ ctl # <<>>
  /\ ctl' = Tail(ctl)
  /\ UNCHANGED <<phase, room>>

FeedNext ==
  \/ \E p \in Participants :
       \/ \E r \in RoomIds : Announce(p, r)
       \/ Negotiate(p) \/ Publish(p) \/ Want(p) \/ Depart(p)
  \/ Take

FeedSpec == FeedInit /\ [][FeedNext]_feedVars
=============================================================================
