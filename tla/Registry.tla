------------------------------ MODULE Registry ------------------------------
(***************************************************************************)
(* The in-memory room registry of wroom-core (room.rs): who is in which    *)
(* room, what each participant publishes, and which remote tracks it wants *)
(* delivered.  Each public operation of the Rust type is one action here;  *)
(* the signaling hub (module Signaling) conjoins them with its own steps.  *)
(*                                                                         *)
(* A participant record lives in the maps tracks, muted, subs and revision *)
(* keyed by participant id.  Ids come from a sequence that only grows, so  *)
(* the maps are total over the ids that can be assigned and an id that is  *)
(* not in a room has the record of a fresh participant.  Layers, mids,     *)
(* names and subscription priorities are carried by the code and read by   *)
(* none of its decisions, so they are left out.                            *)
(***************************************************************************)
EXTENDS Naturals, Integers, FiniteSets

CONSTANTS
  RoomIds,            (* names a verified token can carry                  *)
  TrackIds,           (* client-chosen track ids                           *)
  Revisions,          (* revisions a client can put in UpdateSubscriptions *)
  Refs,               (* (owner id, track id) pairs clients subscribe to   *)
  MaxSeq,             (* bound: participants admitted in one behaviour     *)
  MaxRooms,           (* MAX_ROOMS                                         *)
  MaxParticipants,    (* MAX_PARTICIPANTS_PER_ROOM                         *)
  MaxTracks,          (* MAX_TRACKS_PER_PARTICIPANT                        *)
  MaxSubscriptions    (* MAX_SUBSCRIPTIONS_PER_PARTICIPANT                 *)

\* The caps are positive in the code; MaxParticipants >= 1 is what keeps a
\* refused join from leaving an empty room behind (the room is inserted
\* before the occupancy check).
ASSUME RegistryAssumption ==
  /\ MaxSeq \in Nat
  /\ MaxRooms \in Nat
  /\ MaxParticipants \in Nat \ {0}
  /\ MaxTracks \in Nat
  /\ MaxSubscriptions \in Nat
  /\ Revisions \subseteq Nat
  /\ IsFiniteSet(TrackIds)
  /\ Refs \subseteq (0 .. (MaxSeq - 1)) \X TrackIds

VARIABLES
  rooms,      (* ids of the rooms that exist                               *)
  members,    (* room id -> participant ids                                *)
  nextSeq,    (* next_participant_seq                                      *)
  tracks,     (* participant id -> published track ids                     *)
  muted,      (* participant id -> the published tracks flagged muted      *)
  subs,       (* participant id -> subscribed (owner, track id) refs       *)
  revision    (* participant id -> applied_subscription_revision           *)

registryVars == <<rooms, members, nextSeq, tracks, muted, subs, revision>>

Pid == 0 .. (MaxSeq - 1)
\* applied_subscription_revision = None
NoRevision == -1

Everyone == UNION {members[r] : r \in RoomIds}

RegistryInit ==
  /\ rooms = {}
  /\ members = [r \in RoomIds |-> {}]
  /\ nextSeq = 0
  /\ tracks = [p \in Pid |-> {}]
  /\ muted = [p \in Pid |-> {}]
  /\ subs = [p \in Pid |-> {}]
  /\ revision = [p \in Pid |-> NoRevision]

-----------------------------------------------------------------------------
(* join *)

HasCapacity(r) ==
  /\ r \in rooms \/ Cardinality(rooms) < MaxRooms
  /\ Cardinality(members[r]) < MaxParticipants

\* Fault: the id is the number of participants, not the next of a sequence.
JoinByCount(r) ==
  /\ HasCapacity(r)
  /\ nextSeq < MaxSeq
  /\ rooms' = rooms \cup {r}
  /\ members' = [members EXCEPT ![r] = @ \cup {Cardinality(Everyone)}]
  /\ nextSeq' = nextSeq + 1
  /\ UNCHANGED <<tracks, muted, subs, revision>>

\* Accepts the participant under the next id, creating the room if needed.
\* nextSeq < MaxSeq is the bound of the model, not a check of the code.
Join(r) ==
  /\ HasCapacity(r)
  /\ nextSeq < MaxSeq
  /\ rooms' = rooms \cup {r}
  /\ members' = [members EXCEPT ![r] = @ \cup {nextSeq}]
  /\ nextSeq' = nextSeq + 1
  /\ UNCHANGED <<tracks, muted, subs, revision>>

-----------------------------------------------------------------------------
(* leave *)

\* Fault: an emptied room is kept.
LeaveKeepsRoom(r, p) ==
  /\ rooms' = rooms
  /\ members' = [members EXCEPT ![r] = @ \ {p}]
  /\ tracks' = [tracks EXCEPT ![p] = {}]
  /\ muted' = [muted EXCEPT ![p] = {}]
  /\ subs' = [subs EXCEPT ![p] = {}]
  /\ revision' = [revision EXCEPT ![p] = NoRevision]
  /\ UNCHANGED nextSeq

\* Drops the participant and its whole record; the room ends when empty.
Leave(r, p) ==
  /\ rooms' = IF members[r] \ {p} = {} THEN rooms \ {r} ELSE rooms
  /\ members' = [members EXCEPT ![r] = @ \ {p}]
  /\ tracks' = [tracks EXCEPT ![p] = {}]
  /\ muted' = [muted EXCEPT ![p] = {}]
  /\ subs' = [subs EXCEPT ![p] = {}]
  /\ revision' = [revision EXCEPT ![p] = NoRevision]
  /\ UNCHANGED nextSeq

-----------------------------------------------------------------------------
(* publish / unpublish, as one UpdateLocalTracks batch applies them        *)

\* The new tracks publish accepts out of a batch: it takes them in list order
\* until the cap, and the list order is the client's choice.
Fresh(p, pub) ==
  LET new  == pub \ tracks[p]
      free == MaxTracks - Cardinality(tracks[p])
  IN  {f \in SUBSET new : \/ f = new /\ Cardinality(new) <= free
                          \/ Cardinality(f) = free /\ free < Cardinality(new)}

\* The already published tracks of the batch whose mute flag flips.
Flipped(p, pub, pubMuted) ==
  {t \in pub \cap tracks[p] : (t \in pubMuted) # (t \in muted[p])}

\* Fault: an unpublished track leaves its mute flag behind.
UpdateTracksKeepsFlag(p, pub, pubMuted, unpub, fresh) ==
  LET held == tracks[p] \cup fresh
  IN  /\ tracks' = [tracks EXCEPT ![p] = held \ unpub]
      /\ muted' = [muted EXCEPT ![p] = (@ \ pub) \cup (pubMuted \cap held)]
      /\ UNCHANGED <<rooms, members, nextSeq, subs, revision>>

\* One batch: fresh is one of Fresh(p, pub); then the unpublishes.
UpdateTracks(p, pub, pubMuted, unpub, fresh) ==
  LET held == tracks[p] \cup fresh
  IN  /\ tracks' = [tracks EXCEPT ![p] = held \ unpub]
      /\ muted' = [muted EXCEPT ![p] =
                     ((@ \ pub) \cup (pubMuted \cap held)) \ unpub]
      /\ UNCHANGED <<rooms, members, nextSeq, subs, revision>>

-----------------------------------------------------------------------------
(* update_subscriptions *)

\* Fault: the projection subtracts every removed key, even one the same batch
\* inserts again.
ProjectedIgnoresOverlap(p, upsert, remove) ==
  (Cardinality(subs[p]) - Cardinality(remove \cap subs[p]))
    + Cardinality(upsert \ subs[p])

\* The size the set would have, computed before anything is applied.
Projected(p, upsert, remove) ==
  (Cardinality(subs[p]) - Cardinality({t \in remove : t \in subs[p] /\ t \notin upsert}))
    + Cardinality(upsert \ subs[p])

\* Fault: a batch that reuses the applied revision is applied again.
IsStaleAllowsEqual(p, rev) == revision[p] # NoRevision /\ rev < revision[p]

IsStale(p, rev) == revision[p] # NoRevision /\ rev <= revision[p]

Fits(p, upsert, remove) == Projected(p, upsert, remove) <= MaxSubscriptions

\* All or nothing: a stale revision or an overflow leaves the set alone.
UpdateSubscriptions(p, upsert, remove, rev) ==
  /\ IF ~IsStale(p, rev) /\ Fits(p, upsert, remove)
     THEN /\ subs' = [subs EXCEPT ![p] = (@ \ remove) \cup upsert]
          /\ revision' = [revision EXCEPT ![p] = rev]
     ELSE UNCHANGED <<subs, revision>>
  /\ UNCHANGED <<rooms, members, nextSeq, tracks, muted>>

-----------------------------------------------------------------------------
(* The registry on its own: any caller, any legal call.                    *)

RegistryNext ==
  \/ \E r \in RoomIds : Join(r)
  \/ \E r \in RoomIds : \E p \in members[r] : Leave(r, p)
  \/ \E p \in Everyone :
       \/ \E pub, unpub \in SUBSET TrackIds : \E pubMuted \in SUBSET pub :
            \E fresh \in Fresh(p, pub) :
              UpdateTracks(p, pub, pubMuted, unpub, fresh)
       \/ \E upsert, remove \in SUBSET Refs, rev \in Revisions :
            UpdateSubscriptions(p, upsert, remove, rev)

RegistrySpec == RegistryInit /\ [][RegistryNext]_registryVars

-----------------------------------------------------------------------------
\* Types; only a published track has a mute flag.
RegistryTypeOK ==
  /\ rooms \subseteq RoomIds
  /\ members \in [RoomIds -> SUBSET Pid]
  /\ nextSeq \in 0 .. MaxSeq
  /\ tracks \in [Pid -> SUBSET TrackIds]
  /\ muted \in [Pid -> SUBSET TrackIds]
  /\ \A p \in Pid : muted[p] \subseteq tracks[p]
  /\ subs \in [Pid -> SUBSET Refs]
  /\ revision \in [Pid -> Nat \cup {NoRevision}]

\* Every cap of room.rs holds at once: rooms, participants of a room, tracks
\* and subscriptions of a participant ("Everything is bounded; excess is
\* rejected, never silently grown").  The subscription cap is checked on a
\* projected size, so this is also the claim that the projection is right for
\* overlapping upserts and removes.
WithinCaps ==
  /\ Cardinality(rooms) <= MaxRooms
  /\ \A r \in RoomIds : Cardinality(members[r]) <= MaxParticipants
  /\ \A p \in Pid : /\ Cardinality(tracks[p]) <= MaxTracks
                    /\ Cardinality(subs[p]) <= MaxSubscriptions

\* D16: a room exists exactly while somebody is in it, a participant is in at
\* most one room, and an id that is not (or not yet) a member has no record
\* left behind: a later reader of the id finds nothing of its former holder.
RoomsAreOccupied ==
  /\ \A r \in RoomIds : r \in rooms <=> members[r] # {}
  /\ \A r, s \in RoomIds : r # s => members[r] \cap members[s] = {}
  /\ \A p \in Pid : p \notin Everyone =>
       /\ tracks[p] = {} /\ muted[p] = {} /\ subs[p] = {}
       /\ revision[p] = NoRevision
  /\ \A p \in Everyone : p < nextSeq

\* A participant's intent only ever changes under a revision newer than every
\* one applied before, until the participant leaves: "stale revisions are
\* rejected so a delayed batch cannot resurrect old intent" (room.rs).
IntentFollowsRevisions ==
  [][\A p \in Pid :
       subs'[p] # subs[p] =>
         (revision'[p] > revision[p] \/ p \notin UNION {members'[r] : r \in RoomIds})
    ]_registryVars

\* An id is assigned at most once: whoever has left is never a member again,
\* so a stale reference to an id cannot reach somebody else.
IdsNeverReused ==
  [][\A p \in Pid : p < nextSeq /\ p \notin Everyone =>
       p \notin UNION {members'[r] : r \in RoomIds}]_registryVars
=============================================================================
