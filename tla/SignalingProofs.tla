-------------------------- MODULE SignalingProofs --------------------------
(***************************************************************************)
(* Proofs about the room registry and the signaling plane, for any number  *)
(* of connections, rooms, tracks and participants and every capacity.      *)
(*                                                                         *)
(* The registry. The safety invariants are proved together, as one         *)
(* inductive invariant: the caps need the types (their sets are finite),   *)
(* and "no record outlives its participant" needs that a participant is in *)
(* one room only. Each operation has its own preservation lemma, which the *)
(* steps of the hub that conjoin the operation with their own cite.        *)
(*                                                                         *)
(* The hub. Its invariant says which connection answers for which          *)
(* participant of the registry. SessionsMatchRegistry is not inductive by  *)
(* itself: that the id a join is given is nobody's already needs every pid *)
(* to be below nextSeq, and that a rejected session's participant is not   *)
(* forgotten needs the task to be on its way to TransportClose.            *)
(*                                                                         *)
(* The control channel. The plane implements MediaFeed, the promises the   *)
(* media runtime relies on: every step of the hub is, on the channel, one  *)
(* step of the abstract sender or none. The refinement mapping finds the   *)
(* room of an id through the connection that holds it, so the proof also   *)
(* needs that every id ever assigned still has its connection (a           *)
(* connection keeps its pid when it ends), which makes Holder the same     *)
(* before and after.                                                       *)
(*                                                                         *)
(* The clients. Their rosters follow the registry, the deltas they read    *)
(* make sense, and their chat logs agree on the order. All three speak of  *)
(* what a client will have once it has read its queue, a recursive         *)
(* function of the queue, so there is induction over the natural numbers,  *)
(* stated for sets. RostersAgree and DeltasApplyCleanly are inductive      *)
(* together, given the hub's invariant: a delta makes sense because the    *)
(* roster it will meet is the registry's room before the step.             *)
(* ChatOrderIsShared needs that no log, read or queued, has a message its  *)
(* sender has not numbered yet.                                            *)
(***************************************************************************)
EXTENDS SignalingProperties, FiniteSetTheorems, TLAPS

-----------------------------------------------------------------------------
(* The registry *)

\* The inductive invariant.
RegistryInv ==
  /\ RegistryTypeOK
  /\ IsFiniteSet(rooms)
  /\ WithinCaps
  /\ RoomsAreOccupied

-----------------------------------------------------------------------------
(* Finiteness and sizes *)

\* The id space of a behaviour is finite.
LEMMA PidIsFinite == IsFiniteSet(Pid)
BY FS_Interval, RegistryAssumption DEF Pid

\* Every subset of the refs is finite.
LEMMA RefsAreFinite == ASSUME NEW S \in SUBSET Refs PROVE IsFiniteSet(S)
<1>1. IsFiniteSet(0 .. (MaxSeq - 1))
  BY FS_Interval, RegistryAssumption
<1>2. IsFiniteSet((0 .. (MaxSeq - 1)) \X TrackIds)
  BY <1>1, FS_Product, RegistryAssumption
<1>3. S \in SUBSET ((0 .. (MaxSeq - 1)) \X TrackIds)
  BY RegistryAssumption
<1> QED
  BY <1>2, <1>3, FS_Subset

\* Cardinalities of disjoint unions add up.
LEMMA DisjointUnion ==
  ASSUME NEW S, NEW T, IsFiniteSet(S), IsFiniteSet(T), S \cap T = {}
  PROVE  Cardinality(S \cup T) = Cardinality(S) + Cardinality(T)
<1>1. Cardinality(S \cup T) = Cardinality(S) + Cardinality(T) - Cardinality(S \cap T)
  BY FS_Union
<1>2. Cardinality(S \cap T) = 0
  BY FS_EmptySet
<1>3. Cardinality(S) \in Nat /\ Cardinality(T) \in Nat
  BY FS_CardinalityType
<1> QED
  BY <1>1, <1>2, <1>3

\* The projection of update_subscriptions is the size the set really gets,
\* for every overlap of upserts, removes and what is subscribed already.
LEMMA ProjectedIsExact ==
  ASSUME NEW p, NEW upsert \in SUBSET Refs, NEW remove \in SUBSET Refs,
         subs[p] \in SUBSET Refs
  PROVE  Projected(p, upsert, remove) = Cardinality((subs[p] \ remove) \cup upsert)
<1> DEFINE old  == subs[p]
           gone == {t \in remove : t \in subs[p] /\ t \notin upsert}
           new  == upsert \ subs[p]
<1>1. IsFiniteSet(old) /\ IsFiniteSet(gone) /\ IsFiniteSet(new) /\ IsFiniteSet(old \ gone)
  <2>1. gone \in SUBSET Refs /\ new \in SUBSET Refs /\ old \ gone \in SUBSET Refs
    OBVIOUS
  <2> QED
    BY <2>1, RefsAreFinite
<1>2. Cardinality(old \ gone) = Cardinality(old) - Cardinality(gone)
  <2>1. Cardinality(old \ gone) = Cardinality(old) - Cardinality(old \cap gone)
    BY <1>1, FS_Difference
  <2>2. old \cap gone = gone
    OBVIOUS
  <2> QED
    BY <2>1, <2>2
<1>3. Cardinality((old \ gone) \cup new) = Cardinality(old \ gone) + Cardinality(new)
  <2>1. (old \ gone) \cap new = {}
    OBVIOUS
  <2> QED
    BY <1>1, <2>1, DisjointUnion
<1>4. (old \ remove) \cup upsert = (old \ gone) \cup new
  OBVIOUS
<1> QED
  BY <1>2, <1>3, <1>4 DEF Projected

-----------------------------------------------------------------------------
(* Init *)

\* The empty registry satisfies the invariant.
LEMMA RegistryInitInv == RegistryInit => RegistryInv
<1> SUFFICES ASSUME RegistryInit PROVE RegistryInv
  OBVIOUS
<1>1. RegistryTypeOK
  BY RegistryAssumption DEF RegistryInit, RegistryTypeOK, NoRevision, Pid
<1>2. IsFiniteSet(rooms)
  BY FS_EmptySet DEF RegistryInit
<1>3. WithinCaps
  BY FS_EmptySet, RegistryAssumption DEF RegistryInit, WithinCaps
<1>4. RoomsAreOccupied
  BY DEF RegistryInit, RoomsAreOccupied, Everyone
<1> QED
  BY <1>1, <1>2, <1>3, <1>4 DEF RegistryInv

-----------------------------------------------------------------------------
(* The operations *)

\* join preserves the invariant.
LEMMA JoinInv ==
  ASSUME RegistryInv, NEW r \in RoomIds, Join(r)
  PROVE  RegistryInv'
<1> USE DEF RegistryInv
<1>0. nextSeq \in Pid /\ nextSeq \notin Everyone
  BY RegistryAssumption DEF Join, Pid, RegistryTypeOK, RoomsAreOccupied
<1>1. RegistryTypeOK'
  BY <1>0, RegistryAssumption DEF Join, RegistryTypeOK
<1>2. IsFiniteSet(rooms)'
  BY FS_AddElement DEF Join
<1>3. WithinCaps'
  <2>1. Cardinality(rooms') <= MaxRooms
    <3>1. Cardinality(rooms) \in Nat
      BY FS_CardinalityType
    <3>2. CASE r \in rooms
      BY <3>2, rooms' = rooms DEF Join, WithinCaps
    <3>3. CASE r \notin rooms
      <4>1. Cardinality(rooms \cup {r}) = Cardinality(rooms) + 1
        BY <3>3, FS_AddElement
      <4>2. Cardinality(rooms) < MaxRooms /\ rooms' = rooms \cup {r}
        BY <3>3 DEF Join, HasCapacity
      <4> HIDE DEF RegistryInv
      <4> QED
        BY <3>1, <4>1, <4>2, RegistryAssumption
    <3> QED
      BY <3>2, <3>3
  <2>2. ASSUME NEW s \in RoomIds PROVE Cardinality(members'[s]) <= MaxParticipants
    <3>1. CASE s = r
      <4>1. members'[r] = members[r] \cup {nextSeq}
        BY DEF Join, RegistryTypeOK
      <4>2. members[r] \in SUBSET Pid
        BY DEF RegistryTypeOK
      <4>3. IsFiniteSet(members[r]) /\ Cardinality(members[r]) \in Nat
        BY <4>2, PidIsFinite, FS_Subset, FS_CardinalityType
      <4>4. Cardinality(members[r]) < MaxParticipants
        BY DEF Join, HasCapacity
      <4> HIDE DEF RegistryInv
      <4>5. Cardinality(members[r] \cup {nextSeq}) =
              IF nextSeq \in members[r] THEN Cardinality(members[r])
                                        ELSE Cardinality(members[r]) + 1
        BY <4>3, FS_AddElement
      <4> QED
        BY <3>1, <4>1, <4>3, <4>4, <4>5, RegistryAssumption
    <3>2. CASE s # r
      BY <3>2 DEF Join, RegistryTypeOK, WithinCaps
    <3> QED
      BY <3>1, <3>2
  <2>3. UNCHANGED <<tracks, subs>>
    BY DEF Join
  <2> QED
    BY <2>1, <2>2, <2>3 DEF WithinCaps
<1>4. RoomsAreOccupied'
  <2>1. Everyone' = Everyone \cup {nextSeq}
    BY DEF Join, Everyone, RegistryTypeOK
  <2>2. \A q, s \in RoomIds : q # s => members'[q] \cap members'[s] = {}
    BY <1>0 DEF Join, Everyone, RegistryTypeOK, RoomsAreOccupied
  <2>3. \A s \in RoomIds : s \in rooms' <=> members'[s] # {}
    BY DEF Join, RegistryTypeOK, RoomsAreOccupied
  <2>4. \A p \in Everyone' : p < nextSeq'
    <3>1. \A p \in Everyone : p \in Nat /\ p < nextSeq
      BY DEF RoomsAreOccupied, Everyone, RegistryTypeOK, Pid
    <3> QED
      BY <2>1, <3>1 DEF Join, RegistryTypeOK
  <2>5. UNCHANGED <<tracks, muted, subs, revision>>
    BY DEF Join
  <2> QED
    BY <2>1, <2>2, <2>3, <2>4, <2>5 DEF RoomsAreOccupied
<1> QED
  BY <1>1, <1>2, <1>3, <1>4

\* leave preserves the invariant.
LEMMA LeaveInv ==
  ASSUME RegistryInv, NEW r \in RoomIds, NEW p \in members[r], Leave(r, p)
  PROVE  RegistryInv'
<1> USE DEF RegistryInv
<1>0. p \in Pid
  BY DEF RegistryTypeOK
<1>1. RegistryTypeOK'
  BY <1>0 DEF Leave, RegistryTypeOK, NoRevision
<1>2. IsFiniteSet(rooms)' /\ Cardinality(rooms') <= MaxRooms
  <2>1. rooms' \in SUBSET rooms
    BY DEF Leave
  <2>2. IsFiniteSet(rooms') /\ Cardinality(rooms') <= Cardinality(rooms)
    BY <2>1, FS_Subset
  <2> QED
    BY <2>2, FS_CardinalityType, RegistryAssumption DEF WithinCaps
<1>3. WithinCaps'
  <2>1. ASSUME NEW s \in RoomIds PROVE Cardinality(members'[s]) <= MaxParticipants
    <3>1. members'[s] \in SUBSET members[s] /\ members[s] \in SUBSET Pid
      BY DEF Leave, RegistryTypeOK
    <3>2. IsFiniteSet(members[s])
      BY <3>1, PidIsFinite, FS_Subset
    <3>3. Cardinality(members'[s]) <= Cardinality(members[s])
      BY <3>1, <3>2, FS_Subset
    <3>4. Cardinality(members'[s]) \in Nat /\ Cardinality(members[s]) \in Nat
      BY <3>1, <3>2, FS_Subset, FS_CardinalityType
    <3> QED
      BY <3>3, <3>4, RegistryAssumption DEF WithinCaps
  <2>2. ASSUME NEW q \in Pid
        PROVE  Cardinality(tracks'[q]) <= MaxTracks /\ Cardinality(subs'[q]) <= MaxSubscriptions
    BY FS_EmptySet, RegistryAssumption DEF Leave, RegistryTypeOK, WithinCaps
  <2> QED
    BY <1>2, <2>1, <2>2 DEF WithinCaps
<1>4. RoomsAreOccupied'
  <2>1. Everyone' = Everyone \ {p}
    <3>1. \A s \in RoomIds : s # r => p \notin members[s]
      BY DEF RoomsAreOccupied
    <3> QED
      BY <3>1 DEF Leave, Everyone, RegistryTypeOK
  <2>2. \A q, s \in RoomIds : q # s => members'[q] \cap members'[s] = {}
    BY DEF Leave, RegistryTypeOK, RoomsAreOccupied
  <2>3. \A s \in RoomIds : s \in rooms' <=> members'[s] # {}
    BY DEF Leave, RegistryTypeOK, RoomsAreOccupied
  <2>4. \A q \in Everyone' : q < nextSeq'
    BY <2>1 DEF Leave, RoomsAreOccupied
  <2>5. ASSUME NEW q \in Pid, q \notin Everyone'
        PROVE  tracks'[q] = {} /\ muted'[q] = {} /\ subs'[q] = {} /\ revision'[q] = NoRevision
    BY <2>1, <2>5 DEF Leave, RegistryTypeOK, RoomsAreOccupied
  <2>6. \A q \in Pid : muted'[q] \subseteq tracks'[q]
    BY DEF Leave, RegistryTypeOK, RoomsAreOccupied
  <2> QED
    BY <2>2, <2>3, <2>4, <2>5, <2>6 DEF RoomsAreOccupied
<1> QED
  BY <1>1, <1>2, <1>3, <1>4

\* A batch of publishes and unpublishes preserves the invariant.
LEMMA UpdateTracksInv ==
  ASSUME RegistryInv, NEW p \in Everyone,
         NEW pub \in SUBSET TrackIds, NEW pubMuted \in SUBSET pub,
         NEW unpub \in SUBSET TrackIds, NEW fresh \in Fresh(p, pub),
         UpdateTracks(p, pub, pubMuted, unpub, fresh)
  PROVE  RegistryInv'
<1> USE DEF RegistryInv
<1>0. p \in Pid /\ fresh \in SUBSET TrackIds /\ fresh \cap tracks[p] = {}
  BY DEF RegistryTypeOK, Everyone, Fresh
<1>1. RegistryTypeOK'
  BY <1>0 DEF UpdateTracks, RegistryTypeOK
<1>2. IsFiniteSet(rooms)' /\ UNCHANGED <<rooms, members, nextSeq, subs, revision>>
  BY DEF UpdateTracks
<1>3. Cardinality(tracks'[p]) <= MaxTracks
  <2> DEFINE held == tracks[p] \cup fresh
  <2>1. tracks[p] \in SUBSET TrackIds /\ tracks'[p] \in SUBSET held /\ held \in SUBSET TrackIds
    BY <1>0 DEF UpdateTracks, RegistryTypeOK
  <2>2. IsFiniteSet(tracks[p]) /\ IsFiniteSet(fresh) /\ IsFiniteSet(held) /\ IsFiniteSet(pub)
    BY <1>0, <2>1, FS_Subset, RegistryAssumption
  <2>3. Cardinality(held) = Cardinality(tracks[p]) + Cardinality(fresh)
    BY <1>0, <2>2, DisjointUnion
  <2>4. Cardinality(tracks[p]) \in Nat /\ Cardinality(fresh) \in Nat
    BY <2>2, FS_CardinalityType
  <2>5. Cardinality(tracks[p]) <= MaxTracks
    BY <1>0 DEF WithinCaps
  <2>6. Cardinality(fresh) <= MaxTracks - Cardinality(tracks[p])
    <3> DEFINE free == MaxTracks - Cardinality(tracks[p])
    <3>1. Cardinality(fresh) <= free \/ Cardinality(fresh) = free
      BY Zenon DEF Fresh
    <3> HIDE DEF RegistryInv
    <3> QED
      BY <2>4, <3>1, RegistryAssumption
  <2>7. Cardinality(tracks'[p]) <= Cardinality(held) /\ Cardinality(tracks'[p]) \in Nat
    BY <2>1, <2>2, FS_Subset, FS_CardinalityType
  <2> QED
    BY <2>3, <2>4, <2>6, <2>7, RegistryAssumption
<1>4. WithinCaps'
  BY <1>0, <1>2, <1>3 DEF UpdateTracks, RegistryTypeOK, WithinCaps
<1>5. RoomsAreOccupied'
  <2>1. Everyone' = Everyone
    BY <1>2 DEF Everyone
  <2>2. muted'[p] \subseteq tracks'[p]
    BY <1>0 DEF UpdateTracks, RegistryTypeOK, RoomsAreOccupied
  <2>3. \A q \in Pid : q # p => tracks'[q] = tracks[q] /\ muted'[q] = muted[q]
    BY DEF UpdateTracks, RegistryTypeOK
  <2> QED
    BY <1>2, <2>1, <2>2, <2>3 DEF RoomsAreOccupied
<1> QED
  BY <1>1, <1>2, <1>4, <1>5

\* A subscription batch preserves the invariant, applied or refused.
LEMMA UpdateSubscriptionsInv ==
  ASSUME RegistryInv, NEW p \in Everyone,
         NEW upsert \in SUBSET Refs, NEW remove \in SUBSET Refs, NEW rev \in Revisions,
         UpdateSubscriptions(p, upsert, remove, rev)
  PROVE  RegistryInv'
<1> USE DEF RegistryInv
<1>0. p \in Pid /\ subs[p] \in SUBSET Refs /\ rev \in Nat
  BY RegistryAssumption DEF RegistryTypeOK, Everyone
<1>1. RegistryTypeOK'
  BY <1>0 DEF UpdateSubscriptions, RegistryTypeOK
<1>2. IsFiniteSet(rooms)' /\ UNCHANGED <<rooms, members, nextSeq, tracks, muted>>
  BY DEF UpdateSubscriptions
<1>3. \A q \in Pid : Cardinality(subs'[q]) <= MaxSubscriptions
  <2>1. CASE ~IsStale(p, rev) /\ Fits(p, upsert, remove)
    <3>1. subs' = [subs EXCEPT ![p] = (@ \ remove) \cup upsert]
      BY <2>1 DEF UpdateSubscriptions
    <3>2. Cardinality((subs[p] \ remove) \cup upsert) <= MaxSubscriptions
      BY <1>0, <2>1, ProjectedIsExact DEF Fits
    <3> QED
      BY <3>1, <3>2 DEF RegistryTypeOK, WithinCaps
  <2>2. CASE ~(~IsStale(p, rev) /\ Fits(p, upsert, remove))
    BY <2>2 DEF UpdateSubscriptions, WithinCaps
  <2> QED
    BY <2>1, <2>2
<1>4. WithinCaps'
  BY <1>2, <1>3 DEF WithinCaps
<1>5. RoomsAreOccupied'
  <2>1. Everyone' = Everyone
    BY <1>2 DEF Everyone
  <2>2. \A q \in Pid : q # p => subs'[q] = subs[q] /\ revision'[q] = revision[q]
    BY DEF UpdateSubscriptions, RegistryTypeOK
  <2> QED
    BY <1>2, <2>1, <2>2 DEF RoomsAreOccupied
<1> QED
  BY <1>1, <1>2, <1>4, <1>5

-----------------------------------------------------------------------------
(* Every step *)

\* A step of the registry preserves the invariant.
LEMMA RegistryNextInv == RegistryInv /\ [RegistryNext]_registryVars => RegistryInv'
<1> SUFFICES ASSUME RegistryInv, [RegistryNext]_registryVars PROVE RegistryInv'
  OBVIOUS
<1>1. CASE \E r \in RoomIds : Join(r)
  BY <1>1, JoinInv
<1>2. CASE \E r \in RoomIds : \E p \in members[r] : Leave(r, p)
  BY <1>2, LeaveInv
<1>3. ASSUME NEW p \in Everyone, NEW pub \in SUBSET TrackIds, NEW unpub \in SUBSET TrackIds,
             NEW pubMuted \in SUBSET pub, NEW fresh \in Fresh(p, pub),
             UpdateTracks(p, pub, pubMuted, unpub, fresh)
      PROVE  RegistryInv'
  BY <1>3, UpdateTracksInv
<1>4. ASSUME NEW p \in Everyone, NEW upsert \in SUBSET Refs, NEW remove \in SUBSET Refs,
             NEW rev \in Revisions, UpdateSubscriptions(p, upsert, remove, rev)
      PROVE  RegistryInv'
  BY <1>4, UpdateSubscriptionsInv
<1>5. CASE UNCHANGED registryVars
  BY <1>5 DEF registryVars, RegistryInv, RegistryTypeOK, WithinCaps, RoomsAreOccupied, Everyone
<1> QED
  BY <1>1, <1>2, <1>3, <1>4, <1>5 DEF RegistryNext

\* The inductive invariant holds in every behaviour of the registry.
THEOREM RegistryInvariant == RegistrySpec => []RegistryInv
BY RegistryInitInv, RegistryNextInv, PTL DEF RegistrySpec

\* Types: every map of room.rs keeps to its keys and values.
THEOREM RegistryTypes == RegistrySpec => []RegistryTypeOK
<1>1. RegistryInv => RegistryTypeOK
  BY DEF RegistryInv
<1> QED
  BY <1>1, RegistryInvariant, PTL

\* The caps of room.rs hold, whatever they are and whatever clients send.
THEOREM CapsHold == RegistrySpec => []WithinCaps
<1>1. RegistryInv => WithinCaps
  BY DEF RegistryInv
<1> QED
  BY <1>1, RegistryInvariant, PTL

\* A room exists while it is occupied, nobody is in two rooms, and a departed
\* participant leaves no record (D16).
THEOREM NothingOutlivesItsRoom == RegistrySpec => []RoomsAreOccupied
<1>1. RegistryInv => RoomsAreOccupied
  BY DEF RegistryInv
<1> QED
  BY <1>1, RegistryInvariant, PTL

\* Ids are never assigned twice, so a stale id cannot name somebody else.
THEOREM IdsAreFresh == RegistrySpec => IdsNeverReused
<1> DEFINE A == \A p \in Pid : p < nextSeq /\ p \notin Everyone =>
                  p \notin UNION {members'[r] : r \in RoomIds}
<1>1. RegistryInv /\ [RegistryNext]_registryVars => [A]_registryVars
  <2> SUFFICES ASSUME RegistryInv, RegistryNext, NEW p \in Pid, p < nextSeq,
                      p \notin Everyone
               PROVE  \A r \in RoomIds : p \notin members'[r]
    OBVIOUS
  <2>1. ASSUME NEW r \in RoomIds, Join(r)
        PROVE  \A s \in RoomIds : p \notin members'[s]
    <3>1. p # nextSeq
      BY DEF RegistryInv, RegistryTypeOK, Pid
    <3> QED
      BY <2>1, <3>1 DEF Join, Everyone, RegistryInv, RegistryTypeOK
  <2>2. ASSUME NEW r \in RoomIds, NEW q \in members[r], Leave(r, q)
        PROVE  \A s \in RoomIds : p \notin members'[s]
    BY <2>2 DEF Leave, Everyone, RegistryInv, RegistryTypeOK
  <2>3. CASE UNCHANGED members
    BY <2>3 DEF Everyone
  <2> QED
    BY <2>1, <2>2, <2>3 DEF RegistryNext, UpdateTracks, UpdateSubscriptions
<1> QED
  BY <1>1, RegistryInvariant, PTL DEF RegistrySpec, IdsNeverReused

\* No stale batch changes what a participant wants.
THEOREM StaleBatchesAreInert == RegistrySpec => IntentFollowsRevisions
<1> DEFINE A == \A p \in Pid :
                  subs'[p] # subs[p] =>
                    (revision'[p] > revision[p]
                      \/ p \notin UNION {members'[r] : r \in RoomIds})
<1>1. RegistryInv /\ [RegistryNext]_registryVars => [A]_registryVars
  <2> SUFFICES ASSUME RegistryInv, RegistryNext, NEW p \in Pid, subs'[p] # subs[p]
               PROVE  revision'[p] > revision[p] \/ \A r \in RoomIds : p \notin members'[r]
    OBVIOUS
  <2>1. ASSUME NEW r \in RoomIds, NEW q \in members[r], Leave(r, q)
        PROVE  \A s \in RoomIds : p \notin members'[s]
    <3>1. p = q
      BY <2>1 DEF Leave, RegistryInv, RegistryTypeOK
    <3>2. \A s \in RoomIds : s # r => q \notin members[s]
      BY DEF RegistryInv, RoomsAreOccupied
    <3> QED
      BY <2>1, <3>1, <3>2 DEF Leave, RegistryInv, RegistryTypeOK
  <2>2. ASSUME NEW q \in Everyone, NEW upsert \in SUBSET Refs, NEW remove \in SUBSET Refs,
               NEW rev \in Revisions, UpdateSubscriptions(q, upsert, remove, rev)
        PROVE  revision'[p] > revision[p]
    <3>1. p = q /\ ~IsStale(p, rev) /\ revision' = [revision EXCEPT ![p] = rev]
      BY <2>2 DEF UpdateSubscriptions, RegistryInv, RegistryTypeOK
    <3>2. rev \in Nat /\ revision[p] \in Nat \cup {NoRevision} /\ revision'[p] = rev
      BY <3>1, RegistryAssumption DEF RegistryInv, RegistryTypeOK
    <3> QED
      BY <3>1, <3>2 DEF IsStale, NoRevision
  <2>3. CASE UNCHANGED subs
    BY <2>3
  <2> QED
    BY <2>1, <2>2, <2>3 DEF RegistryNext, Join, UpdateTracks
<1> QED
  BY <1>1, RegistryInvariant, PTL DEF RegistrySpec, IntentFollowsRevisions

-----------------------------------------------------------------------------
(* The hub *)

HubTypeOK ==
  /\ task \in [Conns -> {"poll", "frame", "flush", "closing", "done"}]
  /\ sess \in [Conns -> {"AwaitingJoin", "Joined", "Closed"}]
  /\ pid \in [Conns -> Pid \cup {NoPid}]
  /\ home \in [Conns -> RoomIds \cup {NoRoom}]
  /\ outbounds \subseteq Pid

\* What a connection knows about itself.
SessionsAreSane ==
  /\ \A c \in Conns : pid[c] # NoPid => home[c] \in RoomIds /\ pid[c] < nextSeq
  /\ \A c \in Conns : sess[c] = "AwaitingJoin" => pid[c] = NoPid
  /\ \A c \in Conns : sess[c] = "Closed" => task[c] \in {"flush", "closing", "done"}
  /\ \A c \in Conns : task[c] = "done" => sess[c] = "Closed"

\* The inductive invariant.
HubInv ==
  /\ RegistryInv
  /\ HubTypeOK
  /\ SessionsAreSane
  /\ SessionsMatchRegistry

-----------------------------------------------------------------------------
\* Nobody is in the room of a fresh connection.
LEMMA HubInitInv == SignalingInit => HubInv
<1> SUFFICES ASSUME SignalingInit PROVE HubInv
  OBVIOUS
<1>1. RegistryInv
  BY RegistryInitInv DEF SignalingInit
<1>2. Everyone = {}
  BY DEF SignalingInit, RegistryInit, Everyone
<1> QED
  BY <1>1, <1>2 DEF SignalingInit, HubInv, HubTypeOK, SessionsAreSane, SessionsMatchRegistry,
                    Reachable, NoPid

\* An id that is not a member's is not in any room.
LEMMA RoomOfMember ==
  ASSUME RegistryInv, NEW r \in RoomIds, NEW p \in members[r]
  PROVE  /\ p \in Pid /\ p \in Everyone /\ p # NoPid
         /\ \A s \in RoomIds : p \in members[s] => s = r
BY DEF RegistryInv, RegistryTypeOK, RoomsAreOccupied, Everyone, Pid, NoPid

\* Steps that touch neither the registry nor a session only move the task.
LEMMA TaskStepInv ==
  ASSUME HubInv, NEW c \in Conns,
         UNCHANGED <<registryVars, sess, pid, home, outbounds>>,
         \/ task' = task
         \/ task[c] = "poll" /\ task' = [task EXCEPT ![c] = "frame"]
         \/ task[c] = "frame" /\ task' = [task EXCEPT ![c] = "flush"]
         \/ task[c] = "frame" /\ task' = [task EXCEPT ![c] = "poll"] /\ sess[c] # "Closed"
         \/ task[c] \in {"poll", "flush"} /\ task' = [task EXCEPT ![c] = "closing"]
  PROVE  HubInv'
<1>1. RegistryInv'
  BY DEF HubInv, registryVars, RegistryInv, RegistryTypeOK, WithinCaps, RoomsAreOccupied, Everyone
<1>2. HubTypeOK'
  BY DEF HubInv, HubTypeOK
<1>3. SessionsAreSane'
  BY DEF HubInv, HubTypeOK, SessionsAreSane, registryVars
<1>4. SessionsMatchRegistry'
  BY DEF HubInv, HubTypeOK, SessionsAreSane, SessionsMatchRegistry, Reachable, registryVars, Everyone
<1> QED
  BY <1>1, <1>2, <1>3, <1>4 DEF HubInv

\* A rejected session keeps its participant and loses its channel.
LEMMA RejectInv ==
  ASSUME HubInv, NEW c \in Conns, sess[c] # "Closed", Reject(c)
  PROVE  HubInv'
<1>1. RegistryInv'
  BY DEF HubInv, Reject, registryVars, RegistryInv, RegistryTypeOK, WithinCaps,
         RoomsAreOccupied, Everyone
<1>2. HubTypeOK'
  BY DEF HubInv, HubTypeOK, Reject, Dispatched
<1>3. SessionsAreSane'
  BY DEF HubInv, HubTypeOK, SessionsAreSane, Reject, Dispatched, registryVars
<1>4. SessionsMatchRegistry'
  <2>1. UNCHANGED <<members, pid, home, nextSeq>> /\ Everyone' = Everyone
    BY DEF Reject, registryVars, Everyone
  <2>2. /\ task' = [task EXCEPT ![c] = "flush"]
        /\ sess' = [sess EXCEPT ![c] = "Closed"]
        /\ outbounds' = outbounds \ {pid[c]}
    BY DEF Reject, Dispatched
  <2>3. \A d \in Conns : sess'[d] = "Joined" => pid'[d] \in outbounds'
    BY <2>1, <2>2 DEF HubInv, HubTypeOK, SessionsAreSane, SessionsMatchRegistry, Reachable, NoPid, Pid
  <2>4. ASSUME NEW p \in Everyone
        PROVE  \E d \in Conns :
                 /\ pid[d] = p /\ p \in members[home[d]] /\ task'[d] # "done"
                 /\ p \notin outbounds' => sess'[d] = "Closed" /\ task'[d] \in {"flush", "closing"}
    <3>1. PICK d \in Conns :
             /\ pid[d] = p /\ p \in members[home[d]] /\ task[d] # "done"
             /\ p \notin outbounds => sess[d] = "Closed" /\ task[d] \in {"flush", "closing"}
      BY DEF HubInv, SessionsMatchRegistry
    <3>2. d # c => p # pid[c]
      BY <3>1 DEF HubInv, SessionsMatchRegistry, HubTypeOK, RegistryInv, RegistryTypeOK,
                  Everyone, NoPid, Pid
    <3> QED
      BY <2>2, <3>1, <3>2 DEF HubInv, HubTypeOK
  <2> QED
    BY <2>1, <2>2, <2>3, <2>4 DEF HubInv, HubTypeOK, SessionsMatchRegistry, Reachable
<1> QED
  BY <1>1, <1>2, <1>3, <1>4 DEF HubInv

\* An admitted participant is nobody else, and reachable at once.
LEMMA JoinRoomInv ==
  ASSUME HubInv, NEW c \in Conns, NEW r \in RoomIds, NEW offer \in BOOLEAN,
         JoinRoom(c, r, offer)
  PROVE  HubInv'
<1>0. /\ sess[c] = "AwaitingJoin" /\ pid[c] = NoPid
      /\ Join(r)
      /\ task' = [task EXCEPT ![c] = "poll"]
      /\ sess' = [sess EXCEPT ![c] = "Joined"]
      /\ pid' = [pid EXCEPT ![c] = nextSeq]
      /\ home' = [home EXCEPT ![c] = r]
      /\ outbounds' = outbounds \cup {nextSeq}
  BY DEF JoinRoom, Dispatched, HubInv, SessionsAreSane
<1>1. RegistryInv'
  BY <1>0, JoinInv DEF HubInv
<1>2. /\ nextSeq \in Pid /\ nextSeq \in Nat /\ nextSeq' = nextSeq + 1 /\ nextSeq # NoPid
      /\ members' = [members EXCEPT ![r] = @ \cup {nextSeq}]
      /\ \A d \in Conns : pid[d] # nextSeq
  <2>1. nextSeq \in Nat /\ nextSeq < MaxSeq /\ nextSeq' = nextSeq + 1
    BY <1>0, RegistryAssumption DEF Join, HubInv, RegistryInv, RegistryTypeOK
  <2>2. members' = [members EXCEPT ![r] = @ \cup {nextSeq}]
    BY <1>0 DEF Join
  <2>3. nextSeq \in Pid /\ nextSeq # NoPid
    BY <2>1, RegistryAssumption DEF Pid, NoPid
  <2>4. \A d \in Conns : pid[d] # NoPid => pid[d] < nextSeq
    BY DEF HubInv, SessionsAreSane
  <2> QED
    BY <2>1, <2>2, <2>3, <2>4
<1>3. HubTypeOK'
  BY <1>0, <1>2 DEF HubInv, HubTypeOK
<1>4. SessionsAreSane'
  <2>1. \A d \in Conns : pid[d] # NoPid => pid[d] \in Nat
    BY DEF HubInv, HubTypeOK, Pid
  <2> QED
    BY <1>0, <1>2, <2>1 DEF HubInv, HubTypeOK, SessionsAreSane
<1>5. SessionsMatchRegistry'
  <2>1. Everyone' = Everyone \cup {nextSeq}
    BY <1>2 DEF Everyone, HubInv, RegistryInv, RegistryTypeOK
  <2>2. \A d \in Conns : home[d] \in RoomIds => members[home[d]] \subseteq members'[home[d]]
    BY <1>2 DEF HubInv, RegistryInv, RegistryTypeOK
  <2>3. \A d \in Conns : pid[d] # NoPid => d # c /\ home[d] \in RoomIds
    BY <1>0 DEF HubInv, SessionsAreSane
  <2>4. ASSUME NEW d \in Conns, sess'[d] = "Joined"
        PROVE  pid'[d] \in Pid /\ pid'[d] \in members'[home'[d]] /\ pid'[d] \in outbounds'
    <3>1. CASE d = c
      BY <1>0, <1>2, <3>1 DEF HubInv, HubTypeOK, RegistryInv, RegistryTypeOK
    <3>2. CASE d # c
      BY <1>0, <2>2, <2>3, <2>4, <3>2
         DEF HubInv, HubTypeOK, SessionsMatchRegistry, Reachable, NoPid, Pid
    <3> QED
      BY <3>1, <3>2
  <2>5. \A p \in outbounds' : p \in Everyone'
    BY <1>0, <2>1 DEF HubInv, SessionsMatchRegistry
  <2>6. ASSUME NEW p \in Everyone'
        PROVE  \E d \in Conns :
                 /\ pid'[d] = p /\ p \in members'[home'[d]] /\ task'[d] # "done"
                 /\ p \notin outbounds' => sess'[d] = "Closed" /\ task'[d] \in {"flush", "closing"}
    <3>1. CASE p = nextSeq
      <4>1. pid'[c] = p /\ p \in members'[home'[c]] /\ task'[c] # "done" /\ p \in outbounds'
        BY <1>0, <1>2, <3>1 DEF HubInv, HubTypeOK, RegistryInv, RegistryTypeOK
      <4> QED
        BY <4>1
    <3>2. CASE p \in Everyone /\ p # nextSeq
      <4>1. PICK d \in Conns :
               /\ pid[d] = p /\ p \in members[home[d]] /\ task[d] # "done"
               /\ p \notin outbounds => sess[d] = "Closed" /\ task[d] \in {"flush", "closing"}
        BY <3>2 DEF HubInv, SessionsMatchRegistry
      <4>2. p # NoPid
        BY <3>2, RoomOfMember DEF HubInv, Everyone
      <4> QED
        BY <1>0, <2>2, <2>3, <4>1, <4>2 DEF HubInv, HubTypeOK
    <3> QED
      BY <2>1, <2>6, <3>1, <3>2
  <2>7. \A d, e \in Conns : d # e /\ pid'[d] # NoPid => pid'[d] # pid'[e]
    BY <1>0, <1>2 DEF HubInv, HubTypeOK, SessionsMatchRegistry
  <2> QED
    BY <2>4, <2>5, <2>6, <2>7 DEF SessionsMatchRegistry, Reachable
<1> QED
  BY <1>1, <1>3, <1>4, <1>5 DEF HubInv

\* Steps that change records in the registry, and nobody's membership.
LEMMA RecordStepInv ==
  ASSUME HubInv, NEW c \in Conns, RegistryInv', UNCHANGED <<members, nextSeq>>,
         UNCHANGED <<sess, pid, home, outbounds>>,
         task[c] = "frame", task' = [task EXCEPT ![c] = "poll"], sess[c] # "Closed"
  PROVE  HubInv'
<1>1. HubTypeOK' /\ SessionsAreSane'
  BY DEF HubInv, HubTypeOK, SessionsAreSane
<1>2. SessionsMatchRegistry'
  BY DEF HubInv, HubTypeOK, SessionsAreSane, SessionsMatchRegistry, Reachable, Everyone
<1> QED
  BY <1>1, <1>2 DEF HubInv

\* The participant of connection c leaves the registry, and c is closed.
LEMMA DepartureInv ==
  ASSUME HubInv, NEW c \in Conns, NEW next \in {"flush", "done"},
         pid[c] # NoPid, pid[c] \in members[home[c]], Leave(home[c], pid[c]),
         sess' = [sess EXCEPT ![c] = "Closed"],
         task' = [task EXCEPT ![c] = next],
         outbounds' = outbounds \ {pid[c]},
         UNCHANGED <<pid, home>>
  PROVE  HubInv'
<1>0. home[c] \in RoomIds
  BY DEF HubInv, SessionsAreSane
<1>1. RegistryInv'
  BY <1>0, LeaveInv DEF HubInv
<1>2. HubTypeOK'
  BY DEF HubInv, HubTypeOK
<1>3. SessionsAreSane'
  BY DEF HubInv, HubTypeOK, SessionsAreSane, Leave
<1>4. members' = [members EXCEPT ![home[c]] = @ \ {pid[c]}]
  BY DEF Leave
<1>5. Everyone' = Everyone \ {pid[c]}
  <2>1. \A s \in RoomIds : s # home[c] => pid[c] \notin members[s]
    BY <1>0, RoomOfMember DEF HubInv
  <2> QED
    BY <1>0, <1>4, <2>1 DEF Everyone, HubInv, RegistryInv, RegistryTypeOK
<1>6. ASSUME NEW d \in Conns, d # c, pid[d] # NoPid, pid[d] \in members[home[d]]
      PROVE  pid[d] # pid[c] /\ pid[d] \in members'[home[d]]
  <2>1. pid[d] # pid[c] /\ home[d] \in RoomIds
    BY <1>6 DEF HubInv, SessionsAreSane, SessionsMatchRegistry
  <2> QED
    BY <1>4, <1>6, <2>1 DEF HubInv, RegistryInv, RegistryTypeOK
<1>7. SessionsMatchRegistry'
  <2>1. ASSUME NEW d \in Conns, sess'[d] = "Joined"
        PROVE  pid[d] \in Pid /\ pid[d] \in members'[home[d]] /\ pid[d] \in outbounds'
    <3>1. d # c /\ sess[d] = "Joined"
      BY <2>1 DEF HubInv, HubTypeOK
    <3>2. pid[d] \in Pid /\ pid[d] # NoPid /\ pid[d] \in members[home[d]] /\ pid[d] \in outbounds
      BY <3>1 DEF HubInv, SessionsMatchRegistry, Reachable, Pid, NoPid
    <3> QED
      BY <1>6, <3>1, <3>2
  <2>2. \A p \in outbounds' : p \in Everyone'
    BY <1>5 DEF HubInv, SessionsMatchRegistry
  <2>3. ASSUME NEW p \in Everyone'
        PROVE  \E d \in Conns :
                 /\ pid[d] = p /\ p \in members'[home[d]] /\ task'[d] # "done"
                 /\ p \notin outbounds' => sess'[d] = "Closed" /\ task'[d] \in {"flush", "closing"}
    <3>1. p \in Everyone /\ p # pid[c]
      BY <1>5, <2>3
    <3>2. PICK d \in Conns :
             /\ pid[d] = p /\ p \in members[home[d]] /\ task[d] # "done"
             /\ p \notin outbounds => sess[d] = "Closed" /\ task[d] \in {"flush", "closing"}
      BY <3>1 DEF HubInv, SessionsMatchRegistry
    <3>3. p # NoPid /\ d # c
      BY <3>1, <3>2, RoomOfMember DEF HubInv, Everyone
    <3>4. p \in members'[home[d]]
      BY <1>6, <3>2, <3>3
    <3> QED
      BY <3>1, <3>2, <3>3, <3>4 DEF HubInv, HubTypeOK
  <2>4. \A d, e \in Conns : d # e /\ pid'[d] # NoPid => pid'[d] # pid'[e]
    BY DEF HubInv, SessionsMatchRegistry
  <2> QED
    BY <2>1, <2>2, <2>3, <2>4 DEF SessionsMatchRegistry, Reachable
<1> QED
  BY <1>1, <1>2, <1>3, <1>7 DEF HubInv

\* The task of a connection without a participant in a room ends.
LEMMA QuietEndInv ==
  ASSUME HubInv, NEW c \in Conns, UNCHANGED registryVars,
         pid[c] = NoPid \/ pid[c] \notin members[home[c]],
         sess' = [sess EXCEPT ![c] = "Closed"],
         task' = [task EXCEPT ![c] = "done"],
         outbounds' = outbounds \ {pid[c]},
         UNCHANGED <<pid, home>>
  PROVE  HubInv'
<1>1. RegistryInv'
  BY DEF HubInv, registryVars, RegistryInv, RegistryTypeOK, WithinCaps, RoomsAreOccupied, Everyone
<1>2. HubTypeOK'
  BY DEF HubInv, HubTypeOK
<1>3. SessionsAreSane'
  BY DEF HubInv, HubTypeOK, SessionsAreSane, registryVars
<1>4. UNCHANGED members /\ Everyone' = Everyone
  BY DEF registryVars, Everyone
<1>5. pid[c] \notin Everyone
  <2> SUFFICES ASSUME pid[c] \in Everyone PROVE FALSE
    OBVIOUS
  <2>1. pid[c] # NoPid
    BY RoomOfMember DEF HubInv, Everyone
  <2>2. PICK d \in Conns : pid[d] = pid[c] /\ pid[c] \in members[home[d]]
    BY DEF HubInv, SessionsMatchRegistry
  <2> QED
    BY <2>1, <2>2 DEF HubInv, SessionsMatchRegistry
<1>6. SessionsMatchRegistry'
  <2>1. \A d \in Conns : sess'[d] = "Joined" =>
          d # c /\ sess[d] = "Joined" /\ pid[d] \in Pid /\ pid[d] # NoPid
    BY DEF HubInv, HubTypeOK, SessionsMatchRegistry, Pid, NoPid
  <2>2. \A d \in Conns : sess'[d] = "Joined" =>
          pid[d] \in Pid /\ pid[d] \in members'[home[d]] /\ pid[d] \in outbounds'
    BY <1>4, <2>1 DEF HubInv, SessionsMatchRegistry, Reachable
  <2>3. ASSUME NEW p \in Everyone
        PROVE  \E d \in Conns :
                 /\ pid[d] = p /\ p \in members[home[d]] /\ task'[d] # "done"
                 /\ p \notin outbounds' => sess'[d] = "Closed" /\ task'[d] \in {"flush", "closing"}
    <3>1. PICK d \in Conns :
             /\ pid[d] = p /\ p \in members[home[d]] /\ task[d] # "done"
             /\ p \notin outbounds => sess[d] = "Closed" /\ task[d] \in {"flush", "closing"}
      BY DEF HubInv, SessionsMatchRegistry
    <3>2. d # c /\ p # pid[c]
      BY <1>5, <3>1
    <3> QED
      BY <3>1, <3>2 DEF HubInv, HubTypeOK
  <2>4. \A p \in outbounds' : p \in Everyone
    BY DEF HubInv, SessionsMatchRegistry
  <2>5. \A d, e \in Conns : d # e /\ pid'[d] # NoPid => pid'[d] # pid'[e]
    BY DEF HubInv, SessionsMatchRegistry
  <2> QED
    BY <1>4, <2>2, <2>3, <2>4, <2>5 DEF SessionsMatchRegistry, Reachable
<1> QED
  BY <1>1, <1>2, <1>3, <1>6 DEF HubInv

\* A batch of tracks, or of subscriptions, is a legal call of the registry.
LEMMA LocalTracksCall ==
  ASSUME HubInv, NEW c \in Conns, sess[c] = "Joined",
         NEW pub \in SUBSET TrackIds, NEW unpub \in SUBSET TrackIds, NEW pubMuted \in SUBSET pub,
         NEW fresh \in Fresh(pid[c], pub), NEW list \in Listings(fresh),
         LocalTracks(c, pub, pubMuted, unpub, list)
  PROVE  /\ pid[c] \in Everyone
         /\ UpdateTracks(pid[c], pub, pubMuted, unpub, fresh)
<1>1. pid[c] \in Everyone
  BY DEF HubInv, SessionsMatchRegistry, Reachable
<1>2. {list[i] : i \in DOMAIN list} = fresh
  BY DEF Listings
<1> QED
  BY <1>1, <1>2 DEF LocalTracks

\* One step of one connection, whatever it is.
LEMMA ConnStepInv ==
  ASSUME HubInv, NEW c \in Conns, ConnStep(c)
  PROVE  HubInv'
<1>1. CASE PollFrame(c) \/ WriteOut(c) \/ Flush(c) \/ SocketEnds(c) \/ Malformed(c)
  <2>1. UNCHANGED <<registryVars, sess, pid, home, outbounds>>
    BY <1>1 DEF PollFrame, WriteOut, Flush, SocketEnds, Malformed
  <2>2. \/ task' = task
        \/ task[c] = "poll" /\ task' = [task EXCEPT ![c] = "frame"]
        \/ task[c] = "frame" /\ task' = [task EXCEPT ![c] = "flush"]
        \/ task[c] \in {"poll", "flush"} /\ task' = [task EXCEPT ![c] = "closing"]
    BY <1>1 DEF PollFrame, WriteOut, Flush, SocketEnds, Malformed, Dispatched
  <2> QED
    BY <2>1, <2>2, TaskStepInv
<1>2. CASE RejectFirst(c) \/ RejectSecondJoin(c)
  BY <1>2, RejectInv DEF RejectFirst, RejectSecondJoin
<1>3. CASE \E r \in RoomIds, offer \in BOOLEAN : JoinRoom(c, r, offer)
  BY <1>3, JoinRoomInv
<1>4. CASE (\E type \in {"PublisherOffer", "SubscriberAnswer"} : SessionDescription(c, type))
             \/ Ignored(c) \/ SendChat(c)
  <2>1. /\ UNCHANGED <<registryVars, sess, pid, home, outbounds>>
        /\ task[c] = "frame" /\ task' = [task EXCEPT ![c] = "poll"] /\ sess[c] # "Closed"
    BY <1>4 DEF SessionDescription, Ignored, SendChat, Dispatched
  <2> QED
    BY <2>1, TaskStepInv
<1>5. ASSUME sess[c] = "Joined",
             NEW pub \in SUBSET TrackIds, NEW unpub \in SUBSET TrackIds, NEW pubMuted \in SUBSET pub,
             NEW fresh \in Fresh(pid[c], pub), NEW list \in Listings(fresh),
             LocalTracks(c, pub, pubMuted, unpub, list)
      PROVE  HubInv'
  <2>1. pid[c] \in Everyone /\ UpdateTracks(pid[c], pub, pubMuted, unpub, fresh)
    BY <1>5, LocalTracksCall
  <2>2. RegistryInv'
    BY <2>1, UpdateTracksInv DEF HubInv
  <2> QED
    BY <1>5, <2>1, <2>2, RecordStepInv DEF LocalTracks, Dispatched, UpdateTracks
<1>6. ASSUME NEW upsert \in SUBSET Refs, NEW remove \in SUBSET Refs, NEW rev \in Revisions,
             Subscriptions(c, upsert, remove, rev)
      PROVE  HubInv'
  <2>1. sess[c] = "Joined" /\ UpdateSubscriptions(pid[c], upsert, remove, rev)
    BY <1>6 DEF Subscriptions
  <2>2. pid[c] \in Everyone
    BY <2>1 DEF HubInv, SessionsMatchRegistry, Reachable
  <2>3. RegistryInv'
    BY <2>1, <2>2, UpdateSubscriptionsInv DEF HubInv
  <2> QED
    BY <1>6, <2>1, <2>3, RecordStepInv DEF Subscriptions, Dispatched, UpdateSubscriptions
<1>7. CASE LeaveRequest(c)
  <2>1. pid[c] \in members[home[c]] /\ pid[c] # NoPid
    BY <1>7 DEF LeaveRequest, HubInv, SessionsMatchRegistry, Pid, NoPid
  <2> QED
    BY <1>7, <2>1, DepartureInv DEF LeaveRequest, Dispatched
<1>8. CASE TransportClose(c)
  <2>1. /\ sess' = [sess EXCEPT ![c] = "Closed"]
        /\ task' = [task EXCEPT ![c] = "done"]
        /\ UNCHANGED <<pid, home>>
    BY <1>8 DEF TransportClose
  <2>2. CASE CloseSilently(c)
    <3>1. outbounds = outbounds \ {pid[c]}
      BY <2>2 DEF CloseSilently, HubInv, HubTypeOK, Pid, NoPid
    <3> QED
      BY <2>1, <2>2, <3>1, QuietEndInv DEF CloseSilently
  <2>3. CASE CloseMember(c)
    BY <2>1, <2>3, DepartureInv DEF CloseMember
  <2>4. CASE CloseAfterLeave(c)
    BY <2>1, <2>4, QuietEndInv DEF CloseAfterLeave
  <2> QED
    BY <1>8, <2>2, <2>3, <2>4 DEF TransportClose
<1> QED
  BY <1>1, <1>2, <1>3, <1>4, <1>5, <1>6, <1>7, <1>8 DEF ConnStep, RoomFrame

\* Every step of the signaling plane preserves the invariant.
LEMMA SignalingNextInv == HubInv /\ [SignalingNext]_signalingVars => HubInv'
<1> SUFFICES ASSUME HubInv, [SignalingNext]_signalingVars PROVE HubInv'
  OBVIOUS
<1>1. CASE HubNext
  BY <1>1, ConnStepInv DEF HubNext
<1>2. CASE UNCHANGED <<registryVars, task, sess, pid, home, outbounds>>
  <2>1. RegistryInv'
    BY <1>2 DEF HubInv, registryVars, RegistryInv, RegistryTypeOK, WithinCaps,
                RoomsAreOccupied, Everyone
  <2> QED
    BY <1>2, <2>1 DEF HubInv, HubTypeOK, SessionsAreSane, SessionsMatchRegistry, Reachable,
                      registryVars, Everyone
<1>3. ASSUME NEW c \in Conns, MediaReplies(c)
      PROVE  UNCHANGED <<registryVars, task, sess, pid, home, outbounds>>
  BY <1>3 DEF MediaReplies
<1>4. MediaTakes \/ UNCHANGED signalingVars =>
        UNCHANGED <<registryVars, task, sess, pid, home, outbounds>>
  BY DEF MediaTakes, signalingVars
<1> QED
  BY <1>1, <1>2, <1>3, <1>4 DEF SignalingNext

-----------------------------------------------------------------------------
(* Theorems *)

\* The hub's inductive invariant holds in every behaviour.
THEOREM HubInvariant == SignalingSpec => []HubInv
BY HubInitInv, SignalingNextInv, PTL DEF SignalingSpec

\* Sessions, registry and outbound channels fit together at every moment
\* nobody holds the lock (ws.rs Hub, "no broadcast can slip between").
THEOREM SessionsAndRegistryAgree == SignalingSpec => []SessionsMatchRegistry
<1>1. HubInv => SessionsMatchRegistry
  BY DEF HubInv
<1> QED
  BY <1>1, HubInvariant, PTL

\* The hub only makes legal calls of the registry, so that every property of
\* the registry holds of the whole signaling plane.
THEOREM HubImplementsRegistry == SignalingSpec => RegistrySpec
<1>1. SignalingInit => RegistryInit
  BY DEF SignalingInit
<1>2. HubInv /\ [SignalingNext]_signalingVars => [RegistryNext]_registryVars
  <2> SUFFICES ASSUME HubInv, [SignalingNext]_signalingVars PROVE [RegistryNext]_registryVars
    OBVIOUS
  <2>1. ASSUME NEW c \in Conns, ConnStep(c) PROVE [RegistryNext]_registryVars
    <3>1. CASE UNCHANGED registryVars
      BY <3>1
    <3>2. CASE \E r \in RoomIds, offer \in BOOLEAN : JoinRoom(c, r, offer)
      BY <3>2 DEF JoinRoom, RegistryNext
    <3>3. ASSUME sess[c] = "Joined",
                 NEW pub \in SUBSET TrackIds, NEW unpub \in SUBSET TrackIds,
                 NEW pubMuted \in SUBSET pub,
                 NEW fresh \in Fresh(pid[c], pub), NEW list \in Listings(fresh),
                 LocalTracks(c, pub, pubMuted, unpub, list)
          PROVE  RegistryNext
      BY <3>3, LocalTracksCall DEF RegistryNext
    <3>4. ASSUME NEW upsert \in SUBSET Refs, NEW remove \in SUBSET Refs, NEW rev \in Revisions,
                 Subscriptions(c, upsert, remove, rev)
          PROVE  RegistryNext
      <4>1. pid[c] \in Everyone /\ UpdateSubscriptions(pid[c], upsert, remove, rev)
        BY <3>4 DEF Subscriptions, HubInv, SessionsMatchRegistry, Reachable
      <4> QED
        BY <4>1 DEF RegistryNext
    <3>5. ASSUME pid[c] # NoPid, pid[c] \in members[home[c]], Leave(home[c], pid[c])
          PROVE  RegistryNext
      BY <3>5 DEF RegistryNext, HubInv, SessionsAreSane
    <3>6. LeaveRequest(c) => RegistryNext
      BY <3>5 DEF LeaveRequest, HubInv, SessionsMatchRegistry, Pid, NoPid
    <3>7. TransportClose(c) => RegistryNext \/ UNCHANGED registryVars
      BY <3>5 DEF TransportClose, CloseSilently, CloseMember, CloseAfterLeave
    <3>8. PollFrame(c) \/ WriteOut(c) \/ Flush(c) \/ SocketEnds(c) \/ Malformed(c)
            \/ RejectFirst(c) \/ RejectSecondJoin(c) \/ Ignored(c) \/ SendChat(c)
            \/ (\E type \in {"PublisherOffer", "SubscriberAnswer"} : SessionDescription(c, type))
            => UNCHANGED registryVars
      BY DEF PollFrame, WriteOut, Flush, SocketEnds, Malformed, RejectFirst, RejectSecondJoin,
             Reject, Ignored, SendChat, SessionDescription
    <3> QED
      BY <2>1, <3>1, <3>2, <3>3, <3>4, <3>6, <3>7, <3>8 DEF ConnStep, RoomFrame
  <2>2. ASSUME ~(\E c \in Conns : ConnStep(c)) PROVE UNCHANGED registryVars
    BY <2>2 DEF SignalingNext, HubNext, MediaReplies, MediaTakes, signalingVars
  <2> QED
    BY <2>1, <2>2
<1> QED
  BY <1>1, <1>2, HubInvariant, PTL DEF SignalingSpec, RegistrySpec

-----------------------------------------------------------------------------
(* Types of the queues, the clients and the control channel *)

QueuesTypeOK ==
  /\ queue \in [Conns -> Seq(ServerMessage)]
  /\ \A c \in Conns : Len(queue[c]) <= OutCap
  /\ lost \in [Conns -> BOOLEAN]

ClientsTypeOK ==
  /\ view \in [Conns -> Roster]
  /\ chat \in [Conns -> Seq(Pid \X Nat)]
  /\ chatSeq \in [Conns -> Nat]

ChannelTypeOK == frames \in 0 .. MaxFrames /\ ctl \in Seq(MediaControl)

WiresTypeOK == QueuesTypeOK /\ ClientsTypeOK /\ ChannelTypeOK

\* A message says who and what it is about by its kind.
LEMMA MessageFields ==
  ASSUME NEW m \in ServerMessage
  PROVE  /\ m.t = "join" => m.p \in Pid /\ m.roster \in Roster
         /\ m.t \in {"joined", "left"} => m.p \in Pid
         /\ m.t = "tracks" => /\ m.p \in Pid
                              /\ m.pub \in SUBSET TrackIds /\ m.pubMuted \in SUBSET TrackIds
                              /\ m.unpub \in SUBSET TrackIds /\ m.mute \in SUBSET TrackIds
                              /\ m.unmute \in SUBSET TrackIds
         /\ m.t = "chat" => m.p \in Pid /\ m.n \in Nat
BY DEF ServerMessage

LEMMA ApplyType ==
  ASSUME NEW v \in Roster, NEW m \in ServerMessage
  PROVE  Apply(v, m) \in Roster
<1>1. CASE m.t = "tracks"
  <2>1. CASE m.p \notin v.here
    BY <1>1, <2>1 DEF Apply, ApplyTracks
  <2>2. CASE m.p \in v.here
    <3> DEFINE now == (v.tracks[m.p] \cup m.pub) \ m.unpub
               flags == (((v.muted[m.p] \cup m.pubMuted) \cap now) \ m.unmute) \cup (m.mute \cap now)
    <3>1. now \in SUBSET TrackIds /\ flags \in SUBSET TrackIds
      BY <1>1, MessageFields DEF Roster
    <3>2. ApplyTracks(v, m) = [here |-> v.here, tracks |-> [v.tracks EXCEPT ![m.p] = now],
                               muted |-> [v.muted EXCEPT ![m.p] = flags]]
      BY <2>2 DEF ApplyTracks, Roster
    <3> HIDE DEF now, flags
    <3>3. Apply(v, m) = ApplyTracks(v, m)
      BY <1>1 DEF Apply
    <3>4. /\ v.here \in SUBSET Pid
          /\ [v.tracks EXCEPT ![m.p] = now] \in [Pid -> SUBSET TrackIds]
          /\ [v.muted EXCEPT ![m.p] = flags] \in [Pid -> SUBSET TrackIds]
      BY <3>1 DEF Roster
    <3> QED
      BY <3>2, <3>3, <3>4 DEF Roster
  <2> QED
    BY <2>1, <2>2
<1>2. CASE m.t = "join"
  BY <1>2, MessageFields DEF Apply
<1>3. CASE m.t \in {"joined", "left"}
  BY <1>3, MessageFields DEF Apply, Roster
<1>4. CASE m.t \notin {"tracks", "join", "joined", "left"}
  BY <1>4 DEF Apply
<1> QED
  BY <1>1, <1>2, <1>3, <1>4

LEMMA DeliverType ==
  ASSUME QueuesTypeOK, NEW c \in Conns, NEW r, NEW toSelf \in Seq(ServerMessage),
         NEW toPeers \in Seq(ServerMessage),
         Deliver(c, r, toSelf, toPeers) \/ (toSelf = <<>> /\ DeliverToPeers(c, r, toPeers))
  PROVE  QueuesTypeOK'
<1> DEFINE mail(d) == IF d = c THEN toSelf ELSE IF d \in Peers(c, r) THEN toPeers ELSE <<>>
<1>1. ASSUME NEW d \in Conns
      PROVE  /\ mail(d) \in Seq(ServerMessage)
             /\ queue[d] \o mail(d) \in Seq(ServerMessage)
             /\ Len(queue[d] \o mail(d)) = Len(queue[d]) + Len(mail(d))
             /\ Len(queue[d]) \in Nat /\ Len(mail(d)) \in Nat
  BY DEF QueuesTypeOK
<1>2. CASE Deliver(c, r, toSelf, toPeers)
  <2>1. \A d \in Conns : /\ queue'[d] \in {queue[d], queue[d] \o mail(d)}
                         /\ Len(queue'[d]) <= OutCap
    BY <1>1, <1>2, SignalingAssumption DEF Deliver, QueuesTypeOK
  <2> QED
    BY <1>1, <1>2, <2>1 DEF Deliver, QueuesTypeOK
<1>3. CASE toSelf = <<>> /\ DeliverToPeers(c, r, toPeers)
  <2>1. \A d \in Conns : /\ queue'[d] \in {<<>>, queue[d], queue[d] \o mail(d)}
                         /\ Len(queue'[d]) <= OutCap
    BY <1>1, <1>3, SignalingAssumption DEF DeliverToPeers, QueuesTypeOK
  <2> QED
    BY <1>1, <1>3, <2>1 DEF DeliverToPeers, QueuesTypeOK
<1> QED
  BY <1>2, <1>3

LEMMA ReceiveType ==
  ASSUME QueuesTypeOK, ClientsTypeOK, NEW c \in Conns, Receive(c)
  PROVE  /\ queue' \in [Conns -> Seq(ServerMessage)]
         /\ \A d \in Conns : Len(queue'[d]) <= OutCap
         /\ view' \in [Conns -> Roster]
         /\ chat' \in [Conns -> Seq(Pid \X Nat)]
<1> DEFINE m == Head(queue[c])
<1>1. m \in ServerMessage /\ Tail(queue[c]) \in Seq(ServerMessage)
      /\ Len(Tail(queue[c])) = Len(queue[c]) - 1 /\ Len(queue[c]) \in Nat
  BY DEF Receive, QueuesTypeOK
<1>2. Apply(view[c], m) \in Roster
  BY <1>1, ApplyType DEF ClientsTypeOK
<1>3. Log(chat[c], m) \in Seq(Pid \X Nat)
  BY <1>1, MessageFields DEF ClientsTypeOK, Log
<1> QED
  BY <1>1, <1>2, <1>3, SignalingAssumption DEF Receive, QueuesTypeOK, ClientsTypeOK

\* What one step of one connection does to the wires.
LEMMA ConnStepTypes ==
  ASSUME HubInv, WiresTypeOK, NEW c \in Conns, ConnStep(c)
  PROVE  WiresTypeOK'
<1> USE DEF WiresTypeOK
<1>0. /\ [t |-> "disconnect"] \in ServerMessage
      /\ <<>> \in Seq(ServerMessage)
      /\ \A m \in ServerMessage : <<m>> \in Seq(ServerMessage)
      /\ \A m \in MediaControl : ctl \o <<m>> \in Seq(MediaControl)
      /\ \A m, n \in MediaControl : ctl \o <<m, n>> \in Seq(MediaControl)
      /\ ctl \o <<>> \in Seq(MediaControl)
  BY DEF ServerMessage, ChannelTypeOK
<1>1. CASE PollFrame(c) \/ SocketEnds(c)
  <2>1. frames' \in 0 .. MaxFrames
    BY <1>1, SignalingAssumption DEF PollFrame, SocketEnds, ChannelTypeOK
  <2> QED
    BY <1>1, <2>1 DEF PollFrame, SocketEnds, QueuesTypeOK, ClientsTypeOK, ChannelTypeOK, clientVars
<1>2. CASE WriteOut(c) \/ Flush(c)
  <2>1. UNCHANGED <<lost, chatSeq, frames, ctl>>
    BY <1>2 DEF WriteOut, Flush
  <2>2. CASE Receive(c)
    BY <2>1, <2>2, ReceiveType DEF QueuesTypeOK, ClientsTypeOK, ChannelTypeOK
  <2>3. CASE UNCHANGED <<queue, clientVars>>
    BY <2>1, <2>3 DEF QueuesTypeOK, ClientsTypeOK, ChannelTypeOK, clientVars
  <2> QED
    BY <1>2, <2>2, <2>3 DEF WriteOut, Flush
<1>3. CASE Malformed(c) \/ RejectFirst(c) \/ RejectSecondJoin(c)
  <2>1. UNCHANGED <<clientVars, chatSeq, frames, ctl>>
    BY <1>3 DEF Malformed, RejectFirst, RejectSecondJoin, Reject, Dispatched
  <2>2. \E r : Deliver(c, r, <<[t |-> "disconnect"]>>, <<>>)
    BY <1>3 DEF Malformed, RejectFirst, RejectSecondJoin, Reject
  <2> QED
    BY <1>0, <2>1, <2>2, DeliverType DEF ClientsTypeOK, ChannelTypeOK, clientVars
<1>4. ASSUME NEW r \in RoomIds, NEW offer \in BOOLEAN, JoinRoom(c, r, offer)
      PROVE  WiresTypeOK'
  <2>1. nextSeq \in Pid /\ members' \in [RoomIds -> SUBSET Pid]
        /\ tracks \in [Pid -> SUBSET TrackIds] /\ muted \in [Pid -> SUBSET TrackIds]
    BY <1>4, RegistryAssumption DEF JoinRoom, Join, HubInv, RegistryInv, RegistryTypeOK, Pid
  <2>2. Snapshot(members'[r]) \in Roster
    BY <2>1 DEF Snapshot, Roster
  <2>3. /\ [t |-> "join", p |-> nextSeq, roster |-> Snapshot(members'[r])] \in ServerMessage
        /\ [t |-> "joined", p |-> nextSeq] \in ServerMessage
    BY <2>1, <2>2 DEF ServerMessage
  <2>4. QueuesTypeOK'
    BY <1>0, <1>4, <2>3, DeliverType DEF JoinRoom
  <2>5. /\ [t |-> "Joined", r |-> r, p |-> nextSeq] \in MediaControl
        /\ [t |-> "PublisherOffer", r |-> r, p |-> nextSeq] \in MediaControl
    BY <2>1 DEF MediaControl
  <2>6. ctl' \in Seq(MediaControl)
    BY <1>4, <2>5 DEF JoinRoom, Post, ChannelTypeOK
  <2> QED
    BY <1>4, <2>4, <2>6 DEF JoinRoom, Dispatched, ClientsTypeOK, ChannelTypeOK, clientVars
<1>5. ASSUME NEW type \in {"PublisherOffer", "SubscriberAnswer"}, SessionDescription(c, type)
      PROVE  WiresTypeOK'
  <2>1. Event(type, c) \in MediaControl
    BY <1>5 DEF SessionDescription, Event, MediaControl, HubInv, HubTypeOK, SessionsAreSane,
                SessionsMatchRegistry, Pid, NoPid
  <2> QED
    BY <1>0, <1>5, <2>1 DEF SessionDescription, Dispatched, Post, QueuesTypeOK, ClientsTypeOK,
                            ChannelTypeOK, clientVars
<1>6. CASE Ignored(c)
  BY <1>6 DEF Ignored, Dispatched, QueuesTypeOK, ClientsTypeOK, ChannelTypeOK, clientVars
<1>7. ASSUME sess[c] = "Joined",
             NEW pub \in SUBSET TrackIds, NEW unpub \in SUBSET TrackIds, NEW pubMuted \in SUBSET pub,
             NEW fresh \in Fresh(pid[c], pub), NEW list \in Listings(fresh),
             LocalTracks(c, pub, pubMuted, unpub, list)
      PROVE  WiresTypeOK'
  <2>1. pid[c] \in Pid /\ home[c] \in RoomIds
    BY <1>7 DEF HubInv, SessionsAreSane, SessionsMatchRegistry, Pid, NoPid
  <2>2. fresh \in SUBSET TrackIds
    BY DEF Fresh
  <2>3. list \in Seq(TrackIds)
    <3>1. IsFiniteSet(fresh)
      BY <2>2, RegistryAssumption, FS_Subset
    <3>2. Cardinality(fresh) \in Nat
      BY <3>1, FS_CardinalityType
    <3>3. list \in [1 .. Cardinality(fresh) -> TrackIds]
      BY <2>2 DEF Listings
    <3> QED
      BY <3>2, <3>3
  <2>4. TracksDelta(c, pub, pubMuted, unpub, {list[i] : i \in DOMAIN list}) \in Seq(ServerMessage)
    <3>1. {list[i] : i \in DOMAIN list} = fresh
      BY DEF Listings
    <3>2. \/ TracksDelta(c, pub, pubMuted, unpub, fresh) = <<>>
          \/ \E gone, mute, unmute, flags \in SUBSET TrackIds :
               TracksDelta(c, pub, pubMuted, unpub, fresh) =
                 <<[t |-> "tracks", p |-> pid[c], pub |-> fresh, pubMuted |-> flags,
                    unpub |-> gone, mute |-> mute, unmute |-> unmute]>>
      <4> DEFINE gone == unpub \cap (tracks[pid[c]] \cup fresh)
                 flip == Flipped(pid[c], pub, pubMuted)
      <4>1. flip \in SUBSET TrackIds /\ gone \in SUBSET TrackIds
        BY DEF Flipped
      <4>2. /\ flip \cap pubMuted \in SUBSET TrackIds /\ flip \ pubMuted \in SUBSET TrackIds
            /\ pubMuted \cap fresh \in SUBSET TrackIds
        BY <4>1
      <4> QED
        BY <4>1, <4>2 DEF TracksDelta
    <3>3. \A gone, mute, unmute, flags \in SUBSET TrackIds :
            [t |-> "tracks", p |-> pid[c], pub |-> fresh, pubMuted |-> flags,
             unpub |-> gone, mute |-> mute, unmute |-> unmute] \in ServerMessage
      BY <2>1, <2>2 DEF ServerMessage
    <3> QED
      BY <1>0, <3>1, <3>2, <3>3
  <2>5. QueuesTypeOK'
    BY <1>0, <1>7, <2>4, DeliverType DEF LocalTracks
  <2>6. ctl' \in Seq(MediaControl)
    <3>1. [t |-> "TracksPublished", r |-> home[c], p |-> pid[c], ids |-> list] \in MediaControl
      BY <2>1, <2>3 DEF MediaControl
    <3> QED
      BY <1>0, <1>7, <3>1 DEF LocalTracks, Post
  <2> QED
    BY <1>7, <2>5, <2>6 DEF LocalTracks, Dispatched, ClientsTypeOK, ChannelTypeOK, clientVars
<1>8. ASSUME NEW upsert \in SUBSET Refs, NEW remove \in SUBSET Refs, NEW rev \in Revisions,
             Subscriptions(c, upsert, remove, rev)
      PROVE  WiresTypeOK'
  <2>1. pid[c] \in Everyone /\ pid[c] \in Pid /\ home[c] \in RoomIds
    BY <1>8 DEF Subscriptions, HubInv, SessionsAreSane, SessionsMatchRegistry, Reachable, Pid, NoPid
  <2>2. subs' \in [Pid -> SUBSET Refs] /\ revision' \in [Pid -> Nat \cup {NoRevision}]
    BY <1>8, <2>1, UpdateSubscriptionsInv DEF Subscriptions, HubInv, RegistryInv, RegistryTypeOK
  <2>3. [t |-> "subs", rev |-> IF revision'[pid[c]] = NoRevision THEN 0 ELSE revision'[pid[c]]]
          \in ServerMessage
    BY <2>1, <2>2 DEF ServerMessage
  <2>4. [t |-> "SubscriptionsChanged", r |-> home[c], p |-> pid[c], refs |-> subs'[pid[c]]]
          \in MediaControl
    BY <2>1, <2>2 DEF MediaControl
  <2>5. QueuesTypeOK'
    BY <1>0, <1>8, <2>3, DeliverType DEF Subscriptions
  <2> QED
    BY <1>0, <1>8, <2>4, <2>5 DEF Subscriptions, Dispatched, Post, ClientsTypeOK, ChannelTypeOK,
                                  clientVars
<1>9. CASE SendChat(c)
  <2>1. [t |-> "chat", p |-> pid[c], n |-> chatSeq[c] + 1] \in ServerMessage
    BY <1>9 DEF SendChat, ServerMessage, HubInv, SessionsMatchRegistry, ClientsTypeOK
  <2>2. QueuesTypeOK'
    BY <1>0, <1>9, <2>1, DeliverType DEF SendChat
  <2> QED
    BY <1>9, <2>2 DEF SendChat, Dispatched, ClientsTypeOK, ChannelTypeOK, clientVars
<1>10. CASE LeaveRequest(c)
  <2>1. pid[c] \in Pid /\ home[c] \in RoomIds
    BY <1>10 DEF LeaveRequest, HubInv, SessionsAreSane, SessionsMatchRegistry, Pid, NoPid
  <2>2. [t |-> "left", p |-> pid[c]] \in ServerMessage /\ Event("Left", c) \in MediaControl
    BY <2>1 DEF ServerMessage, MediaControl, Event
  <2>3. QueuesTypeOK'
    BY <1>0, <1>10, <2>2, DeliverType DEF LeaveRequest
  <2> QED
    BY <1>0, <1>10, <2>2, <2>3 DEF LeaveRequest, Dispatched, Post, ClientsTypeOK, ChannelTypeOK,
                                   clientVars
<1>11. CASE TransportClose(c)
  <2>1. ClientsTypeOK'
    BY <1>11 DEF TransportClose, ClientsTypeOK, EmptyRoster, Roster
  <2>2. pid[c] # NoPid => Event("Left", c) \in MediaControl /\ [t |-> "left", p |-> pid[c]] \in ServerMessage
    BY DEF HubInv, HubTypeOK, SessionsAreSane, Event, MediaControl, ServerMessage
  <2>3. CASE CloseSilently(c) \/ CloseAfterLeave(c)
    <3>0. queue' = [queue EXCEPT ![c] = <<>>] /\ UNCHANGED lost /\ Len(<<>>) <= OutCap
      BY <2>3, SignalingAssumption DEF CloseSilently, CloseAfterLeave
    <3>1. QueuesTypeOK'
      BY <1>0, <3>0 DEF QueuesTypeOK
    <3> QED
      BY <1>0, <1>11, <2>1, <2>2, <2>3, <3>1
         DEF TransportClose, CloseSilently, CloseAfterLeave, Post, ChannelTypeOK
  <2>4. CASE CloseMember(c)
    <3>1. QueuesTypeOK'
      BY <1>0, <2>2, <2>4, DeliverType DEF CloseMember
    <3> QED
      BY <1>0, <1>11, <2>1, <2>2, <2>4, <3>1 DEF TransportClose, CloseMember, Post, ChannelTypeOK
  <2> QED
    BY <1>11, <2>3, <2>4 DEF TransportClose
<1> QED
  BY <1>1, <1>2, <1>3, <1>4, <1>5, <1>6, <1>7, <1>8, <1>9, <1>10, <1>11 DEF ConnStep, RoomFrame

LEMMA WiresInvariant == SignalingSpec => []WiresTypeOK
<1>1. SignalingInit => WiresTypeOK
  BY SignalingAssumption DEF SignalingInit, WiresTypeOK, QueuesTypeOK, ClientsTypeOK, ChannelTypeOK,
     EmptyRoster, Roster
<1>2. HubInv /\ WiresTypeOK /\ [SignalingNext]_signalingVars => WiresTypeOK'
  <2> SUFFICES ASSUME HubInv, WiresTypeOK, [SignalingNext]_signalingVars PROVE WiresTypeOK'
    OBVIOUS
  <2>1. CASE HubNext
    BY <2>1, ConnStepTypes DEF HubNext
  <2>2. ASSUME NEW c \in Conns, MediaReplies(c) PROVE WiresTypeOK'
    <3>0. [t |-> "sdp"] \in ServerMessage /\ queue[c] \in Seq(ServerMessage)
          /\ Len(queue[c]) < OutCap
      BY <2>2 DEF MediaReplies, WiresTypeOK, QueuesTypeOK, ServerMessage
    <3>1. Append(queue[c], [t |-> "sdp"]) \in Seq(ServerMessage)
          /\ Len(Append(queue[c], [t |-> "sdp"])) <= OutCap
      BY <3>0, SignalingAssumption
    <3> QED
      BY <2>2, <3>1, SignalingAssumption DEF MediaReplies, WiresTypeOK, QueuesTypeOK, ClientsTypeOK,
                                             ChannelTypeOK, clientVars
  <2>3. CASE MediaTakes
    BY <2>3 DEF MediaTakes, WiresTypeOK, QueuesTypeOK, ClientsTypeOK, ChannelTypeOK, clientVars
  <2>4. CASE UNCHANGED signalingVars
    BY <2>4 DEF signalingVars, WiresTypeOK, QueuesTypeOK, ClientsTypeOK, ChannelTypeOK
  <2> QED
    BY <2>1, <2>2, <2>3, <2>4 DEF SignalingNext
<1> QED
  BY <1>1, <1>2, HubInvariant, PTL DEF SignalingSpec

\* Types of the whole signaling plane; an outbound queue never holds more
\* than OUTBOUND_CAPACITY, whoever delivers to it (ws.rs deliver, try_send).
THEOREM SignalingTypes == SignalingSpec => []SignalingTypeOK
<1>1. HubInv /\ WiresTypeOK => SignalingTypeOK
  BY DEF HubInv, RegistryInv, HubTypeOK, WiresTypeOK, QueuesTypeOK, ClientsTypeOK, ChannelTypeOK,
         SignalingTypeOK
<1> QED
  BY <1>1, HubInvariant, WiresInvariant, PTL

-----------------------------------------------------------------------------
(* Every id has its connection *)

EveryIdIsHeld == \A p \in Pid : p < nextSeq => \E c \in Conns : pid[c] = p

\* The inductive invariant.
FeedInv == HubInv /\ EveryIdIsHeld /\ WiresTypeOK

\* Ids are kept when a step assigns none.
LEMMA EveryIdIsHeldStep ==
  ASSUME FeedInv, [SignalingNext]_signalingVars
  PROVE  EveryIdIsHeld'
<1>1. CASE pid' = pid /\ nextSeq' = nextSeq
  BY <1>1 DEF FeedInv, EveryIdIsHeld
<1>2. ASSUME NEW c \in Conns, NEW r \in RoomIds, NEW offer \in BOOLEAN, JoinRoom(c, r, offer)
      PROVE  EveryIdIsHeld'
  <2>1. /\ pid' = [pid EXCEPT ![c] = nextSeq] /\ nextSeq' = nextSeq + 1
        /\ pid[c] = NoPid /\ nextSeq \in Nat
    BY <1>2 DEF JoinRoom, Join, FeedInv, HubInv, SessionsAreSane, RegistryInv, RegistryTypeOK
  <2>2. ASSUME NEW p \in Pid, p < nextSeq' PROVE \E d \in Conns : pid'[d] = p
    <3>1. CASE p = nextSeq
      BY <2>1, <3>1 DEF FeedInv, HubInv, HubTypeOK
    <3>2. CASE p < nextSeq
      <4>1. PICK d \in Conns : pid[d] = p
        BY <3>2 DEF FeedInv, EveryIdIsHeld
      <4>2. d # c
        BY <2>1, <4>1 DEF Pid, NoPid
      <4> QED
        BY <2>1, <4>1, <4>2 DEF FeedInv, HubInv, HubTypeOK
    <3> QED
      BY <2>1, <2>2, <3>1, <3>2 DEF Pid
  <2> QED
    BY <2>2 DEF EveryIdIsHeld
<1>3. ASSUME NEW c \in Conns, ConnStep(c) PROVE EveryIdIsHeld'
  <2>1. CASE \E r \in RoomIds, offer \in BOOLEAN : JoinRoom(c, r, offer)
    BY <1>2, <2>1
  <2>2. CASE RoomFrame(c)
    <3>1. CASE \/ RejectSecondJoin(c)
               \/ \E type \in {"PublisherOffer", "SubscriberAnswer"} : SessionDescription(c, type)
               \/ Ignored(c) \/ SendChat(c) \/ LeaveRequest(c)
      BY <1>1, <3>1 DEF RejectSecondJoin, Reject, SessionDescription, Ignored, SendChat,
                        LeaveRequest, Leave, registryVars
    <3>2. ASSUME NEW pub, NEW unpub, NEW pubMuted, NEW fresh, NEW list,
                 LocalTracks(c, pub, pubMuted, unpub, list)
          PROVE  pid' = pid /\ nextSeq' = nextSeq
      BY <3>2 DEF LocalTracks, UpdateTracks
    <3>3. ASSUME NEW upsert, NEW remove, NEW rev, Subscriptions(c, upsert, remove, rev)
          PROVE  pid' = pid /\ nextSeq' = nextSeq
      BY <3>3 DEF Subscriptions, UpdateSubscriptions
    <3> QED
      BY ONLY <1>1, <2>2, <3>1, <3>2, <3>3 DEF RoomFrame
  <2>3. CASE PollFrame(c) \/ WriteOut(c) \/ Flush(c) \/ SocketEnds(c) \/ Malformed(c)
               \/ RejectFirst(c) \/ TransportClose(c)
    BY <1>1, <2>3 DEF PollFrame, WriteOut, Flush, SocketEnds, Malformed, RejectFirst, Reject,
                      TransportClose, CloseSilently, CloseMember, CloseAfterLeave, Leave,
                      registryVars
  <2> QED
    BY <1>3, <2>1, <2>2, <2>3 DEF ConnStep
<1>4. CASE MediaTakes \/ (\E c \in Conns : MediaReplies(c)) \/ UNCHANGED signalingVars
  BY <1>1, <1>4 DEF MediaTakes, MediaReplies, signalingVars, registryVars
<1> QED
  BY <1>3, <1>4 DEF SignalingNext, HubNext

LEMMA FeedInvariant == SignalingSpec => []FeedInv
<1>1. SignalingInit => HubInv /\ EveryIdIsHeld
  BY HubInitInv DEF SignalingInit, RegistryInit, EveryIdIsHeld, Pid
<1>2. FeedInv /\ [SignalingNext]_signalingVars => EveryIdIsHeld'
  BY EveryIdIsHeldStep
<1> QED
  BY <1>1, <1>2, HubInvariant, WiresInvariant, PTL DEF SignalingSpec, FeedInv

-----------------------------------------------------------------------------
(* The refinement mapping *)

\* A connection is the holder of its own participant.
LEMMA HolderOfPid ==
  ASSUME HubInv, NEW c \in Conns, pid[c] # NoPid
  PROVE  Holder(pid[c]) = c
BY DEF HubInv, SessionsMatchRegistry, Holder

\* What the mapping says of a participant whose session was admitted.
LEMMA PhaseOfPid ==
  ASSUME FeedInv, NEW c \in Conns, pid[c] # NoPid
  PROVE  /\ pid[c] \in Pid
         /\ FeedRoom[pid[c]] = home[c]
         /\ FeedPhase[pid[c]] = IF pid[c] \in Everyone THEN "up" ELSE "gone"
<1>1. pid[c] \in Pid /\ pid[c] < nextSeq /\ nextSeq \in Nat
  BY DEF FeedInv, HubInv, HubTypeOK, SessionsAreSane, RegistryInv, RegistryTypeOK
<1>2. Holder(pid[c]) = c
  BY HolderOfPid DEF FeedInv
<1> QED
  BY <1>1, <1>2 DEF FeedRoom, FeedPhase, Pid

\* A step that assigns no id leaves every id in its room.
LEMMA RoomsStay ==
  ASSUME UNCHANGED <<nextSeq, pid, home>>
  PROVE  FeedRoom' = FeedRoom
<1>1. \A p : Holder(p)' = Holder(p)
  BY DEF Holder
<1> QED
  BY <1>1 DEF FeedRoom

LEMMA PhasesStay ==
  ASSUME UNCHANGED <<members, nextSeq, pid, home>>
  PROVE  UNCHANGED <<FeedPhase, FeedRoom>>
BY RoomsStay DEF FeedPhase, Everyone
\* An accepted join is an announcement.
LEMMA JoinAnnounces ==
  ASSUME FeedInv, FeedInv', NEW c \in Conns, NEW r \in RoomIds, NEW offer \in BOOLEAN,
         JoinRoom(c, r, offer)
  PROVE  nextSeq \in Pid /\ Feed!Announce(nextSeq, r)
<1>1. /\ pid[c] = NoPid /\ nextSeq \in Pid /\ nextSeq \in Nat /\ nextSeq' = nextSeq + 1
      /\ pid' = [pid EXCEPT ![c] = nextSeq] /\ home' = [home EXCEPT ![c] = r]
      /\ members' = [members EXCEPT ![r] = @ \cup {nextSeq}]
  BY RegistryAssumption DEF JoinRoom, Join, FeedInv, HubInv, SessionsAreSane, RegistryInv,
                            RegistryTypeOK, Pid
<1>2. Everyone' = Everyone \cup {nextSeq}
  BY <1>1 DEF Everyone, FeedInv, HubInv, RegistryInv, RegistryTypeOK
<1>3. FeedPhase[nextSeq] = "new"
  BY <1>1 DEF FeedPhase
<1>4. FeedPhase' = [FeedPhase EXCEPT ![nextSeq] = "up"]
  <2>1. ASSUME NEW p \in Pid, p # nextSeq PROVE FeedPhase'[p] = FeedPhase[p]
    BY <1>1, <1>2, <2>1 DEF FeedPhase, Pid
  <2>2. FeedPhase'[nextSeq] = "up"
    BY <1>1, <1>2 DEF FeedPhase
  <2> QED
    BY <2>1, <2>2 DEF FeedPhase
<1>5. FeedRoom' = [FeedRoom EXCEPT ![nextSeq] = r]
  <2>1. ASSUME NEW p \in Pid, p # nextSeq PROVE FeedRoom'[p] = FeedRoom[p]
    <3>1. CASE p > nextSeq
      BY <1>1, <3>1 DEF FeedRoom, Pid
    <3>2. CASE p < nextSeq
      <4>1. PICK d \in Conns : pid[d] = p
        BY <3>2 DEF FeedInv, EveryIdIsHeld
      <4>2. d # c /\ pid[d] # NoPid /\ pid'[d] = p /\ home'[d] = home[d]
        BY <1>1, <4>1 DEF Pid, NoPid, FeedInv, HubInv, HubTypeOK
      <4>3. Holder(p) = d /\ Holder(p)' = d
        BY <4>1, <4>2 DEF FeedInv, HubInv, SessionsMatchRegistry, Holder
      <4> QED
        BY <1>1, <3>2, <4>2, <4>3 DEF FeedRoom, Pid
    <3> QED
      BY <1>1, <2>1, <3>1, <3>2 DEF Pid
  <2>2. FeedRoom'[nextSeq] = r
    <3>1. pid'[c] = nextSeq /\ home'[c] = r /\ nextSeq # NoPid
      BY <1>1 DEF FeedInv, HubInv, HubTypeOK, Pid, NoPid
    <3>2. ASSUME NEW p \in Pid, p = nextSeq PROVE FeedRoom'[p] = r
      <4>1. Holder(p)' = c
        BY <3>1, <3>2 DEF FeedInv, HubInv, SessionsMatchRegistry, Holder
      <4> QED
        BY <1>1, <3>1, <3>2, <4>1 DEF FeedRoom
    <3> QED
      BY <1>1, <3>2
  <2> QED
    BY <2>1, <2>2 DEF FeedRoom
<1>6. \/ ctl' = ctl \o <<[t |-> "Joined", r |-> r, p |-> nextSeq]>>
      \/ ctl' = ctl \o <<[t |-> "Joined", r |-> r, p |-> nextSeq], Feed!Offer(nextSeq, r)>>
  BY DEF JoinRoom, Post, Feed!Offer
<1> QED
  BY <1>1, <1>3, <1>4, <1>5, <1>6 DEF Feed!Announce, Feed!Send

\* Whoever leaves, or left before, is reported with the room it was in.
LEMMA DepartureIsReported ==
  ASSUME FeedInv, FeedInv', NEW c \in Conns, pid[c] # NoPid, UNCHANGED <<pid, home>>,
         \/ pid[c] \in members[home[c]] /\ Leave(home[c], pid[c])
         \/ pid[c] \notin members[home[c]] /\ UNCHANGED registryVars,
         \/ ctl' = ctl \o <<Event("Left", c)>>
         \/ ctl' = ctl \o <<Event("Left", c), Event("Left", c)>>
  PROVE  pid[c] \in Pid /\ Feed!Depart(pid[c])
<1>1. pid[c] \in Pid /\ FeedRoom[pid[c]] = home[c] /\ FeedPhase[pid[c]] \in {"up", "gone"}
  BY PhaseOfPid
<1>2. nextSeq' = nextSeq /\ pid[c] < nextSeq /\ nextSeq \in Nat
  BY DEF Leave, registryVars, FeedInv, HubInv, SessionsAreSane, RegistryInv, RegistryTypeOK
<1>3. Everyone' = Everyone \ {pid[c]}
  <2>1. CASE pid[c] \in members[home[c]] /\ Leave(home[c], pid[c])
    <3>0. home[c] \in RoomIds
      BY DEF FeedInv, HubInv, SessionsAreSane
    <3>1. \A s \in RoomIds : s # home[c] => pid[c] \notin members[s]
      BY <2>1, <3>0, RoomOfMember DEF FeedInv, HubInv
    <3> QED
      BY <2>1, <3>0, <3>1 DEF Leave, Everyone, FeedInv, HubInv, RegistryInv, RegistryTypeOK
  <2>2. CASE pid[c] \notin members[home[c]] /\ UNCHANGED registryVars
    <3>1. pid[c] \notin Everyone
      <4> SUFFICES ASSUME pid[c] \in Everyone PROVE FALSE
        OBVIOUS
      <4>1. PICK d \in Conns : pid[d] = pid[c] /\ pid[c] \in members[home[d]]
        BY DEF FeedInv, HubInv, SessionsMatchRegistry
      <4> QED
        BY <2>2, <4>1 DEF FeedInv, HubInv, SessionsMatchRegistry
    <3> QED
      BY <2>2, <3>1 DEF registryVars, Everyone
  <2> QED
    BY <2>1, <2>2
<1>4. FeedPhase' = [FeedPhase EXCEPT ![pid[c]] = "gone"]
  BY <1>1, <1>2, <1>3 DEF FeedPhase, Pid
<1>5. FeedRoom' = FeedRoom
  BY <1>2, RoomsStay
<1>6. Event("Left", c) = [t |-> "Left", r |-> FeedRoom[pid[c]], p |-> pid[c]]
  BY <1>1 DEF Event
<1> QED
  BY <1>1, <1>4, <1>5, <1>6 DEF Feed!Depart, Feed!Send

\* A listing names nothing twice.
LEMMA ListingsAreInjective ==
  ASSUME NEW S, IsFiniteSet(S), NEW f \in Listings(S)
  PROVE  \A i, j \in DOMAIN f : f[i] = f[j] => i = j
<1>1. Cardinality(S) \in Nat
  BY FS_CardinalityType
<1>2. IsFiniteSet(1 .. Cardinality(S)) /\ Cardinality(1 .. Cardinality(S)) = Cardinality(S)
  BY <1>1, FS_Interval
<1>3. f \in Surjection(1 .. Cardinality(S), S)
  BY DEF Listings, Surjection
<1>4. f \in Injection(1 .. Cardinality(S), S)
  BY <1>2, <1>3, FS_SurjSameCardinalityImpliesInj
<1> QED
  BY <1>4 DEF Injection, IsInjective

\* MediaFeed counts as the hub does.
LEMMA FeedCounts == \A S : Feed!Cardinality(S) = Cardinality(S)
BY DEF Cardinality, Feed!Cardinality

\* A batch of tracks is one event, or none when nothing was accepted.
LEMMA BatchIsPublished ==
  ASSUME FeedInv, NEW c \in Conns, sess[c] = "Joined",
         NEW pub \in SUBSET TrackIds, NEW unpub \in SUBSET TrackIds, NEW pubMuted \in SUBSET pub,
         NEW fresh \in Fresh(pid[c], pub), NEW list \in Listings(fresh),
         LocalTracks(c, pub, pubMuted, unpub, list)
  PROVE  Feed!Publish(pid[c]) \/ UNCHANGED <<FeedPhase, FeedRoom, ctl>>
<1>1. UNCHANGED <<FeedPhase, FeedRoom>>
  BY PhasesStay DEF LocalTracks, UpdateTracks
<1>2. pid[c] # NoPid /\ pid[c] \in Everyone
  BY DEF FeedInv, HubInv, SessionsMatchRegistry, Reachable, Pid, NoPid
<1>3. FeedPhase[pid[c]] = "up" /\ FeedRoom[pid[c]] = home[c]
  BY <1>2, PhaseOfPid
<1>4. CASE list = <<>>
  <2>1. ctl' = ctl \o <<>> /\ ctl \in Seq(MediaControl)
    BY <1>4 DEF LocalTracks, Post, FeedInv, WiresTypeOK, ChannelTypeOK
  <2> QED
    BY <1>1, <2>1
<1>5. CASE list # <<>>
  <2>1. IsFiniteSet(fresh) /\ fresh \in SUBSET TrackIds
    BY RegistryAssumption, FS_Subset DEF Fresh
  <2>2. fresh # {}
    <3>1. fresh = {} => Cardinality(fresh) = 0
      BY <2>1, FS_EmptySet
    <3> QED
      BY <1>5, <3>1 DEF Listings
  <2>3. \A i, j \in DOMAIN list : list[i] = list[j] => i = j
    BY <2>1, ListingsAreInjective
  <2>4. list \in [1 .. Cardinality(fresh) -> fresh]
    BY DEF Listings
  <2>5. ctl' = ctl \o <<[t |-> "TracksPublished", r |-> FeedRoom[pid[c]], p |-> pid[c], ids |-> list]>>
    BY <1>3, <1>5 DEF LocalTracks, Post
  <2>6. fresh \in (SUBSET TrackIds) \ {{}}
    BY <2>1, <2>2
  <2>7. \E ids \in [1 .. Feed!Cardinality(fresh) -> fresh] :
          /\ \A i, j \in DOMAIN ids : ids[i] = ids[j] => i = j
          /\ ctl' = ctl \o <<[t |-> "TracksPublished", r |-> FeedRoom[pid[c]], p |-> pid[c],
                              ids |-> ids]>>
    BY <2>3, <2>4, <2>5, FeedCounts
  <2> QED
    BY <1>1, <1>3, <2>6, <2>7 DEF Feed!Publish, Feed!Send
<1> QED
  BY <1>4, <1>5

\* One step of one connection, as the channel sees it.
LEMMA ConnStepFeeds ==
  ASSUME FeedInv, FeedInv', NEW c \in Conns, ConnStep(c)
  PROVE  Feed!FeedNext \/ UNCHANGED <<FeedPhase, FeedRoom, ctl>>
<1>1. CASE PollFrame(c) \/ WriteOut(c) \/ Flush(c) \/ SocketEnds(c) \/ Malformed(c)
             \/ RejectFirst(c) \/ RejectSecondJoin(c) \/ Ignored(c) \/ SendChat(c)
  <2>1. UNCHANGED <<members, nextSeq, pid, home, ctl>>
    BY <1>1 DEF PollFrame, WriteOut, Flush, SocketEnds, Malformed, RejectFirst, RejectSecondJoin,
                Reject, Ignored, SendChat, registryVars
  <2> QED
    BY <2>1, PhasesStay
<1>2. CASE \E r \in RoomIds, offer \in BOOLEAN : JoinRoom(c, r, offer)
  BY <1>2, JoinAnnounces DEF Feed!FeedNext
<1>3. ASSUME sess[c] = "Joined"
      PROVE  /\ pid[c] \in Pid /\ pid[c] # NoPid
             /\ FeedPhase[pid[c]] = "up" /\ FeedRoom[pid[c]] = home[c]
             /\ pid[c] \in members[home[c]]
  BY <1>3, PhaseOfPid DEF FeedInv, HubInv, SessionsMatchRegistry, Reachable, Pid, NoPid
<1>4. ASSUME NEW type \in {"PublisherOffer", "SubscriberAnswer"}, SessionDescription(c, type)
      PROVE  pid[c] \in Pid /\ Feed!Negotiate(pid[c])
  <2>1. UNCHANGED <<FeedPhase, FeedRoom>>
    BY <1>4, PhasesStay DEF SessionDescription, registryVars
  <2> QED
    BY <1>3, <1>4, <2>1 DEF SessionDescription, Post, Event, Feed!Negotiate, Feed!Send
<1>5. ASSUME sess[c] = "Joined",
             NEW pub \in SUBSET TrackIds, NEW unpub \in SUBSET TrackIds, NEW pubMuted \in SUBSET pub,
             NEW fresh \in Fresh(pid[c], pub), NEW list \in Listings(fresh),
             LocalTracks(c, pub, pubMuted, unpub, list)
      PROVE  Feed!FeedNext \/ UNCHANGED <<FeedPhase, FeedRoom, ctl>>
  BY <1>3, <1>5, BatchIsPublished DEF Feed!FeedNext
<1>6. ASSUME NEW upsert \in SUBSET Refs, NEW remove \in SUBSET Refs, NEW rev \in Revisions,
             Subscriptions(c, upsert, remove, rev)
      PROVE  pid[c] \in Pid /\ Feed!Want(pid[c])
  <2>1. UNCHANGED <<FeedPhase, FeedRoom>>
    BY <1>6, PhasesStay DEF Subscriptions, UpdateSubscriptions
  <2>2. pid[c] \in Everyone
    BY <1>6 DEF Subscriptions, FeedInv, HubInv, SessionsMatchRegistry, Reachable
  <2>3. subs'[pid[c]] \in SUBSET Refs
    BY <1>6, <2>2, UpdateSubscriptionsInv
       DEF Subscriptions, FeedInv, HubInv, RegistryInv, RegistryTypeOK, SessionsMatchRegistry
  <2> QED
    BY <1>3, <1>6, <2>1, <2>3 DEF Subscriptions, Post, Feed!Want, Feed!Send
<1>7. CASE LeaveRequest(c)
  BY <1>3, <1>7, DepartureIsReported DEF LeaveRequest, Post, Feed!FeedNext
<1>8. CASE TransportClose(c)
  <2>1. UNCHANGED <<pid, home>>
    BY <1>8 DEF TransportClose
  <2>2. CASE CloseSilently(c)
    BY <2>1, <2>2, PhasesStay DEF CloseSilently, registryVars
  <2>3. CASE CloseMember(c)
    BY <2>1, <2>3, DepartureIsReported DEF CloseMember, Post, Feed!FeedNext
  <2>4. CASE CloseAfterLeave(c)
    BY <2>1, <2>4, DepartureIsReported DEF CloseAfterLeave, Post, Feed!FeedNext
  <2> QED
    BY <1>8, <2>2, <2>3, <2>4 DEF TransportClose
<1> QED
  BY <1>1, <1>2, <1>4, <1>5, <1>6, <1>7, <1>8 DEF ConnStep, RoomFrame, Feed!FeedNext

-----------------------------------------------------------------------------
(* Theorem *)

\* Signaling keeps the promises of MediaFeed for any number of connections,
\* rooms and participants: Joined comes first and once, every event names the
\* room of its participant, a batch names no track twice, and after Left only
\* Left follows (signaling media.rs MediaControl).
THEOREM SignalingImplementsFeed == SignalingSpec => FeedIsOrderly
<1>1. SignalingInit => Feed!FeedInit
  BY DEF SignalingInit, RegistryInit, Feed!FeedInit, FeedPhase, FeedRoom, Pid
<1>2. FeedInv /\ FeedInv' /\ [SignalingNext]_signalingVars => [Feed!FeedNext]_<<FeedPhase, FeedRoom, ctl>>
  <2> SUFFICES ASSUME FeedInv, FeedInv', [SignalingNext]_signalingVars
               PROVE  Feed!FeedNext \/ UNCHANGED <<FeedPhase, FeedRoom, ctl>>
    OBVIOUS
  <2>1. CASE HubNext
    BY <2>1, ConnStepFeeds DEF HubNext
  <2>2. CASE \E c \in Conns : MediaReplies(c)
    BY <2>2, PhasesStay DEF MediaReplies, registryVars
  <2>3. CASE MediaTakes
    BY <2>3, PhasesStay DEF MediaTakes, registryVars, Feed!FeedNext, Feed!Take
  <2>4. CASE UNCHANGED signalingVars
    BY <2>4, PhasesStay DEF signalingVars, registryVars
  <2> QED
    BY <2>1, <2>2, <2>3, <2>4 DEF SignalingNext
<1> QED
  BY <1>1, <1>2, FeedInvariant, PTL DEF SignalingSpec, FeedIsOrderly, Feed!FeedSpec, Feed!feedVars

-----------------------------------------------------------------------------
(* Induction *)

LEMMA LeastNatural ==
  ASSUME NEW S \in SUBSET Nat, S # {}
  PROVE  \E m \in S : \A n \in S : m <= n
<1> DEFINE Below == {0 .. n : n \in S}
           R == StrictSubsetOrdering(Nat)
<1>1. IsWellFoundedOn(R, FiniteSubsetsOf(Nat))
  BY FS_StrictSubsetOrderingWellFounded
<1>2. Below \subseteq FiniteSubsetsOf(Nat) /\ Below # {}
  <2>1. ASSUME NEW n \in S PROVE IsFiniteSet(0 .. n) /\ 0 .. n \in SUBSET Nat
    BY FS_Interval
  <2> QED
    BY <2>1 DEF FiniteSubsetsOf
<1>3. PICK x \in Below : \A y \in Below : ~(<<y, x>> \in R)
  <2> HIDE DEF Below, R
  <2> QED
    BY <1>1, <1>2, WFMin
<1>4. PICK m \in S : x = 0 .. m
  BY <1>3
<1>5. ASSUME NEW n \in S, n < m PROVE FALSE
  <2>1. <<0 .. n, 0 .. m>> \in R
    BY <1>5 DEF StrictSubsetOrdering
  <2> QED
    BY <1>3, <1>4, <2>1
<1> QED
  BY <1>5

\* A set of naturals with 0 and the successor of each of its elements.
LEMMA SetInduction ==
  ASSUME NEW S \in SUBSET Nat, 0 \in S, \A n \in S : n + 1 \in S
  PROVE  S = Nat
<1> SUFFICES ASSUME Nat \ S # {} PROVE FALSE
  OBVIOUS
<1>1. PICK m \in Nat \ S : \A n \in Nat \ S : m <= n
  BY LeastNatural
<1>2. m # 0 /\ m - 1 \in Nat /\ m - 1 < m
  BY <1>1
<1> QED
  BY <1>1, <1>2

-----------------------------------------------------------------------------
(* Reading a queue *)

\* One message at a time.
LEMMA ReadingStep ==
  ASSUME NEW v, NEW q
  PROVE  /\ Reading(v, q)[0] = v
         /\ \A i \in Nat : Reading(v, q)[i + 1] = Apply(Reading(v, q)[i], q[i + 1])
<1> DEFINE after[i \in Nat] == IF i = 0 THEN v ELSE Apply(after[i - 1], q[i])
<1>1. after = [i \in Nat |-> IF i = 0 THEN v ELSE Apply(after[i - 1], q[i])]
  OBVIOUS
<1>2. Reading(v, q) = after
  BY DEF Reading
<1> HIDE DEF after
<1>3. after[0] = v
  BY <1>1
<1>4. ASSUME NEW i \in Nat PROVE after[i + 1] = Apply(after[i], q[i + 1])
  <2>1. i + 1 \in Nat /\ i + 1 # 0 /\ (i + 1) - 1 = i
    OBVIOUS
  <2> QED
    BY <1>1, <2>1
<1> QED
  BY <1>2, <1>3, <1>4

LEMMA LoggingStep ==
  ASSUME NEW l, NEW q
  PROVE  /\ Logging(l, q)[0] = l
         /\ \A i \in Nat : Logging(l, q)[i + 1] = Log(Logging(l, q)[i], q[i + 1])
<1> DEFINE after[i \in Nat] == IF i = 0 THEN l ELSE Log(after[i - 1], q[i])
<1>1. after = [i \in Nat |-> IF i = 0 THEN l ELSE Log(after[i - 1], q[i])]
  OBVIOUS
<1>2. Logging(l, q) = after
  BY DEF Logging
<1> HIDE DEF after
<1>3. after[0] = l
  BY <1>1
<1>4. ASSUME NEW i \in Nat PROVE after[i + 1] = Log(after[i], q[i + 1])
  <2>1. i + 1 \in Nat /\ i + 1 # 0 /\ (i + 1) - 1 = i
    OBVIOUS
  <2> QED
    BY <1>1, <2>1
<1> QED
  BY <1>2, <1>3, <1>4

\* Two queues with the same first n messages are read alike so far.
LEMMA ReadingPrefix ==
  ASSUME NEW v, NEW q, NEW s, NEW n \in Nat, \A i \in 1 .. n : q[i] = s[i]
  PROVE  \A i \in 0 .. n : Reading(v, q)[i] = Reading(v, s)[i]
<1> DEFINE S == {i \in Nat : i <= n => Reading(v, q)[i] = Reading(v, s)[i]}
<1>1. 0 \in S
  BY ReadingStep
<1>2. ASSUME NEW i \in S PROVE i + 1 \in S
  <2>1. i \in Nat /\ i + 1 \in Nat
    OBVIOUS
  <2>2. CASE i + 1 <= n
    <3>1. q[i + 1] = s[i + 1] /\ i <= n
      BY <2>1, <2>2
    <3>2. Reading(v, q)[i] = Reading(v, s)[i]
      BY <3>1
    <3> QED
      BY <2>1, <3>1, <3>2, ReadingStep
  <2> QED
    BY <2>1, <2>2
<1>3. S = Nat
  <2> HIDE DEF S
  <2>1. S \in SUBSET Nat
    BY DEF S
  <2> QED
    BY <1>1, <1>2, <2>1, SetInduction
<1> QED
  BY <1>3

\* And so are the logs.
LEMMA LoggingPrefix ==
  ASSUME NEW v, NEW q, NEW s, NEW n \in Nat, \A i \in 1 .. n : q[i] = s[i]
  PROVE  \A i \in 0 .. n : Logging(v, q)[i] = Logging(v, s)[i]
<1> DEFINE S == {i \in Nat : i <= n => Logging(v, q)[i] = Logging(v, s)[i]}
<1>1. 0 \in S
  BY LoggingStep
<1>2. ASSUME NEW i \in S PROVE i + 1 \in S
  <2>1. i \in Nat /\ i + 1 \in Nat
    OBVIOUS
  <2>2. CASE i + 1 <= n
    <3>1. q[i + 1] = s[i + 1] /\ i <= n
      BY <2>1, <2>2
    <3>2. Logging(v, q)[i] = Logging(v, s)[i]
      BY <3>1
    <3> QED
      BY <2>1, <3>1, <3>2, LoggingStep
  <2> QED
    BY <2>1, <2>2
<1>3. S = Nat
  <2> HIDE DEF S
  <2>1. S \in SUBSET Nat
    BY DEF S
  <2> QED
    BY <1>1, <1>2, <2>1, SetInduction
<1> QED
  BY <1>3

\* Reading the first message now leaves the same to be read.
LEMMA ReadingTail ==
  ASSUME NEW v, NEW q \in Seq(ServerMessage), q # <<>>
  PROVE  \A i \in 0 .. Len(q) - 1 :
           /\ Reading(Apply(v, Head(q)), Tail(q))[i] = Reading(v, q)[i + 1]
           /\ Logging(Log(v, Head(q)), Tail(q))[i] = Logging(v, q)[i + 1]
<1> DEFINE S == {i \in Nat : i <= Len(q) - 1 =>
                   /\ Reading(Apply(v, Head(q)), Tail(q))[i] = Reading(v, q)[i + 1]
                   /\ Logging(Log(v, Head(q)), Tail(q))[i] = Logging(v, q)[i + 1]}
<1>0. Len(q) \in Nat /\ Head(q) = q[1] /\ \A i \in 1 .. Len(q) - 1 : Tail(q)[i] = q[i + 1]
  OBVIOUS
<1>1. 0 \in S
  <2>1. /\ Reading(Apply(v, Head(q)), Tail(q))[0] = Apply(v, Head(q))
        /\ Logging(Log(v, Head(q)), Tail(q))[0] = Log(v, Head(q))
        /\ Reading(v, q)[0] = v /\ Logging(v, q)[0] = v
    BY ReadingStep, LoggingStep
  <2>2. /\ Reading(v, q)[0 + 1] = Apply(Reading(v, q)[0], q[0 + 1])
        /\ Logging(v, q)[0 + 1] = Log(Logging(v, q)[0], q[0 + 1])
    BY ReadingStep, LoggingStep
  <2> QED
    BY <1>0, <2>1, <2>2
<1>2. ASSUME NEW i \in S PROVE i + 1 \in S
  <2>1. i \in Nat /\ i + 1 \in Nat
    OBVIOUS
  <2>2. CASE i + 1 <= Len(q) - 1
    <3>1. Tail(q)[i + 1] = q[(i + 1) + 1] /\ i <= Len(q) - 1
      BY <1>0, <2>1, <2>2
    <3>2. /\ Reading(Apply(v, Head(q)), Tail(q))[i] = Reading(v, q)[i + 1]
          /\ Logging(Log(v, Head(q)), Tail(q))[i] = Logging(v, q)[i + 1]
      BY <3>1
    <3> DEFINE w == Apply(v, Head(q))
               k == Log(v, Head(q))
               t == Tail(q)
    <3>3. t[i + 1] = q[(i + 1) + 1]
      BY <3>1
    <3> HIDE DEF S, w, k, t
    <3>4. Reading(w, t)[i + 1] = Apply(Reading(w, t)[i], t[i + 1])
      BY <2>1, ReadingStep
    <3>5. Logging(k, t)[i + 1] = Log(Logging(k, t)[i], t[i + 1])
      BY <2>1, LoggingStep
    <3>6. /\ Reading(v, q)[(i + 1) + 1] = Apply(Reading(v, q)[i + 1], q[(i + 1) + 1])
          /\ Logging(v, q)[(i + 1) + 1] = Log(Logging(v, q)[i + 1], q[(i + 1) + 1])
      BY <2>1, ReadingStep, LoggingStep
    <3>7. Reading(w, t)[i] = Reading(v, q)[i + 1] /\ Logging(k, t)[i] = Logging(v, q)[i + 1]
      BY <3>2 DEF w, k, t
    <3>8. /\ Reading(w, t)[i + 1] = Reading(v, q)[(i + 1) + 1]
          /\ Logging(k, t)[i + 1] = Logging(v, q)[(i + 1) + 1]
      BY <3>3, <3>4, <3>5, <3>6, <3>7
    <3> QED
      BY <2>1, <3>8 DEF w, k, t, S
  <2> QED
    BY <1>0, <2>1, <2>2
<1>3. S = Nat
  <2> HIDE DEF S
  <2>1. S \in SUBSET Nat
    BY DEF S
  <2> QED
    BY <1>1, <1>2, <2>1, SetInduction
<1> QED
  BY <1>0, <1>3

\* A message more is read last.
LEMMA ReadingMore ==
  ASSUME NEW v, NEW q \in Seq(ServerMessage), NEW m \in ServerMessage
  PROVE  /\ \A i \in 0 .. Len(q) : /\ Reading(v, q \o <<m>>)[i] = Reading(v, q)[i]
                                   /\ Logging(v, q \o <<m>>)[i] = Logging(v, q)[i]
         /\ Reading(v, q \o <<m>>)[Len(q \o <<m>>)] = Apply(Reading(v, q)[Len(q)], m)
         /\ Logging(v, q \o <<m>>)[Len(q \o <<m>>)] = Log(Logging(v, q)[Len(q)], m)
<1> DEFINE s == q \o <<m>>
<1>1. /\ Len(q) \in Nat /\ Len(s) = Len(q) + 1 /\ s[Len(q) + 1] = m
      /\ \A i \in 1 .. Len(q) : s[i] = q[i]
  OBVIOUS
<1> HIDE DEF s
<1>2. \A i \in 0 .. Len(q) : /\ Reading(v, s)[i] = Reading(v, q)[i]
                             /\ Logging(v, s)[i] = Logging(v, q)[i]
  <2>1. Len(q) \in Nat /\ \A i \in 1 .. Len(q) : s[i] = q[i]
    BY <1>1
  <2> HIDE <1>1
  <2> DEFINE n == Len(q)
  <2> HIDE DEF n
  <2>2. n \in Nat /\ \A i \in 1 .. n : s[i] = q[i]
    BY <2>1 DEF n
  <2>3. ASSUME NEW i \in 0 .. n
        PROVE  Reading(v, s)[i] = Reading(v, q)[i] /\ Logging(v, s)[i] = Logging(v, q)[i]
    <3>1. Reading(v, s)[i] = Reading(v, q)[i]
      BY <2>2, ReadingPrefix
    <3>2. Logging(v, s)[i] = Logging(v, q)[i]
      BY <2>2, LoggingPrefix
    <3> QED
      BY <3>1, <3>2
  <2> QED
    BY <2>3 DEF n
<1>3. /\ Reading(v, s)[Len(q) + 1] = Apply(Reading(v, s)[Len(q)], s[Len(q) + 1])
      /\ Logging(v, s)[Len(q) + 1] = Log(Logging(v, s)[Len(q)], s[Len(q) + 1])
  <2>1. Len(q) \in Nat
    BY <1>1
  <2>2. Reading(v, s)[Len(q) + 1] = Apply(Reading(v, s)[Len(q)], s[Len(q) + 1])
    BY ONLY <2>1, ReadingStep
  <2>3. Logging(v, s)[Len(q) + 1] = Log(Logging(v, s)[Len(q)], s[Len(q) + 1])
    BY ONLY <2>1, LoggingStep
  <2> QED
    BY <2>2, <2>3
<1>4. Len(q) \in 0 .. Len(q)
  BY <1>1
<1> QED
  BY <1>1, <1>2, <1>3, <1>4 DEF s
-----------------------------------------------------------------------------
(* One connection *)

\* What is queued for c makes sense when its client reads it.
Clean(c) == \A i \in DOMAIN queue[c] : MakesSense(queue[c][i], RosterBefore(c, i))

\* The roster c's client is about to have is the room of the registry.
Agrees(c) ==
  LET v == RosterAhead(c)
  IN  /\ v.here = members[home[c]]
      /\ \A p \in v.here \ {pid[c]} : v.tracks[p] = tracks[p] /\ v.muted[p] = muted[p]

Faithful(c) ==
  /\ ~lost[c] => Clean(c)
  /\ Reachable(c) /\ ~lost[c] => Agrees(c)

LEMMA FaithfulAll == (\A c \in Conns : Faithful(c)) <=> RostersAgree /\ DeltasApplyCleanly
BY DEF Faithful, Clean, Agrees, RostersAgree, DeltasApplyCleanly

\* Nothing arrives, or one message.
LEMMA MailArrives ==
  ASSUME QueuesTypeOK, NEW c \in Conns, NEW mail,
         mail = <<>> \/ \E m \in ServerMessage : mail = <<m>>,
         queue'[c] = queue[c] \o mail, view'[c] = view[c], chat'[c] = chat[c]
  PROVE  /\ RosterAhead(c)' = IF mail = <<>> THEN RosterAhead(c) ELSE Apply(RosterAhead(c), mail[1])
         /\ LogAhead(c)' = IF mail = <<>> THEN LogAhead(c) ELSE Log(LogAhead(c), mail[1])
         /\ Clean(c) /\ (mail # <<>> => MakesSense(mail[1], RosterAhead(c))) => Clean(c)'
<1>1. queue[c] \in Seq(ServerMessage)
  BY DEF QueuesTypeOK
<1>2. CASE mail = <<>>
  <2>1. queue'[c] = queue[c]
    BY <1>1, <1>2
  <2> QED
    BY <1>2, <2>1 DEF RosterAhead, RosterBefore, LogAhead, Clean
<1>3. ASSUME NEW m \in ServerMessage, mail = <<m>>
      PROVE  /\ RosterAhead(c)' = Apply(RosterAhead(c), m)
             /\ LogAhead(c)' = Log(LogAhead(c), m)
             /\ Clean(c) /\ MakesSense(m, RosterAhead(c)) => Clean(c)'
  <2> DEFINE q == queue[c]
             s == q \o <<m>>
  <2>1. /\ queue'[c] = s /\ q \in Seq(ServerMessage) /\ Len(q) \in Nat
        /\ Len(s) = Len(q) + 1 /\ DOMAIN s = 1 .. Len(q) + 1 /\ DOMAIN q = 1 .. Len(q)
        /\ s[Len(q) + 1] = m /\ \A i \in 1 .. Len(q) : s[i] = q[i]
    BY <1>1, <1>3
  <2>2. /\ \A i \in 0 .. Len(q) : Reading(view[c], s)[i] = Reading(view[c], q)[i]
        /\ Reading(view[c], s)[Len(s)] = Apply(Reading(view[c], q)[Len(q)], m)
        /\ Logging(chat[c], s)[Len(s)] = Log(Logging(chat[c], q)[Len(q)], m)
    BY <1>1, <1>3, ReadingMore
  <2> HIDE DEF q, s
  <2>3. RosterAhead(c)' = Apply(RosterAhead(c), m) /\ LogAhead(c)' = Log(LogAhead(c), m)
    BY <2>1, <2>2 DEF RosterAhead, LogAhead, q
  <2>4. ASSUME Clean(c), MakesSense(m, RosterAhead(c)) PROVE Clean(c)'
    <3>1. ASSUME NEW i \in 1 .. Len(q) PROVE MakesSense(s[i], Reading(view[c], s)[i - 1])
      <4>1. MakesSense(q[i], Reading(view[c], q)[i - 1])
        BY <2>1, <2>4 DEF Clean, RosterBefore, q
      <4>2. i - 1 \in 0 .. Len(q)
        BY <2>1
      <4> QED
        BY <2>1, <2>2, <4>1, <4>2
    <3>2. MakesSense(s[Len(q) + 1], Reading(view[c], s)[(Len(q) + 1) - 1])
      <4>1. (Len(q) + 1) - 1 = Len(q) /\ Len(q) \in 0 .. Len(q)
        BY <2>1
      <4>2. Reading(view[c], s)[Len(q)] = RosterAhead(c)
        BY <2>2, <4>1 DEF RosterAhead, q
      <4> QED
        BY <2>1, <2>4, <4>1, <4>2
    <3>3. \A i \in DOMAIN s : MakesSense(s[i], Reading(view[c], s)[i - 1])
      BY <2>1, <3>1, <3>2
    <3> QED
      BY <2>1, <3>3 DEF Clean, RosterBefore
  <2> QED
    BY <2>3, <2>4
<1> QED
  BY <1>2, <1>3

\* The client reads the oldest message.
LEMMA MailIsRead ==
  ASSUME QueuesTypeOK, ClientsTypeOK, NEW c \in Conns, Receive(c)
  PROVE  /\ RosterAhead(c)' = RosterAhead(c)
         /\ LogAhead(c)' = LogAhead(c)
         /\ Clean(c) => Clean(c)'
<1> DEFINE q == queue[c]
           t == Tail(q)
           w == Apply(view[c], Head(q))
           k == Log(chat[c], Head(q))
<1>1. /\ q \in Seq(ServerMessage) /\ q # <<>> /\ Len(q) \in Nat /\ Len(q) # 0
      /\ Len(t) = Len(q) - 1 /\ DOMAIN t = 1 .. Len(q) - 1 /\ DOMAIN q = 1 .. Len(q)
      /\ \A i \in 1 .. Len(q) - 1 : t[i] = q[i + 1]
  BY DEF Receive, QueuesTypeOK
<1>2. queue'[c] = t /\ view'[c] = w /\ chat'[c] = k
  BY DEF Receive, QueuesTypeOK, ClientsTypeOK
<1>3. ASSUME NEW i \in 0 .. Len(q) - 1 PROVE Reading(w, t)[i] = Reading(view[c], q)[i + 1]
  BY <1>1, <1>3, ReadingTail
<1>4. ASSUME NEW i \in 0 .. Len(q) - 1 PROVE Logging(k, t)[i] = Logging(chat[c], q)[i + 1]
  BY <1>1, <1>4, ReadingTail
<1> HIDE DEF q, t, w, k
<1>5. RosterAhead(c)' = RosterAhead(c) /\ LogAhead(c)' = LogAhead(c)
  <2>1. Len(q) - 1 \in 0 .. Len(q) - 1 /\ (Len(q) - 1) + 1 = Len(q)
    BY <1>1
  <2> QED
    BY <1>1, <1>2, <1>3, <1>4, <2>1 DEF RosterAhead, LogAhead, q
<1>6. ASSUME Clean(c) PROVE Clean(c)'
  <2>1. ASSUME NEW i \in 1 .. Len(q) - 1 PROVE MakesSense(t[i], Reading(w, t)[i - 1])
    <3>1. i + 1 \in 1 .. Len(q) /\ i - 1 \in 0 .. Len(q) - 1 /\ (i - 1) + 1 = (i + 1) - 1
      BY <1>1
    <3>2. MakesSense(q[i + 1], Reading(view[c], q)[(i + 1) - 1])
      BY <1>1, <1>6, <3>1 DEF Clean, RosterBefore, q
    <3>3. Reading(w, t)[i - 1] = Reading(view[c], q)[(i - 1) + 1]
      BY <1>3, <3>1
    <3> QED
      BY <1>1, <3>1, <3>2, <3>3
  <2>2. \A i \in DOMAIN t : MakesSense(t[i], Reading(w, t)[i - 1])
    BY <1>1, <2>1
  <2> QED
    BY <1>2, <2>2 DEF Clean, RosterBefore
<1> QED
  BY <1>5, <1>6

\* What is ahead of a client is a roster.
LEMMA RosterAheadType ==
  ASSUME WiresTypeOK, NEW c \in Conns
  PROVE  RosterAhead(c) \in Roster
<1> DEFINE q == queue[c]
           S == {i \in Nat : i <= Len(q) => Reading(view[c], q)[i] \in Roster}
<1>1. /\ q \in Seq(ServerMessage) /\ Len(q) \in Nat /\ view[c] \in Roster
      /\ \A i \in 1 .. Len(q) : q[i] \in ServerMessage
  BY DEF WiresTypeOK, QueuesTypeOK, ClientsTypeOK
<1>2. 0 \in S
  BY <1>1, ReadingStep
<1>3. ASSUME NEW i \in S PROVE i + 1 \in S
  <2>1. CASE i + 1 <= Len(q)
    <3>1. Reading(view[c], q)[i] \in Roster /\ q[i + 1] \in ServerMessage
      BY <1>1, <2>1
    <3> HIDE DEF q
    <3>2. Reading(view[c], q)[i + 1] = Apply(Reading(view[c], q)[i], q[i + 1])
      BY ReadingStep
    <3> QED
      BY <3>1, <3>2, ApplyType
  <2> QED
    BY <2>1
<1>4. S = Nat
  <2> HIDE DEF S
  <2>1. S \in SUBSET Nat
    BY DEF S
  <2> QED
    BY <1>2, <1>3, <2>1, SetInduction
<1> QED
  BY <1>1, <1>4 DEF RosterAhead

-----------------------------------------------------------------------------
(* One step, seen by one connection *)

\* Whoever is reachable is in its own room and in no other.
LEMMA ReachableIsHome ==
  ASSUME HubInv, NEW d \in Conns, Reachable(d)
  PROVE  /\ pid[d] \in Pid /\ pid[d] # NoPid /\ home[d] \in RoomIds
         /\ pid[d] \in members[home[d]]
         /\ \A r \in RoomIds : pid[d] \in members[r] => r = home[d]
<1>1. pid[d] \in Everyone
  BY DEF HubInv, SessionsMatchRegistry, Reachable
<1>2. pid[d] \in Pid /\ pid[d] # NoPid
  BY <1>1, RoomOfMember DEF HubInv, Everyone
<1>3. PICK e \in Conns : pid[e] = pid[d] /\ pid[d] \in members[home[e]]
  BY <1>1 DEF HubInv, SessionsMatchRegistry
<1>4. e = d /\ home[d] \in RoomIds
  BY <1>2, <1>3 DEF HubInv, SessionsMatchRegistry, SessionsAreSane
<1> QED
  BY <1>2, <1>3, <1>4, RoomOfMember DEF HubInv

Mail(c, r, toSelf, toPeers, d) ==
  IF d = c THEN toSelf ELSE IF d \in Peers(c, r) THEN toPeers ELSE <<>>

\* A connection that has lost nothing got what it was sent.
LEMMA DeliveredMail ==
  ASSUME QueuesTypeOK, NEW c \in Conns, NEW r, NEW toSelf, NEW toPeers,
         Deliver(c, r, toSelf, toPeers), NEW d \in Conns
  PROVE  /\ queue'[d] \in {queue[d], queue[d] \o Mail(c, r, toSelf, toPeers, d)}
         /\ ~lost'[d] => ~lost[d] /\ queue'[d] = queue[d] \o Mail(c, r, toSelf, toPeers, d)
BY DEF Deliver, QueuesTypeOK, Mail

\* Whatever is no roster message leaves a faithful roster faithful, as long as
\* rooms and tracks stay.
LEMMA NeutralMail ==
  ASSUME HubInv, WiresTypeOK, NEW d \in Conns, Faithful(d), NEW mail,
         mail = <<>> \/ \E m \in ServerMessage : /\ m.t \notin {"join", "joined", "left", "tracks"}
                                                /\ mail = <<m>>,
         ~lost'[d] => ~lost[d] /\ queue'[d] = queue[d] \o mail,
         view'[d] = view[d], chat'[d] = chat[d],
         UNCHANGED <<members, tracks, muted, pid, home>>, outbounds' \subseteq outbounds
  PROVE  Faithful(d)'
<1> SUFFICES ASSUME ~lost'[d] PROVE Clean(d)' /\ (Reachable(d)' => Agrees(d)')
  BY DEF Faithful
<1>1. ~lost[d] /\ Clean(d) /\ (Reachable(d) => Agrees(d))
  BY DEF Faithful
<1>2. /\ RosterAhead(d)' = IF mail = <<>> THEN RosterAhead(d) ELSE Apply(RosterAhead(d), mail[1])
      /\ Clean(d) /\ (mail # <<>> => MakesSense(mail[1], RosterAhead(d))) => Clean(d)'
  BY MailArrives DEF WiresTypeOK
<1>3. mail # <<>> => /\ MakesSense(mail[1], RosterAhead(d))
                     /\ Apply(RosterAhead(d), mail[1]) = RosterAhead(d)
  BY DEF MakesSense, Apply
<1>4. RosterAhead(d)' = RosterAhead(d) /\ Clean(d)'
  BY <1>1, <1>2, <1>3
<1>5. Reachable(d)' => Reachable(d)
  BY DEF Reachable
<1> QED
  BY <1>1, <1>4, <1>5 DEF Agrees

\* Reading changes nothing that is ahead.
LEMMA ReadingStaysFaithful ==
  ASSUME HubInv, WiresTypeOK, NEW c \in Conns, Receive(c), \A d \in Conns : Faithful(d),
         UNCHANGED <<members, tracks, muted, pid, home, outbounds, lost>>
  PROVE  \A d \in Conns : Faithful(d)'
<1> TAKE d \in Conns
<1>1. CASE d = c
  <2>1. RosterAhead(c)' = RosterAhead(c) /\ (Clean(c) => Clean(c)')
    BY MailIsRead DEF WiresTypeOK
  <2>2. Reachable(c)' = Reachable(c)
    BY DEF Reachable
  <2> QED
    BY <1>1, <2>1, <2>2 DEF Faithful, Agrees
<1>2. CASE d # c
  <2>1. queue'[d] = queue[d] \o <<>> /\ view'[d] = view[d] /\ chat'[d] = chat[d]
    BY <1>2 DEF Receive, WiresTypeOK, QueuesTypeOK, ClientsTypeOK
  <2> QED
    BY <2>1, NeutralMail
<1> QED
  BY <1>1, <1>2

\* Somebody joins or leaves, in the roster of a client that hears of it.
LEMMA Coming ==
  ASSUME NEW v \in Roster, NEW p \in Pid, NEW w, w = Apply(v, [t |-> "joined", p |-> p])
  PROVE  /\ w.here = v.here \cup {p}
         /\ \A x \in Pid : /\ w.tracks[x] = IF x = p THEN {} ELSE v.tracks[x]
                          /\ w.muted[x] = IF x = p THEN {} ELSE v.muted[x]
BY DEF Apply, Roster

LEMMA Going ==
  ASSUME NEW v \in Roster, NEW p \in Pid, NEW w, w = Apply(v, [t |-> "left", p |-> p])
  PROVE  /\ w.here = v.here \ {p}
         /\ \A x \in Pid : /\ w.tracks[x] = IF x = p THEN {} ELSE v.tracks[x]
                          /\ w.muted[x] = IF x = p THEN {} ELSE v.muted[x]
BY DEF Apply, Roster

\* The newcomer starts from the room's snapshot, the others hear of it.
LEMMA JoinStaysFaithful ==
  ASSUME HubInv, HubInv', WiresTypeOK, \A d \in Conns : Faithful(d),
         NEW c \in Conns, NEW r \in RoomIds, NEW offer \in BOOLEAN, JoinRoom(c, r, offer)
  PROVE  \A d \in Conns : Faithful(d)'
<1> TAKE d \in Conns
<1> DEFINE self == [t |-> "join", p |-> nextSeq, roster |-> Snapshot(members'[r])]
           others == [t |-> "joined", p |-> nextSeq]
           mail == Mail(c, r, <<self>>, <<others>>, d)
<1>1. /\ pid[c] = NoPid /\ nextSeq \in Pid /\ nextSeq # NoPid /\ nextSeq \notin Everyone
      /\ pid' = [pid EXCEPT ![c] = nextSeq] /\ home' = [home EXCEPT ![c] = r]
      /\ members' = [members EXCEPT ![r] = @ \cup {nextSeq}]
      /\ outbounds' = outbounds \cup {nextSeq}
      /\ UNCHANGED <<tracks, muted, view, chat>>
  BY RegistryAssumption DEF JoinRoom, Join, Dispatched, clientVars, HubInv, SessionsAreSane, RegistryInv,
                            RegistryTypeOK, RoomsAreOccupied, Pid, NoPid
<1>2. /\ tracks[nextSeq] = {} /\ muted[nextSeq] = {}
      /\ members' \in [RoomIds -> SUBSET Pid]
      /\ tracks \in [Pid -> SUBSET TrackIds] /\ muted \in [Pid -> SUBSET TrackIds]
  BY <1>1 DEF HubInv, RegistryInv, RegistryTypeOK, RoomsAreOccupied
<1>3. self \in ServerMessage /\ others \in ServerMessage
  BY <1>1, <1>2 DEF ServerMessage, Snapshot, Roster
<1>4. SUFFICES ASSUME ~lost'[d] PROVE Clean(d)' /\ (Reachable(d)' => Agrees(d)')
  BY DEF Faithful
<1>5. ~lost[d] /\ queue'[d] = queue[d] \o mail
  BY <1>4, DeliveredMail DEF JoinRoom, WiresTypeOK
<1>6. Clean(d) /\ (Reachable(d) => Agrees(d))
  BY <1>5 DEF Faithful
<1>7. /\ RosterAhead(d)' = IF mail = <<>> THEN RosterAhead(d) ELSE Apply(RosterAhead(d), mail[1])
      /\ Clean(d) /\ (mail # <<>> => MakesSense(mail[1], RosterAhead(d))) => Clean(d)'
  <2>1. mail = <<>> \/ \E m \in ServerMessage : mail = <<m>>
    BY <1>3 DEF Mail
  <2> HIDE DEF mail
  <2> QED
    BY <1>1, <1>5, <2>1, MailArrives DEF WiresTypeOK
<1>8. CASE d = c
  <2>1. mail = <<self>>
    BY <1>8 DEF Mail
  <2>2. RosterAhead(d)' = Snapshot(members'[r]) /\ Clean(d)'
    BY <1>6, <1>7, <2>1, SMTT(30) DEF Apply, MakesSense
  <2>3. home'[d] = r /\ pid'[d] = nextSeq
    BY <1>1, <1>8 DEF HubInv, HubTypeOK
  <2> QED
    BY <1>1, <1>2, <2>2, <2>3 DEF Agrees, Snapshot
<1>9. CASE d # c /\ d \in Peers(c, r)
  <2>1. mail = <<others>> /\ mail # <<>> /\ mail[1] = others
    BY <1>9 DEF Mail
  <2>2. /\ pid'[d] = pid[d] /\ home'[d] = home[d] /\ pid[d] # nextSeq
        /\ Reachable(d) /\ pid[d] \in members[r]
    BY <1>1, <1>9 DEF Peers, HubInv, HubTypeOK, SessionsAreSane, RegistryInv, RegistryTypeOK, Reachable
  <2>3. home[d] = r /\ Agrees(d)
    BY <1>6, <2>2, ReachableIsHome
  <2>4. RosterAhead(d).here = members[r] /\ nextSeq \notin members[r]
    BY <1>1, <2>3 DEF Agrees, Everyone
  <2>5. Clean(d)'
    BY <1>6, <1>7, <2>1, <2>4 DEF MakesSense
  <2> DEFINE v == RosterAhead(d)
             w == RosterAhead(d)'
  <2>6. v \in Roster /\ w = Apply(v, others)
    BY <1>7, <2>1, RosterAheadType
  <2>7. \A p \in members[r] \ {pid[d]} : v.tracks[p] = tracks[p] /\ v.muted[p] = muted[p]
    BY <2>3, <2>4 DEF Agrees
  <2>8. members'[r] = members[r] \cup {nextSeq} /\ members[r] \subseteq Pid
    BY <1>1 DEF HubInv, RegistryInv, RegistryTypeOK
  <2>9. /\ w.here = v.here \cup {nextSeq}
        /\ \A x \in Pid : /\ w.tracks[x] = IF x = nextSeq THEN {} ELSE v.tracks[x]
                         /\ w.muted[x] = IF x = nextSeq THEN {} ELSE v.muted[x]
    <3>1. w = Apply(v, [t |-> "joined", p |-> nextSeq]) /\ v \in Roster /\ nextSeq \in Pid
      BY <1>1, <2>6
    <3> HIDE DEF v, w, others, self, mail
    <3> QED
      BY <3>1, Coming
  <2> HIDE DEF others, self, mail
  <2>10. Agrees(d)'
    <3>1. w.here = members'[home'[d]]
      BY <2>2, <2>3, <2>4, <2>8, <2>9
    <3>2. ASSUME NEW p \in w.here, p # pid'[d] PROVE w.tracks[p] = tracks'[p] /\ w.muted[p] = muted'[p]
      <4>1. p \in members[r] \cup {nextSeq} /\ p \in Pid /\ p # pid[d]
        BY <1>1, <2>2, <2>4, <2>8, <2>9, <3>2
      <4> HIDE DEF v, w
      <4> QED
        BY <1>1, <1>2, <2>7, <2>9, <4>1
    <3> QED
      BY <3>1, <3>2 DEF Agrees
  <2> QED
    BY <2>5, <2>10
<1>10. CASE d # c /\ d \notin Peers(c, r)
  <2>1. mail = <<>>
    BY <1>10 DEF Mail
  <2>2. RosterAhead(d)' = RosterAhead(d) /\ Clean(d)'
    BY <1>6, <1>7, <2>1
  <2>3. pid'[d] = pid[d] /\ home'[d] = home[d]
    BY <1>1, <1>10 DEF HubInv, HubTypeOK
  <2>4. ASSUME Reachable(d)' PROVE Agrees(d)'
    <3>1. pid[d] # nextSeq /\ Reachable(d)
      BY <1>1, <1>10, <2>3, <2>4 DEF Reachable, HubInv, HubTypeOK, SessionsAreSane, RegistryInv, RegistryTypeOK
    <3>2. Agrees(d) /\ home[d] \in RoomIds /\ pid[d] \in members[home[d]]
      BY <1>6, <3>1, ReachableIsHome
    <3>3. home[d] # r
      BY <1>1, <1>10, <2>3, <2>4, <3>2, SignalingAssumption
         DEF Peers, Reachable, HubInv, RegistryInv, RegistryTypeOK
    <3>4. members'[home[d]] = members[home[d]]
      BY <1>1, <3>2, <3>3 DEF HubInv, RegistryInv, RegistryTypeOK
    <3> QED
      BY <1>1, <2>2, <2>3, <3>2, <3>4 DEF Agrees
  <2> QED
    BY <2>2, <2>4
<1> QED
  BY <1>8, <1>9, <1>10

\* Somebody leaves its room; every other connection hears of it.
LEMMA OthersSeeDeparture ==
  ASSUME HubInv, WiresTypeOK, NEW c \in Conns, NEW d \in Conns, d # c, Faithful(d),
         pid[c] # NoPid, pid[c] \in members[home[c]], Leave(home[c], pid[c]),
         outbounds' = outbounds \ {pid[c]}, UNCHANGED <<pid, home>>,
         view'[d] = view[d], chat'[d] = chat[d],
         ~lost'[d] => /\ ~lost[d]
                      /\ queue'[d] = queue[d] \o IF d \in Peers(c, home[c])
                                                 THEN <<[t |-> "left", p |-> pid[c]]>> ELSE <<>>
  PROVE  Faithful(d)'
<1> DEFINE r == home[c]
           others == [t |-> "left", p |-> pid[c]]
           mail == IF d \in Peers(c, r) THEN <<others>> ELSE <<>>
           v == RosterAhead(d)
           w == RosterAhead(d)'
<1> SUFFICES ASSUME ~lost'[d] PROVE Clean(d)' /\ (Reachable(d)' => Agrees(d)')
  BY DEF Faithful
<1>1. /\ r \in RoomIds /\ pid[c] \in Pid /\ pid[c] # NoPid
      /\ members' = [members EXCEPT ![r] = @ \ {pid[c]}]
      /\ members \in [RoomIds -> SUBSET Pid]
      /\ tracks' = [tracks EXCEPT ![pid[c]] = {}] /\ muted' = [muted EXCEPT ![pid[c]] = {}]
      /\ tracks \in [Pid -> SUBSET TrackIds] /\ muted \in [Pid -> SUBSET TrackIds]
      /\ pid[d] # pid[c]
  BY DEF HubInv, HubTypeOK, SessionsAreSane, SessionsMatchRegistry, RegistryInv, RegistryTypeOK, Leave
<1>2. ~lost[d] /\ queue'[d] = queue[d] \o mail /\ Clean(d) /\ (Reachable(d) => Agrees(d))
  BY DEF Faithful
<1>3. mail = <<>> \/ \E m \in ServerMessage : mail = <<m>>
  BY <1>1 DEF ServerMessage
<1>4. /\ w = IF mail = <<>> THEN v ELSE Apply(v, mail[1])
      /\ Clean(d) /\ (mail # <<>> => MakesSense(mail[1], v)) => Clean(d)'
  <2> HIDE DEF mail
  <2> QED
    BY <1>2, <1>3, MailArrives DEF WiresTypeOK
<1>5. Reachable(d)' => Reachable(d)
  BY DEF Reachable
<1>6. Reachable(d) => /\ home[d] \in RoomIds /\ pid[d] \in members[home[d]]
                      /\ v.here = members[home[d]]
                      /\ \A p \in members[home[d]] \ {pid[d]} :
                            v.tracks[p] = tracks[p] /\ v.muted[p] = muted[p]
  BY <1>2, ReachableIsHome DEF Agrees
<1>7. CASE d \in Peers(c, r)
  <2>1. mail # <<>> /\ mail[1] = others
    BY <1>7
  <2>2. Reachable(d) /\ pid[d] \in members[r]
    BY <1>1, <1>7 DEF Peers, Reachable
  <2>3. home[d] = r
    BY <1>1, <2>2, ReachableIsHome
  <2>4. Clean(d)'
    BY <1>2, <1>4, <1>6, <2>1, <2>2, <2>3 DEF MakesSense
  <2>5. /\ w.here = v.here \ {pid[c]}
        /\ \A x \in Pid : /\ w.tracks[x] = IF x = pid[c] THEN {} ELSE v.tracks[x]
                         /\ w.muted[x] = IF x = pid[c] THEN {} ELSE v.muted[x]
    <3>1. w = Apply(v, [t |-> "left", p |-> pid[c]]) /\ v \in Roster /\ pid[c] \in Pid
      BY <1>1, <1>4, <2>1, RosterAheadType
    <3> HIDE DEF v, w, others, mail
    <3> QED
      BY <3>1, Going
  <2> HIDE DEF others, mail
  <2>6. w.here = members'[home'[d]]
    BY <1>1, <1>6, <2>2, <2>3, <2>5
  <2>7. ASSUME NEW p \in w.here, p # pid'[d] PROVE w.tracks[p] = tracks'[p] /\ w.muted[p] = muted'[p]
    <3>1. p \in members[r] /\ p # pid[c] /\ p \in Pid /\ p # pid[d]
      BY <1>1, <1>6, <2>2, <2>3, <2>5, <2>7
    <3>2. v.tracks[p] = tracks[p] /\ v.muted[p] = muted[p]
      BY <1>6, <2>2, <2>3, <3>1
    <3>3. tracks'[p] = tracks[p] /\ muted'[p] = muted[p]
      BY <1>1, <3>1
    <3> HIDE DEF v, w
    <3> QED
      BY <2>5, <3>1, <3>2, <3>3
  <2> QED
    BY <2>4, <2>6, <2>7 DEF Agrees
<1>8. CASE d \notin Peers(c, r)
  <2>1. w = v /\ Clean(d)'
    BY <1>2, <1>4, <1>8
  <2> HIDE DEF mail, others
  <2>2. ASSUME Reachable(d)' PROVE Agrees(d)'
    <3>1. Reachable(d)
      BY <1>5, <2>2
    <3>2. home[d] # r
      BY <1>1, <1>6, <1>8, <2>2, <3>1, SignalingAssumption DEF Peers, Reachable
    <3>3. members'[home[d]] = members[home[d]] /\ pid[c] \notin members[home[d]]
      BY <1>1, <1>6, <3>1, <3>2, RoomOfMember DEF HubInv
    <3>4. w.here = members'[home'[d]]
      BY <1>6, <2>1, <3>1, <3>3
    <3>5. ASSUME NEW p \in w.here, p # pid'[d] PROVE w.tracks[p] = tracks'[p] /\ w.muted[p] = muted'[p]
      <4>1. p \in members[home[d]] \ {pid[d]} /\ p # pid[c] /\ p \in Pid
        BY <1>1, <1>6, <2>1, <3>1, <3>3, <3>5
      <4>2. tracks'[p] = tracks[p] /\ muted'[p] = muted[p]
        BY <1>1, <4>1
      <4> QED
        BY <1>6, <2>1, <3>1, <4>1, <4>2
    <3> QED
      BY <3>4, <3>5 DEF Agrees
  <2> QED
    BY <2>1, <2>2
<1> QED
  BY <1>7, <1>8

\* A batch of tracks: the peers read in one delta what the registry did.
LEMMA TracksStayFaithful ==
  ASSUME HubInv, WiresTypeOK, \A e \in Conns : Faithful(e), NEW c \in Conns, sess[c] = "Joined",
         NEW pub \in SUBSET TrackIds, NEW unpub \in SUBSET TrackIds, NEW pubMuted \in SUBSET pub,
         NEW fresh \in Fresh(pid[c], pub), NEW list \in Listings(fresh),
         LocalTracks(c, pub, pubMuted, unpub, list)
  PROVE  \A d \in Conns : Faithful(d)'
<1> TAKE d \in Conns
<1> DEFINE r == home[c]
           p == pid[c]
           held == tracks[p] \cup fresh
           gone == unpub \cap held
           flip == Flipped(p, pub, pubMuted)
           delta == [t |-> "tracks", p |-> p, pub |-> fresh, pubMuted |-> pubMuted \cap fresh,
                     unpub |-> gone, mute |-> flip \cap pubMuted, unmute |-> flip \ pubMuted]
           mails == IF fresh \cup gone \cup flip = {} THEN <<>> ELSE <<delta>>
           mail == Mail(c, r, <<>>, mails, d)
           v == RosterAhead(d)
           w == RosterAhead(d)'
<1>1. {list[i] : i \in DOMAIN list} = fresh
  BY DEF Listings
<1>2. /\ r \in RoomIds /\ p \in Pid /\ p # NoPid /\ p \in members[r]
      /\ members \in [RoomIds -> SUBSET Pid]
      /\ tracks \in [Pid -> SUBSET TrackIds] /\ muted \in [Pid -> SUBSET TrackIds]
      /\ muted[p] \subseteq tracks[p]
      /\ fresh \in SUBSET (pub \ tracks[p])
  BY DEF HubInv, SessionsAreSane, SessionsMatchRegistry, RegistryInv, RegistryTypeOK, Pid, NoPid, Fresh
<1>3. /\ UNCHANGED <<members, pid, home, outbounds, view, chat>>
      /\ tracks' = [tracks EXCEPT ![p] = held \ unpub]
      /\ muted' = [muted EXCEPT ![p] = ((muted[p] \ pub) \cup (pubMuted \cap held)) \ unpub]
  BY <1>1 DEF LocalTracks, UpdateTracks, Dispatched, clientVars
<1>4. Deliver(c, r, <<>>, mails)
  BY <1>1 DEF LocalTracks, TracksDelta
<1>5. ~lost'[d] => ~lost[d] /\ queue'[d] = queue[d] \o mail
  <2> DEFINE none == <<>>
  <2>1. Deliver(c, r, none, mails) /\ mail = Mail(c, r, none, mails, d) /\ QueuesTypeOK
    BY <1>4 DEF WiresTypeOK
  <2> HIDE DEF mails, mail, none
  <2> QED
    BY <2>1 DEF Deliver, QueuesTypeOK, Mail
<1>6. flip = {t \in pub \cap tracks[p] : (t \in pubMuted) # (t \in muted[p])}
  BY DEF Flipped
<1>7. /\ held \ gone = held \ unpub
      /\ fresh \cap tracks[p] = {} /\ gone \subseteq tracks[p] \cup fresh
      /\ (((muted[p] \cup (pubMuted \cap fresh)) \cap (held \ gone)) \ (flip \ pubMuted))
            \cup ((flip \cap pubMuted) \cap (held \ gone))
           = ((muted[p] \ pub) \cup (pubMuted \cap held)) \ unpub
      /\ mails = <<>> => /\ held \ unpub = tracks[p]
                         /\ ((muted[p] \ pub) \cup (pubMuted \cap held)) \ unpub = muted[p]
  <2> DEFINE S == tracks[p]
             M == muted[p]
  <2>1. S \in SUBSET TrackIds /\ M \in SUBSET S /\ fresh \in SUBSET (pub \ S)
    BY <1>2
  <2>2. flip = {t \in pub \cap S : (t \in pubMuted) # (t \in M)} /\ gone = unpub \cap (S \cup fresh)
    BY <1>6
  <2>3. mails = <<>> => fresh \cup gone \cup flip = {}
    OBVIOUS
  <2> DEFINE now == (S \cup fresh) \ gone
  <2>3a. now = (S \cup fresh) \ gone
    OBVIOUS
  <2> HIDE DEF S, M, mails, flip, gone, now, p
  <2>4. /\ now = (S \cup fresh) \ unpub
        /\ fresh \cap S = {} /\ gone \subseteq S \cup fresh
        /\ (((M \cup (pubMuted \cap fresh)) \cap now) \ (flip \ pubMuted))
              \cup ((flip \cap pubMuted) \cap now)
             = ((M \ pub) \cup (pubMuted \cap (S \cup fresh))) \ unpub
        /\ fresh \cup gone \cup flip = {} =>
              /\ (S \cup fresh) \ unpub = S
              /\ ((M \ pub) \cup (pubMuted \cap (S \cup fresh))) \ unpub = M
    <3>1. now = (S \cup fresh) \ unpub
      BY <2>1, <2>2, <2>3a
    <3>2. ASSUME NEW t
          PROVE  t \in (((M \cup (pubMuted \cap fresh)) \cap now) \ (flip \ pubMuted))
                         \cup ((flip \cap pubMuted) \cap now)
                   <=> t \in ((M \ pub) \cup (pubMuted \cap (S \cup fresh))) \ unpub
      BY <2>1, <2>2, <3>1
    <3>3. fresh \cap S = {} /\ gone \subseteq S \cup fresh
      BY <2>1, <2>2
    <3>4. ASSUME fresh \cup gone \cup flip = {}
          PROVE  /\ (S \cup fresh) \ unpub = S
                 /\ ((M \ pub) \cup (pubMuted \cap (S \cup fresh))) \ unpub = M
      <4>1. fresh = {} /\ gone = {} /\ flip = {}
        BY <3>4
      <4>2. ASSUME NEW t
            PROVE  t \in ((M \ pub) \cup (pubMuted \cap (S \cup fresh))) \ unpub <=> t \in M
        BY <2>1, <2>2, <4>1
      <4>3. (S \cup fresh) \ unpub = S
        BY <2>2, <4>1
      <4> QED
        BY <4>2, <4>3
    <3> QED
      BY <3>1, <3>2, <3>3, <3>4
  <2> QED
    BY <2>3, <2>4 DEF S, M, now
<1>8. CASE mails = <<>>
  <2>1. UNCHANGED <<tracks, muted>>
    BY <1>2, <1>3, <1>7, <1>8
  <2>2. mail = <<>>
    BY <1>8 DEF Mail
  <2> HIDE DEF mail, mails
  <2> QED
    BY <1>3, <1>5, <2>1, <2>2, NeutralMail
<1>9. CASE mails = <<delta>>
  <2>1. delta \in ServerMessage
    <3>1. /\ fresh \in SUBSET TrackIds /\ gone \in SUBSET TrackIds /\ flip \in SUBSET TrackIds
          /\ pubMuted \cap fresh \in SUBSET TrackIds
          /\ flip \cap pubMuted \in SUBSET TrackIds /\ flip \ pubMuted \in SUBSET TrackIds
      BY <1>2, <1>6
    <3> HIDE DEF gone, flip
    <3> QED
      BY <1>2, <3>1 DEF ServerMessage
  <2>2. mail = <<>> \/ \E m \in ServerMessage : mail = <<m>>
    BY <1>9, <2>1 DEF Mail
  <2> SUFFICES ASSUME ~lost'[d] PROVE Clean(d)' /\ (Reachable(d)' => Agrees(d)')
    BY DEF Faithful
  <2>3. ~lost[d] /\ Clean(d) /\ (Reachable(d) => Agrees(d)) /\ (Reachable(d)' => Reachable(d))
    BY <1>3, <1>5 DEF Faithful, Reachable
  <2>4. /\ w = IF mail = <<>> THEN v ELSE Apply(v, mail[1])
        /\ Clean(d) /\ (mail # <<>> => MakesSense(mail[1], v)) => Clean(d)'
    <3> HIDE DEF mail
    <3> QED
      BY <1>3, <1>5, <2>2, MailArrives DEF WiresTypeOK
  <2>5. Reachable(d) => /\ home[d] \in RoomIds /\ pid[d] \in members[home[d]]
                        /\ v.here = members[home[d]]
                        /\ \A x \in members[home[d]] \ {pid[d]} :
                              v.tracks[x] = tracks[x] /\ v.muted[x] = muted[x]
    BY <2>3, ReachableIsHome DEF Agrees
  <2>6. CASE d # c /\ d \in Peers(c, r)
    <3>1. mail = <<delta>> /\ mail # <<>> /\ mail[1] = delta
      BY <1>9, <2>6 DEF Mail
    <3>2. Reachable(d) /\ pid[d] \in members[r]
      BY <1>3, <2>6 DEF Peers, Reachable
    <3>3. home[d] = r /\ pid[d] # p
      BY <1>2, <2>6, <3>2, ReachableIsHome DEF HubInv, SessionsMatchRegistry
    <3>4. v.here = members[r] /\ p \in v.here /\ v.tracks[p] = tracks[p] /\ v.muted[p] = muted[p]
      BY <1>2, <2>5, <3>2, <3>3
    <3>5. MakesSense(delta, v)
      <4>1. delta.t = "tracks" /\ delta.p = p /\ delta.pub = fresh /\ delta.unpub = gone
        OBVIOUS
      <4> HIDE DEF delta, v, gone
      <4> QED
        BY <1>7, <3>4, <4>1 DEF MakesSense
    <3>6. w = ApplyTracks(v, delta) /\ v \in Roster
      <4>1. w = Apply(v, delta) /\ v \in Roster
        BY <2>4, <3>1, RosterAheadType
      <4>2. delta.t = "tracks"
        OBVIOUS
      <4> HIDE DEF delta, v, w
      <4> QED
        BY <4>1, <4>2 DEF Apply
    <3>7. w = [v EXCEPT !.tracks[p] = held \ gone,
                        !.muted[p] = (((@ \cup (pubMuted \cap fresh)) \cap (held \ gone)) \ (flip \ pubMuted))
                                        \cup ((flip \cap pubMuted) \cap (held \ gone))]
      <4>1. /\ delta.p = p /\ delta.pub = fresh /\ delta.unpub = gone /\ delta.pubMuted = pubMuted \cap fresh
            /\ delta.mute = flip \cap pubMuted /\ delta.unmute = flip \ pubMuted
        OBVIOUS
      <4> HIDE DEF delta, v, w, gone, flip
      <4> QED
        BY <3>4, <3>6, <4>1 DEF ApplyTracks
    <3>8. /\ w.here = v.here
          /\ \A x \in Pid : w.tracks[x] = IF x = p THEN held \ unpub ELSE v.tracks[x]
          /\ \A x \in Pid : w.muted[x] = IF x = p
                                         THEN ((muted[p] \ pub) \cup (pubMuted \cap held)) \ unpub
                                         ELSE v.muted[x]
      <4> DEFINE now == held \ gone
                 flags == (((v.muted[p] \cup (pubMuted \cap fresh)) \cap (held \ gone)) \ (flip \ pubMuted))
                             \cup ((flip \cap pubMuted) \cap (held \ gone))
      <4>1. w = [v EXCEPT !.tracks[p] = now, !.muted[p] = flags]
        BY <3>7
      <4>2. now = held \ unpub /\ flags = ((muted[p] \ pub) \cup (pubMuted \cap held)) \ unpub
        BY <1>7, <3>4
      <4>2a. p \in Pid /\ v \in Roster
        BY <1>2, <3>6
      <4> HIDE DEF now, flags, v, w, held, p
      <4>2b. /\ w.here = v.here
             /\ w.tracks = [v.tracks EXCEPT ![p] = now]
             /\ w.muted = [v.muted EXCEPT ![p] = flags]
        BY <4>1, <4>2a DEF Roster
      <4>3. /\ w.here = v.here
            /\ \A x \in Pid : w.tracks[x] = IF x = p THEN now ELSE v.tracks[x]
            /\ \A x \in Pid : w.muted[x] = IF x = p THEN flags ELSE v.muted[x]
        BY <4>2a, <4>2b DEF Roster
      <4> QED
        BY <4>2, <4>3
    <3>9. Clean(d)'
      BY <2>3, <2>4, <3>1, <3>5
    <3> HIDE DEF delta, mail, mails, held, flip, gone
    <3>10. ASSUME NEW x \in w.here, x # pid'[d] PROVE w.tracks[x] = tracks'[x] /\ w.muted[x] = muted'[x]
      <4>1. x \in members[r] \ {pid[d]} /\ x \in Pid
        BY <1>2, <1>3, <3>4, <3>8, <3>10
      <4>2. v.tracks[x] = tracks[x] /\ v.muted[x] = muted[x]
        BY <2>5, <3>2, <3>3, <4>1
      <4> HIDE DEF v, w
      <4> QED
        BY <1>2, <1>3, <3>8, <4>1, <4>2
    <3>11. w.here = members'[home'[d]]
      BY <1>3, <3>3, <3>4, <3>8
    <3> QED
      BY <3>9, <3>10, <3>11 DEF Agrees
  <2>7. CASE ~(d # c /\ d \in Peers(c, r))
    <3>1. mail = <<>>
      BY <2>7 DEF Mail
    <3>2. w = v /\ Clean(d)'
      BY <2>3, <2>4, <3>1
    <3> HIDE DEF mail, delta, mails, held, flip, gone
    <3>3. ASSUME Reachable(d)' PROVE Agrees(d)'
      <4>1. Reachable(d)
        BY <2>3, <3>3
      <4>2. ASSUME NEW x \in w.here, x # pid'[d] PROVE w.tracks[x] = tracks'[x] /\ w.muted[x] = muted'[x]
        <5>1. x \in members[home[d]] \ {pid[d]} /\ x \in Pid
          BY <1>2, <1>3, <2>5, <3>2, <4>1, <4>2
        <5>2. x # p
          <6>1. CASE d = c
            BY <5>1, <6>1
          <6>2. CASE d # c
            <7>1. home[d] # r
              BY <1>2, <1>3, <2>5, <2>7, <4>1, <6>2, SignalingAssumption DEF Peers, Reachable
            <7> QED
              BY <1>2, <2>5, <4>1, <5>1, <7>1, RoomOfMember DEF HubInv
          <6> QED
            BY <6>1, <6>2
        <5>3. tracks'[x] = tracks[x] /\ muted'[x] = muted[x]
          BY <1>2, <1>3, <5>1, <5>2
        <5> QED
          BY <2>5, <3>2, <4>1, <5>1, <5>3
      <4>3. w.here = members'[home'[d]]
        BY <1>3, <2>5, <3>2, <4>1
      <4> QED
        BY <4>2, <4>3 DEF Agrees
    <3> QED
      BY <3>2, <3>3
  <2> QED
    BY <2>6, <2>7
<1> QED
  BY <1>8, <1>9

\* A connection that ends reads no more, and is in no room.
LEMMA EndStaysFaithful ==
  ASSUME NEW c \in Conns, queue'[c] = <<>>, ~Reachable(c)'
  PROVE  Faithful(c)'
BY DEF Faithful, Clean

LEMMA ConnStepFaithful ==
  ASSUME HubInv, HubInv', WiresTypeOK, \A d \in Conns : Faithful(d), NEW c \in Conns, ConnStep(c)
  PROVE  \A d \in Conns : Faithful(d)'
<1> DEFINE Neutral == {m \in ServerMessage : m.t \notin {"join", "joined", "left", "tracks"}}
<1>0. /\ \A d \in Conns : queue[d] \in Seq(ServerMessage) /\ queue[d] \o <<>> = queue[d]
      /\ [t |-> "disconnect"] \in Neutral
      /\ queue \in [Conns -> Seq(ServerMessage)] /\ view \in [Conns -> Roster]
      /\ NoPid \notin outbounds
  <2>1. [t |-> "disconnect"] \in Neutral
    BY DEF ServerMessage
  <2>2. queue \in [Conns -> Seq(ServerMessage)] /\ view \in [Conns -> Roster]
    BY DEF WiresTypeOK, QueuesTypeOK, ClientsTypeOK
  <2>3. \A d \in Conns : queue[d] \in Seq(ServerMessage) /\ queue[d] \o <<>> = queue[d]
    BY <2>2
  <2>4. NoPid \notin outbounds
    BY DEF HubInv, HubTypeOK, NoPid, Pid
  <2> QED
    BY <2>1, <2>2, <2>3, <2>4
<1>1. ASSUME UNCHANGED <<members, tracks, muted, pid, home, view, chat>>, outbounds' \subseteq outbounds,
             UNCHANGED <<queue, lost>>
      PROVE  \A d \in Conns : Faithful(d)'
  BY <1>0, <1>1, NeutralMail
<1>2. ASSUME UNCHANGED <<members, tracks, muted, pid, home, view, chat>>, outbounds' \subseteq outbounds,
             NEW r \in {NoRoom, home[c]},
             NEW toSelf, NEW toPeers, toSelf = <<>> \/ \E m \in Neutral : toSelf = <<m>>,
             toPeers = <<>> \/ \E m \in Neutral : toPeers = <<m>>, Deliver(c, r, toSelf, toPeers)
      PROVE  \A d \in Conns : Faithful(d)'
  <2> TAKE d \in Conns
  <2> DEFINE mail == Mail(c, r, toSelf, toPeers, d)
  <2>1. ~lost'[d] => ~lost[d] /\ queue'[d] = queue[d] \o mail
    BY <1>0, <1>2 DEF Deliver, Mail, WiresTypeOK, QueuesTypeOK
  <2>2. mail = <<>> \/ \E m \in ServerMessage : /\ m.t \notin {"join", "joined", "left", "tracks"}
                                                /\ mail = <<m>>
    BY <1>2 DEF Mail
  <2> HIDE DEF mail
  <2> QED
    BY <1>2, <2>1, <2>2, NeutralMail
<1>3. CASE PollFrame(c) \/ SocketEnds(c)
  BY <1>1, <1>3 DEF PollFrame, SocketEnds, registryVars, clientVars
<1>4. CASE WriteOut(c)
  BY <1>4, ReadingStaysFaithful DEF WriteOut, registryVars
<1>5. CASE Flush(c)
  <2>1. CASE Receive(c)
    BY <1>5, <2>1, ReadingStaysFaithful DEF Flush, registryVars
  <2>2. CASE UNCHANGED <<queue, clientVars>>
    BY <1>1, <1>5, <2>2 DEF Flush, registryVars, clientVars
  <2> QED
    BY <1>5, <2>1, <2>2 DEF Flush
<1>6. CASE Malformed(c)
  BY <1>0, <1>2, <1>6 DEF Malformed, Dispatched, registryVars, clientVars
<1>7. CASE RejectFirst(c) \/ RejectSecondJoin(c)
  BY <1>0, <1>2, <1>7 DEF RejectFirst, RejectSecondJoin, Reject, Dispatched, registryVars, clientVars
<1>8. ASSUME NEW r \in RoomIds, NEW offer \in BOOLEAN, JoinRoom(c, r, offer)
      PROVE  \A d \in Conns : Faithful(d)'
  BY <1>8, JoinStaysFaithful
<1>9. ASSUME NEW type \in {"PublisherOffer", "SubscriberAnswer"}, SessionDescription(c, type)
      PROVE  \A d \in Conns : Faithful(d)'
  BY <1>1, <1>9 DEF SessionDescription, Dispatched, registryVars, clientVars
<1>10. CASE Ignored(c)
  BY <1>1, <1>10 DEF Ignored, Dispatched, registryVars, clientVars
<1>11. ASSUME sess[c] = "Joined",
              NEW pub \in SUBSET TrackIds, NEW unpub \in SUBSET TrackIds, NEW pubMuted \in SUBSET pub,
              NEW fresh \in Fresh(pid[c], pub), NEW list \in Listings(fresh),
              LocalTracks(c, pub, pubMuted, unpub, list)
       PROVE  \A d \in Conns : Faithful(d)'
  BY <1>11, TracksStayFaithful
<1>12. ASSUME NEW upsert \in SUBSET Refs, NEW remove \in SUBSET Refs, NEW rev \in Revisions,
              Subscriptions(c, upsert, remove, rev)
       PROVE  \A d \in Conns : Faithful(d)'
  <2> DEFINE applied == IF revision'[pid[c]] = NoRevision THEN 0 ELSE revision'[pid[c]]
  <2>1. applied \in Nat
    <3>1. pid[c] \in Pid
      BY <1>12 DEF Subscriptions, HubInv, SessionsMatchRegistry
    <3>2. revision' \in [Pid -> Nat \cup {NoRevision}]
      BY DEF HubInv, RegistryInv, RegistryTypeOK
    <3> QED
      BY <3>1, <3>2
  <2>2. [t |-> "subs", rev |-> applied] \in Neutral
    BY <2>1 DEF ServerMessage
  <2>3. Deliver(c, home[c], <<[t |-> "subs", rev |-> applied]>>, <<>>)
    BY <1>12 DEF Subscriptions
  <2>4. UNCHANGED <<members, tracks, muted, pid, home, view, chat, outbounds>>
    BY <1>12 DEF Subscriptions, UpdateSubscriptions, Dispatched, clientVars
  <2> HIDE DEF applied
  <2> QED
    BY <1>2, <2>2, <2>3, <2>4
<1>13. CASE SendChat(c)
  <2> DEFINE m == [t |-> "chat", p |-> pid[c], n |-> chatSeq[c] + 1]
  <2>1. m \in Neutral
    BY <1>13 DEF SendChat, ServerMessage, HubInv, SessionsMatchRegistry, WiresTypeOK, ClientsTypeOK
  <2>2. Deliver(c, home[c], <<m>>, <<m>>)
    BY <1>13 DEF SendChat
  <2>3. UNCHANGED <<members, tracks, muted, pid, home, view, chat, outbounds>>
    BY <1>13 DEF SendChat, Dispatched, registryVars, clientVars
  <2> HIDE DEF m
  <2> QED
    BY <1>2, <2>1, <2>2, <2>3
<1>14. CASE LeaveRequest(c)
  <2> TAKE d \in Conns
  <2>1. /\ pid[c] \in Pid /\ pid[c] # NoPid /\ pid[c] \in members[home[c]]
        /\ Leave(home[c], pid[c]) /\ outbounds' = outbounds \ {pid[c]}
        /\ UNCHANGED <<pid, home, view, chat>>
        /\ Deliver(c, home[c], <<[t |-> "disconnect"]>>, <<[t |-> "left", p |-> pid[c]]>>)
    BY <1>14 DEF LeaveRequest, Dispatched, clientVars, HubInv, SessionsMatchRegistry, Pid, NoPid
  <2>2. CASE d = c
    <3> DEFINE mail == <<[t |-> "disconnect"]>>
    <3>1. ~Reachable(d)'
      BY <2>1, <2>2 DEF Reachable
    <3>2. ~lost'[d] => ~lost[d] /\ queue'[d] = queue[d] \o mail
      BY <2>1, <2>2 DEF Deliver
    <3>3. mail = <<>> \/ \E m \in ServerMessage : mail = <<m>>
      BY <1>0
    <3>4. mail # <<>> => MakesSense(mail[1], RosterAhead(d))
      BY DEF MakesSense
    <3> HIDE DEF mail
    <3>5. ~lost'[d] /\ Clean(d) => Clean(d)'
      BY <2>1, <3>2, <3>3, <3>4, MailArrives DEF WiresTypeOK
    <3> QED
      BY <3>1, <3>2, <3>5 DEF Faithful
  <2>3. CASE d # c
    <3>1. ~lost'[d] => /\ ~lost[d]
                       /\ queue'[d] = queue[d] \o IF d \in Peers(c, home[c])
                                                  THEN <<[t |-> "left", p |-> pid[c]]>> ELSE <<>>
      BY <2>1, <2>3 DEF Deliver
    <3> QED
      BY <2>1, <2>3, <3>1, OthersSeeDeparture
  <2> QED
    BY <2>2, <2>3
<1>15. CASE TransportClose(c)
  <2> TAKE d \in Conns
  <2>1. UNCHANGED <<pid, home, chat>> /\ view' = [view EXCEPT ![c] = EmptyRoster]
    BY <1>15 DEF TransportClose
  <2>2. CASE CloseMember(c)
    <3>1. /\ pid[c] # NoPid /\ pid[c] \in members[home[c]]
          /\ Leave(home[c], pid[c]) /\ outbounds' = outbounds \ {pid[c]}
          /\ DeliverToPeers(c, home[c], <<[t |-> "left", p |-> pid[c]]>>)
      BY <2>2 DEF CloseMember
    <3>2. CASE d = c
      BY <2>1, <3>1, <3>2, EndStaysFaithful DEF DeliverToPeers, Reachable
    <3>3. CASE d # c
      <4>1. ~lost'[d] => /\ ~lost[d]
                         /\ queue'[d] = queue[d] \o IF d \in Peers(c, home[c])
                                                    THEN <<[t |-> "left", p |-> pid[c]]>> ELSE <<>>
        BY <1>0, <3>1, <3>3 DEF DeliverToPeers
      <4>2. view'[d] = view[d] /\ chat'[d] = chat[d]
        BY <1>0, <2>1, <3>3
      <4> QED
        BY <2>1, <3>1, <3>3, <4>1, <4>2, OthersSeeDeparture
    <3> QED
      BY <3>2, <3>3
  <2>3. CASE CloseSilently(c) \/ CloseAfterLeave(c)
    <3>1. /\ queue' = [queue EXCEPT ![c] = <<>>] /\ UNCHANGED <<members, tracks, muted, lost>>
          /\ outbounds' \subseteq outbounds /\ pid[c] \notin outbounds'
      BY <1>0, <2>3 DEF CloseSilently, CloseAfterLeave, registryVars
    <3>2. CASE d = c
      BY <1>0, <2>1, <3>1, <3>2, EndStaysFaithful DEF Reachable
    <3>3. CASE d # c
      <4>1. queue'[d] = queue[d] \o <<>> /\ view'[d] = view[d] /\ chat'[d] = chat[d]
        BY <1>0, <2>1, <3>1, <3>3
      <4> QED
        BY <2>1, <3>1, <4>1, NeutralMail
    <3> QED
      BY <3>2, <3>3
  <2> QED
    BY <1>15, <2>2, <2>3 DEF TransportClose
<1> QED
  BY <1>3, <1>4, <1>5, <1>6, <1>7, <1>8, <1>9, <1>10, <1>11, <1>12, <1>13, <1>14, <1>15
     DEF ConnStep, RoomFrame

LEMMA FaithfulInvariant == SignalingSpec => [](\A c \in Conns : Faithful(c))
<1> DEFINE All == \A c \in Conns : Faithful(c)
<1>1. SignalingInit => All
  <2> SUFFICES ASSUME SignalingInit, NEW c \in Conns PROVE Faithful(c)
    OBVIOUS
  <2> QED
    BY DEF SignalingInit, Faithful, Clean, Reachable
<1>2. HubInv /\ HubInv' /\ WiresTypeOK /\ All /\ [SignalingNext]_signalingVars => All'
  <2> SUFFICES ASSUME HubInv, HubInv', WiresTypeOK, All, [SignalingNext]_signalingVars PROVE All'
    OBVIOUS
  <2>1. CASE HubNext
    BY <2>1, ConnStepFaithful DEF HubNext
  <2>2. ASSUME NEW c \in Conns, MediaReplies(c) PROVE All'
    <3> SUFFICES ASSUME NEW d \in Conns PROVE Faithful(d)'
      OBVIOUS
    <3> DEFINE mail == IF d = c THEN <<[t |-> "sdp"]>> ELSE <<>>
    <3>1. /\ UNCHANGED <<members, tracks, muted, pid, home, outbounds, lost, view, chat>>
          /\ queue' = [queue EXCEPT ![c] = Append(@, [t |-> "sdp"])]
      BY <2>2 DEF MediaReplies, registryVars, clientVars
    <3>2. queue \in [Conns -> Seq(ServerMessage)] /\ [t |-> "sdp"] \in ServerMessage
      BY DEF WiresTypeOK, QueuesTypeOK, ServerMessage
    <3>3. queue'[d] = queue[d] \o mail
      BY <3>1, <3>2
    <3>4. mail = <<>> \/ \E m \in ServerMessage : /\ m.t \notin {"join", "joined", "left", "tracks"}
                                                  /\ mail = <<m>>
      BY <3>2
    <3> HIDE DEF mail
    <3> QED
      BY <3>1, <3>3, <3>4, NeutralMail
  <2>3. CASE MediaTakes \/ UNCHANGED signalingVars
    <3> SUFFICES ASSUME NEW d \in Conns PROVE Faithful(d)'
      OBVIOUS
    <3>1. UNCHANGED <<members, tracks, muted, pid, home, outbounds, lost, view, chat, queue>>
      BY <2>3 DEF MediaTakes, signalingVars, registryVars, clientVars
    <3>2. queue'[d] = queue[d] \o <<>>
      BY <3>1 DEF WiresTypeOK, QueuesTypeOK
    <3> QED
      BY <3>1, <3>2, NeutralMail
  <2> QED
    BY <2>1, <2>2, <2>3 DEF SignalingNext
<1> HIDE DEF All
<1>3. SignalingSpec => []All
  BY <1>1, <1>2, HubInvariant, WiresInvariant, PTL DEF SignalingSpec
<1> QED
  BY <1>3 DEF All

\* A client that lost nothing ends up with the registry's view of its room
\* (ws.rs: "no session can observe a half-applied RoomDelta"), for any number
\* of connections, whatever they do while it reads.
THEOREM RostersAgreeAlways == SignalingSpec => []RostersAgree
<1>1. (\A c \in Conns : Faithful(c)) => RostersAgree
  BY FaithfulAll
<1> QED
  BY <1>1, FaithfulInvariant, PTL

\* And every delta it reads makes sense for the roster it is applied to
\* (session.ts applyRoomDelta).
THEOREM DeltasApplyCleanlyAlways == SignalingSpec => []DeltasApplyCleanly
<1>1. (\A c \in Conns : Faithful(c)) => DeltasApplyCleanly
  BY FaithfulAll
<1> QED
  BY <1>1, FaithfulInvariant, PTL

-----------------------------------------------------------------------------
(* The chat logs *)

Entries == Pid \X Nat

\* s is what l begins with.
Begins(s, l) == s \in Seq(Entries) /\ Len(s) <= Len(l) /\ \A i \in 1 .. Len(s) : s[i] = l[i]

\* Reading a queue only ever adds to a log.
LEMMA LogGrows ==
  ASSUME WiresTypeOK, NEW c \in Conns
  PROVE  LogAhead(c) \in Seq(Entries) /\ Begins(chat[c], LogAhead(c))
<1> DEFINE q == queue[c]
           l == chat[c]
           S == {i \in Nat : i <= Len(q) => /\ Logging(l, q)[i] \in Seq(Entries)
                                            /\ Begins(l, Logging(l, q)[i])}
<1>1. /\ q \in Seq(ServerMessage) /\ Len(q) \in Nat /\ l \in Seq(Entries)
      /\ \A i \in 1 .. Len(q) : q[i] \in ServerMessage
  BY DEF WiresTypeOK, QueuesTypeOK, ClientsTypeOK, Entries
<1>2. 0 \in S
  <2>1. Logging(l, q)[0] = l
    BY LoggingStep
  <2>2. Begins(l, l)
    BY <1>1 DEF Begins
  <2> QED
    BY <1>1, <2>1, <2>2
<1>3. ASSUME NEW i \in S PROVE i + 1 \in S
  <2>1. CASE i + 1 <= Len(q)
    <3> DEFINE k == Logging(l, q)[i]
               m == q[i + 1]
    <3>1. k \in Seq(Entries) /\ Begins(l, k) /\ m \in ServerMessage
      BY <1>1, <2>1
    <3> HIDE DEF q, l
    <3>2. Logging(l, q)[i + 1] = Log(k, m)
      BY LoggingStep
    <3> HIDE DEF k, m, S
    <3>3. CASE m.t = "chat"
      <4>1. <<m.p, m.n>> \in Entries
        BY <3>1, <3>3, MessageFields DEF Entries
      <4> DEFINE e == <<m.p, m.n>>
                 a == Append(k, e)
      <4>2. Log(k, m) = a
        BY <3>3 DEF Log
      <4>3. /\ a \in Seq(Entries) /\ Len(a) = Len(k) + 1 /\ \A j \in 1 .. Len(k) : a[j] = k[j]
            /\ Len(k) \in Nat
        BY <3>1, <4>1
      <4> HIDE DEF a
      <4>4. Begins(l, a)
        BY <1>1, <3>1, <4>3 DEF Begins
      <4> QED
        BY <3>2, <4>2, <4>3, <4>4 DEF S
    <3>4. CASE m.t # "chat"
      BY <3>1, <3>2, <3>4 DEF Log, S
    <3> QED
      BY <3>3, <3>4
  <2> QED
    BY <2>1
<1>4. S = Nat
  <2> HIDE DEF S
  <2>1. S \in SUBSET Nat
    BY DEF S
  <2> QED
    BY <1>2, <1>3, <2>1, SetInduction
<1>5. Len(q) \in S
  BY <1>1, <1>4
<1> QED
  BY <1>1, <1>5 DEF LogAhead

\* A message in a log was numbered by a connection that has a participant.
Numbered ==
  \A c \in Conns : \A i \in DOMAIN LogAhead(c) :
    \E d \in Conns : /\ pid[d] # NoPid
                     /\ LogAhead(c)[i][1] = pid[d]
                     /\ LogAhead(c)[i][2] <= chatSeq[d]

\* Two logs have their common messages in the same order, and none twice.
Ordered(l, k) ==
  \A i, j \in DOMAIN l : \A x, y \in DOMAIN k :
    (i < j /\ l[i] = k[x] /\ l[j] = k[y]) => x < y

Distinct(l) == \A i, j \in DOMAIN l : l[i] = l[j] => i = j

ChatInv ==
  /\ Numbered
  /\ \A c \in Conns : Distinct(LogAhead(c))
  /\ \A c, d \in Conns : Ordered(LogAhead(c), LogAhead(d))

LEMMA ChatInvOrder == ChatInv => ChatOrderIsShared
BY DEF ChatInv, Ordered, Distinct, ChatOrderIsShared

\* Logs that only get shorter.
LEMMA LogsShrink ==
  ASSUME WiresTypeOK, ChatInv,
         \A d \in Conns : Begins(LogAhead(d)', LogAhead(d)),
         \A d \in Conns : pid[d] # NoPid => pid'[d] = pid[d],
         UNCHANGED chatSeq
  PROVE  ChatInv'
<1>1. \A d \in Conns : LogAhead(d) \in Seq(Entries)
  BY LogGrows
<1>3. ASSUME NEW d \in Conns
      PROVE  /\ DOMAIN (LogAhead(d)') \subseteq DOMAIN LogAhead(d)
             /\ \A i \in DOMAIN (LogAhead(d)') : LogAhead(d)'[i] = LogAhead(d)[i]
  BY <1>1 DEF Begins
<1>4. Numbered'
  <2> SUFFICES ASSUME NEW c \in Conns, NEW i \in DOMAIN (LogAhead(c)')
               PROVE  \E d \in Conns : /\ pid'[d] # NoPid /\ (LogAhead(c)')[i][1] = pid'[d]
                                       /\ (LogAhead(c)')[i][2] <= chatSeq'[d]
    BY DEF Numbered
  <2>1. i \in DOMAIN LogAhead(c) /\ LogAhead(c)'[i] = LogAhead(c)[i]
    BY <1>3
  <2>2. PICK d \in Conns : /\ pid[d] # NoPid /\ LogAhead(c)[i][1] = pid[d]
                           /\ LogAhead(c)[i][2] <= chatSeq[d]
    BY <2>1 DEF ChatInv, Numbered
  <2> QED
    BY <2>1, <2>2
<1>5. ASSUME NEW c \in Conns PROVE Distinct(LogAhead(c)')
  <2>1. Distinct(LogAhead(c))
    BY DEF ChatInv
  <2> QED
    BY <1>3, <2>1 DEF Distinct
<1>6. ASSUME NEW c \in Conns, NEW d \in Conns PROVE Ordered(LogAhead(c)', LogAhead(d)')
  <2>1. Ordered(LogAhead(c), LogAhead(d))
    BY DEF ChatInv
  <2> QED
    BY <1>3, <2>1 DEF Ordered
<1> QED
  BY <1>4, <1>5, <1>6 DEF ChatInv

\* A new message at the end of some of the logs.
LEMMA AppendedOrNot ==
  ASSUME NEW l \in Seq(Entries), NEW e \in Entries, \A i \in DOMAIN l : l[i] # e,
         NEW a, a = l \/ a = Append(l, e)
  PROVE  /\ Len(l) \in Nat /\ DOMAIN l = 1 .. Len(l) /\ DOMAIN l \subseteq DOMAIN a
         /\ DOMAIN a \in {1 .. Len(l), 1 .. Len(l) + 1}
         /\ \A i \in DOMAIN l : a[i] = l[i] /\ a[i] # e
         /\ \A i \in DOMAIN a : i \notin DOMAIN l => i = Len(l) + 1 /\ a[i] = e
<1>1. CASE a = l
  BY <1>1
<1>2. CASE a = Append(l, e)
  <2>1. /\ Len(l) \in Nat /\ DOMAIN l = 1 .. Len(l) /\ DOMAIN a = 1 .. Len(l) + 1
        /\ \A i \in 1 .. Len(l) : a[i] = l[i]
        /\ a[Len(l) + 1] = e
    BY <1>2
  <2> QED
    BY <2>1
<1> QED
  BY <1>1, <1>2

LEMMA OrderKept ==
  ASSUME NEW l \in Seq(Entries), NEW k \in Seq(Entries), Ordered(l, k),
         NEW e \in Entries, \A i \in DOMAIN l : l[i] # e, \A i \in DOMAIN k : k[i] # e,
         NEW a, a = l \/ a = Append(l, e), NEW b, b = k \/ b = Append(k, e)
  PROVE  Ordered(a, b)
<1>1. /\ Len(l) \in Nat /\ DOMAIN l = 1 .. Len(l) /\ DOMAIN l \subseteq DOMAIN a
      /\ DOMAIN a \in {1 .. Len(l), 1 .. Len(l) + 1}
      /\ \A i \in DOMAIN l : a[i] = l[i] /\ a[i] # e
      /\ \A i \in DOMAIN a : i \notin DOMAIN l => i = Len(l) + 1 /\ a[i] = e
  BY AppendedOrNot
<1>2. /\ Len(k) \in Nat /\ DOMAIN k = 1 .. Len(k) /\ DOMAIN k \subseteq DOMAIN b
      /\ DOMAIN b \in {1 .. Len(k), 1 .. Len(k) + 1}
      /\ \A i \in DOMAIN k : b[i] = k[i] /\ b[i] # e
      /\ \A i \in DOMAIN b : i \notin DOMAIN k => i = Len(k) + 1 /\ b[i] = e
  <2>1. /\ k \in Seq(Entries) /\ e \in Entries /\ \A i \in DOMAIN k : k[i] # e
        /\ b = k \/ b = Append(k, e)
    OBVIOUS
  <2> QED
    BY ONLY <2>1, AppendedOrNot
<1> DEFINE n == Len(l)
           o == Len(k)
           A == DOMAIN a
           B == DOMAIN b
           D == DOMAIN l
           E == DOMAIN k
<1>3. \A i, j \in D : \A x, y \in E : (i < j /\ l[i] = k[x] /\ l[j] = k[y]) => x < y
  BY DEF Ordered
<1> HIDE DEF n, o, A, B, D, E
<1>4. /\ n \in Nat /\ D = 1 .. n /\ D \subseteq A /\ A \in {1 .. n, 1 .. n + 1}
      /\ \A i \in D : a[i] = l[i] /\ a[i] # e
      /\ \A i \in A : i \notin D => i = n + 1 /\ a[i] = e
  BY <1>1 DEF n, D, A
<1>5. /\ o \in Nat /\ E = 1 .. o /\ E \subseteq B /\ B \in {1 .. o, 1 .. o + 1}
      /\ \A i \in E : b[i] = k[i] /\ b[i] # e
      /\ \A i \in B : i \notin E => i = o + 1 /\ b[i] = e
  BY <1>2 DEF o, E, B
<1>6. ASSUME NEW i \in A, NEW j \in A, NEW x \in B, NEW y \in B, i < j, a[i] = b[x], a[j] = b[y]
      PROVE  x < y
  <2>1. i \in D /\ a[i] # e
    BY <1>4, <1>6
  <2>2. x \in E /\ x \in 1 .. o
    BY <1>5, <1>6, <2>1
  <2>3. CASE j \in D
    <3>1. y \in E
      BY <1>4, <1>5, <1>6, <2>3
    <3> QED
      BY <1>3, <1>4, <1>5, <1>6, <2>1, <2>2, <2>3, <3>1
  <2>4. CASE j \notin D
    <3>1. b[y] = e /\ y \notin E
      BY <1>4, <1>5, <1>6, <2>4
    <3> QED
      BY <1>5, <1>6, <2>2, <3>1
  <2> QED
    BY <2>3, <2>4
<1> QED
  BY <1>6 DEF Ordered, A, B

LEMMA DistinctKept ==
  ASSUME NEW l \in Seq(Entries), Distinct(l), NEW e \in Entries, \A i \in DOMAIN l : l[i] # e,
         NEW a, a = l \/ a = Append(l, e)
  PROVE  Distinct(a)
<1>1. /\ \A i \in DOMAIN l : a[i] = l[i] /\ a[i] # e
      /\ \A i \in DOMAIN a : i \notin DOMAIN l => i = Len(l) + 1 /\ a[i] = e
  BY AppendedOrNot
<1> QED
  BY <1>1 DEF Distinct

\* A log that gets nothing, or a message that is no chat, stays what it is.
LEMMA LogStays ==
  ASSUME WiresTypeOK, NEW d \in Conns, NEW mail,
         mail = <<>> \/ \E m \in ServerMessage : m.t # "chat" /\ mail = <<m>>,
         queue'[d] = queue[d] \/ queue'[d] = queue[d] \o mail,
         view'[d] = view[d], chat'[d] = chat[d]
  PROVE  Begins(LogAhead(d)', LogAhead(d))
<1>1. LogAhead(d)' = LogAhead(d)
  <2>1. CASE queue'[d] = queue[d]
    BY <2>1 DEF LogAhead
  <2>2. CASE queue'[d] = queue[d] \o mail
    <3>1. LogAhead(d)' = IF mail = <<>> THEN LogAhead(d) ELSE Log(LogAhead(d), mail[1])
      BY <2>2, MailArrives DEF WiresTypeOK
    <3>2. mail # <<>> => Log(LogAhead(d), mail[1]) = LogAhead(d)
      BY DEF Log
    <3> QED
      BY <3>1, <3>2
  <2> QED
    BY <2>1, <2>2
<1>2. LogAhead(d) \in Seq(Entries)
  BY LogGrows
<1> QED
  BY <1>1, <1>2 DEF Begins

\* A chat message has a number its sender has not used, so it is in no log
\* yet, and it is the last one of every log it reaches.
LEMMA SendChatInv ==
  ASSUME HubInv, WiresTypeOK, ChatInv, NEW c \in Conns, SendChat(c)
  PROVE  ChatInv'
<1> DEFINE m == [t |-> "chat", p |-> pid[c], n |-> chatSeq[c] + 1]
           e == <<pid[c], chatSeq[c] + 1>>
<1>1. /\ pid[c] \in Pid /\ pid[c] # NoPid
      /\ chatSeq \in [Conns -> Nat] /\ chatSeq' = [chatSeq EXCEPT ![c] = @ + 1]
      /\ UNCHANGED <<pid, view, chat>> /\ Deliver(c, home[c], <<m>>, <<m>>)
  BY DEF SendChat, Dispatched, clientVars, HubInv, SessionsMatchRegistry, Pid, NoPid,
         WiresTypeOK, ClientsTypeOK
<1>2. m \in ServerMessage /\ e \in Entries
  BY <1>1 DEF ServerMessage, Entries
<1>3. ASSUME NEW d \in Conns
      PROVE  LogAhead(d)' = LogAhead(d) \/ LogAhead(d)' = Append(LogAhead(d), e)
  <2> DEFINE mail == Mail(c, home[c], <<m>>, <<m>>, d)
  <2>1. queue'[d] = queue[d] \/ queue'[d] = queue[d] \o mail
    BY <1>1 DEF Deliver, Mail, WiresTypeOK, QueuesTypeOK
  <2>2. mail = <<>> \/ mail = <<m>>
    BY DEF Mail
  <2>3. m.t = "chat" /\ m.p = pid[c] /\ m.n = chatSeq[c] + 1
    OBVIOUS
  <2> HIDE DEF mail, m
  <2>4. CASE queue'[d] = queue[d] \o mail
    <3>1. LogAhead(d)' = IF mail = <<>> THEN LogAhead(d) ELSE Log(LogAhead(d), mail[1])
      BY <1>1, <1>2, <2>2, <2>4, MailArrives DEF WiresTypeOK
    <3>2. CASE mail = <<>>
      BY <3>1, <3>2
    <3>3. CASE mail = <<m>>
      <4>1. LogAhead(d)' = Log(LogAhead(d), m)
        BY <3>1, <3>3
      <4> QED
        BY <2>3, <4>1 DEF Log
    <3> QED
      BY <2>2, <3>2, <3>3
  <2>5. CASE queue'[d] = queue[d]
    BY <1>1, <2>5 DEF LogAhead
  <2> QED
    BY <2>1, <2>4, <2>5
<1> HIDE DEF m
<1>4. ASSUME NEW d \in Conns PROVE LogAhead(d) \in Seq(Entries)
  BY LogGrows
<1>5. ASSUME NEW d \in Conns, NEW i \in DOMAIN LogAhead(d) PROVE LogAhead(d)[i] # e
  <2>1. PICK f \in Conns : /\ pid[f] # NoPid /\ LogAhead(d)[i][1] = pid[f]
                           /\ LogAhead(d)[i][2] <= chatSeq[f]
    BY DEF ChatInv, Numbered
  <2> SUFFICES ASSUME LogAhead(d)[i] = e PROVE FALSE
    OBVIOUS
  <2>2. pid[f] = pid[c] /\ chatSeq[c] + 1 <= chatSeq[f]
    BY <2>1
  <2>3. f = c
    BY <2>1, <2>2 DEF HubInv, SessionsMatchRegistry
  <2> QED
    BY <1>1, <2>2, <2>3
<1>6. ASSUME NEW d \in Conns, NEW f \in Conns PROVE Ordered(LogAhead(d)', LogAhead(f)')
  <2>1. Ordered(LogAhead(d), LogAhead(f))
    BY DEF ChatInv
  <2> DEFINE l == LogAhead(d)
             k == LogAhead(f)
             a == LogAhead(d)'
             b == LogAhead(f)'
  <2>2. /\ l \in Seq(Entries) /\ k \in Seq(Entries) /\ Ordered(l, k)
        /\ \A i \in DOMAIN l : l[i] # e
        /\ \A i \in DOMAIN k : k[i] # e
        /\ a = l \/ a = Append(l, e)
        /\ b = k \/ b = Append(k, e)
    BY <1>3, <1>4, <1>5, <2>1
  <2> HIDE DEF l, k, a, b, e
  <2>3. Ordered(a, b)
    BY <1>2, <2>2, OrderKept
  <2> QED
    BY <2>3 DEF a, b
<1>7. ASSUME NEW d \in Conns PROVE Distinct(LogAhead(d)')
  <2>1. Distinct(LogAhead(d))
    BY DEF ChatInv
  <2> DEFINE l == LogAhead(d)
             a == LogAhead(d)'
  <2>2. /\ l \in Seq(Entries) /\ Distinct(l) /\ \A i \in DOMAIN l : l[i] # e
        /\ a = l \/ a = Append(l, e)
    BY <1>3, <1>4, <1>5, <2>1
  <2> HIDE DEF l, a, e
  <2>3. Distinct(a)
    BY <1>2, <2>2, DistinctKept
  <2> QED
    BY <2>3 DEF a
<1>8. Numbered'
  <2> SUFFICES ASSUME NEW d \in Conns, NEW i \in DOMAIN (LogAhead(d)')
               PROVE  \E f \in Conns : /\ pid'[f] # NoPid /\ (LogAhead(d)')[i][1] = pid'[f]
                                       /\ (LogAhead(d)')[i][2] <= chatSeq'[f]
    BY DEF Numbered
  <2>0. \A f \in Conns : chatSeq[f] \in Nat /\ chatSeq'[f] \in Nat /\ chatSeq[f] <= chatSeq'[f]
    BY <1>1
  <2>1. CASE i \in DOMAIN LogAhead(d) /\ (LogAhead(d)')[i] = LogAhead(d)[i]
    <3>1. PICK f \in Conns : /\ pid[f] # NoPid /\ LogAhead(d)[i][1] = pid[f]
                             /\ LogAhead(d)[i][2] <= chatSeq[f]
      BY <2>1 DEF ChatInv, Numbered
    <3>2. LogAhead(d)[i][2] \in Nat
      BY <1>4, <2>1 DEF Entries
    <3>3. LogAhead(d)[i][2] <= chatSeq'[f]
      BY <2>0, <3>1, <3>2
    <3> QED
      BY <1>1, <2>1, <3>1, <3>3
  <2>2. CASE (LogAhead(d)')[i] = e
    BY <1>1, <2>2
  <2>3. \/ i \in DOMAIN LogAhead(d) /\ (LogAhead(d)')[i] = LogAhead(d)[i]
        \/ (LogAhead(d)')[i] = e
    <3> DEFINE l == LogAhead(d)
               a == LogAhead(d)'
    <3>1. /\ l \in Seq(Entries) /\ \A j \in DOMAIN l : l[j] # e
          /\ a = l \/ a = Append(l, e)
      BY <1>3, <1>4, <1>5
    <3>2. i \in DOMAIN a
      OBVIOUS
    <3> HIDE DEF l, a, e
    <3>3. \/ i \in DOMAIN l /\ a[i] = l[i]
          \/ a[i] = e
      BY <1>2, <3>1, <3>2, AppendedOrNot
    <3> QED
      BY <3>3 DEF l, a
  <2> QED
    BY <2>1, <2>2, <2>3
<1> QED
  BY <1>6, <1>7, <1>8 DEF ChatInv

LEMMA ConnStepChat ==
  ASSUME HubInv, HubInv', WiresTypeOK, ChatInv, NEW c \in Conns, ConnStep(c)
  PROVE  ChatInv'
<1> DEFINE Shrinks == /\ \A d \in Conns : Begins(LogAhead(d)', LogAhead(d))
                      /\ \A d \in Conns : pid[d] # NoPid => pid'[d] = pid[d]
                      /\ UNCHANGED chatSeq
           Other == {m \in ServerMessage : m.t # "chat"}
<1>0. /\ queue \in [Conns -> Seq(ServerMessage)]
      /\ view \in [Conns -> Roster] /\ chat \in [Conns -> Seq(Entries)]
      /\ [t |-> "disconnect"] \in Other
  BY DEF WiresTypeOK, QueuesTypeOK, ClientsTypeOK, ServerMessage, Entries
<1>1. CASE Shrinks
  BY <1>1, LogsShrink
<1>2. ASSUME UNCHANGED <<view, chat, queue>>
      PROVE  \A d \in Conns : Begins(LogAhead(d)', LogAhead(d))
  <2> TAKE d \in Conns
  <2>1. queue'[d] = queue[d] \/ queue'[d] = queue[d] \o <<>>
    BY <1>2
  <2> QED
    BY <1>2, <2>1, LogStays
<1>3. ASSUME UNCHANGED <<view, chat>>, NEW r,
             NEW toSelf, NEW toPeers, toSelf = <<>> \/ \E m \in Other : toSelf = <<m>>,
             toPeers = <<>> \/ \E m \in Other : toPeers = <<m>>, Deliver(c, r, toSelf, toPeers)
      PROVE  \A d \in Conns : Begins(LogAhead(d)', LogAhead(d))
  <2> TAKE d \in Conns
  <2> DEFINE mail == Mail(c, r, toSelf, toPeers, d)
  <2>1. queue'[d] = queue[d] \/ queue'[d] = queue[d] \o mail
    BY <1>3 DEF Deliver, Mail, WiresTypeOK, QueuesTypeOK
  <2>2. mail = <<>> \/ \E m \in ServerMessage : m.t # "chat" /\ mail = <<m>>
    BY <1>3 DEF Mail
  <2> HIDE DEF mail
  <2> QED
    BY <1>3, <2>1, <2>2, LogStays
<1>4. ASSUME Receive(c), UNCHANGED <<pid, chatSeq>> PROVE Shrinks
  <2>1. ASSUME NEW d \in Conns PROVE Begins(LogAhead(d)', LogAhead(d))
    <3>1. CASE d = c
      <4>1. LogAhead(c)' = LogAhead(c) /\ LogAhead(c) \in Seq(Entries)
        BY <1>4, MailIsRead, LogGrows DEF WiresTypeOK
      <4> QED
        BY <3>1, <4>1 DEF Begins
    <3>2. CASE d # c
      <4>1. queue'[d] = queue[d] /\ view'[d] = view[d] /\ chat'[d] = chat[d]
        BY <1>0, <1>4, <3>2 DEF Receive
      <4>2. queue'[d] = queue[d] \/ queue'[d] = queue[d] \o <<>>
        BY <4>1
      <4> QED
        BY <4>1, <4>2, LogStays
    <3> QED
      BY <3>1, <3>2
  <2> QED
    BY <1>4, <2>1
<1>5. CASE PollFrame(c) \/ SocketEnds(c)
  BY <1>1, <1>2, <1>5 DEF PollFrame, SocketEnds, clientVars
<1>6. CASE WriteOut(c)
  BY <1>1, <1>4, <1>6 DEF WriteOut
<1>7. CASE Flush(c)
  <2>1. CASE Receive(c)
    BY <1>1, <1>4, <1>7, <2>1 DEF Flush
  <2>2. CASE UNCHANGED <<queue, clientVars>>
    BY <1>1, <1>2, <1>7, <2>2 DEF Flush, clientVars
  <2> QED
    BY <1>7, <2>1, <2>2 DEF Flush
<1>8. CASE Malformed(c)
  <2>1. \A d \in Conns : Begins(LogAhead(d)', LogAhead(d))
    BY <1>0, <1>3, <1>8 DEF Malformed, Dispatched, clientVars
  <2> QED
    BY <1>1, <1>8, <2>1 DEF Malformed
<1>9. CASE RejectFirst(c) \/ RejectSecondJoin(c)
  <2>1. Reject(c)
    BY <1>9 DEF RejectFirst, RejectSecondJoin
  <2>2. \A d \in Conns : Begins(LogAhead(d)', LogAhead(d))
    BY <1>0, <1>3, <2>1 DEF Reject, Dispatched, clientVars
  <2> QED
    BY <1>1, <2>1, <2>2 DEF Reject
<1>10. ASSUME NEW r \in RoomIds, NEW offer \in BOOLEAN, JoinRoom(c, r, offer)
       PROVE  ChatInv'
  <2> DEFINE self == [t |-> "join", p |-> nextSeq, roster |-> Snapshot(members'[r])]
             others == [t |-> "joined", p |-> nextSeq]
  <2>1. /\ pid[c] = NoPid /\ nextSeq \in Pid /\ pid' = [pid EXCEPT ![c] = nextSeq]
        /\ UNCHANGED <<view, chat, chatSeq>> /\ pid \in [Conns -> Pid \cup {NoPid}]
        /\ Deliver(c, r, <<self>>, <<others>>)
    BY <1>10, RegistryAssumption DEF JoinRoom, Join, Dispatched, clientVars, HubInv, HubTypeOK,
                                     SessionsAreSane, RegistryInv, RegistryTypeOK, Pid
  <2>2. Snapshot(members'[r]) \in Roster
    BY DEF Snapshot, Roster, HubInv, RegistryInv, RegistryTypeOK
  <2>3. self \in Other /\ others \in Other
    BY <2>1, <2>2 DEF ServerMessage
  <2> HIDE DEF self, others
  <2>4. \A d \in Conns : Begins(LogAhead(d)', LogAhead(d))
    BY <1>3, <2>1, <2>3
  <2> QED
    BY <1>1, <2>1, <2>4
<1>11. ASSUME NEW type \in {"PublisherOffer", "SubscriberAnswer"}, SessionDescription(c, type)
       PROVE  ChatInv'
  BY <1>1, <1>2, <1>11 DEF SessionDescription, Dispatched, clientVars
<1>12. CASE Ignored(c)
  BY <1>1, <1>2, <1>12 DEF Ignored, Dispatched, clientVars
<1>13. ASSUME sess[c] = "Joined",
              NEW pub \in SUBSET TrackIds, NEW unpub \in SUBSET TrackIds, NEW pubMuted \in SUBSET pub,
              NEW fresh \in Fresh(pid[c], pub), NEW list \in Listings(fresh),
              LocalTracks(c, pub, pubMuted, unpub, list)
       PROVE  ChatInv'
  <2> DEFINE mails == TracksDelta(c, pub, pubMuted, unpub, {list[i] : i \in DOMAIN list})
  <2>1. mails = <<>> \/ \E m \in Other : mails = <<m>>
    <3>1. {list[i] : i \in DOMAIN list} = fresh
      BY DEF Listings
    <3> DEFINE gone == unpub \cap (tracks[pid[c]] \cup fresh)
               flip == Flipped(pid[c], pub, pubMuted)
               flags == pubMuted \cap fresh
               mute == flip \cap pubMuted
               unmute == flip \ pubMuted
               m == [t |-> "tracks", p |-> pid[c], pub |-> fresh, pubMuted |-> flags,
                     unpub |-> gone, mute |-> mute, unmute |-> unmute]
    <3>2. mails = <<>> \/ mails = <<m>>
      BY <3>1 DEF TracksDelta
    <3>3. /\ pid[c] \in Pid /\ fresh \in SUBSET TrackIds /\ gone \in SUBSET TrackIds
          /\ flags \in SUBSET TrackIds /\ mute \in SUBSET TrackIds /\ unmute \in SUBSET TrackIds
      BY <1>13 DEF Fresh, Flipped, HubInv, SessionsMatchRegistry
    <3> HIDE DEF gone, flip, flags, mute, unmute, mails
    <3>4. m \in Other
      BY <3>3 DEF ServerMessage
    <3> QED
      BY <3>2, <3>4
  <2>2. UNCHANGED <<view, chat, chatSeq, pid>> /\ Deliver(c, home[c], <<>>, mails)
    BY <1>13 DEF LocalTracks, Dispatched, clientVars
  <2> HIDE DEF mails
  <2>3. \A d \in Conns : Begins(LogAhead(d)', LogAhead(d))
    BY <1>3, <2>1, <2>2
  <2> QED
    BY <1>1, <2>2, <2>3
<1>14. ASSUME NEW upsert \in SUBSET Refs, NEW remove \in SUBSET Refs, NEW rev \in Revisions,
              Subscriptions(c, upsert, remove, rev)
       PROVE  ChatInv'
  <2> DEFINE applied == IF revision'[pid[c]] = NoRevision THEN 0 ELSE revision'[pid[c]]
  <2>1. applied \in Nat
    <3>1. pid[c] \in Pid
      BY <1>14 DEF Subscriptions, HubInv, SessionsMatchRegistry
    <3>2. revision' \in [Pid -> Nat \cup {NoRevision}]
      BY DEF HubInv, RegistryInv, RegistryTypeOK
    <3> QED
      BY <3>1, <3>2
  <2>2. [t |-> "subs", rev |-> applied] \in Other
    BY <2>1 DEF ServerMessage
  <2>3. Deliver(c, home[c], <<[t |-> "subs", rev |-> applied]>>, <<>>)
    BY <1>14 DEF Subscriptions
  <2>4. UNCHANGED <<pid, view, chat, chatSeq>>
    BY <1>14 DEF Subscriptions, Dispatched, clientVars
  <2> HIDE DEF applied
  <2>5. \A d \in Conns : Begins(LogAhead(d)', LogAhead(d))
    BY <1>3, <2>2, <2>3, <2>4
  <2> QED
    BY <1>1, <2>4, <2>5
<1>15. CASE SendChat(c)
  BY <1>15, SendChatInv
<1>16. CASE LeaveRequest(c)
  <2> DEFINE others == [t |-> "left", p |-> pid[c]]
  <2>1. /\ pid[c] \in Pid /\ UNCHANGED <<pid, view, chat, chatSeq>>
        /\ Deliver(c, home[c], <<[t |-> "disconnect"]>>, <<others>>)
    BY <1>16 DEF LeaveRequest, Dispatched, clientVars, HubInv, SessionsMatchRegistry
  <2>2. others \in Other
    BY <2>1 DEF ServerMessage
  <2> HIDE DEF others
  <2>3. \A d \in Conns : Begins(LogAhead(d)', LogAhead(d))
    BY <1>0, <1>3, <2>1, <2>2
  <2> QED
    BY <1>1, <2>1, <2>3
<1>17. CASE TransportClose(c)
  <2>1. /\ UNCHANGED <<pid, chat, chatSeq>> /\ view' = [view EXCEPT ![c] = EmptyRoster]
    BY <1>17 DEF TransportClose
  <2>2. queue'[c] = <<>>
    BY <1>0, <1>17 DEF TransportClose, CloseSilently, CloseMember, CloseAfterLeave, DeliverToPeers
  <2>3. Begins(LogAhead(c)', LogAhead(c))
    <3>1. LogAhead(c)' = chat[c]
      <4> DEFINE none == <<>>
      <4>1. queue'[c] = none /\ Len(none) = 0 /\ chat'[c] = chat[c]
        BY <2>1, <2>2
      <4> HIDE DEF none
      <4> QED
        BY <4>1, LoggingStep DEF LogAhead
    <3>2. Begins(chat[c], LogAhead(c))
      BY LogGrows
    <3> QED
      BY <3>1, <3>2
  <2>4. ASSUME NEW d \in Conns, d # c PROVE Begins(LogAhead(d)', LogAhead(d))
    <3>1. view'[d] = view[d] /\ chat'[d] = chat[d]
      BY <1>0, <2>1, <2>4
    <3>2. CASE CloseSilently(c) \/ CloseAfterLeave(c)
      <4>1. queue'[d] = queue[d] \/ queue'[d] = queue[d] \o <<>>
        BY <1>0, <2>4, <3>2 DEF CloseSilently, CloseAfterLeave
      <4> QED
        BY <3>1, <4>1, LogStays
    <3>3. CASE CloseMember(c)
      <4> DEFINE m == [t |-> "left", p |-> pid[c]]
                 mail == <<m>>
      <4>1. m \in ServerMessage /\ m.t # "chat"
        BY <3>3 DEF CloseMember, ServerMessage, HubInv, HubTypeOK
      <4>2. queue'[d] = queue[d] \/ queue'[d] = queue[d] \o mail
        BY <2>4, <3>3 DEF CloseMember, DeliverToPeers
      <4>3. mail = <<>> \/ \E x \in ServerMessage : x.t # "chat" /\ mail = <<x>>
        BY <4>1
      <4> HIDE DEF mail
      <4> QED
        BY <3>1, <4>2, <4>3, LogStays
    <3> QED
      BY <1>17, <3>2, <3>3 DEF TransportClose
  <2> QED
    BY <1>1, <2>1, <2>3, <2>4
<1> QED
  BY <1>5, <1>6, <1>7, <1>8, <1>9, <1>10, <1>11, <1>12, <1>13, <1>14, <1>15, <1>16, <1>17
     DEF ConnStep, RoomFrame

\* "Order is server-defined" (signaling.proto): clients show the messages
\* they have in common in the same order and none twice, also when queues
\* overflow and sockets end.
THEOREM ChatOrderIsSharedAlways == SignalingSpec => []ChatOrderIsShared
<1>1. SignalingInit => ChatInv
  <2> SUFFICES ASSUME SignalingInit PROVE ChatInv
    OBVIOUS
  <2>1. ASSUME NEW c \in Conns PROVE LogAhead(c) = <<>>
    <3> DEFINE none == <<>>
    <3>1. queue[c] = none /\ Len(none) = 0 /\ chat[c] = none
      BY DEF SignalingInit
    <3> HIDE DEF none
    <3>2. LogAhead(c) = none
      BY <3>1, LoggingStep DEF LogAhead
    <3> QED
      BY <3>2 DEF none
  <2> QED
    BY <2>1 DEF ChatInv, Numbered, Distinct, Ordered
<1>2. HubInv /\ HubInv' /\ WiresTypeOK /\ ChatInv /\ [SignalingNext]_signalingVars => ChatInv'
  <2> SUFFICES ASSUME HubInv, HubInv', WiresTypeOK, ChatInv, [SignalingNext]_signalingVars
               PROVE  ChatInv'
    OBVIOUS
  <2>1. CASE HubNext
    BY <2>1, ConnStepChat DEF HubNext
  <2>2. CASE (\E c \in Conns : MediaReplies(c)) \/ MediaTakes \/ UNCHANGED signalingVars
    <3>1. UNCHANGED <<view, chat, chatSeq, pid>>
      BY <2>2 DEF MediaReplies, MediaTakes, signalingVars, clientVars
    <3>2. ASSUME NEW d \in Conns PROVE Begins(LogAhead(d)', LogAhead(d))
      <4> DEFINE m == [t |-> "sdp"]
                 mail == <<m>>
      <4>1. m \in ServerMessage /\ m.t # "chat"
        BY DEF ServerMessage
      <4>2. queue'[d] = queue[d] \/ queue'[d] = queue[d] \o mail
        <5>1. queue \in [Conns -> Seq(ServerMessage)]
          BY DEF WiresTypeOK, QueuesTypeOK
        <5>2. ASSUME NEW c \in Conns, MediaReplies(c) PROVE queue'[d] = queue[d] \/ queue'[d] = queue[d] \o mail
          <6>1. queue' = [queue EXCEPT ![c] = Append(@, m)]
            BY <5>2 DEF MediaReplies
          <6> HIDE DEF m
          <6> QED
            BY <4>1, <5>1, <6>1
        <5>3. CASE MediaTakes \/ UNCHANGED signalingVars
          BY <5>3 DEF MediaTakes, signalingVars
        <5> QED
          BY <2>2, <5>2, <5>3
      <4>3. mail = <<>> \/ \E x \in ServerMessage : x.t # "chat" /\ mail = <<x>>
        BY <4>1
      <4> HIDE DEF mail
      <4> QED
        BY <3>1, <4>2, <4>3, LogStays
    <3> QED
      BY <3>1, <3>2, LogsShrink
  <2> QED
    BY <2>1, <2>2 DEF SignalingNext
<1>3. SignalingSpec => []ChatInv
  BY <1>1, <1>2, HubInvariant, WiresInvariant, PTL DEF SignalingSpec
<1> QED
  BY <1>3, ChatInvOrder, PTL
=============================================================================
