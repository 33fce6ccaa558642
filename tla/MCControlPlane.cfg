\* Hub and router: two participants, two tracks, subscriptions.
SPECIFICATION ControlSpec
CONSTANTS
  Conns = {c1, c2}
  RoomIds = {r1}
  NoRoom = NoRoom
  TrackIds = {t1, t2}
  Revisions = {1, 2}
  Refs <- MCRefs
  Kind <- MCKind
  MaxSeq = 2
  MaxRooms = 1
  MaxParticipants = 2
  MaxTracks = 2
  MaxSubscriptions = 1
  OutCap = 0
  Traffic = {"tracks", "subs", "leave"}
  MaxFrames = 4
  MaxCtl = 1
  NShards = 0
  ShardCap = 0
SYMMETRY Symmetry
INVARIANTS WithinCaps MediaMirrorsRoom MediaFollowsIntent OffersCoverIntent
PROPERTIES MidsAreStable IntentFollowsRevisions
CHECK_DEADLOCK FALSE
