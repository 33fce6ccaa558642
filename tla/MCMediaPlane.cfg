\* Three participants, two shards, one room name.
SPECIFICATION PlaneSpec
CONSTANTS
  p1 = p1
  p2 = p2
  p3 = p3
  mic = mic
  cam = cam
  Participants = {p1, p2, p3}
  RoomIds = {r1}
  NoRoom = NoRoom
  TrackIds = {mic, cam}
  Refs <- MCRefs
  Kind <- MCKind
  LineKind <- MCLineKind
  Roster <- MCRoster
  Batches <- MCBatches
  WantSets <- MCWantSets
  Offers <- MCOffers
  Loudness <- MCLoudness
  Budgets <- MCBudgets
  NShards = 2
  ShardCap = 16
  RingCap = 1
  SsrcCap = 2
  TopN = 1
  ReportCap = 2
INVARIANTS ShardsFollowRouter TrafficArrives SpeakersArePresent ListsAreCurrent
CHECK_DEADLOCK FALSE
