\* Hub and router: three participants come and go.
SPECIFICATION FairControl
CONSTANTS
  Conns = {c1, c2, c3}
  RoomIds = {r1}
  NoRoom = NoRoom
  TrackIds = {}
  Revisions = {}
  Refs = {}
  Kind <- MCKind
  MaxSeq = 3
  MaxRooms = 1
  MaxParticipants = 2
  MaxTracks = 0
  MaxSubscriptions = 0
  OutCap = 0
  Traffic = {"leave", "reject"}
  MaxFrames = 4
  MaxCtl = 2
  NShards = 0
  ShardCap = 0
PROPERTIES EndedSessionsAreForgotten
CHECK_DEADLOCK FALSE
