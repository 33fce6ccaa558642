\* Three connections in one room, every kind of frame and of ending.
SPECIFICATION SignalingSpec
CONSTANTS
  Conns = {c1, c2, c3}
  RoomIds = {r1}
  NoRoom = NoRoom
  TrackIds = {t1}
  Revisions = {1}
  Refs <- MCRefs
  MaxSeq = 3
  MaxRooms = 1
  MaxParticipants = 3
  MaxTracks = 1
  MaxSubscriptions = 1
  OutCap = 2
  Traffic = {"malformed", "reject", "sdp", "ignored", "tracks", "subs", "chat", "leave", "media"}
  MaxFrames = 4
  MaxCtl = 0
SYMMETRY Symmetry
INVARIANTS RegistryTypeOK RoomsAreOccupied SignalingTypeOK SessionsMatchRegistry RostersAgree DeltasApplyCleanly ChatOrderIsShared
PROPERTIES FeedIsOrderly IdsNeverReused
CHECK_DEADLOCK FALSE
