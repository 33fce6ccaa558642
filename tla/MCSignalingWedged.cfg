\* A peer whose queue is full for a moment.
SPECIFICATION FairSignaling
CONSTANTS
  Conns = {c1, c2}
  RoomIds = {r1}
  NoRoom = NoRoom
  TrackIds = {t1}
  Revisions = {}
  Refs <- MCRefs
  MaxSeq = 2
  MaxRooms = 1
  MaxParticipants = 2
  MaxTracks = 1
  MaxSubscriptions = 1
  OutCap = 1
  Traffic = {"tracks"}
  MaxFrames = 3
  MaxCtl = 0
PROPERTIES FullQueueMeansWedged
CHECK_DEADLOCK FALSE
