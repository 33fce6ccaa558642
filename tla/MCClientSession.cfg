\* Calls one after the other, three attempts to a reconnect.
SPECIFICATION SessionSpec
CONSTANTS
  Sockets = {1, 2, 3}
  Tracks = {t1}
  Attempts = 3
  MaxRevision = 2
INVARIANTS NoGhosts CallsAreServed CandidatesWait
PROPERTY Settles
