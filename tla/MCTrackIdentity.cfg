\* Microphone and camera captured at the join, one screen share.
SPECIFICATION IdentitySpec
CONSTANTS
  Captures <- BothDevices
  Plans <- Steady
INVARIANTS CanonicalMidsAgree
CHECK_DEADLOCK FALSE
