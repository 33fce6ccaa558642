\* The camera may be off at the join; one screen share.
SPECIFICATION IdentitySpec
CONSTANTS
  Captures <- LobbyChoices
  Plans <- OneShare
INVARIANTS CanonicalMidsAgree
CHECK_DEADLOCK FALSE
