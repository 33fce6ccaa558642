\* One message of each format at a time.
SPECIFICATION Spec
CONSTANTS
  ByteSpace = 4
  Narrow = 4
  Wide = 2
  DeltaSamples <- Deltas
  MaxStatuses = 6
  MaxPairs = 1
  PairTtl = 0
  StunPieces <- Checks
  StunKeys = {0, 7, 8}
  MaxAttributes = 4
  Sources <- Packets
  Pieces <- Elements
  Rewrites <- Forwarded
  MaxPieces = 3
  Blocks <- Compound
  Cuts = {0, 1, 9}
  MaxBlocks = 3
  MaxMediaSections = 3
  Sessions <- Texts
  Sections <- Media
  Config <- Cfg
  Wants <- Wanted
INVARIANTS TwccReadsBack StunRepliesReadBack RewritesReadBack CompoundsReadBack DescriptionsReadBack
PROPERTIES OfferLinesOnlyGrow
CHECK_DEADLOCK FALSE
