SPECIFICATION FairSpec
CONSTANTS
  Segments <- MCSegments
  MaxBytes = 17
INVARIANTS
  TypeOK
  FramesOnWire
  OnlyStrayDropped
  NothingWithheld
  SegmentationIrrelevant
PROPERTIES
  FeedReturns
CHECK_DEADLOCK FALSE
