CONSTANTS
  Presets <- MCPresets
  TTL = 1
  BucketSpecs <- MCBucketSpecs
  NoBucket = NoBucket
  NoDesc = NoDesc
  UserSpecs <- MCUserSpecs
  MaxUsers = 2
  MaxFaults = 1
  MaxEdits = 1
  MaxMoves = 1
SPECIFICATION FairSpec
CHECK_DEADLOCK FALSE
INVARIANTS KeyPublished
PROPERTIES ClassKept BucketConverges GrantsConverge UserDeletes MirrorFollows
