CONSTANTS
  k1 = k1
  k2 = k2
  Keys = {k1, k2}
  Chats = {k1}
  Stages <- OneOfEach
  Kind <- KindOf
  Limit = 1
  Schemas = {TRUE, FALSE}
  InitialServer <- Furnished
  MaxWrites = 2
  MaxPurges = 1
  MaxFaults = 1
SPECIFICATION FairSpec
INVARIANTS
  TypeOK
  NoneMissing
  NoGhost
  QuiescentSame
PROPERTIES
  Converges
CHECK_DEADLOCK FALSE
