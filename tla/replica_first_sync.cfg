SPECIFICATION Spec
CONSTANTS
  k1 = k1
  k2 = k2
  Keys = {k1, k2}
  Chats = {k1}
  Stages <- OneOfEach
  Kind <- KindOf
  Limit = 1
  Schemas = {FALSE}
  InitialServer <- Furnished
  MaxWrites = 0
  MaxPurges = 0
  MaxFaults = 0
CHECK_DEADLOCK FALSE
INVARIANTS
  BackgroundSettles
