\* Both kinds of storage, three flows at once, two logins and two faults;
\* the cache with one entry, a queue of one or two ids and three events.
CONSTANTS
  Modes = {"instant", "persistent"}
  Storages = {"instant", "persistent"}
  MaxFlows = 3
  Slots <- MCSlots
  MaxLogins = 2
  MaxFaults = 2
  Users = {1, 2}
  Ids = {1, 2}
  Subjects = {1}
  Reads <- MCReads
  Sizes <- MCSizes
  MaxWire = 2
  MaxEvents = 3
SPECIFICATION MCSpec
CHECK_DEADLOCK FALSE
INVARIANTS
  TypeOK
  ReadyIsWhole
  HostAgrees
  ServedAsSelf
  ConnectionShown
  CacheTypeOK
  SessionsApart
  ForcedIsFresh
  NoHollow
PROPERTIES
  FlowsEnd
  StaysConnected
  InfosMoveForward
