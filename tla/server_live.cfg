SPECIFICATION MCSpec
CONSTANTS
  a = a
  b = b
  c = c
  m1 = m1
  m2 = m2
  e1 = e1
  s1 = s1
  NoId = NoId
  NoUser = NoUser
  Users = {a, b}
  Founders = {a, b}
  Muted = {b}
  Messages = {m1}
  Recalls = {e1}
  Systems = {}
  Ids <- MCIds
  From <- AllFromA
  To <- GroupOnly
  RecallOf <- RecallM1
  Requests = {q1}
  Workers = {w1, w2}
  MaxAttempts = 1
  MaxEdits = 1
  MaxFaults = 1
  MaxCrashes = 1
  Tasks <- MCTasks
  Submitters = {q2, q3}
  Runners = {w3, w4}
  QueueSize = 1
  SignalSize = 1
  SocketSize = 1
  MaxMishaps = 2
CHECK_DEADLOCK FALSE
INVARIANTS
  HeldOnce
PROPERTIES
  EveryTaskRuns
  KeepsLifecycle
  EveryTaskIsSeen
