SPECIFICATION Spec
CONSTANTS
  a = a
  b = b
  c = c
  m1 = m1
  m2 = m2
  e1 = e1
  s1 = s1
  NoId = NoId
  NoUser = NoUser
  Users = {a, b, c}
  Founders = {a, b}
  Muted = {}
  Messages = {m1}
  Recalls = {}
  Systems = {s1}
  Ids <- MCIds
  From <- AllFromA
  To <- GroupOnly
  RecallOf <- RecallM1
  Requests = {q1, q2}
  Workers = {w1, w2}
  MaxAttempts = 1
  MaxEdits = 0
  MaxFaults = 1
  MaxCrashes = 1
SYMMETRY MCSymmetry
CHECK_DEADLOCK FALSE
INVARIANTS
  NothingLost
  NotifyAfterWrite
