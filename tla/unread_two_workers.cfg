SPECIFICATION Spec
CONSTANTS
  a = a
  b = b
  c = c
  m1 = m1
  m2 = m2
  e1 = e1
  s1 = s1
  NoId = NoId
  NoUser = NoUser
  Users = {a, b}
  Founders = {a, b}
  Muted = {}
  Messages = {m1, m2}
  Recalls = {}
  Systems = {}
  Ids <- MCIds
  From <- AllFromA
  To <- GroupOnly
  RecallOf <- RecallM1
  Requests = {q1}
  Workers = {w1, w2}
  MaxAttempts = 1
  MaxEdits = 0
  MaxFaults = 0
  MaxCrashes = 0
SYMMETRY MCSymmetry
CHECK_DEADLOCK FALSE
INVARIANTS
  UnreadCounted
