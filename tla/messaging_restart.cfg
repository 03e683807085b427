SPECIFICATION Spec
CONSTANTS
  a = a
  b = b
  c = c
  m1 = m1
  m2 = m2
  e1 = e1
  s1 = s1
  NoId = NoId
  NoUser = NoUser
  Users = {a, b}
  Founders = {a, b}
  Muted = {}
  Messages = {m1, m2}
  Recalls = {e1}
  Systems = {}
  Ids <- MCIds
  From <- AllFromA
  To <- GroupAndDirect
  RecallOf <- RecallM2
  Requests = {q1}
  Workers = {w1}
  MaxAttempts = 2
  MaxEdits = 1
  MaxFaults = 0
  MaxCrashes = 1
SYMMETRY MCSymmetry
CHECK_DEADLOCK FALSE
INVARIANTS
  SeqsDistinct
  AckedIsSafe
  UnreadNeverOvercounts
