SPECIFICATION MCSpec
CONSTANTS
  a = a
  b = b
  c = c
  m1 = m1
  m2 = m2
  e1 = e1
  s1 = s1
  NoId = NoId
  NoUser = NoUser
  Users = {a, b}
  Founders = {a, b}
  Muted = {}
  Messages = {m1, m2}
  Recalls = {e1}
  Systems = {}
  Ids <- MCIds
  From <- FromBoth
  To <- GroupOnly
  RecallOf <- RecallM1
  Requests = {q1, q2}
  Workers = {w1, w2}
  MaxAttempts = 1
  MaxEdits = 1
  MaxFaults = 0
  MaxCrashes = 0
  Pair = {a, b}
  Handlers = {h1, h2, h3}
  MaxCalls = 3
  MaxLosses = 1
SYMMETRY MCSymmetry
CHECK_DEADLOCK FALSE
INVARIANTS
  TypeOK
  RecallConverges
  RecallAnnounced
  ConversationConverges
  SidesAgree
PROPERTIES
  ConversationNeverRewinds
