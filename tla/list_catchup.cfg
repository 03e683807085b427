\* Two hosts, pages of two rows, windows of two pages, five rows and one more
\* conversation; two writes, one change of the list's query, one send, one fault.
CONSTANTS
  Ids = {1, 2, 3, 4, 5, 6, 7, 21, 91}
  PageSize = 2
  MaxPages = 2
  Hosts = {"messages", "conversations"}
  Filled = 5
  Changing = {2, 6}
  MaxEvents = 2
  MaxFaults = 1
  Conversations <- MCConversations
  ConversationOf <- MCConversationOf
  Placeholders <- MCPlaceholders
  InitialSeqs <- MCInitialSeqs
  Queries <- MCQueries
SPECIFICATION Spec
CHECK_DEADLOCK FALSE
INVARIANTS
  TypeOK
  NeverForgotten
  BehindIsShown
  WindowOfOpen
  AckedStaysVisible
  NoOrphanPlaceholder
PROPERTIES
  ClearedWithNewest
  CatchesUp
