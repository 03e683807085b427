\* As list_catchup, for the messages of a conversation.
CONSTANTS
  Ids = {1, 2, 3, 4, 5, 6, 7, 21, 91}
  PageSize = 2
  MaxPages = 2
  Hosts = {"messages"}
  Filled = 5
  Changing = {2, 6}
  MaxEvents = 2
  MaxFaults = 1
  Conversations <- MCConversations
  ConversationOf <- MCConversationOf
  Placeholders <- MCPlaceholders
  InitialSeqs <- MCInitialSeqs
  Queries <- MCQueries
SPECIFICATION Spec
CHECK_DEADLOCK FALSE
PROPERTIES
  ClearedAtFreshEdge
