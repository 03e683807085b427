------------------------------- MODULE MCList -------------------------------
(* Instances of ListHost for TLC: conversation 1 has more messages than a   *)
(* window of two pages holds, conversation 2 has one.  Messages are numbers *)
(* so that the next one of a conversation is the least unused; 91 and above *)
(* are placeholders.                                                        *)
EXTENDS ListHost

CONSTANT Filled  \* messages that conversation 1 has in the beginning

MCConversations == {1, 2}

MCPlaceholders == {i \in Ids : i > 90}

MCConversationOf == [i \in Ids |-> IF i \in 21..29 THEN 2 ELSE 1]

MCInitialSeqs == [i \in Ids \ MCPlaceholders |->
  IF i <= Filled THEN i ELSE IF i = 21 THEN Filled + 1 ELSE 0]

MCQueries == [conversation : MCConversations, around : (Ids \ MCPlaceholders) \cup {0}]
=============================================================================
