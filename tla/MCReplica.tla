----------------------------- MODULE MCReplica ------------------------------
(* Instances of LocalReplica for TLC. *)
EXTENDS LocalReplica, TLC

CONSTANTS k1, k2

OneOfEach == <<"messages", "conversations", "contacts">>

OneRelation == <<"contacts">>

KindOf ==
  [d \in Domains |->
     IF d \in {"messages", "conversations"} THEN d ELSE "relation"]

LiveRow(seq) == [seq |-> seq, state |-> "live"]

\* Two relation rows; one message and its conversation.
Furnished ==
  [d \in Domains |->
     IF Kind[d] = "relation"
     THEN [max |-> 2, safe |-> 0, rows |-> (k1 :> LiveRow(1)) @@ (k2 :> LiveRow(2))]
     ELSE [max |-> 1, safe |-> 0, rows |-> (k1 :> LiveRow(1)) @@ (k2 :> NoRow)]]
=============================================================================
