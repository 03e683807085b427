----------------------------- MODULE MCRelations -----------------------------
(***************************************************************************)
(* Instances of Messaging and of Relations for TLC: requests of several    *)
(* users that cross without a fault of the queue.  The rows they write are *)
(* different ones, so a behaviour here is one of Messaging or one of       *)
(* Relations.                                                              *)
(***************************************************************************)
EXTENDS MCMessaging, Relations

VARIABLE part  \* which of the two the behaviour is one of

MCInit ==
  /\ part \in {"messaging", "relations"} /\ Init /\ PairInit
  /\ part = "messaging" => contact = [u \in Pair |-> "none"]

MCNext ==
  \/ part = "messaging" /\ Next /\ UNCHANGED <<part, relations>>
  \/ part = "relations" /\ PairNext /\ UNCHANGED <<part, vars>>

MCSpec == MCInit /\ [][MCNext]_<<part, vars, relations>>
=============================================================================
