------------------------------ MODULE MCServer ------------------------------
(***************************************************************************)
(* Instances of Messaging and of Delivery for TLC.  They are two views of  *)
(* one server: what a task writes, and how tasks and signals travel.  What *)
(* they share is abstracted in each of them, so a behaviour here is one of *)
(* Messaging or one of Delivery.                                           *)
(***************************************************************************)
EXTENDS MCMessaging, Delivery

VARIABLE part  \* which of the two the behaviour is one of

all == <<part, vars, delivery>>

MCTasks == 1..3

MessagingOnly(A) == part = "messaging" /\ A /\ UNCHANGED <<part, delivery>>

DeliveryOnly(A) == part = "delivery" /\ A /\ UNCHANGED <<part, vars>>

MCInit == part \in {"messaging", "delivery"} /\ Init /\ DeliveryInit

MCNext == MessagingOnly(Next) \/ DeliveryOnly(DeliveryNext)

\* The fairness of Messaging and of Delivery, each on its own part.
MCSpec ==
  /\ MCInit /\ [][MCNext]_all
  /\ \A w \in Workers : WF_all(MessagingOnly(WorkerStep(w)))
  /\ WF_all(DeliveryOnly(Main))
  /\ WF_all(DeliveryOnly(Client))
  /\ WF_all(DeliveryOnly(Drain))
  /\ \A s \in Submitters : WF_all(DeliveryOnly(Submitter(s)))
  /\ \A w \in Runners : WF_all(DeliveryOnly(Runner(w)))
=============================================================================
