---------------------------- MODULE MCMessaging ----------------------------
(***************************************************************************)
(* Small instances of Messaging for TLC.                                   *)
(***************************************************************************)
EXTENDS MessagingProperties, TLC

CONSTANTS a, b, c, m1, m2, e1, s1

MCIds == Messages \cup Recalls \cup Systems

\* m1 is a's message to the group.
GroupOnly == [m \in Messages |-> NoUser]

\* m1 goes to the group and m2 to b alone.
GroupAndDirect == [m \in Messages |-> IF m = m1 THEN NoUser ELSE b]

\* Every message is a direct one to b.
DirectOnly == [m \in Messages |-> b]

AllFromA == [m \in Messages |-> a]

\* Every message is from a but m2, which is from b.
FromBoth == [m \in Messages |-> IF m = m2 THEN b ELSE a]

RecallM1 == [e \in Recalls |-> m1]

RecallM2 == [e \in Recalls |-> m2]

\* Goroutines of one kind are interchangeable; users are not, because of the
\* founders and of the senders above.
MCSymmetry == Permutations(Requests) \cup Permutations(Workers)
=============================================================================
