--------------------------- MODULE InboxLifecycle ---------------------------
(***************************************************************************)
(* What an inbox promises to the devices that read it, whoever writes it   *)
(* and in whatever order: a message appears once, at a position above      *)
(* every earlier one; its text may be withdrawn, never restored; a         *)
(* deletion is final and takes a new position, so that a device that       *)
(* remembers the last position it has read learns of it.                   *)
(***************************************************************************)
EXTENDS Naturals

CONSTANTS Users, Ids

VARIABLES
  cell,    \* cell[u][i]: "absent", what message i shows to u, or "gone"
  pos,     \* pos[u][i]: the position of i in u's inbox, 0 while absent
  top      \* top[u]: the last position u's inbox has given out

vars == <<cell, pos, top>>

Shown == {"original", "placeholder", "event", "system"}

Init ==
  /\ cell = [u \in Users |-> [i \in Ids |-> "absent"]]
  /\ pos = [u \in Users |-> [i \in Ids |-> 0]]
  /\ top = [u \in Users |-> 0]

\* Message i takes the next position of u's inbox and shows k from now on.
Place(u, i, k) ==
  /\ top' = [top EXCEPT ![u] = top[u] + 1]
  /\ pos' = [pos EXCEPT ![u] = [pos[u] EXCEPT ![i] = top[u] + 1]]
  /\ cell' = [cell EXCEPT ![u] = [cell[u] EXCEPT ![i] = k]]

\* A message arrives, possibly already withdrawn.
Arrive(u, i) ==
  /\ cell[u][i] = "absent"
  /\ \E k \in Shown : Place(u, i, k)

\* The text of a message is withdrawn where the message stands.
Withdraw(u, i) ==
  /\ cell[u][i] = "original"
  /\ cell' = [cell EXCEPT ![u] = [cell[u] EXCEPT ![i] = "placeholder"]]
  /\ UNCHANGED <<pos, top>>

\* The user deletes his copy.
Erase(u, i) ==
  /\ cell[u][i] \in Shown
  /\ Place(u, i, "gone")

\* The deletion of a conversation takes a position of the same numbering.
Skip(u) ==
  /\ top' = [top EXCEPT ![u] = top[u] + 1]
  /\ UNCHANGED <<cell, pos>>

Next ==
  \E u \in Users :
    \/ Skip(u)
    \/ \E i \in Ids : Arrive(u, i) \/ Withdraw(u, i) \/ Erase(u, i)

Spec == Init /\ [][Next]_vars
=============================================================================
