--------------------------- MODULE MessageLedger ---------------------------
(***************************************************************************)
(* What a thread promises the author of a message, whatever its dispatch   *)
(* does in between: a message is delivered at most once, a message the     *)
(* queue has accepted leaves it only to be delivered or because the user   *)
(* deletes it, and what became of a message never changes.  A group is     *)
(* delivered as one.  MessageDispatch implements this specification.       *)
(***************************************************************************)
EXTENDS Naturals

CONSTANT Msgs

VARIABLES
  fate,      \* what has become of each message
  delivered  \* how often it was put in a turn request

vars == <<fate, delivered>>

Fate == {"new", "inline", "queue", "sent", "deleted", "refused"}

Init ==
  /\ fate = [m \in Msgs |-> "new"]
  /\ delivered = [m \in Msgs |-> 0]

Move(S, from, to) ==
  /\ S # {} /\ \A m \in S : fate[m] \in from
  /\ fate' = [m \in Msgs |-> IF m \in S THEN to ELSE fate[m]]

\* The author submits a message, which may be queued at once.
Submit(m) == Move({m}, {"new"}, "inline") /\ UNCHANGED delivered

Accept(m) == Move({m}, {"new", "inline"}, "queue") /\ UNCHANGED delivered

\* The author is told that their messages were not sent.
Refuse(S) == Move(S, {"inline"}, "refused") /\ UNCHANGED delivered

Deliver(S) ==
  /\ Move(S, {"inline", "queue"}, "sent")
  /\ delivered' = [m \in Msgs |-> IF m \in S THEN delivered[m] + 1
                                  ELSE delivered[m]]

Delete(m) == Move({m}, {"queue"}, "deleted") /\ UNCHANGED delivered

Next ==
  \/ \E m \in Msgs : Submit(m) \/ Accept(m) \/ Delete(m)
  \/ \E S \in SUBSET Msgs : Refuse(S) \/ Deliver(S)

Spec == Init /\ [][Next]_vars
=============================================================================
