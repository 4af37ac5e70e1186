---------------------------- MODULE WorkspaceUse ----------------------------
(***************************************************************************)
(* What EnvironmentEngine promises about the workspaces on a host: a turn   *)
(* runs only in a workspace that is there, and a workspace is removed only  *)
(* when no turn runs in it.                                                 *)
(***************************************************************************)

CONSTANTS Threads, Paths, None

VARIABLES
  present,   \* the paths a workspace is at
  within     \* where each thread's turn runs

TypeOK ==
  /\ present \subseteq Paths
  /\ within \in [Threads -> Paths \union {None}]

Init ==
  /\ present = {}
  /\ within = [t \in Threads |-> None]

Appears(p) ==
  /\ p \notin present
  /\ present' = present \union {p}
  /\ UNCHANGED within

Enters(t, p) ==
  /\ within[t] = None
  /\ p \in present
  /\ within' = [within EXCEPT ![t] = p]
  /\ UNCHANGED present

\* Turns end one by one, or together: a setup whose failure is reported late
\* fails all threads of its workspace.
Leaves(S) ==
  /\ \E t \in S : within[t] # None
  /\ within' = [t \in Threads |-> IF t \in S THEN None ELSE within[t]]
  /\ UNCHANGED present

\* A removal takes all that was made for a row: also what was lost to it.
Goes(P) ==
  /\ P # {}
  /\ P \subseteq present
  /\ \A t \in Threads : within[t] \notin P
  /\ present' = present \ P
  /\ UNCHANGED within

Next ==
  \/ \E p \in Paths : Appears(p)
  \/ \E P \in SUBSET Paths : Goes(P)
  \/ \E t \in Threads, p \in Paths : Enters(t, p)
  \/ \E S \in SUBSET Threads : Leaves(S)

Spec == Init /\ [][Next]_<<present, within>>
=============================================================================
