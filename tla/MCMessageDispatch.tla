------------------------- MODULE MCMessageDispatch -------------------------
(***************************************************************************)
(* MessageDispatch on small instances.  A budget names the disturbances a  *)
(* configuration lets happen, each of them once; the rest (sends, drains,  *)
(* sweeps, provisioning, turns) happens as often as the messages allow.    *)
(***************************************************************************)
EXTENDS DispatchProperties, TLC

\* Messages are alike until they are written, and so are idle workers.
Symmetry == Permutations(Msgs) \union Permutations(Workers)

Once(ds) == [d \in Disturbance |-> IF d \in ds THEN 1 ELSE 0]

\* Users stopping, deleting, grouping and sending by hand while drains run.
QueueBudget == Once({"now", "delete", "stop", "group"})

\* The server dies, a user stops or archives, a call fails: in the middle of a
\* send, or of the provisioning before the thread's first turn.
CrashBudget == Once({"crash", "stop", "archive", "fault", "delete"})

\* Interactions and hosts that come and go.
WaitBudget == Once({"ask", "stop", "host"})

\* A plugin holds a message back and the provider asks its user.
FirstBudget == Once({"hold", "ask"})

\* The server dies and the host goes away, with a stop on its way.
RecoveryBudget == Once({"stop", "crash", "host"})

\* One disturbance is enough for what goes wrong.
HostBudget == Once({"host"})
StopBudget == Once({"stop"})
=============================================================================
