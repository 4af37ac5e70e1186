---------------------------- MODULE MessageQueue ----------------------------
(***************************************************************************)
(* The queue of one thread: packages/db/src/data/queued-thread-messages.ts. *)
(* A message that cannot be sent yet is a row with the typed reason it is   *)
(* waiting for; a worker of the server claims rows with a token, and then   *)
(* deletes them in the transaction that sends them, or gives them back.     *)
(*                                                                          *)
(* The operations below are the writes of that file, each a transaction: an *)
(* operator that says what becomes of all the queue's variables.            *)
(* MessageDispatch composes them with the thread and with the workers.      *)
(*                                                                          *)
(* The rows' order keys are numbers: a new row takes the next one, which is *)
(* what createOrderKeyAfter does.  All messages have one envelope (sender,  *)
(* model, permissions), so any two adjacent rows may be grouped.            *)
(***************************************************************************)
EXTENDS Naturals, FiniteSets

CONSTANTS Msgs,      \* the messages a user writes
          Workers,   \* the dispatch attempts the server can run at once
          None,      \* the token of a row nobody has claimed
          Orphan     \* a token left by a server process that is gone

ASSUME TokensDistinct ==
  None \notin Workers /\ Orphan \notin Workers /\ None # Orphan

VARIABLES
  place,    \* where each message is
  wait,     \* the wait its row carries ("none" is a null wait)
  failed,   \* whether its row carries a failure reason
  token,    \* the claim token of its row
  key,      \* the order key of its row
  edge,     \* groupWithNext
  created   \* how many rows the queue has created: the last order key

queueVars == <<place, wait, failed, token, key, edge, created>>

\* "new" is not written yet, "inline" is in the hands of the request that
\* submitted it, "refused" was reported to its author as not sent.
Place == {"new", "inline", "queue", "sent", "deleted", "refused"}

\* "time" waits are not modelled: no message here is scheduled.
WaitKind == {"none", "thread-busy", "turn-starting", "stopping",
             "host-offline", "provisioning", "interaction", "plugin"}

\* ORDINARY_TURN_END_WAIT_KINDS and the null wait: what a manual stop pauses.
OrdinaryWait == {"none", "thread-busy", "turn-starting"}

\* IDLE_DRAINABLE_WAIT_KINDS and the null wait.
IdleDrainableWait == OrdinaryWait \union {"stopping"}

QueueTypeOK ==
  /\ place \in [Msgs -> Place]
  /\ wait \in [Msgs -> WaitKind]
  /\ failed \in [Msgs -> BOOLEAN]
  /\ token \in [Msgs -> Workers \union {None, Orphan}]
  /\ key \in [Msgs -> Nat]
  /\ edge \in [Msgs -> BOOLEAN]
  /\ created \in Nat

QueueInit ==
  /\ place = [m \in Msgs |-> "new"]
  /\ wait = [m \in Msgs |-> "none"]
  /\ failed = [m \in Msgs |-> FALSE]
  /\ token = [m \in Msgs |-> None]
  /\ key = [m \in Msgs |-> 0]
  /\ edge = [m \in Msgs |-> FALSE]
  /\ created = 0
-----------------------------------------------------------------------------
(* Reading the queue. *)

Row(m) == place[m] = "queue"

Live(m) == Row(m) /\ token[m] = None

LiveRows == {m \in Msgs : Live(m)}

Ordinary(m) == wait[m] \in OrdinaryWait

\* The rows a drain may act on whose wait is of one of these kinds.
WaitingOn(kinds) == {m \in LiveRows : ~failed[m] /\ wait[m] \in kinds}

\* Every live row from m up to n, n excepted, is grouped with the next.
Linked(m, n) ==
  \A k \in LiveRows : key[m] <= key[k] /\ key[k] < key[n] => edge[k]

\* The maximal chain of live rows m belongs to.
GroupOf(m) == {n \in LiveRows : Linked(m, n) /\ Linked(n, m)}

Lead(S) == CHOOSE m \in S : \A n \in S : key[m] <= key[n]

Groups == {GroupOf(m) : m \in LiveRows}

\* The live row just before m in the queue, if its edge joins the two.
JoinsTo(k, m) ==
  /\ k \in LiveRows /\ edge[k] /\ key[k] < key[m]
  /\ ~\E n \in LiveRows : key[k] < key[n] /\ key[n] < key[m]

\* The rows of S are all still claimed by this worker.
Owned(S, w) == \A m \in S : Row(m) /\ token[m] = w

\* isAutomaticQueuedThreadMessageGroupClaimAllowed
AutoClaimAllowed(S, paused) ==
  \A m \in S : ~failed[m] /\ (paused => ~Ordinary(m))
-----------------------------------------------------------------------------
(* Writing the queue. *)

Create(m, reason) ==
  /\ place' = [place EXCEPT ![m] = "queue"]
  /\ wait' = [wait EXCEPT ![m] = reason]
  /\ key' = [key EXCEPT ![m] = created + 1]
  /\ created' = created + 1
  /\ UNCHANGED <<failed, token, edge>>

\* One token for the whole group.  The rows of `cut` leave their group.
Claim(S, w, cut) ==
  /\ token' = [m \in Msgs |-> IF m \in S THEN w ELSE token[m]]
  /\ edge' = [m \in Msgs |-> edge[m] /\ m \notin cut]
  /\ UNCHANGED <<place, wait, failed, key, created>>

Unclaimed(S, w) ==
  [m \in Msgs |-> IF m \in S /\ token[m] = w THEN None ELSE token[m]]

Release(S, w) ==
  /\ token' = Unclaimed(S, w)
  /\ UNCHANGED <<place, wait, failed, key, edge, created>>

\* The row is given back with a failure reason, its wait left alone ...
ReleaseFailed(S, w, m) ==
  /\ token' = Unclaimed(S, w)
  /\ failed' = [failed EXCEPT ![m] = @ \/ (Row(m) /\ Unclaimed(S, w)[m] = None)]
  /\ UNCHANGED <<place, wait, key, edge, created>>

\* ... or, the host being away, with a fresh wait for it.
ReleaseOffline(S, w, m) ==
  /\ token' = Unclaimed(S, w)
  /\ IF Row(m) /\ Unclaimed(S, w)[m] = None
     THEN /\ wait' = [wait EXCEPT ![m] = "host-offline"]
          /\ failed' = [failed EXCEPT ![m] = FALSE]
     ELSE UNCHANGED <<wait, failed>>
  /\ UNCHANGED <<place, key, edge, created>>

\* A claimed group goes back on the queue with a fresh wait.
Requeue(S, w, reason) ==
  LET back == {m \in S : Row(m) /\ token[m] = w}
  IN  /\ token' = Unclaimed(S, w)
      /\ wait' = [m \in Msgs |-> IF m \in back THEN reason ELSE wait[m]]
      /\ failed' = [m \in Msgs |-> failed[m] /\ m \notin back]
      /\ UNCHANGED <<place, key, edge, created>>

\* What deleting the rows of S leaves of the others' edges.
EdgesWithout(S) ==
  [k \in Msgs |-> edge[k] /\ k \notin S /\ ~\E m \in S : JoinsTo(k, m)]

\* The rows of S are deleted, and their messages end up in `where`.
Remove(S, where) ==
  /\ place' = [m \in Msgs |-> IF m \in S THEN where ELSE place[m]]
  /\ token' = [m \in Msgs |-> IF m \in S THEN None ELSE token[m]]
  /\ wait' = [m \in Msgs |-> IF m \in S THEN "none" ELSE wait[m]]
  /\ failed' = [m \in Msgs |-> failed[m] /\ m \notin S]
  /\ key' = [m \in Msgs |-> IF m \in S THEN 0 ELSE key[m]]
  /\ edge' = EdgesWithout(S)
  /\ UNCHANGED created

\* A message no row was ever created for.
Settle(m, where) ==
  /\ place' = [place EXCEPT ![m] = where]
  /\ UNCHANGED <<wait, failed, token, key, edge, created>>

ClearWaits(kind) ==
  /\ wait' = [m \in Msgs |-> IF m \in WaitingOn({kind}) THEN "none" ELSE wait[m]]
  /\ UNCHANGED <<place, failed, token, key, edge, created>>

\* The rows before m form the queue's one group, m the last of it.
GroupUpTo(m) ==
  /\ edge' = [n \in Msgs |-> IF n \in LiveRows THEN key[n] < key[m] ELSE edge[n]]
  /\ UNCHANGED <<place, wait, failed, token, key, created>>

\* The sweep of claims whose worker is gone.
ReleaseOrphans ==
  /\ token' = [m \in Msgs |-> IF token[m] = Orphan THEN None ELSE token[m]]
  /\ UNCHANGED <<place, wait, failed, key, edge, created>>

\* The server process dies: its tokens no longer have a worker, and requests
\* still in flight report a failure to their authors.
Abandon ==
  /\ token' = [m \in Msgs |-> IF token[m] \in Workers THEN Orphan ELSE token[m]]
  /\ place' = [m \in Msgs |-> IF place[m] = "inline" THEN "refused" ELSE place[m]]
  /\ UNCHANGED <<wait, failed, key, edge, created>>
=============================================================================
