------------------------- MODULE DispatchProperties -------------------------
(***************************************************************************)
(* What the dispatch of a thread's messages must never do, and must do in  *)
(* the end.  Each property names the code it is about: T stands for        *)
(* apps/server/src/services/threads, Q for                                 *)
(* packages/db/src/data/queued-thread-messages.ts.                         *)
(***************************************************************************)
EXTENDS MessageDispatch

Ledger == INSTANCE MessageLedger WITH fate <- place, delivered <- sent

\* The dispatch keeps the promise of MessageLedger to the author of a message:
\* delivered at most once, never dropped, never delivered once deleted.
Promise == Ledger!Spec
-----------------------------------------------------------------------------
(* Claims and rows. *)

Working(w) == job[w].pc \in {"fast", "check", "send", "admit"}

\* A message is in the turn requests exactly once if it was sent and not at
\* all otherwise, whichever of the workers racing for its row, its group or
\* its thread commits (deleteClaimedQueuedThreadMessageBatchInTransaction, Q).
SentOnce == \A m \in Msgs : sent[m] = IF place[m] = "sent" THEN 1 ELSE 0

\* No claim leaks: a row claimed in this process belongs to an attempt that
\* is under way and will either consume it or give it back.  The only claims
\* the five-minute sweep has to find are a dead process's (T/queued-messages.ts
\* releaseQueuedMessageClaims, releaseStaleQueuedMessageDispatchClaims).
ClaimsHaveOwners ==
  \A m \in Msgs : token[m] \in Workers =>
    LET w == token[m]
    IN  Row(m) /\ m \in job[w].rows /\ Working(w) /\ job[w].kind # "inline"

\* A message no row was created for is in the hands of exactly one request,
\* that still works on it: an author is always told what became of it.
InlineHeld ==
  \A m \in Msgs : place[m] = "inline" =>
    \E w \in Workers :
      /\ Working(w) /\ job[w].kind = "inline" /\ job[w].rows = {m}
      /\ \A v \in Workers \ {w} : ~(job[v].kind = "inline" /\ m \in job[v].rows)
-----------------------------------------------------------------------------
(* The thread and its runs. *)

\* None of these disturbances has happened so far.
Spared(ds) == \A d \in ds : left[d] = Budget[d]

\* After a manual stop nothing goes by itself: an ordinary row is sent only
\* by an explicit "send now", even when the stop comes between the claim and
\* the commit of an attempt (respectsManualStopPause, T/queued-messages.ts).
PauseHolds ==
  [][\A m \in Msgs : Row(m) /\ Paused /\ Ordinary(m) /\ place'[m] = "sent" =>
       \E w \in Workers : token[m] = w /\ job[w].kind = "now"]_vars

\* An archived thread does not run, whatever was on its way when it was
\* archived: attempts past their checks, provisioning, turns the daemon starts
\* (T/thread-archive.ts, the "superseded" predicate of the lifecycle table).
ArchivedNeverRuns == archived => status \notin {"starting", "active"}

\* What the daemon answers late brings no stopped thread back to life: neither
\* the result of a thread.start nor the start of a turn, overtaken by the stop,
\* makes the thread active (isThreadStartActivationStale, T/thread-lifecycle.ts;
\* hasThreadStopBeforeTurnStarted, internal/events.ts).  The reconciliation of a
\* new session may, if the stop was lost with the old one.
StopHolds ==
  [][status # "active" /\ mark = "stopped" /\ mark' = "stopped" /\ hostUp
       => status' # "active"]_vars

\* A new turn is requested of the daemon only when no turn of the thread runs:
\* what needs a turn of its own never competes with the user's running turn.
\* A thread in error may have one, if a message that was to join it was refused
\* (T/thread-lifecycle.ts settleThreadCommandFailure), and so may one that was
\* archived when a message was on its way to a turn that had just ended; the
\* daemon refuses their second turn.
NoCompetingTurn ==
  [][Spared({"archive"}) /\ lane' = Append(lane, "submit") /\ status # "error"
       => turn # "live"]_vars

\* Q:1527-1530: "Plain queued rows are all `thread-busy`, so among themselves
\* they keep strict FIFO order".  When a plain row is sent no older plain row is
\* left behind, whatever was tried, given back and tried again before.  A crash,
\* a row sent by hand and a group that may not go as a whole are the
\* exceptions: what they hold back is passed over, and may be free later.
Plain(m) == Row(m) /\ wait[m] = "thread-busy" /\ ~failed[m]

FirstInFirstOut ==
  [][\A m, n \in Msgs :
       Spared({"crash", "now", "group"}) /\ Plain(m) /\ Plain(n) /\ key[n] < key[m]
       => place'[m] # "sent"]_vars
-----------------------------------------------------------------------------
(* Every wait is somebody's business: a row that waits for an event is only *)
(* ever found while the event is still to come, or its wake is.             *)

Parked(m, reason) == Live(m) /\ ~failed[m] /\ wait[m] = reason

\* A row waits for an interaction only while there is one, or its end is being
\* handled (T/queued-message-dispatch.ts runInteractionSettledDispatch), though
\* interactions end by an answer, a stop, a lost host or a grace timer.  Claims
\* of a dead process and of "send now" are the exceptions: rows they hold are
\* passed over, and may be given back later (InteractionWaitEnds).
InteractionWakes ==
  Spared({"crash", "now"}) =>
    \A m \in Msgs : Parked(m, "interaction") =>
      asking \/ "interaction-settled" \in wakes

\* A row waits for a host only while the host is away, or the walk its return
\* starts is to come or has it ahead (T/queued-message-dispatch.ts, attempt-
\* AutomaticQueuedMessage).  The walk skips what others hold then, is not made
\* for an archived thread, and passes a group that may not go as a whole; and
\* its own attempt may fail in a way that is not recorded on the row.
HostWakes ==
  Spared({"crash", "now", "fault", "archive", "group"}) =>
    \A m \in Msgs : Parked(m, "host-offline") =>
      \/ ~hostUp \/ "host-connected" \in wakes
      \/ \E w \in Workers : m \in job[w].todo
-----------------------------------------------------------------------------
(* What happens in the end, under FairSpec. *)

\* A queued message leaves the queue, unless it failed, a plugin or a question
\* to the user holds it, a manual stop paused it, or the thread waits for its
\* user, archived or in error.  A new session may have made a thread active
\* that was interrupted before its turn and hears of none: BusyWaitEnds is about
\* that.  And a server that dies in the walk of a returned host has spent that
\* host's wake: the rows it had claimed wait for the host's next session.
Excused(m) ==
  \/ failed[m] \/ wait[m] = "plugin" \/ (Paused /\ Ordinary(m))
  \/ asking \/ archived \/ status = "error"
  \/ status = "active" /\ mark \in {"lost", "stopped"}
  \/ wait[m] = "host-offline" /\ left["crash"] < Budget["crash"]

QueueDrains == \A m \in Msgs : Row(m) ~> ~Row(m) \/ Excused(m)

\* A thread that is stopping settles, though the host or the server may go
\* away with the stop command (settleThreadStopCommandResult, reconcileDaemon-
\* ReportedThreads, T/thread-lifecycle.ts).
StopsSettle == status = "stopping" ~> status # "stopping"

\* packages/domain/src/queued-message.ts:26-27 says of a `thread-busy` row that
\* "the thread is running a turn and the message asked to wait for idle", and
\* lines 13-17 that "the drain re-attempts the dispatch when that reason could
\* have cleared".  When nothing runs any more such a row does not wait on.
BusyWaitEnds ==
  \A m \in Msgs :
    Row(m) /\ wait[m] = "thread-busy"
      ~> ~Row(m) \/ wait[m] # "thread-busy" \/ status = "error" \/ running # "none"

\* apps/server/src/server.ts:677-678: "Messages queued while a thread awaited
\* user interaction stop waiting once that interaction settles (#1650)".
InteractionWaitEnds ==
  \A m \in Msgs : Row(m) /\ wait[m] = "interaction" /\ ~asking
                  ~> ~Row(m) \/ wait[m] # "interaction" \/ asking

\* apps/server/src/services/threads/thread-provisioning.ts:169-171: "anything
\* that queued waiting for it stops waiting here rather than after the dispatch
\* below".  A row waits for provisioning no longer than the thread starts.
ProvisioningWaitEnds ==
  \A m \in Msgs : Row(m) /\ wait[m] = "provisioning"
                  ~> ~Row(m) \/ wait[m] # "provisioning" \/ status = "starting"
=============================================================================
