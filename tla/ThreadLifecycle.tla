-------------------------- MODULE ThreadLifecycle --------------------------
(***************************************************************************)
(* The status machine of a thread, packages/domain/src/thread-lifecycle.ts. *)
(* It is a pure table: the server evaluates an event against the row it has *)
(* just read and, in the same transaction, writes the new status with a     *)
(* compare-and-set.  An event that does not apply changes nothing.          *)
(*                                                                          *)
(* Every event of the table leads to one status wherever it applies, so the *)
(* table is written by column: the statuses an event leaves, and the status *)
(* it leads to.  Deletion is left out: a deleted thread is gone for every   *)
(* client, and the predicate "notDeleted" is the constant TRUE here.        *)
(***************************************************************************)

ThreadStatus == {"pending", "idle", "starting", "active", "stopping", "error"}

LifecycleEvent == {"run.preparing", "run.started", "run.succeeded",
                   "run.failed", "stop.requested", "stop.settled"}

\* The statuses that have a cell for the event.
Sources(event) ==
  CASE event = "run.preparing"  -> {"pending", "idle", "error"}
    [] event = "run.started"    -> {"idle", "starting", "error"}
    [] event = "run.succeeded"  -> {"starting", "active", "stopping"}
    [] event = "run.failed"     -> {"starting", "active", "stopping"}
    [] event = "stop.requested" -> {"starting", "active"}
    [] event = "stop.settled"   -> {"stopping"}

Target(event) ==
  CASE event = "run.preparing"  -> "starting"
    [] event = "run.started"    -> "active"
    [] event = "run.succeeded"  -> "idle"
    [] event = "run.failed"     -> "error"
    [] event = "stop.requested" -> "stopping"
    [] event = "stop.settled"   -> "idle"

\* Mutant of Superseded: archived threads take every event.
NeverSuperseded(event, archived) == FALSE

\* The events an archived thread refuses: they come too late for it.
Superseded(event, archived) ==
  archived /\ event \in {"run.preparing", "run.started"}

Applies(status, event, archived) ==
  status \in Sources(event) /\ ~Superseded(event, archived)

\* The status after the event: an event that does not apply is a no-op.
After(status, event, archived) ==
  IF Applies(status, event, archived) THEN Target(event) ELSE status
=============================================================================
