------------------------ MODULE EnvironmentLifecycle ------------------------
(***************************************************************************)
(* The status machine of an environment,                                    *)
(* packages/domain/src/environment-lifecycle.ts, written by column as       *)
(* ThreadLifecycle is: the statuses an event leaves, and the status it      *)
(* leads to.  Only a cancelled provisioning looks at more than the status:  *)
(* with a workspace on record it falls back to ready.                       *)
(***************************************************************************)

EnvironmentStatus == {"creating", "provisioning", "ready", "error", "destroyed"}

EnvironmentEvent == {"provision.requested", "provision.succeeded",
                     "provision.failed", "provision.cancelled",
                     "destroy.recorded"}

EnvSources(event) ==
  CASE event = "provision.requested" -> {"creating", "ready", "error"}
    [] event = "provision.succeeded" -> {"provisioning"}
    [] event = "provision.failed"    -> {"creating", "provisioning"}
    [] event = "provision.cancelled" -> {"creating", "provisioning"}
    [] event = "destroy.recorded"    -> {"creating", "ready", "error"}

EnvTarget(status, event, hasPath) ==
  CASE event = "provision.requested" -> "provisioning"
    [] event = "provision.succeeded" -> "ready"
    [] event = "provision.failed"    -> "error"
    [] event = "provision.cancelled" ->
         IF status = "creating" THEN "error"
         ELSE IF hasPath THEN "ready" ELSE "destroyed"
    [] event = "destroy.recorded"    -> "destroyed"

\* The status after the event: an event that does not apply is a no-op.
EnvAfter(status, event, hasPath) ==
  IF status \in EnvSources(event) THEN EnvTarget(status, event, hasPath)
  ELSE status
=============================================================================
