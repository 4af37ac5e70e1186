----------------------- MODULE EnvironmentProperties -----------------------
(***************************************************************************)
(* What EnvironmentEngine must guarantee.  The properties relate the rows,  *)
(* the operations that run on them in memory, the threads and the host's    *)
(* disk: each can change while an operation on another of them waits.       *)
(***************************************************************************)
EXTENDS EnvironmentEngine

\* Types.  A thread that has a workspace in its startup context, or a turn,
\* names the row.
TypeOK ==
  /\ env \in [Envs -> EnvRow]
  /\ thr \in [Threads -> ThreadRow]
  /\ op \in [Envs -> Operation]
  /\ made \subseteq Envs \X Paths
  /\ online \in BOOLEAN
  /\ spent \in [Disturbance -> Nat]
  /\ \A t \in Threads :
       thr[t].attached \/ thr[t].status = "active" => thr[t].env # None

\* A thread prepares at most one row: every cancellation, retry and attachment
\* goes by the one getPreparingEnvironment finds.  The database would refuse a
\* second one (environments_owner_thread_idx), in the middle of an operation.
OneOwner ==
  \A e, f \in Envs : env[e].owner # None /\ env[e].owner = env[f].owner => e = f

\* No two rows hold a claim on the same path, whoever claimed, bound, adopted,
\* cancelled or retried in the meantime: the reason a provider may change what
\* is at the path it claimed.
ClaimsAreExclusive ==
  \A e, f \in Envs :
    /\ env[e].claim # None /\ env[e].claim = env[f].claim
    /\ env[e].status # "destroyed" /\ env[f].status # "destroyed"
    => e = f

\* Two rows never stand for the same workspace, although a creation may answer
\* with the path of another row (that row is adopted): otherwise the removal of
\* one would take the other's away.  No write runs into the index that forbids
\* it (environments_project_host_path_idx).
OneRowPerPath ==
  \A e, f \in Envs :
    env[e].path # None /\ env[e].path = env[f].path => e = f

\* A creation still belongs to its row: while it runs the row keeps the
\* attempt and the owner the creation has read, so that what runs in memory
\* is never an old attempt's.  A stop, a retry, an archival, a removal or a
\* restart may all come between.
OldAttemptsAreDead ==
  \A e \in Envs : op[e].kind = "create" =>
    op[e].attempt = env[e].attempt /\ op[e].owner = env[e].owner

\* A preparation nobody cancelled is somebody's: its owner is starting with it,
\* or the row tells of the failure, or the owner's other workspace (whose own
\* failure may have ended the start) leads it back to the row.  Whatever else
\* makes the owner leave (a stop, a failure, an archival, an attachment to
\* another row) lets go of the row.
ReservationsAreWanted ==
  \A e \in Envs : env[e].owner # None /\ env[e].td = "none" =>
    LET th == thr[env[e].owner] IN
    \/ env[e].status = "error"
    \/ th.status = "starting" /\ th.intent = "provider"
    \/ th.env # None /\ ~th.arch

\* Every workspace a provider made is known to the row it was made for, and
\* that row has yet to be removed: through failed, cancelled and repeated
\* creations, adoptions and restarts some removal will still find it.  Only
\* while a host goes away between the provider's answer and its recording can
\* one slip (ClaimOutlivesWorkspace shows how).
NothingLeaks ==
  spent["drop"] = 0 =>
    \A m \in made : env[m[1]].status # "none" /\ env[m[1]].td # "removed"

-----------------------------------------------------------------------------
(* What a step may never do. *)

\* A removal never takes a workspace a turn runs in: who lives there is only
\* looked at before the removal waits for the setup hook and the provider.
NobodyIsEvicted ==
  [][\A m \in made \ made', t \in Threads :
       thr[t].status = "active" => env[thr[t].env].path # m[2]]_vars

\* A path with a workspace is claimed until the workspace is removed or the
\* preparation is handed over: "failed cleanup retains the claim until removal
\* succeeds".
ClaimOutlivesWorkspace ==
  [][\A e \in Envs :
       /\ env[e].claim # None
       /\ \E f \in Envs : <<f, env[e].claim>> \in made'
       /\ env'[e].claim # env[e].claim
       => env'[e].td = "none" /\ env'[e].path = env[e].claim]_vars

-----------------------------------------------------------------------------
(* The promise about the workspaces on the host. *)

Use == INSTANCE WorkspaceUse WITH
  present <- {m[2] : m \in made},
  within  <- [t \in Threads |-> IF thr[t].status = "active"
                                THEN env[thr[t].env].path ELSE None]

\* Turns run only in workspaces that are there, and only workspaces no turn
\* runs in are removed, through every creation, failed or cancelled setup,
\* retirement and removal.
WorkspacesServeTurns == Use!Spec

-----------------------------------------------------------------------------
(* What happens in the end, under FairSpec. *)

\* A thread does not start for ever: it gets its turn, fails or is stopped,
\* whatever it had to wait for (its previous workspace's removal, its creation,
\* the setup, another thread's claim, the host).
StartsSettle ==
  \A t \in Threads : thr[t].status = "starting" ~> thr[t].status # "starting"

Unused(e) ==
  \/ Removing(env[e])
  \/ /\ env[e].status = "ready"
     /\ env[e].owner = None
     /\ ~HasLiveThreads(thr, e)
     /\ e \notin Lasting

\* A workspace nobody lives in, unless its provider keeps it indefinitely (a
\* retireGraceMs of null), or whose removal was asked for, is removed or lived
\* in again: removals that fail, that wait for a creation or a setup hook,
\* or that a restart forgets, are taken up again.
EmptyOnesGo == \A e \in Envs : Unused(e) ~> ~Unused(e)

\* A thread that was stopped before its turn comes to rest, though its stop
\* waits for the host to give up the setup, and the setup may succeed, fail or
\* be wanted again by another thread in the meantime.
StopsEnd ==
  \A t \in Threads :
    StoppedBeforeStart(thr[t]) ~> ~StoppedBeforeStart(thr[t])
=============================================================================
