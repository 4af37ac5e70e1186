------------------------- MODULE EnvironmentEngine -------------------------
(***************************************************************************)
(* How threads come by their workspaces and how workspaces are removed:     *)
(* apps/server/src/services/environments/environment-engine.ts over the     *)
(* rows of packages/db/src/data/environments.ts.                            *)
(*                                                                          *)
(* A thread that starts reserves an environment row and owns it while a     *)
(* provider creates the workspace; the row's path is claimed before it is   *)
(* touched.  The thread then attaches to the row (which ends its            *)
(* ownership), the host's daemon sets the workspace up, and the thread's    *)
(* turn starts.  A row nobody lives in is retired, a preparation nobody     *)
(* wants is cancelled; both end in the provider removing the workspace.     *)
(*                                                                          *)
(* At most one operation per row runs at a time, kept in memory: op.  The   *)
(* model has one host and one project; its providers hand out the           *)
(* workspaces at Paths and differ only in whether they keep them (Lasting). *)
(***************************************************************************)
EXTENDS EnvironmentLifecycle, ThreadLifecycle, Naturals, FiniteSets

CONSTANTS
  Threads,
  Envs,         \* identifiers of environment rows
  Paths,        \* workspace paths on the host
  None,
  Adopts,       \* the provider may answer with a workspace that exists
  Lasting,      \* the rows whose provider keeps what nobody lives in
  MaxStarts,    \* how often each thread is started
  Limit         \* how often each disturbance happens

\* An operation or a cancellation of a setup fails, the server restarts, the
\* host goes away, an archived thread comes back.
Disturbance == {"fail", "cancel", "crash", "drop", "back"}

ASSUME ConstantsAssumption ==
  /\ None \notin Threads \union Envs \union Paths
  /\ Adopts \in BOOLEAN
  /\ Lasting \subseteq Envs
  /\ MaxStarts \in [Threads -> Nat]
  /\ Limit \in [Disturbance -> Nat]

VARIABLES
  env,      \* the environment rows
  thr,      \* the thread rows
  op,       \* the operation running on each row, in memory
  made,     \* the workspaces on the host: <<row it was made for, path>>
  online,   \* the host's daemon is connected
  spent     \* the disturbances so far

vars == <<env, thr, op, made, online, spent>>

-----------------------------------------------------------------------------
(* The state. *)

Teardown == {"none", "running", "failed", "removed"}

\* retire is retireAt: null, in the future, or reached.
EnvRow ==
  [status  : EnvironmentStatus \union {"none"},   \* "none": no such row
   owner   : Threads \union {None},     \* ownerThreadId
   attempt : Nat,
   path    : Paths \union {None},
   claim   : Paths \union {None},       \* claimPath
   td      : Teardown,                  \* teardownStatus
   retire  : {"none", "waiting", "due"}]

\* intent and attached are the startup context: what the thread asked for,
\* and whether the context names the environment yet; start is its
\* provisioning id; halted, that its last provisioning event says it was
\* cancelled.  adv and advStart belong to a call of the engine that is
\* suspended: the row it is about to attach, the provisioning id it read.
ThreadRow ==
  [status   : ThreadStatus,
   env      : Envs \union {None},
   arch     : BOOLEAN,
   intent   : {"none", "provider", "reuse"},
   attached : BOOLEAN,
   halted   : BOOLEAN,
   start    : Nat,
   adv      : Envs \union {None},
   advStart : Nat]

Operation ==
  [kind    : {"none", "create", "attach", "remove"},
   pc      : {"none", "asked", "made", "sent", "done", "slot", "hook", "busy"},
   owner   : Threads \union {None},     \* the row as the creation read it
   attempt : Nat,
   path    : Paths \union {None},       \* the path the provider answered
   aborted : BOOLEAN,
   cancel  : {"none", "asked", "over"}]   \* the attach.cancel sent

NoRow == [status |-> "none", owner |-> None, attempt |-> 0, path |-> None,
          claim |-> None, td |-> "none", retire |-> "none"]

NewThread == [status |-> "pending", env |-> None, arch |-> FALSE,
              intent |-> "none", attached |-> FALSE, halted |-> FALSE, start |-> 0,
              adv |-> None, advStart |-> 0]

NoOp == [kind |-> "none", pc |-> "none", owner |-> None, attempt |-> 0,
         path |-> None, aborted |-> FALSE, cancel |-> "none"]

OpAt(kind, pc) == [NoOp EXCEPT !.kind = kind, !.pc = pc]

Init ==
  /\ env = [e \in Envs |-> NoRow]
  /\ thr = [t \in Threads |-> NewThread]
  /\ op = [e \in Envs |-> NoOp]
  /\ made = {}
  /\ online = TRUE
  /\ spent = [d \in Disturbance |-> 0]

Spend(d) ==
  /\ spent[d] < Limit[d]
  /\ spent' = [spent EXCEPT ![d] = @ + 1]

-----------------------------------------------------------------------------
(* Queries.  rows and ths are values of env and thr, old or new. *)

\* environmentHasLiveThreads
HasLiveThreads(ths, e) ==
  \E t \in Threads :
    /\ ths[t].env = e
    /\ ~ths[t].arch \/ ths[t].status \in {"stopping", "active"}

\* The condition destroy.recorded puts on its update.
StillInhabited(ths, e) ==
  \E t \in Threads :
    /\ ths[t].env = e
    /\ ~ths[t].arch \/ ths[t].status = "stopping"

\* Mutant of Preparing: rows that are being removed are not seen.
PreparingUntouched(rows, t) ==
  IF \E e \in Envs : rows[e].owner = t /\ rows[e].td = "none"
  THEN CHOOSE e \in Envs : rows[e].owner = t /\ rows[e].td = "none"
  ELSE None

\* getPreparingEnvironment
Preparing(rows, t) ==
  IF \E e \in Envs : rows[e].owner = t
  THEN CHOOSE e \in Envs : rows[e].owner = t
  ELSE None

\* findEnvironmentPathClaim: somebody but mine has claimed the path.
PathClaimed(rows, path, mine) ==
  \E f \in Envs \ {mine} :
    /\ rows[f].claim = path
    /\ rows[f].status # "destroyed"

Removing(row) == row.td \in {"running", "failed"}

\* getThreadProvisionContext: a starting or stopping thread with a startup
\* context that has not been dispatched.
HasContext(th) == th.status \in {"starting", "stopping"} /\ th.intent # "none"

\* A stop before the turn: it had a context, which survives in the row.
StoppedBeforeStart(th) == th.status = "stopping" /\ th.intent # "none"

\* Only stopped threads are left for the setup that is running.
SetupUnwanted(ths, e) ==
  /\ \E t \in Threads :
       ths[t].env = e /\ ths[t].status = "stopping" /\ ~ths[t].arch
  /\ \A t \in Threads : ths[t].env = e => ths[t].status # "starting"

\* The row a starting thread works towards.
Wanted(t) == IF thr[t].intent = "reuse" THEN thr[t].env
             ELSE Preparing(env, t)

\* A thread that must wait for its workspace to be removed first.
PreviousGone(t) == thr[t].env # None => ~Removing(env[thr[t].env])

\* Mutant of Claimable: the other rows' claims are not looked at.
ClaimableAnyway(e, p) ==
  /\ env[e].attempt = op[e].attempt
  /\ env[e].owner = op[e].owner
  /\ env[e].status = "creating"
  /\ env[e].claim \in {None, p}

\* Both the claim and the binding of a path demand it.
Claimable(e, p) ==
  /\ env[e].attempt = op[e].attempt
  /\ env[e].owner = op[e].owner
  /\ env[e].status = "creating"
  /\ env[e].claim \in {None, p}
  /\ ~PathClaimed(env, p, e)

-----------------------------------------------------------------------------
(* Effects several operations have.  Each takes rows and returns rows. *)

\* applyEnvironmentLifecycleEventInTransaction
EnvApply(rows, ths, e, event) ==
  IF \/ rows[e].status \notin EnvSources(event)
     \/ event = "destroy.recorded" /\ StillInhabited(ths, e)
  THEN rows
  ELSE LET s == EnvAfter(rows[e].status, event, rows[e].path # None)
       IN [rows EXCEPT ![e].status = s,
                       ![e].path = IF s = "destroyed" THEN None ELSE @]

\* applyThreadLifecycleEventInTransaction: a thread that runs, or rests in a
\* workspace, has no startup context left.
ThreadApply(th, event) ==
  LET s == After(th.status, event, th.arch) IN
  IF s = th.status THEN th
  ELSE IF s = "active" \/ (s = "idle" /\ th.env # None)
  THEN [th EXCEPT !.status = s, !.intent = "none", !.attached = FALSE]
  ELSE [th EXCEPT !.status = s]

\* Mutant of MarkCancelled: the removal is recorded before it has been done.
MarkRemoved(rows, t) ==
  [e \in Envs |-> IF e = Preparing(rows, t)
                  THEN [rows[e] EXCEPT !.status = "destroyed", !.td = "removed"]
                  ELSE rows[e]]

\* cancelProviderEnvironmentCreation, up to the removal it starts: the row
\* is marked, and the creation that runs is told to abort.
MarkCancelled(rows, t) ==
  [e \in Envs |->
     IF e # Preparing(rows, t) THEN rows[e]
     ELSE IF rows[e].td = "removed"
          THEN [rows[e] EXCEPT !.status = "destroyed"]
     ELSE IF rows[e].td = "none"
          THEN [rows[e] EXCEPT !.td = "running", !.retire = "due"]
     ELSE rows[e]]

AbortCreation(rows, ops, t) ==
  [e \in Envs |->
     IF /\ e = Preparing(rows, t)
        /\ ops[e].kind = "create"
        /\ rows[e].td \in {"none", "running"}
     THEN [ops[e] EXCEPT !.aborted = TRUE]
     ELSE ops[e]]

\* recordEnvironmentProvisioningFailureInTransaction.  Threads whose last
\* word about this workspace is that they were stopped keep that outcome.
FailedBySetup(ths, e) ==
  {t \in Threads :
     ths[t].env = e /\ ths[t].status # "stopping" /\ ~ths[t].halted}

SetupFailureEvent(ths, e) ==
  IF FailedBySetup(ths, e) = {} /\ \E t \in Threads : ths[t].env = e
  THEN "provision.cancelled" ELSE "provision.failed"

ThreadsAfterFailure(ths, e) ==
  [t \in Threads |-> IF t \in FailedBySetup(ths, e)
                     THEN ThreadApply(ths[t], "run.failed") ELSE ths[t]]

RecordSetupFailure(e) ==
  /\ env' = EnvApply(env, thr, e, SetupFailureEvent(thr, e))
  /\ thr' = ThreadsAfterFailure(thr, e)

\* failThreadProvisioning
FailThread(t) ==
  thr' = [thr EXCEPT ![t] = [ThreadApply(@, "run.failed") EXCEPT !.adv = None]]

-----------------------------------------------------------------------------
(* A message for a thread: it starts, or starts again. *)

BeginStart(th, intent, e) ==
  [ThreadApply(th, "run.preparing") EXCEPT
     !.env = e, !.intent = intent, !.attached = FALSE,
     !.halted = FALSE, !.start = @ + 1]

CanSend(t) ==
  /\ ~thr[t].arch
  /\ thr[t].status \in {"pending", "idle", "error"}

\* assertEnvironmentPathAvailable, as a thread that is prepared nothing, or
\* owns the row own, sees it.
Occupied(e, own) == env[e].path # None /\ PathClaimed(env, env[e].path, own)

\* A thread is created for a workspace that exists: reuseEnvironmentPlacement.
CreateIn(t, e) ==
  /\ CanSend(t)
  /\ thr[t].status = "pending"
  /\ thr[t].env = None
  /\ env[e].td = "none"
  /\ \/ env[e].status = "ready" /\ env[e].path # None
     \/ env[e].status = "provisioning"
  /\ ~Occupied(e, None)
  /\ thr' = [thr EXCEPT ![t].env = e]
  /\ UNCHANGED <<env, op, made, online, spent>>

\* The first message is admitted: admitPendingThread.
StartFirst(t) ==
  /\ CanSend(t)
  /\ thr[t].status = "pending"
  /\ thr[t].start < MaxStarts[t]
  /\ thr' = [thr EXCEPT ![t] =
       BeginStart(@, IF @.env = None THEN "provider" ELSE "reuse", @.env)]
  /\ UNCHANGED <<env, op, made, online, spent>>

\* A thread that never got a workspace: the attempt is cleaned up, and once
\* nothing is left of it the same request starts anew.
Restart(t) ==
  /\ CanSend(t)
  /\ thr[t].status # "pending"
  /\ thr[t].env = None
  /\ env' = MarkCancelled(env, t)
  /\ op' = AbortCreation(env, op, t)
  /\ IF Preparing(env, t) = None \/ env[Preparing(env, t)].td = "removed"
     THEN /\ thr[t].start < MaxStarts[t]
          /\ thr' = [thr EXCEPT ![t] = BeginStart(@, "provider", None)]
     ELSE UNCHANGED thr
  /\ UNCHANGED <<made, online, spent>>

\* A message to a thread in a usable workspace starts a turn at once.
StartTurnInPlace(t) ==
  /\ CanSend(t)
  /\ thr[t].status # "pending"
  /\ thr[t].env # None
  /\ env[thr[t].env].status = "ready"
  /\ env[thr[t].env].path # None
  /\ ~Occupied(thr[t].env, Preparing(env, t))
  /\ thr' = [thr EXCEPT ![t] = ThreadApply(@, "run.started")]
  /\ UNCHANGED <<env, op, made, online, spent>>

\* dispatchTurnDuringReprovision: a workspace that is gone or broken is
\* provided again; one whose setup failed is set up again.
StartReprovisioning(t) ==
  LET row == env[thr[t].env] IN
  /\ CanSend(t)
  /\ thr[t].status # "pending"
  /\ thr[t].env # None
  /\ thr[t].start < MaxStarts[t]
  /\ ~Occupied(thr[t].env, Preparing(env, t))
  /\ ~(row.status = "ready" /\ row.path # None)
  /\ row.status # "provisioning"
  /\ thr' = [thr EXCEPT ![t] = BeginStart(@,
                IF row.status = "error" /\ row.path # None /\ row.td = "none"
                THEN "reuse" ELSE "provider", @.env)]
  /\ UNCHANGED <<env, op, made, online, spent>>

-----------------------------------------------------------------------------
(* A starting thread asks its provider: prepareProviderEnvironment. *)

Asking(t) ==
  /\ thr[t].status = "starting"
  /\ ~thr[t].arch
  /\ thr[t].adv = None
  /\ thr[t].intent = "provider"
  /\ PreviousGone(t)

\* A row no thread remembers: its identifier may serve again.
Forgotten(e) ==
  /\ env[e].owner = None
  /\ env[e].status = "none"
     \/ (env[e].status = "destroyed" /\ env[e].td = "removed")
  /\ \A t \in Threads : thr[t].env # e
  /\ op[e] = NoOp
  /\ \A p \in Paths : <<e, p>> \notin made

CreateOp(e, row) ==
  [OpAt("create", IF row.path # None THEN "made" ELSE "asked") EXCEPT
     !.owner = row.owner, !.attempt = row.attempt, !.path = row.path]

\* reserveEnvironment, and the creation it starts at once.
Reserve(t, e) ==
  LET own  == Preparing(env, t)
      last == IF own # None THEN env[own].attempt
              ELSE IF thr[t].env # None THEN env[thr[t].env].attempt ELSE 0
      row  == [NoRow EXCEPT !.status = "creating", !.owner = t,
                            !.attempt = last + 1]
  IN /\ Asking(t)
     /\ IF own = None THEN Forgotten(e)
        ELSE /\ e = own
             /\ env[e].td = "removed"
             /\ env[e].status # "error"
     /\ env' = [env EXCEPT ![e] = row]
     /\ op' = IF op[e].kind = "none" THEN [op EXCEPT ![e] = CreateOp(e, row)]
              ELSE op
     /\ UNCHANGED <<thr, made, online, spent>>

\* Mutant of Reject: only an attempt whose cleanup is done counts as failed.
RejectCleaned(t) ==
  LET own == Preparing(env, t)
  IN /\ Asking(t)
     /\ own # None
     /\ env[own].status = "error"
     /\ env[own].td = "removed"
     /\ FailThread(t)
     /\ UNCHANGED <<env, op, made, online, spent>>

\* The attempt failed: so does the thread.
Reject(t) ==
  LET own == Preparing(env, t)
  IN /\ Asking(t)
     /\ own # None
     /\ env[own].status = "error"
     /\ ~Removing(env[own])
     /\ FailThread(t)
     /\ UNCHANGED <<env, op, made, online, spent>>

-----------------------------------------------------------------------------
(* The creation: runCreate. *)

\* A creation that is not running (the server restarted) is taken up again,
\* as long as the thread it is for still starts.
StartCreate(e) ==
  /\ env[e].status = "creating"
  /\ ~Removing(env[e])
  /\ op[e].kind = "none"
  /\ env[e].owner # None
  /\ HasContext(thr[env[e].owner])
  /\ thr[env[e].owner].intent = "provider"
  /\ op' = [op EXCEPT ![e] = CreateOp(e, env[e])]
  /\ UNCHANGED <<env, thr, made, online, spent>>

Asked(e) == op[e].kind = "create" /\ op[e].pc = "asked"
Created(e) == op[e].kind = "create" /\ op[e].pc = "made"

\* Mutant of AtPath: rows that are still set up are not found.
AtPathReady(e, p) == {f \in Envs \ {e} : env[f].path = p /\ env[f].status = "ready"}

AtPath(e, p) == {f \in Envs \ {e} : env[f].path = p}

\* The paths a provider may want: one no other row has to do with, for its
\* names come from the row's path key, or that of a row there is.
Eligible(e, p) ==
  \/ \A f \in Envs \ {e} : <<f, p>> \notin made /\ env[f].path # p
  \/ Adopts /\ AtPath(e, p) # {}

\* experimental_claimPath.
CreateClaims(e, p) ==
  /\ Asked(e)
  /\ ~op[e].aborted
  /\ Eligible(e, p)
  /\ env[e].claim = None
  /\ Claimable(e, p)
  /\ env' = [env EXCEPT ![e].claim = p]
  /\ UNCHANGED <<thr, op, made, online, spent>>

\* The provider, which works through the host's daemon, makes the workspace
\* it has claimed, where no row has one ...
CreateMakes(e) ==
  /\ Asked(e)
  /\ online
  /\ env[e].claim # None
  /\ AtPath(e, env[e].claim) = {}
  /\ made' = made \union {<<e, env[e].claim>>}
  /\ op' = [op EXCEPT ![e].pc = "made", ![e].path = env[e].claim]
  /\ UNCHANGED <<env, thr, online, spent>>

\* ... or answers with one that exists, which it may have claimed.
CreateFinds(e, p) ==
  /\ Adopts
  /\ Asked(e)
  /\ online
  /\ env[e].claim \in {None, p}
  /\ AtPath(e, p) # {}
  /\ op' = [op EXCEPT ![e].pc = "made", ![e].path = p]
  /\ UNCHANGED <<env, thr, made, online, spent>>

\* The creation fails.  One that was told to abort, or that was refused its
\* claim, or whose host is away, fails for that reason.  The provider may
\* answer that it failed, or throw: if it was told to abort, a throw leaves
\* the row to the removal that waits for it.
CreateFails(e) ==
  /\ Asked(e)
  /\ IF \/ op[e].aborted \/ ~online
        \/ \A p \in Paths : PathClaimed(env, p, e) \/ ~Eligible(e, p)
     THEN UNCHANGED spent ELSE Spend("fail")
  /\ \/ env' = IF /\ env[e].attempt = op[e].attempt
                  /\ env[e].owner = op[e].owner
                  /\ env[e].status = "creating"
               THEN [env EXCEPT ![e].status = "error"] ELSE env
     \/ op[e].aborted /\ env[e].td = "running" /\ env' = env
  /\ op' = [op EXCEPT ![e] = NoOp]
  /\ UNCHANGED <<thr, made, online>>

\* claimEnvironmentPath with allowCancelled: a cancelled creation may still
\* claim what it made, for the removal to find it.
MayBind(e, p) ==
  /\ env[e].attempt = op[e].attempt
  /\ env[e].owner = op[e].owner
  /\ env[e].status = "creating" \/ env[e].td = "running"
  /\ env[e].claim \in {None, p}
  /\ ~PathClaimed(env, p, e)

\* bindEnvironmentPath throws for these.
MayAdopt(f) ==
  /\ env[f].td = "none"
  /\ env[f].status \in {"ready", "provisioning"}
  /\ env[f].owner = None

\* The rows once the creation on e has settled: cancelled it keeps its
\* status and is left to the removal that waits for it.
Settled(row, aborted) ==
  IF row.status = "creating" /\ ~(aborted /\ row.td = "running")
  THEN [row EXCEPT !.status = IF aborted THEN "error" ELSE "provisioning"]
  ELSE row

\* The workspace is put on the row that was reserved for it.
CreateBinds(e) ==
  LET p == op[e].path IN
  /\ Created(e)
  /\ online
  /\ MayBind(e, p)
  /\ AtPath(e, p) = {}
  /\ env' = [env EXCEPT ![e] =
       Settled([@ EXCEPT !.claim = p, !.path = p], op[e].aborted)]
  /\ op' = [op EXCEPT ![e] = NoOp]
  /\ UNCHANGED <<thr, made, online, spent>>

\* The workspace has a row: that row takes over the preparation, and the
\* reserved one is retired.
CreateAdopts(e, f) ==
  LET p == op[e].path
      taken == [env[f] EXCEPT
                  !.owner = env[e].owner, !.attempt = env[e].attempt,
                  !.status = IF @ = "ready" THEN @ ELSE env[e].status,
                  !.td = env[e].td, !.retire = env[e].retire, !.claim = p]
  IN /\ Created(e)
     /\ online
     /\ MayBind(e, p)
     /\ f \in AtPath(e, p)
     /\ MayAdopt(f)
     /\ env' = [env EXCEPT
          ![e] = [@ EXCEPT !.owner = None, !.status = "destroyed",
                           !.td = "removed", !.claim = None, !.path = None],
          ![f] = Settled(taken, op[e].aborted)]
     /\ op' = [op EXCEPT ![e] = NoOp]
     /\ UNCHANGED <<thr, made, online, spent>>

\* The answer cannot be used: the path belongs to somebody else, or the
\* host's session is not ready.  Removal is recorded as done.
CreateRefused(e) ==
  LET p == op[e].path
      row == [env[e] EXCEPT !.td = "removed", !.claim = None, !.path = None]
  IN /\ Created(e)
     /\ \/ ~online
        \/ ~MayBind(e, p)
        \/ \E f \in AtPath(e, p) : ~MayAdopt(f)
     /\ env' = IF /\ env[e].attempt = op[e].attempt
                  /\ env[e].owner = op[e].owner
                  /\ env[e].status \in {"creating", "ready", "error"}
               THEN [env EXCEPT ![e] =
                      IF row.status = "creating"
                      THEN [row EXCEPT !.status = "error"] ELSE row]
               ELSE env
     /\ op' = [op EXCEPT ![e] = NoOp]
     /\ UNCHANGED <<thr, made, online, spent>>

-----------------------------------------------------------------------------
(* A thread attaches to its row: the second half of                         *)
(* advanceEnvironmentProvisioning, called for the thread or, for its owner, *)
(* when a creation ends and by the sweep.                                   *)

\* The thread has a row to go on with.
Advancing(t) ==
  LET e == Wanted(t) IN
  /\ HasContext(thr[t])
  /\ thr[t].status = "starting"
  /\ ~thr[t].arch
  /\ thr[t].adv = None
  /\ e # None
  /\ thr[t].intent = "provider" =>
       /\ env[e].td = "none"
       /\ env[e].status \in {"provisioning", "ready"}
       /\ env[e].path # None

\* The path is occupied, or markProviderEnvironmentAttached stumbles over the
\* reservation of another row.
BusyFor(t, e) ==
  LET own == Preparing(env, t) IN
  \/ Occupied(e, own)
  \/ own \notin {None, e} /\ env[own].status \in {"provisioning", "ready"}

\* A setup that failed is started over.
Reopened(row) ==
  IF row.status = "error"
  THEN [row EXCEPT !.status = "provisioning", !.attempt = @ + 1] ELSE row

\* markProviderEnvironmentAttached
Released(row, t) ==
  IF row.owner = t
  THEN [row EXCEPT !.owner = None, !.claim = None, !.retire = "none"]
  ELSE row

\* Mutant of Attached: the thread's row is not written.
AttachedUnnamed(th, e) ==
  [th EXCEPT !.intent = "reuse", !.attached = TRUE, !.adv = None]

\* The context is only written while the thread starts.
Attached(th, e) ==
  IF th.status = "starting"
  THEN [th EXCEPT !.env = e, !.intent = "reuse", !.attached = TRUE, !.adv = None]
  ELSE [th EXCEPT !.env = e, !.adv = None]

MayAttach(t) ==
  LET e == Wanted(t) IN
  /\ Advancing(t)
  /\ ~Removing(env[e])
  /\ \/ env[e].status = "provisioning" /\ ~SetupUnwanted(thr, e)
     \/ env[e].status = "ready"
     \/ env[e].status = "error" /\ env[e].owner = None

Attach(t) ==
  LET e == Wanted(t) IN
  /\ MayAttach(t)
  /\ ~BusyFor(t, e)
  /\ ~(env[e].status = "ready" /\ env[e].owner # None)
  /\ env' = [env EXCEPT ![e] = Released(Reopened(@), t)]
  /\ thr' = [thr EXCEPT ![t] = Attached(@, e)]
  /\ UNCHANGED <<op, made, online, spent>>

\* A workspace that was ready already is looked at first (its branch), and
\* the call waits for the host.
AttachLater(t) ==
  LET e == Wanted(t) IN
  /\ MayAttach(t)
  /\ env[e].status = "ready"
  /\ env[e].owner # None
  /\ env[e].owner # t => ~BusyFor(t, e)
  /\ thr' = [thr EXCEPT ![t].adv = e, ![t].advStart = thr[t].start]
  /\ UNCHANGED <<env, op, made, online, spent>>

\* The call goes on: what it read may be gone.  The start it belongs to is
\* compared again.
AttachNow(t) ==
  LET e == thr[t].adv
      current == HasContext(thr[t]) /\ thr[t].start = thr[t].advStart
  IN /\ e # None
     /\ IF current /\ ~BusyFor(t, e)
        THEN /\ env' = [env EXCEPT ![e] =
                  IF @.status \in {"provisioning", "ready"}
                  THEN Released(@, t) ELSE @]
             /\ thr' = [thr EXCEPT ![t] = Attached(@, e)]
        ELSE /\ IF current /\ thr[t].status = "starting" /\ ~thr[t].arch
                THEN FailThread(t)
                ELSE thr' = [thr EXCEPT ![t].adv = None]
             /\ UNCHANGED env
     /\ UNCHANGED <<op, made, online, spent>>

\* The thread's call ends in an error: it fails.
StartFails(t) ==
  LET e == Wanted(t) IN
  /\ Advancing(t)
  /\ \/ ~Removing(env[e]) /\ env[e].status # "destroyed" /\ BusyFor(t, e)
     \/ thr[t].attached /\ env[e].status \in {"destroyed", "creating"}
     \/ /\ thr[t].attached
        /\ env[e].status = "error"
        /\ env[e].owner # None \/ Removing(env[e])
  /\ FailThread(t)
  /\ UNCHANGED <<env, op, made, online, spent>>

\* startThreadIfEnvironmentReady: the turn starts, the startup context is
\* done with.
StartTurn(t) ==
  LET e == Wanted(t) IN
  /\ Advancing(t)
  /\ thr[t].attached
  /\ ~Removing(env[e])
  /\ env[e].status = "ready"
  /\ env[e].path # None
  /\ ~BusyFor(t, e)
  /\ thr' = [thr EXCEPT ![t] = ThreadApply(@, "run.started")]
  /\ UNCHANGED <<env, op, made, online, spent>>

-----------------------------------------------------------------------------
(* The setup on the host: the attach command and its cancellation. *)

\* cancelEnvironmentProvisioningForThreadStopInTransaction: nobody else
\* needs the setup that runs, so its cancellation is awaited.
AwaitsHostCancel(t) ==
  /\ thr[t].env # None
  /\ env[thr[t].env].status = "provisioning"
  /\ \A u \in Threads \ {t} :
       ~(/\ thr[u].env = thr[t].env
         /\ thr[u].status \in {"starting", "active"}
         /\ ~thr[u].arch)

\* recoverEnvironmentProvisionRequest
SetupWanted(e) ==
  \E t \in Threads :
    /\ thr[t].env = e
    /\ thr[t].status = "starting"
    /\ ~thr[t].arch
    /\ HasContext(thr[t])
    /\ thr[t].attached

SetupIdle(e) ==
  /\ env[e].status = "provisioning"
  /\ env[e].owner = None
  /\ ~Removing(env[e])
  /\ ~SetupUnwanted(thr, e)
  /\ op[e].kind = "none"
  /\ online

SendSetup(e) ==
  /\ SetupIdle(e)
  /\ SetupWanted(e)
  /\ op' = [op EXCEPT ![e] = OpAt("attach", "sent")]
  /\ UNCHANGED <<env, thr, made, online, spent>>

\* interruptUnrecoverableEnvironmentProvisioning
InterruptSetup(e) ==
  /\ SetupIdle(e)
  /\ ~SetupWanted(e)
  /\ RecordSetupFailure(e)
  /\ UNCHANGED <<op, made, online, spent>>

SetupSent(e) == op[e].kind = "attach" /\ op[e].pc = "sent"

\* The operation is over once its cancellation is, too.
SetupOver(e) ==
  op' = [op EXCEPT ![e] = IF op[e].cancel = "asked"
                          THEN [op[e] EXCEPT !.pc = "done"] ELSE NoOp]

\* The daemon looks whether the workspace is there.
Present(e) == \E m \in made : m[2] = env[e].path

SetupSucceeds(e) ==
  /\ SetupSent(e)
  /\ online
  /\ Present(e)
  /\ env' = EnvApply(env, thr, e, "provision.succeeded")
  /\ SetupOver(e)
  /\ UNCHANGED <<thr, made, online, spent>>

\* A setup that was cancelled fails for that reason.
SetupFails(e) ==
  /\ SetupSent(e)
  /\ online
  /\ IF op[e].cancel = "asked" \/ ~Present(e) THEN UNCHANGED spent
     ELSE Spend("fail")
  /\ RecordSetupFailure(e)
  /\ SetupOver(e)
  /\ UNCHANGED <<made, online>>

\* environment.attach.cancel is sent once per operation.
CancelAsked(o) ==
  IF o.kind = "none" THEN [OpAt("attach", "done") EXCEPT !.cancel = "asked"]
  ELSE IF o.cancel = "none" THEN [o EXCEPT !.cancel = "asked"] ELSE o

Cancellable(ths, e) ==
  /\ env[e].status = "provisioning"
  /\ ~Removing(env[e])
  /\ SetupUnwanted(ths, e)
  /\ online
  /\ op[e].kind \in {"none", "attach"}

\* The sweep asks, too.
CancelSetup(e) ==
  /\ Cancellable(thr, e)
  /\ op' = [op EXCEPT ![e] = CancelAsked(@)]
  /\ op' # op
  /\ UNCHANGED <<env, thr, made, online, spent>>

CancelOver(e) ==
  op' = [op EXCEPT ![e] = IF @.pc = "done" THEN NoOp
                          ELSE [@ EXCEPT !.cancel = "over"]]

\* Mutant of SetupCancelled: only the row learns of it.
SetupCancelledSilently(e) ==
  /\ op[e].cancel = "asked"
  /\ online
  /\ env' = EnvApply(env, thr, e, "provision.cancelled")
  /\ CancelOver(e)
  /\ UNCHANGED <<thr, made, online, spent>>

\* The host has no setup left: the threads that stopped are settled.
SetupCancelled(e) ==
  /\ op[e].cancel = "asked"
  /\ online
  /\ env' = EnvApply(env, thr, e, "provision.cancelled")
  /\ thr' = [t \in Threads |->
       IF thr[t].env = e /\ thr[t].status = "stopping" /\ ~thr[t].arch
       THEN ThreadApply(thr[t], "stop.settled") ELSE thr[t]]
  /\ CancelOver(e)
  /\ UNCHANGED <<made, online, spent>>

\* The threads are stopped again: who still waits for the setup stays
\* stopping, and the sweep asks once more.
CancelFails(e) ==
  /\ op[e].cancel = "asked"
  /\ Spend("cancel")
  /\ thr' = [t \in Threads |->
       IF /\ thr[t].env = e
          /\ StoppedBeforeStart(thr[t])
          /\ ~thr[t].arch
          /\ ~AwaitsHostCancel(t)
       THEN ThreadApply(thr[t], "stop.settled") ELSE thr[t]]
  /\ CancelOver(e)
  /\ UNCHANGED <<env, made, online>>

-----------------------------------------------------------------------------
(* Threads stop, end their turns, are archived and come back. *)

\* requestPreStartThreadStop and requestThreadStop
Stopped(t) ==
  LET asked == [ThreadApply(thr[t], "stop.requested") EXCEPT
                  !.halted = @ \/ thr[t].status = "starting"]
  IN IF thr[t].status = "active" \/ AwaitsHostCancel(t) THEN asked
     ELSE ThreadApply(asked, "stop.settled")

\* Mutant of Abandons: the row is left to the next retry.
AbandonsNothing(t) == FALSE

\* The start is abandoned with the row it reserved.
Abandons(t) ==
  /\ thr[t].status = "starting"
  /\ thr[t].intent = "provider"
  /\ ~thr[t].attached

Stop(t) ==
  /\ thr[t].status \in {"starting", "active"}
  /\ thr' = [thr EXCEPT ![t] = Stopped(t)]
  /\ env' = IF Abandons(t) THEN MarkCancelled(env, t) ELSE env
  /\ op' = [e \in Envs |->
       LET o == IF Abandons(t) THEN AbortCreation(env, op, t)[e] ELSE op[e]
       IN IF /\ e = thr[t].env
             /\ thr[t].status = "starting"
             /\ AwaitsHostCancel(t)
             /\ Cancellable(thr', e)
          THEN CancelAsked(o) ELSE o]
  /\ UNCHANGED <<made, online, spent>>

\* A stop that is repeated, by the user or for archived threads by the sweep.
StopAgain(t) ==
  /\ StoppedBeforeStart(thr[t])
  /\ ~AwaitsHostCancel(t)
  /\ thr' = [thr EXCEPT ![t] = ThreadApply(@, "stop.settled")]
  /\ UNCHANGED <<env, op, made, online, spent>>

\* A turn ends.  How is the matter of MessageDispatch.
TurnEnds(t) ==
  /\ \/ thr[t].status = "active"
     \/ thr[t].status = "stopping" /\ ~StoppedBeforeStart(thr[t])
  /\ thr' = [thr EXCEPT ![t] = ThreadApply(@, "run.succeeded")]
  /\ UNCHANGED <<env, op, made, online, spent>>

\* archiveThreadAndChildren; a thread that has no workspace yet cannot be
\* archived while it starts or stops.
Archive(t) ==
  /\ ~thr[t].arch
  /\ thr[t].env = None => thr[t].status \notin {"pending", "starting", "stopping"}
  /\ thr' = [thr EXCEPT ![t] =
       [IF \/ thr[t].status \in {"starting", "active"}
           \/ StoppedBeforeStart(thr[t])
        THEN Stopped(t) ELSE @
          EXCEPT !.arch = TRUE]]
  /\ env' = MarkCancelled(env, t)
  /\ op' = AbortCreation(env, op, t)
  /\ UNCHANGED <<made, online, spent>>

\* refreshProviderRetirement: a provider without a grace period retires
\* nothing.
RefreshedRetirement(e, live) ==
  IF env[e].td # "none" THEN env[e]
  ELSE [env[e] EXCEPT !.retire = IF live \/ e \in Lasting THEN "none"
                                 ELSE IF @ = "none" THEN "waiting" ELSE @]

Unarchive(t) ==
  /\ thr[t].arch
  /\ Spend("back")
  /\ thr' = [thr EXCEPT ![t].arch = FALSE]
  /\ env' = [e \in Envs |-> IF e = thr[t].env
               THEN RefreshedRetirement(e, TRUE) ELSE env[e]]
  /\ UNCHANGED <<op, made, online>>

-----------------------------------------------------------------------------
(* Removal: requestEnvironmentRemoval, sweepProviderEnvironmentInSlot and   *)
(* runRemove.                                                               *)

\* The user deletes an environment nobody lives in.
DeleteEnv(e) ==
  /\ env[e].status \notin {"none", "destroyed"}
  /\ ~HasLiveThreads(thr, e)
  /\ env[e].td = "none"
  /\ env[e].owner # None =>
       ~(thr[env[e].owner].status = "starting" /\ ~thr[env[e].owner].arch)
  /\ env' = [env EXCEPT ![e].td = "running", ![e].retire = "due"]
  /\ UNCHANGED <<thr, op, made, online, spent>>

\* Mutant of Listed: rows without a retirement are not looked at.
ListedRetiring(e) ==
  /\ env[e].status # "none"
  /\ env[e].owner = None \/ env[e].td # "none"
  /\ env[e].retire # "none" \/ env[e].td # "none"
  /\ ~(env[e].status = "destroyed" /\ env[e].td = "removed")

\* listProviderLifecycleEnvironments
Listed(e) ==
  /\ env[e].status # "none"
  /\ env[e].owner = None \/ env[e].td # "none"
  /\ \/ env[e].retire # "none"
     \/ env[e].td # "none"
     \/ \A t \in Threads : thr[t].env = e => thr[t].arch
  /\ ~(env[e].status = "destroyed" /\ env[e].td = "removed")

\* removeEnvironment: a creation is told to abort, any operation is waited
\* for, and the removal queues for the host's slot.
Sweep(e) ==
  /\ Listed(e)
  /\ \/ /\ op[e].kind = "none"
        /\ op' = [op EXCEPT ![e] = OpAt("remove", "slot")]
     \/ /\ op[e].kind = "create"
        /\ env[e].td = "running"
        /\ ~op[e].aborted
        /\ op' = [op EXCEPT ![e].aborted = TRUE]
  /\ UNCHANGED <<env, thr, made, online, spent>>

\* withEnvironmentCleanupSlot: one removal per host at a time.
InSlot(e) ==
  /\ op[e].kind = "remove"
  /\ op[e].pc = "slot"
  /\ \A f \in Envs : ~(op[f].kind = "remove" /\ op[f].pc \in {"hook", "busy"})

CancelledRow(row) == row.owner # None /\ row.td # "none"

\* Nothing to remove: the row was removed, is being prepared, or is lived
\* in.  A preparation that was cancelled but is lived in is just let go.
SlotSpares(e) ==
  LET row == env[e]
      live == HasLiveThreads(thr, e)
  IN /\ InSlot(e)
     /\ row.td = "removed" \/ live \/ (row.owner # None /\ ~CancelledRow(row))
     /\ env' = [env EXCEPT ![e] =
          IF row.td = "removed" THEN row
          ELSE IF CancelledRow(row)
          THEN [row EXCEPT !.owner = None, !.claim = None, !.retire = "none",
                           !.td = "none"]
          ELSE IF live /\ row.owner = None /\ row.td = "none"
          THEN [row EXCEPT !.retire = "none"]
          ELSE row]
     /\ op' = [op EXCEPT ![e] = NoOp]
     /\ UNCHANGED <<thr, made, online, spent>>

\* Mutant of SlotRetires: who lives there was looked at when it was queued.
SlotRetiresBlindly(e) ==
  /\ InSlot(e)
  /\ env[e].td # "removed"
  /\ env[e].owner # None => CancelledRow(env[e])

\* The row may go, now or after its grace period.
SlotRetires(e) ==
  LET row == env[e] IN
  /\ InSlot(e)
  /\ row.td # "removed"
  /\ ~HasLiveThreads(thr, e)
  /\ row.owner # None => CancelledRow(row)

\* The row stays for its grace period, or, if the provider has none, for good.
SlotWaits(e) ==
  LET row == env[e] IN
  /\ SlotRetires(e)
  /\ \/ row.retire = "waiting"
     \/ row.retire = "none" /\ ~CancelledRow(row) /\ row.status # "destroyed"
  /\ env' = [env EXCEPT ![e].retire =
               IF @ = "none" /\ e \in Lasting THEN @ ELSE "waiting"]
  /\ op' = [op EXCEPT ![e] = NoOp]
  /\ UNCHANGED <<thr, made, online, spent>>

\* The row is given up: status and teardown as the removal begins.
GivenUp(row) ==
  [row EXCEPT !.status = IF @ = "destroyed" THEN @ ELSE "error",
              !.td = "running"]

\* The removal begins; for a cancelled preparation with a workspace the
\* setup hook that may run there is stopped first, and waited for.
SlotBegins(e) ==
  LET row == [env[e] EXCEPT !.retire = "due",
                            !.td = IF @ = "none" THEN "running" ELSE @]
      hook == CancelledRow(env[e]) /\ env[e].path # None
  IN /\ SlotRetires(e)
     /\ \/ env[e].retire = "due"
        \/ /\ env[e].retire = "none"
           /\ CancelledRow(env[e]) \/ env[e].status = "destroyed"
     /\ env' = [env EXCEPT ![e] = IF hook THEN row ELSE GivenUp(row)]
     /\ op' = [op EXCEPT ![e].pc = IF hook THEN "hook" ELSE "busy"]
     /\ UNCHANGED <<thr, made, online, spent>>

InHook(e) == op[e].kind = "remove" /\ op[e].pc = "hook"

\* The setup hook is stopped: the row is read again, but not who lives there.
HookStopped(e) ==
  /\ InHook(e)
  /\ online
  /\ env' = [env EXCEPT ![e] = IF @.td = "removed" THEN @ ELSE GivenUp(@)]
  /\ op' = [op EXCEPT ![e] = IF env[e].td = "removed" THEN NoOp
                             ELSE [@ EXCEPT !.pc = "busy"]]
  /\ UNCHANGED <<thr, made, online, spent>>

\* The host does not say: the removal is left to the next sweep.
HookUnknown(e) ==
  /\ InHook(e)
  /\ IF online THEN Spend("fail") ELSE UNCHANGED spent
  /\ op' = [op EXCEPT ![e] = NoOp]
  /\ UNCHANGED <<env, thr, made, online>>

InRemoval(e) == op[e].kind = "remove" /\ op[e].pc = "busy"

\* The provider removed what the row's preparation made and its workspace.
RemoveSucceeds(e) ==
  /\ InRemoval(e)
  /\ online
  /\ made' = {m \in made : m[1] # e /\ m[2] # env[e].path}
  /\ env' = EnvApply([env EXCEPT ![e] =
                        [@ EXCEPT !.td = "removed", !.claim = None,
                                  !.retire = "none"]],
                     thr, e, "destroy.recorded")
  /\ op' = [op EXCEPT ![e] = NoOp]
  /\ UNCHANGED <<thr, online, spent>>

\* Mutant of RemoveFails: the claim is dropped although the workspace stays.
RemoveFailsUnclaimed(e) ==
  /\ InRemoval(e)
  /\ IF online THEN Spend("fail") ELSE UNCHANGED spent
  /\ env' = [env EXCEPT ![e].td = "failed", ![e].retire = "waiting", ![e].claim = None]
  /\ op' = [op EXCEPT ![e] = NoOp]
  /\ UNCHANGED <<thr, made, online>>

\* Mutant of RemoveFails: the failure is recorded as done.
RemoveFailsRecorded(e) ==
  /\ InRemoval(e)
  /\ IF online THEN Spend("fail") ELSE UNCHANGED spent
  /\ env' = [env EXCEPT ![e].td = "removed"]
  /\ op' = [op EXCEPT ![e] = NoOp]
  /\ UNCHANGED <<thr, made, online>>

\* It did not, and is asked again after a minute.
RemoveFails(e) ==
  /\ InRemoval(e)
  /\ IF online THEN Spend("fail") ELSE UNCHANGED spent
  /\ env' = [env EXCEPT ![e].td = "failed", ![e].retire = "waiting"]
  /\ op' = [op EXCEPT ![e] = NoOp]
  /\ UNCHANGED <<thr, made, online>>

\* The time a retirement or a retry waits for is reached.
RetireDue(e) ==
  /\ env[e].retire = "waiting"
  /\ env' = [env EXCEPT ![e].retire = "due"]
  /\ UNCHANGED <<thr, op, made, online, spent>>

-----------------------------------------------------------------------------
(* The host's daemon and the server come and go. *)

\* A setup that was sent is not answered: it is sent again on return.
HostDrops ==
  /\ online
  /\ Spend("drop")
  /\ online' = FALSE
  /\ op' = [e \in Envs |-> IF op[e].kind = "attach" THEN NoOp ELSE op[e]]
  /\ UNCHANGED <<env, thr, made>>

\* reconcileDaemonReportedThreads: who was stopped before its turn is settled.
HostReturns ==
  /\ ~online
  /\ online' = TRUE
  /\ thr' = [t \in Threads |->
       IF StoppedBeforeStart(thr[t]) /\ thr[t].env # None
       THEN ThreadApply(thr[t], "stop.settled") ELSE thr[t]]
  /\ UNCHANGED <<env, op, made, spent>>

\* interruptEnvironmentProvisioningForHost: the host stays away for too long,
\* and each setup counts as failed.
HostGrace(e) ==
  /\ ~online
  /\ env[e].status = "provisioning"
  /\ RecordSetupFailure(e)
  /\ UNCHANGED <<op, made, online, spent>>

\* The server restarts: what it keeps in memory is gone, and the daemon has
\* to connect again.
Crash ==
  /\ Spend("crash")
  /\ op' = [e \in Envs |-> NoOp]
  /\ thr' = [t \in Threads |-> [thr[t] EXCEPT !.adv = None]]
  /\ online' = FALSE
  /\ UNCHANGED <<env, made>>

-----------------------------------------------------------------------------

Request(t) ==
  \/ \E e \in Envs : CreateIn(t, e)
  \/ StartFirst(t)
  \/ Restart(t)
  \/ StartTurnInPlace(t)
  \/ StartReprovisioning(t)
  \/ Stop(t)
  \/ Archive(t)
  \/ Unarchive(t)

Placement(t) ==
  \/ \E e \in Envs : Reserve(t, e)
  \/ Reject(t)
  \/ Attach(t)
  \/ AttachLater(t)
  \/ AttachNow(t)
  \/ StartFails(t)
  \/ StartTurn(t)

Creation(e) ==
  \/ StartCreate(e)
  \/ \E p \in Paths : CreateClaims(e, p)
  \/ CreateMakes(e)
  \/ \E p \in Paths : CreateFinds(e, p)
  \/ CreateFails(e)
  \/ CreateBinds(e)
  \/ \E f \in Envs : CreateAdopts(e, f)
  \/ CreateRefused(e)

Setup(e) ==
  \/ SendSetup(e)
  \/ InterruptSetup(e)
  \/ SetupSucceeds(e)
  \/ SetupFails(e)
  \/ CancelSetup(e)
  \/ SetupCancelled(e)
  \/ CancelFails(e)
  \/ HostGrace(e)

Removal(e) ==
  \/ Sweep(e)
  \/ SlotSpares(e)
  \/ SlotWaits(e)
  \/ SlotBegins(e)
  \/ HookStopped(e)
  \/ HookUnknown(e)
  \/ RemoveSucceeds(e)
  \/ RemoveFails(e)
  \/ RetireDue(e)

Next ==
  \/ \E t \in Threads : Request(t) \/ Placement(t) \/ StopAgain(t) \/ TurnEnds(t)
  \/ \E e \in Envs : Creation(e) \/ Setup(e) \/ Removal(e) \/ DeleteEnv(e)
  \/ HostDrops
  \/ HostReturns
  \/ Crash

Spec == Init /\ [][Next]_vars

\* The next step of the operation that runs on a row.
Work(e) ==
  \/ Creation(e)
  \/ SetupSucceeds(e)
  \/ SetupFails(e)
  \/ SetupCancelled(e)
  \/ SlotSpares(e)
  \/ SlotWaits(e)
  \/ SlotBegins(e)
  \/ HookStopped(e)
  \/ HookUnknown(e)
  \/ RemoveSucceeds(e)
  \/ RemoveFails(e)

(* What the code's scheduling justifies: a thread that starts is advanced   *)
(* when what it waits for has changed and by the periodic sweep, which also *)
(* takes up every creation, setup and removal left without an operation;    *)
(* an operation goes on, for the provider and the host's daemon answer (it  *)
(* has a timeout); a host that went away, or a restarted server's, connects *)
(* again.  A removal the sweep has queued holds its row only for a moment   *)
(* when somebody lives there, hence strong fairness for the setup.          *)
(* Nothing makes a user act, a turn end or a disturbance happen.            *)
Fairness ==
  /\ \A t \in Threads :
       /\ WF_vars(Placement(t))
       /\ WF_vars(thr[t].arch /\ StopAgain(t))
  /\ \A e \in Envs :
       /\ WF_vars(Work(e))
       /\ WF_vars(Sweep(e))
       /\ WF_vars(RetireDue(e))
       /\ SF_vars(SendSetup(e) \/ InterruptSetup(e) \/ CancelSetup(e))
  /\ WF_vars(HostReturns)

FairSpec == Spec /\ Fairness
=============================================================================
