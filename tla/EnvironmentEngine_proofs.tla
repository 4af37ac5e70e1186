---------------------- MODULE EnvironmentEngine_proofs ----------------------
(***************************************************************************)
(* Theorems about EnvironmentEngine, for any threads, rows and paths, any   *)
(* number of starts, any limit of disturbances, and whether or not the      *)
(* provider adopts workspaces: here the types, in EnvironmentClaims_proofs  *)
(* what follows from them.                                                  *)
(***************************************************************************)
EXTENDS EnvironmentProperties, TLAPS

USE ConstantsAssumption

-----------------------------------------------------------------------------
(* The operators the actions are built from. *)

LEMMA AfterTypes ==
  ASSUME NEW s \in ThreadStatus, NEW event \in LifecycleEvent, NEW a \in BOOLEAN
  PROVE  /\ After(s, event, a) \in ThreadStatus
         /\ After(s, event, a) = "active" => s = "active" \/ event = "run.started"
PROOF BY DEF After, Applies, Target, LifecycleEvent, ThreadStatus

\* An event changes the status of a thread and may end its startup context.
LEMMA ThreadApplyTypes ==
  ASSUME NEW th \in ThreadRow, NEW event \in LifecycleEvent
  PROVE  /\ ThreadApply(th, event) \in ThreadRow
         /\ ThreadApply(th, event).env = th.env
         /\ ThreadApply(th, event).attached => th.attached
         /\ ThreadApply(th, event).status = "active"
              => th.status = "active" \/ event = "run.started"
PROOF
<1> DEFINE s == After(th.status, event, th.arch)
<1>1. /\ s \in ThreadStatus
      /\ s = "active" => th.status = "active" \/ event = "run.started"
  BY AfterTypes DEF ThreadRow
<1>2. CASE s = th.status
  BY <1>1, <1>2 DEF ThreadApply
<1>3. CASE s # th.status
  <2> HIDE DEF s
  <2>1. \/ ThreadApply(th, event) = [th EXCEPT !.status = s, !.intent = "none", !.attached = FALSE]
        \/ ThreadApply(th, event) = [th EXCEPT !.status = s]
    BY <1>3 DEF ThreadApply, s
  <2>2. ASSUME NEW new,
               \/ new = [th EXCEPT !.status = s, !.intent = "none", !.attached = FALSE]
               \/ new = [th EXCEPT !.status = s]
        PROVE  /\ new \in ThreadRow /\ new.env = th.env /\ new.status = s
               /\ new.attached => th.attached
    <3>1. CASE new = [th EXCEPT !.status = s]
      BY <1>1, <3>1 DEF ThreadRow
    <3>2. CASE new = [th EXCEPT !.status = s, !.intent = "none", !.attached = FALSE]
      BY <1>1, <3>2 DEF ThreadRow
    <3> QED BY <2>2, <3>1, <3>2
  <2> QED BY <1>1, <2>1, <2>2
<1> QED BY <1>2, <1>3

\* An event of the environment table changes the status of one row, and takes
\* the path of a row it destroys.
LEMMA EnvApplyFacts ==
  ASSUME NEW rows \in [Envs -> EnvRow], NEW ths, NEW e \in Envs,
         NEW event \in EnvironmentEvent
  PROVE  LET new == EnvApply(rows, ths, e, event) IN
         /\ new \in [Envs -> EnvRow]
         /\ \A f \in Envs \ {e} : new[f] = rows[f]
         /\ new[e].owner = rows[e].owner
         /\ new[e].attempt = rows[e].attempt
         /\ new[e].claim = rows[e].claim
         /\ new[e].td = rows[e].td
         /\ new[e].path \in {rows[e].path, None}
         /\ new[e].status = "creating" => rows[e].status = "creating"
         /\ rows[e].status = "destroyed" => new[e].status = "destroyed"
         /\ event = "destroy.recorded" => new[e].status \in {rows[e].status, "destroyed"}
PROOF
<1> DEFINE s == EnvAfter(rows[e].status, event, rows[e].path # None)
<1>1. CASE EnvApply(rows, ths, e, event) = rows
  BY <1>1
<1>2. CASE EnvApply(rows, ths, e, event) # rows
  <2>1. rows[e].status \in EnvSources(event)
    BY <1>2 DEF EnvApply
  <2>2. s \in EnvironmentStatus \ {"creating"} /\ rows[e].status # "destroyed"
    BY <2>1 DEF EnvAfter, EnvTarget, EnvSources, EnvironmentStatus, EnvironmentEvent
  <2>3. event = "destroy.recorded" => s = "destroyed"
    BY <2>1 DEF EnvAfter, EnvTarget
  <2>4. PICK p \in {rows[e].path, None} :
          EnvApply(rows, ths, e, event)
            = [rows EXCEPT ![e] = [rows[e] EXCEPT !.status = s, !.path = p]]
    BY <1>2 DEF EnvApply
  <2> DEFINE row == [rows[e] EXCEPT !.status = s, !.path = p]
  <2> HIDE DEF s
  <2>5. /\ row \in EnvRow
        /\ row.owner = rows[e].owner /\ row.attempt = rows[e].attempt
        /\ row.claim = rows[e].claim /\ row.td = rows[e].td
        /\ row.path = p /\ row.status = s
    BY <2>2 DEF EnvRow
  <2> HIDE DEF row
  <2>6. EnvApply(rows, ths, e, event) = [rows EXCEPT ![e] = row]
    BY <2>4 DEF row
  <2> QED BY <2>2, <2>3, <2>5, <2>6
<1> QED BY <1>1, <1>2

\* getPreparingEnvironment finds a row of the thread, if there is one.
LEMMA PreparingFinds ==
  ASSUME NEW rows, NEW t \in Threads
  PROVE  /\ Preparing(rows, t) \in Envs \union {None}
         /\ Preparing(rows, t) # None => rows[Preparing(rows, t)].owner = t
         /\ Preparing(rows, t) = None => \A e \in Envs : rows[e].owner # t
PROOF BY DEF Preparing

LEMMA WantedTypes ==
  ASSUME TypeOK, NEW t \in Threads
  PROVE  Wanted(t) \in Envs \union {None}
PROOF BY PreparingFinds DEF Wanted, TypeOK, ThreadRow

\* A cancelled row begins its teardown, or is destroyed if that is done.
LEMMA MarkCancelledFacts ==
  ASSUME NEW rows \in [Envs -> EnvRow], NEW t \in Threads
  PROVE  LET new == MarkCancelled(rows, t) IN
         /\ new \in [Envs -> EnvRow]
         /\ \A e \in Envs :
              /\ new[e].owner = rows[e].owner
              /\ new[e].attempt = rows[e].attempt
              /\ new[e].claim = rows[e].claim
              /\ new[e].path = rows[e].path
              /\ \/ new[e].td = rows[e].td
                 \/ rows[e].td = "none" /\ new[e].td = "running"
              /\ \/ new[e].status = rows[e].status
                 \/ rows[e].td = "removed" /\ new[e].status = "destroyed"
PROOF
<1> SUFFICES ASSUME NEW e \in Envs
             PROVE  LET row == MarkCancelled(rows, t)[e] IN
                    /\ row \in EnvRow
                    /\ row.owner = rows[e].owner
                    /\ row.attempt = rows[e].attempt
                    /\ row.claim = rows[e].claim
                    /\ row.path = rows[e].path
                    /\ \/ row.td = rows[e].td
                       \/ rows[e].td = "none" /\ row.td = "running"
                    /\ \/ row.status = rows[e].status
                       \/ rows[e].td = "removed" /\ row.status = "destroyed"
  BY DEF MarkCancelled
<1>1. \/ MarkCancelled(rows, t)[e] = rows[e]
      \/ /\ rows[e].td = "removed"
         /\ MarkCancelled(rows, t)[e] = [rows[e] EXCEPT !.status = "destroyed"]
      \/ /\ rows[e].td = "none"
         /\ MarkCancelled(rows, t)[e] = [rows[e] EXCEPT !.td = "running", !.retire = "due"]
  BY DEF MarkCancelled
<1>2. ASSUME NEW row,
             \/ row = rows[e]
             \/ rows[e].td = "removed" /\ row = [rows[e] EXCEPT !.status = "destroyed"]
             \/ /\ rows[e].td = "none"
                /\ row = [rows[e] EXCEPT !.td = "running", !.retire = "due"]
      PROVE  /\ row \in EnvRow
             /\ row.owner = rows[e].owner /\ row.attempt = rows[e].attempt
             /\ row.claim = rows[e].claim /\ row.path = rows[e].path
             /\ row.td = rows[e].td \/ (rows[e].td = "none" /\ row.td = "running")
             /\ \/ row.status = rows[e].status
                \/ rows[e].td = "removed" /\ row.status = "destroyed"
  <2>1. CASE row = rows[e]
    BY <2>1
  <2>2. CASE rows[e].td = "removed" /\ row = [rows[e] EXCEPT !.status = "destroyed"]
    BY <2>2 DEF EnvRow, EnvironmentStatus
  <2>3. CASE rows[e].td = "none" /\ row = [rows[e] EXCEPT !.td = "running", !.retire = "due"]
    BY <2>3 DEF EnvRow, Teardown
  <2> QED BY <1>2, <2>1, <2>2, <2>3
<1> QED BY <1>1, <1>2

LEMMA AbortCreationFacts ==
  ASSUME NEW rows, NEW ops \in [Envs -> Operation], NEW t
  PROVE  LET new == AbortCreation(rows, ops, t) IN
         /\ new \in [Envs -> Operation]
         /\ \A e \in Envs :
              /\ new[e].kind = ops[e].kind
              /\ new[e].pc = ops[e].pc
              /\ new[e].owner = ops[e].owner
              /\ new[e].attempt = ops[e].attempt
              /\ new[e].path = ops[e].path
              /\ new[e].cancel = ops[e].cancel
PROOF
<1>1. ASSUME NEW o \in Operation, NEW new, new = o \/ new = [o EXCEPT !.aborted = TRUE]
      PROVE  /\ new \in Operation
             /\ new.kind = o.kind /\ new.pc = o.pc /\ new.owner = o.owner
             /\ new.attempt = o.attempt /\ new.path = o.path
             /\ new.cancel = o.cancel
  BY <1>1 DEF Operation
<1>2. \A e \in Envs : \/ AbortCreation(rows, ops, t)[e] = ops[e]
                      \/ AbortCreation(rows, ops, t)[e] = [ops[e] EXCEPT !.aborted = TRUE]
  BY DEF AbortCreation
<1>3. \A e \in Envs :
        LET new == AbortCreation(rows, ops, t)[e] IN
        /\ new \in Operation
        /\ new.kind = ops[e].kind /\ new.pc = ops[e].pc /\ new.owner = ops[e].owner
        /\ new.attempt = ops[e].attempt /\ new.path = ops[e].path
        /\ new.cancel = ops[e].cancel
  BY <1>1, <1>2
<1>4. AbortCreation(rows, ops, t) \in [Envs -> Operation]
  BY <1>3 DEF AbortCreation
<1> QED BY <1>3, <1>4

\* A failed setup fails the threads that wait for it.
LEMMA ThreadsAfterFailureFacts ==
  ASSUME NEW e, thr \in [Threads -> ThreadRow]
  PROVE  /\ ThreadsAfterFailure(thr, e) \in [Threads -> ThreadRow]
         /\ \A t \in Threads :
              LET new == ThreadsAfterFailure(thr, e)[t] IN
              /\ new.env = thr[t].env
              /\ new.attached => thr[t].attached
              /\ new.status = "active" => thr[t].status = "active"
PROOF
<1> SUFFICES ASSUME NEW t \in Threads
             PROVE  LET new == ThreadsAfterFailure(thr, e)[t] IN
                    /\ new \in ThreadRow
                    /\ new.env = thr[t].env
                    /\ new.attached => thr[t].attached
                    /\ new.status = "active" => thr[t].status = "active"
  BY DEF ThreadsAfterFailure
<1>1. \/ ThreadsAfterFailure(thr, e)[t] = thr[t]
      \/ ThreadsAfterFailure(thr, e)[t] = ThreadApply(thr[t], "run.failed")
  BY DEF ThreadsAfterFailure
<1>2. "run.failed" \in LifecycleEvent
  BY DEF LifecycleEvent
<1> QED BY <1>1, <1>2, ThreadApplyTypes

LEMMA SpendTypes ==
  ASSUME TypeOK, NEW d \in Disturbance, Spend(d)
  PROVE  spent' \in [Disturbance -> Nat]
PROOF BY DEF TypeOK, Spend

LEMMA OpAtTypes ==
  /\ NoOp \in Operation
  /\ \A k \in {"none", "create", "attach", "remove"},
        p \in {"none", "asked", "made", "sent", "done", "slot", "hook", "busy"} :
       OpAt(k, p) \in Operation
PROOF BY DEF OpAt, NoOp, Operation

LEMMA CancelAskedTypes ==
  \A o \in Operation : CancelAsked(o) \in Operation
PROOF
<1>1. \A o \in Operation : [o EXCEPT !.cancel = "asked"] \in Operation
  BY DEF Operation
<1>2. OpAt("attach", "done") \in Operation
  BY OpAtTypes
<1> QED BY <1>1, <1>2 DEF CancelAsked

-----------------------------------------------------------------------------
(* The types of the threads, by themselves. *)

Named(th) ==
  /\ th \in ThreadRow
  /\ th.attached \/ th.status = "active" => th.env # None

ThreadsOK ==
  /\ thr \in [Threads -> ThreadRow]
  /\ \A t \in Threads : Named(thr[t])

RestOK ==
  /\ env \in [Envs -> EnvRow]
  /\ op \in [Envs -> Operation]
  /\ made \subseteq Envs \X Paths
  /\ online \in BOOLEAN
  /\ spent \in [Disturbance -> Nat]

LEMMA TypeParts ==
  /\ TypeOK <=> ThreadsOK /\ RestOK
  /\ TypeOK' <=> ThreadsOK' /\ RestOK'
PROOF BY DEF TypeOK, ThreadsOK, RestOK, Named

\* No thread changes, and one row or operation at most.
LEMMA RowChanges ==
  ASSUME ThreadsOK, RestOK, UNCHANGED <<thr, online>>,
         env' = env \/ \E e \in Envs, row \in EnvRow : env' = [env EXCEPT ![e] = row],
         op' = op \/ \E e \in Envs, o \in Operation : op' = [op EXCEPT ![e] = o],
         made' \subseteq Envs \X Paths, spent' \in [Disturbance -> Nat]
  PROVE  ThreadsOK' /\ RestOK'
PROOF
<1>1. ThreadsOK'
  BY DEF ThreadsOK
<1>2. env' \in [Envs -> EnvRow]
  BY DEF RestOK
<1>3. op' \in [Envs -> Operation]
  BY DEF RestOK
<1> QED BY <1>1, <1>2, <1>3 DEF RestOK

\* One thread changes.
LEMMA ThreadChanges ==
  ASSUME ThreadsOK, NEW t \in Threads, NEW th, Named(th),
         thr' = [thr EXCEPT ![t] = th]
  PROVE  ThreadsOK'
PROOF BY DEF ThreadsOK, Named

\* Only the start of a turn needs the row's name.
LEMMA ApplyNamed ==
  ASSUME NEW th, Named(th), NEW event \in LifecycleEvent,
         event = "run.started" => th.env # None
  PROVE  Named(ThreadApply(th, event))
PROOF BY ThreadApplyTypes DEF Named

LEMMA BeginStartNamed ==
  ASSUME NEW th, Named(th), NEW e \in Envs \union {None},
         NEW intent \in {"none", "provider", "reuse"}, th.status # "active"
  PROVE  Named(BeginStart(th, intent, e))
PROOF
<1>1. "run.preparing" \in LifecycleEvent
  BY DEF LifecycleEvent
<1> DEFINE new == ThreadApply(th, "run.preparing")
<1>2. new \in ThreadRow /\ new.status # "active"
  BY <1>1, ThreadApplyTypes DEF Named
<1>3. BeginStart(th, intent, e)
        = [new EXCEPT !.env = e, !.intent = intent, !.attached = FALSE,
                      !.halted = FALSE, !.start = new.start + 1]
  BY DEF BeginStart
<1>4. new.start + 1 \in Nat
  BY <1>2 DEF ThreadRow
<1> DEFINE n == new.start + 1
<1> HIDE DEF new, n
<1>5. BeginStart(th, intent, e)
        = [new EXCEPT !.env = e, !.intent = intent, !.attached = FALSE,
                      !.halted = FALSE, !.start = n]
  BY <1>3 DEF n
<1>6. n \in Nat
  BY <1>4 DEF n
<1>7. BeginStart(th, intent, e) \in ThreadRow
  BY <1>2, <1>5, <1>6 DEF ThreadRow
<1>8. /\ BeginStart(th, intent, e).status # "active"
      /\ BeginStart(th, intent, e).attached = FALSE
  BY <1>2, <1>5 DEF ThreadRow
<1> QED BY <1>7, <1>8 DEF Named

LEMMA StoppedNamed ==
  ASSUME ThreadsOK, NEW t \in Threads
  PROVE  Named(Stopped(t))
PROOF
<1>1. "stop.requested" \in LifecycleEvent /\ "stop.settled" \in LifecycleEvent
  BY DEF LifecycleEvent
<1> DEFINE new == ThreadApply(thr[t], "stop.requested")
           asked == [new EXCEPT !.halted = new.halted \/ thr[t].status = "starting"]
<1>2. Named(new)
  BY <1>1, ApplyNamed DEF ThreadsOK
<1>3. Named(asked)
  <2> HIDE DEF new
  <2> QED BY <1>2 DEF Named, ThreadRow
<1>4. Stopped(t) = asked \/ Stopped(t) = ThreadApply(asked, "stop.settled")
  BY DEF Stopped
<1> HIDE DEF asked
<1> QED BY <1>1, <1>3, <1>4, ApplyNamed

LEMMA FailThreadTypes ==
  ASSUME ThreadsOK, NEW t \in Threads, FailThread(t)
  PROVE  ThreadsOK'
PROOF
<1>1. "run.failed" \in LifecycleEvent
  BY DEF LifecycleEvent
<1> DEFINE new == ThreadApply(thr[t], "run.failed")
<1>2. Named(new)
  BY <1>1, ApplyNamed DEF ThreadsOK
<1>3. thr' = [thr EXCEPT ![t] = [new EXCEPT !.adv = None]]
  BY DEF FailThread
<1> HIDE DEF new
<1>4. Named([new EXCEPT !.adv = None])
  BY <1>2 DEF Named, ThreadRow
<1> QED BY <1>3, <1>4, ThreadChanges

LEMMA AttachedNamed ==
  ASSUME NEW th, Named(th), NEW e \in Envs
  PROVE  Named(Attached(th, e))
PROOF BY DEF Named, Attached, ThreadRow

\* An event for one thread, and for those of a set.
LEMMA EventTypes ==
  ASSUME ThreadsOK, NEW t \in Threads, NEW event \in LifecycleEvent,
         event = "run.started" => thr[t].env # None,
         thr' = [thr EXCEPT ![t] = ThreadApply(thr[t], event)]
  PROVE  ThreadsOK'
PROOF BY ApplyNamed, ThreadChanges DEF ThreadsOK

LEMMA SettledTypes ==
  ASSUME ThreadsOK, DOMAIN thr' = Threads, thr' = [t \in Threads |-> thr'[t]],
         \A t \in Threads : \/ thr'[t] = thr[t]
                           \/ thr'[t] = ThreadApply(thr[t], "stop.settled")
  PROVE  ThreadsOK'
PROOF
<1>1. "stop.settled" \in LifecycleEvent /\ "stop.settled" # "run.started"
  BY DEF LifecycleEvent
<1>2. \A t \in Threads : Named(thr'[t])
  BY <1>1, ApplyNamed DEF ThreadsOK
<1> QED BY <1>2 DEF ThreadsOK, Named

\* A setup's failure.
LEMMA SetupFailureTypes ==
  ASSUME TypeOK, NEW e \in Envs, RecordSetupFailure(e)
  PROVE  ThreadsOK' /\ env' \in [Envs -> EnvRow]
PROOF
<1>1. SetupFailureEvent(thr, e) \in EnvironmentEvent
  BY DEF SetupFailureEvent, EnvironmentEvent
<1>2. env' \in [Envs -> EnvRow]
  BY <1>1, EnvApplyFacts DEF RecordSetupFailure, TypeOK
<1>3. ThreadsOK'
  BY TypeParts, ThreadsAfterFailureFacts DEF RecordSetupFailure, ThreadsOK, Named
<1> QED BY <1>2, <1>3

-----------------------------------------------------------------------------
(* The types: one lemma per group of actions, one step per action. *)

LEMMA RequestTypes ==
  ASSUME TypeOK, NEW t \in Threads, Request(t)
  PROVE  TypeOK'
PROOF
<1> USE TypeParts
<1>0. ThreadsOK /\ RestOK /\ Named(thr[t])
  BY DEF ThreadsOK
<1>1. ASSUME NEW e \in Envs, CreateIn(t, e) PROVE TypeOK'
  <2>1. thr' = [thr EXCEPT ![t] = [thr[t] EXCEPT !.env = e]]
    BY <1>1 DEF CreateIn
  <2>2. Named([thr[t] EXCEPT !.env = e])
    BY <1>0 DEF Named, ThreadRow
  <2> QED BY <1>0, <1>1, <2>1, <2>2, ThreadChanges DEF CreateIn, RestOK
<1>2. ASSUME NEW e \in Envs \union {None}, NEW intent \in {"none", "provider", "reuse"},
             CanSend(t), thr' = [thr EXCEPT ![t] = BeginStart(thr[t], intent, e)]
      PROVE  ThreadsOK'
  BY <1>0, <1>2, BeginStartNamed, ThreadChanges DEF CanSend
<1>3. thr[t].env \in Envs \union {None}
  BY <1>0 DEF Named, ThreadRow
<1>4. CASE StartFirst(t)
  <2>1. PICK intent \in {"provider", "reuse"} :
          thr' = [thr EXCEPT ![t] = BeginStart(thr[t], intent, thr[t].env)]
    BY <1>4 DEF StartFirst
  <2> QED BY <1>0, <1>2, <1>3, <1>4, <2>1 DEF StartFirst, RestOK
<1>5. CASE Restart(t)
  <2>1. env' \in [Envs -> EnvRow] /\ op' \in [Envs -> Operation]
    BY <1>0, <1>5, MarkCancelledFacts, AbortCreationFacts DEF Restart, RestOK
  <2>2. \/ thr' = thr
        \/ thr' = [thr EXCEPT ![t] = BeginStart(thr[t], "provider", None)]
    BY <1>5 DEF Restart
  <2>3. ThreadsOK'
    BY <1>0, <1>2, <1>5, <2>2 DEF Restart, ThreadsOK
  <2> QED BY <1>0, <1>5, <2>1, <2>3 DEF Restart, RestOK
<1>6. CASE StartTurnInPlace(t)
  <2>1. "run.started" \in LifecycleEvent
    BY DEF LifecycleEvent
  <2> QED BY <1>0, <1>6, <2>1, EventTypes DEF StartTurnInPlace, RestOK
<1>7. CASE StartReprovisioning(t)
  <2>1. PICK intent \in {"provider", "reuse"} :
          thr' = [thr EXCEPT ![t] = BeginStart(thr[t], intent, thr[t].env)]
    BY <1>7 DEF StartReprovisioning
  <2> QED BY <1>0, <1>2, <1>3, <1>7, <2>1 DEF StartReprovisioning, RestOK
<1>8. CASE Stop(t)
  <2>1. env' \in [Envs -> EnvRow]
    BY <1>0, <1>8, MarkCancelledFacts DEF Stop, RestOK
  <2>2. \A o \in Operation : CancelAsked(o) \in Operation
    BY CancelAskedTypes
  <2>3. AbortCreation(env, op, t) \in [Envs -> Operation]
    BY <1>0, AbortCreationFacts DEF RestOK
  <2>4. op' \in [Envs -> Operation]
    BY <1>0, <1>8, <2>2, <2>3 DEF Stop, RestOK
  <2>5. ThreadsOK'
    BY <1>0, <1>8, StoppedNamed, ThreadChanges DEF Stop
  <2> QED BY <1>0, <1>8, <2>1, <2>4, <2>5 DEF Stop, RestOK
<1>9. CASE Archive(t)
  <2>1. env' \in [Envs -> EnvRow] /\ op' \in [Envs -> Operation]
    BY <1>0, <1>9, MarkCancelledFacts, AbortCreationFacts DEF Archive, RestOK
  <2>2. PICK th \in {Stopped(t), thr[t]} :
          thr' = [thr EXCEPT ![t] = [th EXCEPT !.arch = TRUE]]
    BY <1>9 DEF Archive
  <2>3. Named(th)
    BY <1>0, StoppedNamed
  <2>4. Named([th EXCEPT !.arch = TRUE])
    BY <2>3 DEF Named, ThreadRow
  <2> QED BY <1>0, <1>9, <2>1, <2>2, <2>4, ThreadChanges DEF Archive, RestOK
<1>10. CASE Unarchive(t)
  <2>1. thr' = [thr EXCEPT ![t] = [thr[t] EXCEPT !.arch = FALSE]]
    BY <1>10 DEF Unarchive
  <2>2. Named([thr[t] EXCEPT !.arch = FALSE])
    BY <1>0 DEF Named, ThreadRow
  <2>3. \A e \in Envs : RefreshedRetirement(e, TRUE) \in EnvRow
    BY <1>0 DEF RefreshedRetirement, RestOK, EnvRow
  <2>4. env' \in [Envs -> EnvRow]
    BY <1>0, <1>10, <2>3 DEF Unarchive, RestOK
  <2>5. spent' \in [Disturbance -> Nat]
    BY <1>10, SpendTypes DEF Unarchive, Disturbance
  <2> QED BY <1>0, <1>10, <2>1, <2>2, <2>4, <2>5, ThreadChanges DEF Unarchive, RestOK
<1> QED BY <1>1, <1>4, <1>5, <1>6, <1>7, <1>8, <1>9, <1>10 DEF Request

LEMMA CreateOpTypes ==
  ASSUME NEW e \in Envs, NEW row \in EnvRow
  PROVE  CreateOp(e, row) \in Operation
PROOF BY DEF CreateOp, OpAt, NoOp, Operation, EnvRow

LEMMA PlacementTypes ==
  ASSUME TypeOK, NEW t \in Threads, Placement(t)
  PROVE  TypeOK'
PROOF
<1> USE TypeParts
<1>0. ThreadsOK /\ RestOK /\ Named(thr[t]) /\ Wanted(t) \in Envs \union {None}
  BY WantedTypes DEF ThreadsOK
<1>1. ASSUME NEW e \in Envs, Reserve(t, e) PROVE TypeOK'
  <2> DEFINE own  == Preparing(env, t)
             last == IF own # None THEN env[own].attempt
                     ELSE IF thr[t].env # None THEN env[thr[t].env].attempt ELSE 0
             row  == [NoRow EXCEPT !.status = "creating", !.owner = t,
                                   !.attempt = last + 1]
  <2>1. last \in Nat
    BY <1>0, PreparingFinds DEF RestOK, Named, ThreadRow, EnvRow
  <2>2. row \in EnvRow
    <3>1. last + 1 \in Nat
      BY <2>1
    <3>2. \A n \in Nat : [NoRow EXCEPT !.status = "creating", !.owner = t,
                                      !.attempt = n] \in EnvRow
      BY DEF NoRow, EnvRow, EnvironmentStatus, Teardown
    <3> HIDE DEF last
    <3> QED BY <3>1, <3>2
  <2>3. env' = [env EXCEPT ![e] = row]
    BY <1>1 DEF Reserve
  <2>4. op' = [op EXCEPT ![e] = CreateOp(e, row)] \/ op' = op
    BY <1>1 DEF Reserve
  <2> HIDE DEF row
  <2>5. CreateOp(e, row) \in Operation
    BY <2>2, CreateOpTypes
  <2>6. UNCHANGED <<thr, made, online, spent>>
    BY <1>1 DEF Reserve
  <2>7. made' \subseteq Envs \X Paths /\ spent' \in [Disturbance -> Nat]
    BY <1>0, <2>6 DEF RestOK
  <2> QED BY <1>0, <2>2, <2>3, <2>4, <2>5, <2>6, <2>7, RowChanges
<1>2. CASE Reject(t)
  BY <1>0, <1>2, FailThreadTypes DEF Reject, RestOK
<1>3. ASSUME NEW e \in Envs
      PROVE  /\ Reopened(env[e]) \in EnvRow
             /\ \A row \in EnvRow : Released(row, t) \in EnvRow
  <2>1. env[e] \in EnvRow /\ env[e].attempt + 1 \in Nat
    BY <1>0 DEF RestOK, EnvRow
  <2>2. \A n \in Nat : [env[e] EXCEPT !.status = "provisioning", !.attempt = n] \in EnvRow
    BY <2>1 DEF EnvRow, EnvironmentStatus
  <2>3. Reopened(env[e]) \in EnvRow
    BY <2>1, <2>2 DEF Reopened
  <2>4. \A row \in EnvRow : Released(row, t) \in EnvRow
    BY DEF Released, EnvRow
  <2> QED BY <2>3, <2>4
<1>4. CASE Attach(t)
  <2>1. Wanted(t) \in Envs
    BY <1>0, <1>4 DEF Attach, MayAttach, Advancing
  <2>2. env' \in [Envs -> EnvRow]
    BY <1>0, <1>3, <1>4, <2>1 DEF Attach, RestOK
  <2>3. ThreadsOK'
    BY <1>0, <1>4, <2>1, AttachedNamed, ThreadChanges DEF Attach
  <2> QED BY <1>0, <1>4, <2>2, <2>3 DEF Attach, RestOK
<1>5. CASE AttachLater(t)
  <2>1. Wanted(t) \in Envs
    BY <1>0, <1>5 DEF AttachLater, MayAttach, Advancing
  <2>2. thr' = [thr EXCEPT ![t] = [thr[t] EXCEPT !.adv = Wanted(t), !.advStart = thr[t].start]]
    BY <1>0, <1>5 DEF AttachLater, ThreadsOK
  <2>3. Named([thr[t] EXCEPT !.adv = Wanted(t), !.advStart = thr[t].start])
    <3>1. \A e \in Envs, n \in Nat : Named([thr[t] EXCEPT !.adv = e, !.advStart = n])
      BY <1>0 DEF Named, ThreadRow
    <3>2. thr[t].start \in Nat
      BY <1>0 DEF Named, ThreadRow
    <3> QED BY <2>1, <3>1, <3>2
  <2> QED BY <1>0, <1>5, <2>2, <2>3, ThreadChanges DEF AttachLater, RestOK
<1>6. CASE AttachNow(t)
  <2> DEFINE e == thr[t].adv
  <2>1. e \in Envs
    BY <1>0, <1>6 DEF AttachNow, Named, ThreadRow
  <2>2. env' = env \/ env' = [env EXCEPT ![e] = Released(env[e], t)]
    BY <1>0, <1>6, <2>1 DEF AttachNow, RestOK
  <2>3. env' \in [Envs -> EnvRow]
    BY <1>0, <1>3, <2>1, <2>2 DEF RestOK
  <2>4. \/ thr' = [thr EXCEPT ![t] = Attached(thr[t], e)]
        \/ FailThread(t)
        \/ thr' = [thr EXCEPT ![t] = [thr[t] EXCEPT !.adv = None]]
    BY <1>6 DEF AttachNow
  <2>5. Named([thr[t] EXCEPT !.adv = None])
    BY <1>0 DEF Named, ThreadRow
  <2>6. ThreadsOK'
    BY <1>0, <2>1, <2>4, <2>5, AttachedNamed, FailThreadTypes, ThreadChanges
  <2> QED BY <1>0, <1>6, <2>3, <2>6 DEF AttachNow, RestOK
<1>7. CASE StartFails(t)
  BY <1>0, <1>7, FailThreadTypes DEF StartFails, RestOK
<1>8. CASE StartTurn(t)
  <2>1. "run.started" \in LifecycleEvent
    BY DEF LifecycleEvent
  <2>2. thr[t].env # None
    BY <1>0, <1>8 DEF StartTurn, Named
  <2> QED BY <1>0, <1>8, <2>1, <2>2, EventTypes DEF StartTurn, RestOK
<1> QED BY <1>1, <1>2, <1>4, <1>5, <1>6, <1>7, <1>8 DEF Placement

LEMMA CreationTypes ==
  ASSUME TypeOK, NEW e \in Envs, Creation(e)
  PROVE  TypeOK'
PROOF
<1> USE TypeParts
<1>0. /\ ThreadsOK /\ RestOK
      /\ env[e] \in EnvRow /\ op[e] \in Operation /\ NoOp \in Operation
  BY OpAtTypes DEF RestOK
<1>1. CASE StartCreate(e)
  BY <1>0, <1>1, CreateOpTypes DEF StartCreate, RestOK, ThreadsOK
<1>2. ASSUME NEW p \in Paths, CreateClaims(e, p) PROVE TypeOK'
  <2>1. [env[e] EXCEPT !.claim = p] \in EnvRow
    BY <1>0 DEF EnvRow
  <2> QED BY <1>0, <1>2, <2>1 DEF CreateClaims, RestOK, ThreadsOK
<1>3. \A p \in Paths : [op[e] EXCEPT !.pc = "made", !.path = p] \in Operation
  BY <1>0 DEF Operation
<1>4. CASE CreateMakes(e)
  <2>1. env[e].claim \in Paths
    BY <1>0, <1>4 DEF CreateMakes, EnvRow
  <2>2. op' = [op EXCEPT ![e] = [op[e] EXCEPT !.pc = "made", !.path = env[e].claim]]
    BY <1>0, <1>4 DEF CreateMakes, RestOK
  <2>3. op' \in [Envs -> Operation]
    BY <1>0, <1>3, <2>1, <2>2 DEF RestOK
  <2>4. made' \subseteq Envs \X Paths
    BY <1>0, <1>4, <2>1 DEF CreateMakes, RestOK
  <2> QED BY <1>0, <1>4, <2>3, <2>4 DEF CreateMakes, RestOK, ThreadsOK
<1>5. ASSUME NEW p \in Paths, CreateFinds(e, p) PROVE TypeOK'
  <2>1. op' = [op EXCEPT ![e] = [op[e] EXCEPT !.pc = "made", !.path = p]]
    BY <1>0, <1>5 DEF CreateFinds, RestOK
  <2>2. UNCHANGED <<env, thr, made, online, spent>>
    BY <1>5 DEF CreateFinds
  <2>3. [op[e] EXCEPT !.pc = "made", !.path = p] \in Operation
    BY <1>3
  <2>4. made' \subseteq Envs \X Paths /\ spent' \in [Disturbance -> Nat]
    BY <1>0, <2>2 DEF RestOK
  <2> QED BY <1>0, <2>1, <2>2, <2>3, <2>4, RowChanges
<1>6. CASE CreateFails(e)
  <2>1. spent' \in [Disturbance -> Nat]
    BY <1>0, <1>6, SpendTypes DEF CreateFails, RestOK, Disturbance
  <2>2. [env[e] EXCEPT !.status = "error"] \in EnvRow
    BY <1>0 DEF EnvRow, EnvironmentStatus
  <2>3. env' = env \/ env' = [env EXCEPT ![e] = [env[e] EXCEPT !.status = "error"]]
    BY <1>6 DEF CreateFails
  <2> QED BY <1>0, <1>6, <2>1, <2>2, <2>3 DEF CreateFails, RestOK, ThreadsOK
<1>7. \A row \in EnvRow, b \in BOOLEAN : Settled(row, b) \in EnvRow
  BY DEF Settled, EnvRow, EnvironmentStatus
<1>8. op[e].aborted \in BOOLEAN /\ op[e].path \in Paths \union {None}
  BY <1>0 DEF Operation
<1>9. CASE CreateBinds(e)
  <2> DEFINE bound == [env[e] EXCEPT !.claim = op[e].path, !.path = op[e].path]
  <2>1. bound \in EnvRow
    BY <1>0, <1>8 DEF EnvRow
  <2>2. /\ env' = [env EXCEPT ![e] = Settled(bound, op[e].aborted)]
        /\ op' = [op EXCEPT ![e] = NoOp]
        /\ UNCHANGED <<thr, made, online, spent>>
    BY <1>9 DEF CreateBinds
  <2> HIDE DEF bound
  <2>3. Settled(bound, op[e].aborted) \in EnvRow
    BY <1>7, <1>8, <2>1
  <2>4. made' \subseteq Envs \X Paths /\ spent' \in [Disturbance -> Nat]
    BY <1>0, <2>2 DEF RestOK
  <2> QED BY <1>0, <2>2, <2>3, <2>4, RowChanges
<1>10. ASSUME NEW f \in Envs, CreateAdopts(e, f) PROVE TypeOK'
  <2> DEFINE status == IF env[f].status = "ready" THEN env[f].status ELSE env[e].status
             taken == [env[f] EXCEPT
                         !.owner = env[e].owner, !.attempt = env[e].attempt,
                         !.status = status,
                         !.td = env[e].td, !.retire = env[e].retire, !.claim = op[e].path]
             left == [env[e] EXCEPT !.owner = None, !.status = "destroyed",
                                    !.td = "removed", !.claim = None, !.path = None]
  <2>1. taken \in EnvRow
    <3>1. env[f] \in EnvRow /\ status \in EnvironmentStatus \union {"none"}
      BY <1>0 DEF RestOK, EnvRow
    <3> HIDE DEF status
    <3> QED BY <1>0, <1>8, <3>1 DEF EnvRow
  <2>2. left \in EnvRow
    BY <1>0 DEF EnvRow, EnvironmentStatus, Teardown
  <2>3. env' = [env EXCEPT ![e] = left, ![f] = Settled(taken, op[e].aborted)]
    BY <1>0, <1>10 DEF CreateAdopts, RestOK, AtPath
  <2> HIDE DEF taken, left
  <2> DEFINE settled == Settled(taken, op[e].aborted)
  <2>4. settled \in EnvRow
    BY <1>7, <1>8, <2>1
  <2>5. env' = [env EXCEPT ![e] = left, ![f] = settled]
    BY <2>3
  <2> HIDE DEF settled
  <2>8. env \in [Envs -> EnvRow]
    BY <1>0 DEF RestOK
  <2>9. env' \in [Envs -> EnvRow]
    BY <2>2, <2>4, <2>5, <2>8
  <2>6. op' = [op EXCEPT ![e] = NoOp] /\ UNCHANGED <<thr, made, online, spent>>
    BY <1>10 DEF CreateAdopts
  <2>7. op' \in [Envs -> Operation]
    BY <1>0, <2>6 DEF RestOK
  <2> QED BY <1>0, <2>6, <2>7, <2>9 DEF RestOK, ThreadsOK
<1>11. CASE CreateRefused(e)
  <2> DEFINE row == [env[e] EXCEPT !.td = "removed", !.claim = None, !.path = None]
  <2>1. row \in EnvRow
    BY <1>0 DEF EnvRow, Teardown
  <2>2. [row EXCEPT !.status = "error"] \in EnvRow
    BY <2>1 DEF EnvRow, EnvironmentStatus
  <2>3. \/ env' = env
        \/ env' = [env EXCEPT ![e] = row]
        \/ env' = [env EXCEPT ![e] = [row EXCEPT !.status = "error"]]
    BY <1>11 DEF CreateRefused
  <2> HIDE DEF row
  <2> QED BY <1>0, <1>11, <2>1, <2>2, <2>3 DEF CreateRefused, RestOK, ThreadsOK
<1> QED BY <1>1, <1>2, <1>4, <1>5, <1>6, <1>9, <1>10, <1>11 DEF Creation

LEMMA SetupTypes ==
  ASSUME TypeOK, NEW e \in Envs, Setup(e)
  PROVE  TypeOK'
PROOF
<1> USE TypeParts
<1>0. /\ ThreadsOK /\ RestOK
      /\ op[e] \in Operation /\ NoOp \in Operation
      /\ OpAt("attach", "sent") \in Operation
  BY OpAtTypes DEF RestOK
<1>1. CASE SendSetup(e)
  BY <1>0, <1>1 DEF SendSetup, RestOK, ThreadsOK
<1>2. CASE InterruptSetup(e)
  BY <1>0, <1>2, SetupFailureTypes DEF InterruptSetup, RestOK
<1>3. SetupOver(e) => op' \in [Envs -> Operation]
  <2>1. [op[e] EXCEPT !.pc = "done"] \in Operation
    BY <1>0 DEF Operation
  <2> QED BY <1>0, <2>1 DEF SetupOver, RestOK
<1>4. CASE SetupSucceeds(e)
  <2>1. "provision.succeeded" \in EnvironmentEvent
    BY DEF EnvironmentEvent
  <2>2. env' \in [Envs -> EnvRow]
    BY <1>0, <1>4, <2>1, EnvApplyFacts DEF SetupSucceeds, RestOK
  <2>3. ThreadsOK'
    BY <1>0, <1>4 DEF SetupSucceeds, ThreadsOK
  <2> QED BY <1>0, <1>3, <1>4, <2>2, <2>3 DEF SetupSucceeds, RestOK
<1>5. CASE SetupFails(e)
  <2>1. spent' \in [Disturbance -> Nat]
    BY <1>0, <1>5, SpendTypes DEF SetupFails, RestOK, Disturbance
  <2> QED BY <1>0, <1>3, <1>5, <2>1, SetupFailureTypes DEF SetupFails, RestOK
<1>6. CASE CancelSetup(e)
  BY <1>0, <1>6, CancelAskedTypes DEF CancelSetup, RestOK, ThreadsOK
<1>7. CancelOver(e) => op' \in [Envs -> Operation]
  <2>1. [op[e] EXCEPT !.cancel = "over"] \in Operation
    BY <1>0 DEF Operation
  <2> QED BY <1>0, <2>1 DEF CancelOver, RestOK
<1>8. CASE SetupCancelled(e)
  <2>1. "provision.cancelled" \in EnvironmentEvent
    BY DEF EnvironmentEvent
  <2>2. ThreadsOK'
    BY <1>0, <1>8, SettledTypes DEF SetupCancelled
  <2>3. env' \in [Envs -> EnvRow]
    BY <1>0, <1>8, <2>1, EnvApplyFacts DEF SetupCancelled, RestOK
  <2> QED BY <1>0, <1>7, <1>8, <2>2, <2>3 DEF SetupCancelled, RestOK
<1>9. CASE CancelFails(e)
  <2>1. ThreadsOK'
    BY <1>0, <1>9, SettledTypes DEF CancelFails
  <2>2. spent' \in [Disturbance -> Nat]
    BY <1>9, SpendTypes DEF CancelFails, Disturbance
  <2> QED BY <1>0, <1>7, <1>9, <2>1, <2>2 DEF CancelFails, RestOK
<1>10. CASE HostGrace(e)
  BY <1>0, <1>10, SetupFailureTypes DEF HostGrace, RestOK
<1> QED BY <1>1, <1>2, <1>4, <1>5, <1>6, <1>8, <1>9, <1>10 DEF Setup

LEMMA RemovalTypes ==
  ASSUME TypeOK, NEW e \in Envs, Removal(e) \/ DeleteEnv(e)
  PROVE  TypeOK'
PROOF
<1> USE TypeParts
<1>0. /\ ThreadsOK /\ RestOK
      /\ env[e] \in EnvRow /\ op[e] \in Operation /\ NoOp \in Operation
      /\ OpAt("remove", "slot") \in Operation
  BY OpAtTypes DEF RestOK
<1>1. CASE Sweep(e)
  <2>1. [op[e] EXCEPT !.aborted = TRUE] \in Operation
    BY <1>0 DEF Operation
  <2>2. \E o \in Operation : op' = [op EXCEPT ![e] = o]
    BY <1>0, <1>1, <2>1 DEF Sweep, RestOK
  <2>3. UNCHANGED <<env, thr, made, online, spent>>
    BY <1>1 DEF Sweep
  <2>4. made' \subseteq Envs \X Paths /\ spent' \in [Disturbance -> Nat]
    BY <1>0, <2>3 DEF RestOK
  <2> QED BY <1>0, <2>2, <2>3, <2>4, RowChanges
<1>2. CASE SlotSpares(e)
  <2>1. /\ [env[e] EXCEPT !.owner = None, !.claim = None, !.retire = "none",
                           !.td = "none"] \in EnvRow
        /\ [env[e] EXCEPT !.retire = "none"] \in EnvRow
    BY <1>0 DEF EnvRow, Teardown
  <2>2. \E row \in {env[e],
                    [env[e] EXCEPT !.owner = None, !.claim = None, !.retire = "none",
                                   !.td = "none"],
                    [env[e] EXCEPT !.retire = "none"]} :
          env' = [env EXCEPT ![e] = row]
    BY <1>2 DEF SlotSpares
  <2>3. op' = [op EXCEPT ![e] = NoOp] /\ UNCHANGED <<thr, made, online, spent>>
    BY <1>2 DEF SlotSpares
  <2>4. made' \subseteq Envs \X Paths /\ spent' \in [Disturbance -> Nat]
    BY <1>0, <2>3 DEF RestOK
  <2>5. \E row \in EnvRow : env' = [env EXCEPT ![e] = row]
    BY <1>0, <2>1, <2>2, Zenon
  <2> QED BY <1>0, <2>3, <2>4, <2>5, RowChanges
<1>3. CASE SlotWaits(e)
  <2>1. [env[e] EXCEPT !.retire =
            IF @ = "none" /\ e \in Lasting THEN @ ELSE "waiting"] \in EnvRow
    BY <1>0 DEF EnvRow
  <2> QED BY <1>0, <1>3, <2>1 DEF SlotWaits, RestOK, ThreadsOK
<1>4. ASSUME NEW row \in EnvRow PROVE GivenUp(row) \in EnvRow
  <2>1. PICK s \in EnvironmentStatus \union {"none"} :
          GivenUp(row) = [row EXCEPT !.status = s, !.td = "running"]
    BY DEF GivenUp, EnvRow, EnvironmentStatus
  <2> QED BY <2>1 DEF EnvRow, Teardown
<1>5. \A p \in {"hook", "busy"} : [op[e] EXCEPT !.pc = p] \in Operation
  BY <1>0 DEF Operation
<1>6. CASE SlotBegins(e)
  <2>1. [env[e] EXCEPT !.retire = "due",
                       !.td = IF env[e].td = "none" THEN "running" ELSE env[e].td] \in EnvRow
    BY <1>0 DEF EnvRow, Teardown
  <2>2. env' \in [Envs -> EnvRow]
    BY <1>0, <1>4, <1>6, <2>1 DEF SlotBegins, RestOK
  <2>3. op' \in [Envs -> Operation]
    BY <1>0, <1>5, <1>6 DEF SlotBegins, RestOK
  <2> QED BY <1>0, <1>6, <2>2, <2>3 DEF SlotBegins, RestOK, ThreadsOK
<1>7. CASE HookStopped(e)
  <2>1. env' \in [Envs -> EnvRow]
    BY <1>0, <1>4, <1>7 DEF HookStopped, RestOK
  <2>2. op' \in [Envs -> Operation]
    BY <1>0, <1>5, <1>7 DEF HookStopped, RestOK
  <2> QED BY <1>0, <1>7, <2>1, <2>2 DEF HookStopped, RestOK, ThreadsOK
<1>8. CASE HookUnknown(e)
  <2>1. spent' \in [Disturbance -> Nat]
    BY <1>0, <1>8, SpendTypes DEF HookUnknown, RestOK, Disturbance
  <2> QED BY <1>0, <1>8, <2>1 DEF HookUnknown, RestOK, ThreadsOK
<1>9. CASE RemoveSucceeds(e)
  <2> DEFINE row == [env[e] EXCEPT !.td = "removed", !.claim = None, !.retire = "none"]
  <2>1. row \in EnvRow
    BY <1>0 DEF EnvRow, Teardown
  <2>2. [env EXCEPT ![e] = row] \in [Envs -> EnvRow]
    BY <1>0, <2>1 DEF RestOK
  <2>3. "destroy.recorded" \in EnvironmentEvent
    BY DEF EnvironmentEvent
  <2>4. env' = EnvApply([env EXCEPT ![e] = row], thr, e, "destroy.recorded")
    BY <1>9 DEF RemoveSucceeds
  <2> HIDE DEF row
  <2>5. env' \in [Envs -> EnvRow]
    BY <2>2, <2>3, <2>4, EnvApplyFacts
  <2> QED BY <1>0, <1>9, <2>5 DEF RemoveSucceeds, RestOK, ThreadsOK
<1>10. CASE RemoveFails(e)
  <2>1. spent' \in [Disturbance -> Nat]
    BY <1>0, <1>10, SpendTypes DEF RemoveFails, RestOK, Disturbance
  <2>2. [env[e] EXCEPT !.td = "failed", !.retire = "waiting"] \in EnvRow
    BY <1>0 DEF EnvRow, Teardown
  <2>3. env' = [env EXCEPT ![e] = [env[e] EXCEPT !.td = "failed", !.retire = "waiting"]]
    BY <1>0, <1>10 DEF RemoveFails, RestOK
  <2> QED BY <1>0, <1>10, <2>1, <2>2, <2>3 DEF RemoveFails, RestOK, ThreadsOK
<1>11. CASE RetireDue(e)
  <2>1. [env[e] EXCEPT !.retire = "due"] \in EnvRow
    BY <1>0 DEF EnvRow
  <2> QED BY <1>0, <1>11, <2>1 DEF RetireDue, RestOK, ThreadsOK
<1>12. CASE DeleteEnv(e)
  <2>1. [env[e] EXCEPT !.td = "running", !.retire = "due"] \in EnvRow
    BY <1>0 DEF EnvRow, Teardown
  <2>2. env' = [env EXCEPT ![e] = [env[e] EXCEPT !.td = "running", !.retire = "due"]]
    BY <1>0, <1>12 DEF DeleteEnv, RestOK
  <2> QED BY <1>0, <1>12, <2>1, <2>2 DEF DeleteEnv, RestOK, ThreadsOK
<1> QED BY <1>1, <1>2, <1>3, <1>6, <1>7, <1>8, <1>9, <1>10, <1>11, <1>12 DEF Removal

LEMMA TypesKept == TypeOK /\ [Next]_vars => TypeOK'
PROOF
<1> SUFFICES ASSUME TypeOK, [Next]_vars PROVE TypeOK'
  OBVIOUS
<1> USE TypeParts
<1>0. ThreadsOK /\ RestOK /\ \A t \in Threads : Named(thr[t])
  BY DEF ThreadsOK
<1>1. ASSUME NEW t \in Threads, Request(t) \/ Placement(t) PROVE TypeOK'
  BY <1>1, RequestTypes, PlacementTypes
<1>2. ASSUME NEW t \in Threads, StopAgain(t) PROVE TypeOK'
  <2>1. "stop.settled" \in LifecycleEvent /\ "stop.settled" # "run.started"
    BY DEF LifecycleEvent
  <2> QED BY <1>0, <1>2, <2>1, EventTypes DEF StopAgain, RestOK
<1>3. ASSUME NEW t \in Threads, TurnEnds(t) PROVE TypeOK'
  <2>1. "run.succeeded" \in LifecycleEvent /\ "run.succeeded" # "run.started"
    BY DEF LifecycleEvent
  <2> QED BY <1>0, <1>3, <2>1, EventTypes DEF TurnEnds, RestOK
<1>4. ASSUME NEW e \in Envs, Creation(e) \/ Setup(e) \/ Removal(e) \/ DeleteEnv(e)
      PROVE  TypeOK'
  BY <1>4, CreationTypes, SetupTypes, RemovalTypes
<1>5. CASE HostDrops
  <2>1. spent' \in [Disturbance -> Nat]
    BY <1>5, SpendTypes DEF HostDrops, Disturbance
  <2> QED BY <1>0, <1>5, <2>1, OpAtTypes DEF HostDrops, RestOK, ThreadsOK
<1>6. CASE HostReturns
  <2>1. ThreadsOK'
    BY <1>0, <1>6, SettledTypes DEF HostReturns
  <2> QED BY <1>0, <1>6, <2>1 DEF HostReturns, RestOK
<1>7. CASE Crash
  <2>1. spent' \in [Disturbance -> Nat]
    BY <1>7, SpendTypes DEF Crash, Disturbance
  <2>2. \A t \in Threads : Named([thr[t] EXCEPT !.adv = None])
    BY <1>0 DEF Named, ThreadRow
  <2>3. ThreadsOK'
    BY <1>0, <1>7, <2>2 DEF Crash, ThreadsOK, Named
  <2> QED BY <1>0, <1>7, <2>1, <2>3, OpAtTypes DEF Crash, RestOK
<1>8. CASE UNCHANGED vars
  BY <1>0, <1>8 DEF vars, ThreadsOK, RestOK, Named
<1> QED BY <1>1, <1>2, <1>3, <1>4, <1>5, <1>6, <1>7, <1>8 DEF Next

LEMMA TypesAtInit == Init => TypeOK
PROOF
<1> SUFFICES ASSUME Init PROVE TypeOK
  OBVIOUS
<1>1. NoRow \in EnvRow
  BY DEF NoRow, EnvRow, Teardown
<1>2. NewThread \in ThreadRow /\ ~NewThread.attached /\ NewThread.status # "active"
  BY DEF NewThread, ThreadRow, ThreadStatus
<1>3. NoOp \in Operation
  BY OpAtTypes
<1> QED BY <1>1, <1>2, <1>3 DEF Init, TypeOK

\* The types, and that a thread with a turn names its row, for any number of
\* threads, rows and paths and any disturbances.
THEOREM EnvironmentTypesHold == Spec => []TypeOK
PROOF BY TypesAtInit, TypesKept, PTL DEF Spec
=============================================================================
