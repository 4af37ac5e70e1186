---------------------- MODULE EnvironmentOwners_proofs ----------------------
(***************************************************************************)
(* Whose a reserved row is: ReservationsAreWanted is an invariant of        *)
(* EnvironmentEngine for any values of its constants.                       *)
(*                                                                          *)
(* It is not inductive by itself.  A thread whose path is occupied fails    *)
(* without letting go of its row, so one has to know that the row it        *)
(* prepared has claimed its path; and a call that waits for the host goes   *)
(* on with the row it read, so that row must still be the thread's.         *)
(***************************************************************************)
EXTENDS EnvironmentClaims_proofs

\* The startup context of a thread.
StartupFits(th) ==
  /\ th.intent = "reuse" => th.env # None
  /\ th.intent = "provider" => ~th.attached
  /\ th.status = "starting" => ~th.arch
  /\ th.advStart <= th.start

\* The thread is on its way to the row it reserved, or lives somewhere.
LooksAfter(th) ==
  \/ th.status = "starting" /\ th.intent = "provider"
  \/ th.env # None /\ ~th.arch

\* A preparation that goes on.
Held(row) == row.owner # None /\ row.td = "none" /\ row.status # "error"

\* A path that was bound to a preparation was claimed for it.
ClaimFits(row) ==
  row.owner # None /\ row.td = "none" /\ row.path # None =>
    row.claim = row.path /\ row.status # "destroyed"

\* The thread has a call that waits for the host, and the call is current.
Calling(th) ==
  /\ th.adv # None
  /\ th.status = "starting"
  /\ th.intent = "provider"
  /\ th.env = None
  /\ th.start = th.advStart

\* The row is what such a call has read.
Offered(row, t) == row.owner = t /\ row.td = "none" /\ row.status # "creating"

AtHook(o) == o.kind = "remove" /\ o.pc = "hook"

OwnersFit ==
  /\ \A t \in Threads : StartupFits(thr[t])
  /\ \A t \in Threads : Calling(thr[t]) => Offered(env[thr[t].adv], t)
  /\ \A e \in Envs : ClaimFits(env[e])
  /\ \A e \in Envs : AtHook(op[e]) => Removing(env[e])
  /\ \A e \in Envs : Held(env[e]) => LooksAfter(thr[env[e].owner])

OwnersInv == ClaimsInv /\ OwnersFit

-----------------------------------------------------------------------------
(* Most steps keep what there is: a thread leaves no row it looks after,    *)
(* and a row is given to nobody.                                            *)

ThreadKeeps(t) ==
  /\ StartupFits(thr'[t])
  /\ LooksAfter(thr[t]) =>
       LooksAfter(thr'[t]) \/ \A e \in Envs : env'[e].owner = t => ~Held(env'[e])
  /\ Calling(thr'[t]) => Calling(thr[t]) /\ thr'[t].adv = thr[t].adv

RowKeeps(e) ==
  /\ Held(env'[e]) => Held(env[e]) /\ env'[e].owner = env[e].owner
  /\ ClaimFits(env'[e])
  /\ \A t \in Threads :
       Calling(thr'[t]) /\ thr'[t].adv = e /\ Offered(env[e], t) => Offered(env'[e], t)
  /\ AtHook(op'[e]) => Removing(env'[e])

LEMMA KeepsOwners ==
  ASSUME TypeOK, TypeOK', OwnersFit,
         \A t \in Threads : ThreadKeeps(t), \A e \in Envs : RowKeeps(e)
  PROVE  OwnersFit'
PROOF
<1>1. \A t \in Threads : Calling(thr'[t]) => Offered(env'[thr'[t].adv], t)
  <2> SUFFICES ASSUME NEW t \in Threads, Calling(thr'[t])
               PROVE  Offered(env'[thr'[t].adv], t)
    OBVIOUS
  <2>1. Calling(thr[t]) /\ thr'[t].adv = thr[t].adv
    BY DEF ThreadKeeps
  <2>2. thr[t].adv \in Envs
    BY <2>1 DEF TypeOK, ThreadRow, Calling
  <2>3. Offered(env[thr[t].adv], t)
    BY <2>1 DEF OwnersFit
  <2> QED BY <2>1, <2>2, <2>3 DEF RowKeeps
<1>2. \A e \in Envs : Held(env'[e]) => LooksAfter(thr'[env'[e].owner])
  <2> SUFFICES ASSUME NEW e \in Envs, Held(env'[e])
               PROVE  LooksAfter(thr'[env'[e].owner])
    OBVIOUS
  <2>1. Held(env[e]) /\ env'[e].owner = env[e].owner
    BY DEF RowKeeps
  <2>2. LooksAfter(thr[env[e].owner])
    BY <2>1 DEF OwnersFit
  <2>3. env[e].owner \in Threads
    BY <2>1 DEF TypeOK, EnvRow, Held
  <2> QED BY <2>1, <2>2, <2>3 DEF ThreadKeeps
<1> QED BY <1>1, <1>2 DEF OwnersFit, ThreadKeeps, RowKeeps

\* What does not change keeps.
LEMMA SameThreadKeeps ==
  ASSUME OwnersFit, NEW t \in Threads, thr'[t] = thr[t]
  PROVE  ThreadKeeps(t)
PROOF BY DEF OwnersFit, ThreadKeeps

LEMMA SameRowKeeps ==
  ASSUME OwnersFit, NEW e \in Envs, env'[e] = env[e],
         AtHook(op'[e]) => AtHook(op[e])
  PROVE  RowKeeps(e)
PROOF BY DEF OwnersFit, RowKeeps

\* The end of the call.
LEMMA CallEndsKeeps ==
  ASSUME TypeOK, OwnersFit, NEW t \in Threads,
         thr'[t] = [thr[t] EXCEPT !.adv = None]
  PROVE  ThreadKeeps(t)
PROOF BY DEF TypeOK, ThreadRow, OwnersFit, StartupFits, ThreadKeeps, LooksAfter, Calling

\* What an event leaves of a thread.
LEMMA ApplyLeaves ==
  ASSUME NEW th \in ThreadRow, NEW event \in LifecycleEvent
  PROVE  LET new == ThreadApply(th, event) IN
         /\ new \in ThreadRow
         /\ new.env = th.env /\ new.arch = th.arch
         /\ new.start = th.start /\ new.advStart = th.advStart /\ new.adv = th.adv
         /\ new.attached => th.attached
         /\ new.intent \in {th.intent, "none"}
         /\ event # "run.preparing" /\ new.status = "starting" => new = th
         /\ event \in {"stop.requested", "run.failed"} => new.status # "starting"
PROOF
<1> DEFINE s == After(th.status, event, th.arch)
<1>1. /\ s \in ThreadStatus
      /\ event # "run.preparing" /\ s # th.status => s # "starting"
      /\ event \in {"stop.requested", "run.failed"} => s # "starting"
  BY DEF After, Applies, Superseded, Sources, Target, LifecycleEvent, ThreadStatus, ThreadRow
<1> HIDE DEF s
<1>2. ASSUME NEW new,
             \/ s = th.status /\ new = th
             \/ /\ s # th.status
                /\ \/ new = [th EXCEPT !.status = s, !.intent = "none", !.attached = FALSE]
                   \/ new = [th EXCEPT !.status = s]
      PROVE  /\ new \in ThreadRow
             /\ new.env = th.env /\ new.arch = th.arch
             /\ new.start = th.start /\ new.advStart = th.advStart /\ new.adv = th.adv
             /\ new.attached => th.attached
             /\ new.intent \in {th.intent, "none"}
             /\ event # "run.preparing" /\ new.status = "starting" => new = th
             /\ event \in {"stop.requested", "run.failed"} => new.status # "starting"
  <2>1. CASE s = th.status /\ new = th
    BY <1>1, <2>1
  <2>2. CASE s # th.status /\ new = [th EXCEPT !.status = s]
    BY <1>1, <2>2 DEF ThreadRow
  <2>3. CASE /\ s # th.status
             /\ new = [th EXCEPT !.status = s, !.intent = "none", !.attached = FALSE]
    BY <1>1, <2>3 DEF ThreadRow
  <2> QED BY <1>2, <2>1, <2>2, <2>3
<1>3. \/ s = th.status /\ ThreadApply(th, event) = th
      \/ /\ s # th.status
         /\ \/ ThreadApply(th, event)
                  = [th EXCEPT !.status = s, !.intent = "none", !.attached = FALSE]
            \/ ThreadApply(th, event) = [th EXCEPT !.status = s]
  BY DEF ThreadApply, s
<1> QED BY <1>2, <1>3

\* An event for a thread that does not look after a reservation.
LEMMA EventKeeps ==
  ASSUME TypeOK, OwnersFit, NEW t \in Threads,
         NEW event \in LifecycleEvent \ {"run.preparing"},
         \/ thr'[t] = ThreadApply(thr[t], event)
         \/ thr'[t] = [ThreadApply(thr[t], event) EXCEPT !.adv = None],
         thr[t].status # "starting" \/ thr[t].env # None
  PROVE  ThreadKeeps(t)
PROOF
<1> DEFINE new == ThreadApply(thr[t], event)
<1>0. thr[t] \in ThreadRow /\ StartupFits(thr[t])
  BY DEF TypeOK, OwnersFit
<1>1. /\ new \in ThreadRow
      /\ new.env = thr[t].env /\ new.arch = thr[t].arch
      /\ new.start = thr[t].start /\ new.advStart = thr[t].advStart
      /\ new.attached => thr[t].attached
      /\ new.intent \in {thr[t].intent, "none"}
      /\ new.status = "starting" => new = thr[t]
  BY <1>0, ApplyLeaves
<1>2. thr'[t] = new \/ thr'[t] = [new EXCEPT !.adv = None]
  OBVIOUS
<1> HIDE DEF new
<1>3. /\ thr'[t].env = new.env /\ thr'[t].arch = new.arch
      /\ thr'[t].start = new.start /\ thr'[t].advStart = new.advStart
      /\ thr'[t].attached = new.attached /\ thr'[t].intent = new.intent
      /\ thr'[t].status = new.status
  BY <1>1, <1>2 DEF ThreadRow
<1>4. StartupFits(thr'[t])
  BY <1>0, <1>1, <1>3 DEF StartupFits
<1>5. LooksAfter(thr[t]) => LooksAfter(thr'[t])
  BY <1>0, <1>1, <1>3 DEF LooksAfter, StartupFits
<1>6. ~Calling(thr'[t])
  BY <1>1, <1>3 DEF Calling
<1> QED BY <1>4, <1>5, <1>6 DEF ThreadKeeps

\* A thread that takes up a message counts its starts on.
LEMMA BeginStartLeaves ==
  ASSUME NEW th \in ThreadRow, NEW intent \in {"none", "provider", "reuse"},
         NEW e \in Envs \union {None},
         th.status \in {"pending", "idle", "error"}, ~th.arch,
         th.advStart <= th.start
  PROVE  LET new == BeginStart(th, intent, e) IN
         /\ new.status = "starting" /\ new.env = e /\ new.intent = intent
         /\ ~new.attached /\ ~new.arch
         /\ new.advStart <= new.start /\ new.advStart # new.start
PROOF
<1> DEFINE mid == ThreadApply(th, "run.preparing")
           n   == mid.start + 1
<1>1. mid = [th EXCEPT !.status = "starting"]
  <2>1. After(th.status, "run.preparing", th.arch) = "starting"
    BY DEF After, Applies, Superseded, Sources, Target
  <2> QED BY <2>1 DEF ThreadApply
<1>2. BeginStart(th, intent, e)
        = [mid EXCEPT !.env = e, !.intent = intent, !.attached = FALSE,
                      !.halted = FALSE, !.start = n]
  BY DEF BeginStart
<1>3. /\ mid \in ThreadRow /\ mid.status = "starting" /\ mid.arch = th.arch
      /\ mid.advStart = th.advStart
      /\ mid.advStart <= n /\ mid.advStart # n
  <2>1. /\ mid \in ThreadRow /\ mid.status = "starting" /\ mid.arch = th.arch
        /\ mid.advStart = th.advStart /\ mid.start = th.start
    <3> HIDE DEF mid
    <3> QED BY <1>1 DEF ThreadRow, ThreadStatus
  <2>2. th.start \in Nat /\ th.advStart \in Nat
    BY DEF ThreadRow
  <2> HIDE DEF mid
  <2> QED BY <2>1, <2>2
<1> HIDE DEF mid, n
<1>4. ASSUME NEW new,
             new = [mid EXCEPT !.env = e, !.intent = intent, !.attached = FALSE,
                               !.halted = FALSE, !.start = n]
      PROVE  /\ new.status = "starting" /\ new.env = e /\ new.intent = intent
             /\ ~new.attached /\ ~new.arch
             /\ new.advStart <= new.start /\ new.advStart # new.start
  BY <1>3, <1>4 DEF ThreadRow
<1> QED BY <1>2, <1>4

LEMMA BeginStartKeeps ==
  ASSUME TypeOK, OwnersFit, NEW t \in Threads, CanSend(t),
         NEW intent \in {"provider", "reuse"},
         intent = "reuse" => thr[t].env # None,
         thr'[t] = BeginStart(thr[t], intent, thr[t].env)
  PROVE  ThreadKeeps(t)
PROOF
<1>1. thr[t] \in ThreadRow /\ StartupFits(thr[t]) /\ thr[t].env \in Envs \union {None}
  BY DEF TypeOK, OwnersFit, ThreadRow
<1>2. /\ thr'[t].status = "starting" /\ thr'[t].env = thr[t].env
      /\ thr'[t].intent = intent /\ ~thr'[t].attached /\ ~thr'[t].arch
      /\ thr'[t].advStart <= thr'[t].start /\ thr'[t].advStart # thr'[t].start
  BY <1>1, BeginStartLeaves DEF CanSend, StartupFits
<1> QED BY <1>2 DEF ThreadKeeps, StartupFits, LooksAfter, Calling

\* A stop, or an archival, leaves a thread that does not start.
LEMMA StoppedLeaves ==
  ASSUME TypeOK, NEW t \in Threads
  PROVE  /\ Stopped(t) \in ThreadRow
         /\ Stopped(t).status # "starting"
         /\ Stopped(t).env = thr[t].env /\ Stopped(t).arch = thr[t].arch
         /\ Stopped(t).start = thr[t].start /\ Stopped(t).advStart = thr[t].advStart
         /\ Stopped(t).attached => thr[t].attached
         /\ Stopped(t).intent \in {thr[t].intent, "none"}
PROOF
<1> DEFINE new == ThreadApply(thr[t], "stop.requested")
           h   == new.halted \/ thr[t].status = "starting"
           asked == [new EXCEPT !.halted = h]
<1>1. thr[t] \in ThreadRow /\ {"stop.requested", "stop.settled"} \subseteq LifecycleEvent
  BY DEF TypeOK, LifecycleEvent
<1>2. /\ new \in ThreadRow /\ new.status # "starting"
      /\ new.env = thr[t].env /\ new.arch = thr[t].arch
      /\ new.start = thr[t].start /\ new.advStart = thr[t].advStart
      /\ new.attached => thr[t].attached
      /\ new.intent \in {thr[t].intent, "none"}
  BY <1>1, ApplyLeaves
<1>3. h \in BOOLEAN
  BY <1>2 DEF ThreadRow
<1>4. Stopped(t) = asked \/ Stopped(t) = ThreadApply(asked, "stop.settled")
  BY DEF Stopped
<1> HIDE DEF new, h
<1>5. /\ asked \in ThreadRow /\ asked.status # "starting"
      /\ asked.env = new.env /\ asked.arch = new.arch
      /\ asked.start = new.start /\ asked.advStart = new.advStart
      /\ asked.attached = new.attached /\ asked.intent = new.intent
  BY <1>2, <1>3 DEF ThreadRow
<1> HIDE DEF asked
<1>6. CASE Stopped(t) = asked
  BY <1>2, <1>5, <1>6
<1>7. CASE Stopped(t) = ThreadApply(asked, "stop.settled")
  <2> DEFINE over == ThreadApply(asked, "stop.settled")
  <2>1. /\ over \in ThreadRow
        /\ over.env = asked.env /\ over.arch = asked.arch
        /\ over.start = asked.start /\ over.advStart = asked.advStart
        /\ over.attached => asked.attached
        /\ over.intent \in {asked.intent, "none"}
        /\ over.status = "starting" => over = asked
    BY <1>1, <1>5, ApplyLeaves
  <2> HIDE DEF over
  <2>2. Stopped(t) = over
    BY <1>7 DEF over
  <2> QED BY <1>2, <1>5, <2>1, <2>2
<1> QED BY <1>4, <1>6, <1>7

\* A thread that is stopped, and may be archived, with the cancellation of the
\* row it was preparing.
LEMMA StoppedKeeps ==
  ASSUME TypeOK, OwnersFit, NEW t \in Threads,
         \/ thr'[t] = Stopped(t)
         \/ thr'[t] = [Stopped(t) EXCEPT !.arch = TRUE]
         \/ /\ thr'[t] = [thr[t] EXCEPT !.arch = TRUE]
            /\ thr[t].status # "starting",
         \/ \A e \in Envs : env'[e].owner = t => ~Held(env'[e])
         \/ thr'[t] = Stopped(t) /\ ~Abandons(t)
  PROVE  ThreadKeeps(t)
PROOF
<1>0. thr[t] \in ThreadRow /\ StartupFits(thr[t])
  BY DEF TypeOK, OwnersFit
<1>1. /\ thr'[t].status # "starting"
      /\ thr'[t].env = thr[t].env
      /\ thr'[t].start = thr[t].start /\ thr'[t].advStart = thr[t].advStart
      /\ thr'[t].attached => thr[t].attached
      /\ thr'[t].intent \in {thr[t].intent, "none"}
  <2>1. CASE thr'[t] = [thr[t] EXCEPT !.arch = TRUE] /\ thr[t].status # "starting"
    BY <1>0, <2>1 DEF ThreadRow
  <2>2. CASE thr'[t] = Stopped(t)
    BY <2>2, StoppedLeaves
  <2>3. CASE thr'[t] = [Stopped(t) EXCEPT !.arch = TRUE]
    <3> DEFINE th == Stopped(t)
    <3>1. /\ th \in ThreadRow
          /\ th.status # "starting"
          /\ th.env = thr[t].env
          /\ th.start = thr[t].start /\ th.advStart = thr[t].advStart
          /\ th.attached => thr[t].attached
          /\ th.intent \in {thr[t].intent, "none"}
      BY StoppedLeaves
    <3>2. thr'[t] = [th EXCEPT !.arch = TRUE]
      BY <2>3
    <3> HIDE DEF th
    <3> QED BY <3>1, <3>2 DEF ThreadRow
  <2> QED BY <2>1, <2>2, <2>3
<1>2. StartupFits(thr'[t]) /\ ~Calling(thr'[t])
  BY <1>0, <1>1 DEF StartupFits, Calling
<1>3. LooksAfter(thr[t]) =>
        LooksAfter(thr'[t]) \/ \A e \in Envs : env'[e].owner = t => ~Held(env'[e])
  <2>1. CASE thr'[t] = Stopped(t) /\ ~Abandons(t)
    BY <1>0, <2>1, StoppedLeaves DEF LooksAfter, Abandons, StartupFits
  <2> QED BY <2>1
<1> QED BY <1>2, <1>3 DEF ThreadKeeps

\* A preparation is cancelled: the thread holds no row.
LEMMA CancelledHoldsNothing ==
  ASSUME TypeOK, OneOwner, NEW t \in Threads, env' = MarkCancelled(env, t)
  PROVE  \A e \in Envs : env'[e].owner = t => ~Held(env'[e])
PROOF
<1> SUFFICES ASSUME NEW e \in Envs, env'[e].owner = t PROVE ~Held(env'[e])
  OBVIOUS
<1>1. env \in [Envs -> EnvRow] /\ t # None
  BY ConstantsAssumption DEF TypeOK
<1>2. env[e].owner = t
  BY <1>1, MarkCancelledFacts
<1>3. e = Preparing(env, t)
  BY <1>1, <1>2, PreparingFinds DEF OneOwner
<1>4. env'[e].td # "none"
  BY <1>1, <1>3 DEF MarkCancelled, EnvRow
<1> QED BY <1>4 DEF Held

LEMMA CancelledRowKeeps ==
  ASSUME TypeOK, OwnersFit, NEW t \in Threads, NEW e \in Envs,
         env' = MarkCancelled(env, t), ~Calling(thr'[t]),
         AtHook(op'[e]) => AtHook(op[e])
  PROVE  RowKeeps(e)
PROOF
<1>0. env \in [Envs -> EnvRow] /\ env[e] \in EnvRow
  BY DEF TypeOK
<1>1. CASE e = Preparing(env, t)
  <2>1. env[e].owner = t
    BY <1>1, PreparingFinds, ConstantsAssumption
  <2>2. /\ env'[e].owner = env[e].owner
        /\ env'[e].claim = env[e].claim /\ env'[e].path = env[e].path
        /\ env'[e].td # "none"
        /\ Removing(env[e]) => Removing(env'[e])
    BY <1>0, <1>1, MarkCancelledFacts DEF MarkCancelled, EnvRow, Removing
  <2> QED BY <2>1, <2>2 DEF RowKeeps, Held, ClaimFits, Offered, OwnersFit
<1>2. CASE e # Preparing(env, t)
  BY <1>2, SameRowKeeps DEF MarkCancelled
<1> QED BY <1>1, <1>2

-----------------------------------------------------------------------------
(* The actions: one lemma per group, one step per action. *)

\* One thread changes, and no row.
LEMMA ThreadStepKeeps ==
  ASSUME TypeOK, TypeOK', OwnersFit, NEW t \in Threads,
         NEW th, thr' = [thr EXCEPT ![t] = th], ThreadKeeps(t),
         UNCHANGED <<env, op>>
  PROVE  OwnersFit'
PROOF
<1>1. \A u \in Threads : ThreadKeeps(u)
  BY SameThreadKeeps DEF TypeOK
<1>2. \A e \in Envs : RowKeeps(e)
  BY SameRowKeeps
<1> QED BY <1>1, <1>2, KeepsOwners

LEMMA RequestKeepsOwners ==
  ASSUME OwnersInv, TypeOK', NEW t \in Threads, Request(t)
  PROVE  OwnersFit'
PROOF
<1>0. /\ TypeOK /\ OwnersFit /\ OneOwner
      /\ thr \in [Threads -> ThreadRow] /\ op \in [Envs -> Operation]
      /\ thr[t] \in ThreadRow /\ StartupFits(thr[t])
  BY DEF OwnersInv, ClaimsInv, RowsApart, TypeOK, OwnersFit
<1>1. ASSUME NEW e \in Envs, CreateIn(t, e) PROVE OwnersFit'
  <2>1. thr' = [thr EXCEPT ![t] = [thr[t] EXCEPT !.env = e]]
    BY <1>0, <1>1 DEF CreateIn
  <2>2. ThreadKeeps(t)
    BY <1>0, <1>1, <2>1, ConstantsAssumption
       DEF CreateIn, CanSend, ThreadRow, ThreadKeeps, StartupFits, LooksAfter, Calling
  <2> QED BY <1>0, <1>1, <2>1, <2>2, ThreadStepKeeps DEF CreateIn
<1>2. CASE StartFirst(t)
  <2> DEFINE intent == IF thr[t].env = None THEN "provider" ELSE "reuse"
  <2>1. thr' = [thr EXCEPT ![t] = BeginStart(thr[t], intent, thr[t].env)]
    BY <1>0, <1>2 DEF StartFirst
  <2>2. ThreadKeeps(t)
    BY <1>0, <1>2, <2>1, BeginStartKeeps DEF StartFirst
  <2> QED BY <1>0, <1>2, <2>1, <2>2, ThreadStepKeeps DEF StartFirst
<1>3. CASE Restart(t)
  <2>1. thr[t].env = None /\ CanSend(t) /\ thr[t].status # "starting"
    BY <1>3 DEF Restart, CanSend
  <2>2. ThreadKeeps(t)
    <3>1. CASE thr' = thr
      BY <1>0, <3>1, SameThreadKeeps
    <3>2. CASE thr' # thr
      <4>1. thr'[t] = BeginStart(thr[t], "provider", thr[t].env)
        BY <1>0, <1>3, <2>1, <3>2 DEF Restart
      <4> QED BY <1>0, <2>1, <4>1, BeginStartKeeps
    <3> QED BY <3>1, <3>2
  <2>3. \A u \in Threads \ {t} : thr'[u] = thr[u]
    BY <1>0, <1>3 DEF Restart
  <2>4. ~Calling(thr'[t])
    BY <2>1, <2>2 DEF ThreadKeeps, Calling
  <2>5. \A e \in Envs : AtHook(op'[e]) => AtHook(op[e])
    BY <1>0, <1>3, AbortCreationFacts DEF Restart, AtHook
  <2>6. \A e \in Envs : RowKeeps(e)
    BY <1>0, <1>3, <2>4, <2>5, CancelledRowKeeps DEF Restart
  <2> QED BY <1>0, <2>2, <2>3, <2>6, SameThreadKeeps, KeepsOwners
<1>4. CASE StartTurnInPlace(t)
  <2>1. thr' = [thr EXCEPT ![t] = ThreadApply(thr[t], "run.started")]
    BY <1>4 DEF StartTurnInPlace
  <2>2. ThreadKeeps(t)
    <3>1. "run.started" \in LifecycleEvent \ {"run.preparing"}
      BY DEF LifecycleEvent
    <3>2. thr'[t] = ThreadApply(thr[t], "run.started") /\ thr[t].env # None
      BY <1>0, <1>4, <2>1 DEF StartTurnInPlace
    <3> QED BY <1>0, <3>1, <3>2, EventKeeps
  <2> QED BY <1>0, <1>4, <2>1, <2>2, ThreadStepKeeps DEF StartTurnInPlace
<1>5. CASE StartReprovisioning(t)
  <2>1. PICK intent \in {"provider", "reuse"} :
          thr' = [thr EXCEPT ![t] = BeginStart(thr[t], intent, thr[t].env)]
    BY <1>5 DEF StartReprovisioning
  <2>2. CanSend(t) /\ thr[t].env # None
    BY <1>5 DEF StartReprovisioning
  <2>3. thr'[t] = BeginStart(thr[t], intent, thr[t].env)
    BY <1>0, <2>1
  <2>4. ThreadKeeps(t)
    BY <1>0, <2>2, <2>3, BeginStartKeeps
  <2> QED BY <1>0, <1>5, <2>1, <2>4, ThreadStepKeeps DEF StartReprovisioning
<1>6. CASE Stop(t)
  <2>1. thr' = [thr EXCEPT ![t] = Stopped(t)] /\ thr'[t] = Stopped(t)
        /\ \A u \in Threads \ {t} : thr'[u] = thr[u]
    BY <1>0, <1>6 DEF Stop
  <2>2. ~Calling(thr'[t])
    BY <1>0, <2>1, StoppedLeaves DEF Calling
  <2>3. ASSUME NEW e \in Envs, AtHook(op'[e]) PROVE AtHook(op[e])
    <3> DEFINE o == IF Abandons(t) THEN AbortCreation(env, op, t)[e] ELSE op[e]
    <3>1. o \in Operation /\ o.kind = op[e].kind /\ o.pc = op[e].pc
      BY <1>0, AbortCreationFacts
    <3>2. \/ op'[e] = o
          \/ op'[e] = CancelAsked(o) /\ op[e].kind \in {"none", "attach"}
      BY <1>6 DEF Stop, Cancellable
    <3> HIDE DEF o
    <3>3. o.kind \in {"none", "attach"} => CancelAsked(o).kind = "attach"
      BY <3>1 DEF CancelAsked, OpAt, NoOp, Operation
    <3> QED BY <2>3, <3>1, <3>2, <3>3 DEF AtHook
  <2>4. CASE Abandons(t)
    <3>1. env' = MarkCancelled(env, t)
      BY <1>6, <2>4 DEF Stop
    <3>2. ThreadKeeps(t)
      BY <1>0, <2>1, <3>1, CancelledHoldsNothing, StoppedKeeps
    <3>3. \A e \in Envs : RowKeeps(e)
      BY <1>0, <2>2, <2>3, <3>1, CancelledRowKeeps
    <3> QED BY <1>0, <2>1, <3>2, <3>3, SameThreadKeeps, KeepsOwners
  <2>5. CASE ~Abandons(t)
    <3>1. env' = env
      BY <1>6, <2>5 DEF Stop
    <3>2. ThreadKeeps(t)
      BY <1>0, <2>1, <2>5, StoppedKeeps
    <3>3. \A e \in Envs : RowKeeps(e)
      BY <1>0, <2>3, <3>1, SameRowKeeps
    <3> QED BY <1>0, <2>1, <3>2, <3>3, SameThreadKeeps, KeepsOwners
  <2> QED BY <2>4, <2>5
<1>7. CASE Archive(t)
  <2>1. /\ \/ thr'[t] = [Stopped(t) EXCEPT !.arch = TRUE]
           \/ thr'[t] = [thr[t] EXCEPT !.arch = TRUE] /\ thr[t].status # "starting"
        /\ \A u \in Threads \ {t} : thr'[u] = thr[u]
        /\ env' = MarkCancelled(env, t)
        /\ op' = AbortCreation(env, op, t)
    BY <1>0, <1>7 DEF Archive
  <2>2. ThreadKeeps(t)
    BY <1>0, <2>1, CancelledHoldsNothing, StoppedKeeps
  <2>3. ~Calling(thr'[t])
    <3>1. CASE thr'[t] = [Stopped(t) EXCEPT !.arch = TRUE]
      BY <3>1, <1>0, StoppedLeaves DEF Calling, ThreadRow
    <3>2. CASE thr'[t] = [thr[t] EXCEPT !.arch = TRUE] /\ thr[t].status # "starting"
      BY <3>2, <1>0 DEF Calling, ThreadRow
    <3> QED BY <2>1, <3>1, <3>2
  <2>4. \A e \in Envs : AtHook(op'[e]) => AtHook(op[e])
    BY <1>0, <2>1, AbortCreationFacts DEF AtHook
  <2>5. \A e \in Envs : RowKeeps(e)
    BY <1>0, <2>1, <2>3, <2>4, CancelledRowKeeps
  <2> QED BY <1>0, <2>1, <2>2, <2>5, SameThreadKeeps, KeepsOwners
<1>8. CASE Unarchive(t)
  <2>1. /\ thr'[t] = [thr[t] EXCEPT !.arch = FALSE] /\ thr[t].arch
        /\ \A u \in Threads \ {t} : thr'[u] = thr[u]
        /\ op' = op
    BY <1>0, <1>8 DEF Unarchive
  <2>2. ThreadKeeps(t)
    BY <1>0, <2>1 DEF ThreadRow, ThreadKeeps, StartupFits, LooksAfter, Calling
  <2>3. ASSUME NEW e \in Envs PROVE RowKeeps(e)
    <3>1. env[e] \in EnvRow
      BY <1>0 DEF TypeOK
    <3>2. \/ env'[e] = env[e]
          \/ env'[e] = [env[e] EXCEPT !.retire = "none"]
      BY <1>8 DEF Unarchive, RefreshedRetirement
    <3>3. CASE env'[e] = [env[e] EXCEPT !.retire = "none"]
      <4>1. /\ env'[e].owner = env[e].owner /\ env'[e].td = env[e].td
            /\ env'[e].status = env[e].status /\ env'[e].path = env[e].path
            /\ env'[e].claim = env[e].claim
        BY <3>1, <3>3 DEF EnvRow
      <4> QED BY <1>0, <2>1, <4>1
              DEF OwnersFit, RowKeeps, Held, ClaimFits, Offered, Removing
    <3> QED BY <1>0, <2>1, <3>2, <3>3, SameRowKeeps
  <2> QED BY <1>0, <2>1, <2>2, <2>3, SameThreadKeeps, KeepsOwners
<1> QED BY <1>1, <1>2, <1>3, <1>4, <1>5, <1>6, <1>7, <1>8 DEF Request

\* The path of a row a thread prepared is free for that thread: it has claimed
\* it, and it prepares nothing else.
LEMMA OwnRowIsFree ==
  ASSUME OwnersInv, NEW t \in Threads, NEW e \in Envs,
         env[e].owner = t, env[e].td = "none"
  PROVE  ~BusyFor(t, e)
PROOF
<1>0. OneOwner /\ ClaimsAreExclusive /\ ClaimFits(env[e]) /\ t # None
  BY ConstantsAssumption DEF OwnersInv, ClaimsInv, RowsApart, OwnersFit
<1>1. Preparing(env, t) = e
  BY <1>0, PreparingFinds DEF OneOwner
<1>2. ~Occupied(e, e)
  BY <1>0 DEF Occupied, PathClaimed, ClaimFits, ClaimsAreExclusive
<1> QED BY <1>1, <1>2 DEF BusyFor

\* A thread that fails lives somewhere, or has no row it could hold.
LEMMA FailureKeeps ==
  ASSUME OwnersInv, TypeOK', NEW t \in Threads, FailThread(t),
         UNCHANGED <<env, op>>,
         \/ thr[t].env # None
         \/ \A e \in Envs : env[e].owner = t => ~Held(env[e])
  PROVE  OwnersFit'
PROOF
<1>0. TypeOK /\ OwnersFit /\ thr[t] \in ThreadRow /\ StartupFits(thr[t])
      /\ "run.failed" \in LifecycleEvent \ {"run.preparing"}
  BY DEF OwnersInv, ClaimsInv, TypeOK, OwnersFit, LifecycleEvent
<1> DEFINE mid == ThreadApply(thr[t], "run.failed")
           th  == [mid EXCEPT !.adv = None]
<1>1. thr' = [thr EXCEPT ![t] = th]
  BY DEF FailThread
<1>2. thr'[t] = th
  BY <1>0, <1>1 DEF TypeOK
<1>3. ThreadKeeps(t)
  <2>1. CASE thr[t].env # None
    BY <1>0, <1>2, <2>1, EventKeeps
  <2>2. CASE \A e \in Envs : env[e].owner = t => ~Held(env[e])
    <3>1. /\ mid \in ThreadRow
          /\ mid.env = thr[t].env /\ mid.arch = thr[t].arch
          /\ mid.start = thr[t].start /\ mid.advStart = thr[t].advStart
          /\ mid.attached => thr[t].attached
          /\ mid.intent \in {thr[t].intent, "none"}
          /\ mid.status # "starting"
      BY <1>0, ApplyLeaves
    <3> HIDE DEF mid
    <3>2. /\ th.env = mid.env /\ th.arch = mid.arch
          /\ th.start = mid.start /\ th.advStart = mid.advStart
          /\ th.attached = mid.attached /\ th.intent = mid.intent
          /\ th.status = mid.status
      BY <3>1 DEF ThreadRow
    <3> HIDE DEF th
    <3>3. StartupFits(th) /\ ~Calling(th)
      BY <1>0, <3>1, <3>2 DEF StartupFits, Calling
    <3> QED BY <1>2, <2>2, <3>3 DEF ThreadKeeps
  <2> QED BY <2>1, <2>2
<1> HIDE DEF th
<1> QED BY <1>0, <1>1, <1>3, ThreadStepKeeps

\* A row is reserved: its thread asks for it.
LEMMA ReserveKeepsOwners ==
  ASSUME OwnersInv, NEW t \in Threads, NEW e \in Envs, Reserve(t, e)
  PROVE  OwnersFit'
PROOF
<1> DEFINE own  == Preparing(env, t)
           last == IF own # None THEN env[own].attempt
                   ELSE IF thr[t].env # None THEN env[thr[t].env].attempt ELSE 0
           row  == [NoRow EXCEPT !.status = "creating", !.owner = t, !.attempt = last + 1]
<1>0. /\ TypeOK /\ OwnersFit
      /\ env \in [Envs -> EnvRow] /\ op \in [Envs -> Operation] /\ t # None
  BY ConstantsAssumption DEF OwnersInv, ClaimsInv, TypeOK
<1>1. /\ \A f \in Envs : env'[f] = IF f = e THEN row ELSE env[f]
      /\ \A f \in Envs : op'[f] = op[f] \/ (f = e /\ op'[f] = CreateOp(e, row))
      /\ thr' = thr
  BY <1>0 DEF Reserve
<1>2. row.owner = t /\ row.path = None
  BY DEF NoRow
<1>3. env[e].owner \in {t, None} /\ ~AtHook(op[e])
  <2>1. CASE own = None
    BY <2>1 DEF Reserve, Forgotten, AtHook, NoOp
  <2>2. CASE own # None
    <3>1. e = own /\ env[e].owner = t /\ env[e].td = "removed"
      BY <2>2, PreparingFinds DEF Reserve
    <3> QED BY <1>0, <3>1 DEF OwnersFit, Removing
  <2> QED BY <2>1, <2>2
<1>4. ~AtHook(CreateOp(e, row))
  <2> HIDE DEF row
  <2> QED BY DEF AtHook, CreateOp, OpAt, NoOp
<1>5. LooksAfter(thr[t]) /\ ~Calling(thr[t])
  BY DEF Reserve, Asking, LooksAfter, Calling
<1> HIDE DEF row
<1>6. \A u \in Threads : Calling(thr'[u]) => Offered(env'[thr'[u].adv], u)
  <2> SUFFICES ASSUME NEW u \in Threads, Calling(thr[u])
               PROVE  Offered(env'[thr[u].adv], u)
    BY <1>1
  <2>1. u # t /\ u # None /\ thr[u].adv \in Envs /\ Offered(env[thr[u].adv], u)
    BY <1>0, <1>5, ConstantsAssumption DEF OwnersFit, TypeOK, ThreadRow, Calling
  <2>2. thr[u].adv # e
    BY <1>3, <2>1 DEF Offered
  <2> QED BY <1>1, <2>1, <2>2
<1>7. \A f \in Envs : Held(env'[f]) => LooksAfter(thr'[env'[f].owner])
  BY <1>0, <1>1, <1>2, <1>5 DEF OwnersFit
<1>8. \A f \in Envs : ClaimFits(env'[f])
  BY <1>0, <1>1, <1>2 DEF OwnersFit, ClaimFits
<1>9. \A f \in Envs : AtHook(op'[f]) => Removing(env'[f])
  BY <1>0, <1>1, <1>3, <1>4 DEF OwnersFit
<1> QED BY <1>0, <1>1, <1>6, <1>7, <1>8, <1>9 DEF OwnersFit

\* A thread lives in the workspace it attached to.
LEMMA AttachedKeeps ==
  ASSUME TypeOK, OwnersFit, NEW t \in Threads, NEW e \in Envs,
         thr'[t] = Attached(thr[t], e)
  PROVE  ThreadKeeps(t) /\ ~Calling(thr'[t])
PROOF
<1>0. thr[t] \in ThreadRow /\ StartupFits(thr[t]) /\ e # None
  BY ConstantsAssumption DEF TypeOK, OwnersFit
<1>1. /\ thr'[t].env = e /\ thr'[t].status = thr[t].status
      /\ thr'[t].arch = thr[t].arch
      /\ thr'[t].start = thr[t].start /\ thr'[t].advStart = thr[t].advStart
      /\ thr'[t].intent = "provider" =>
           thr'[t].attached = thr[t].attached /\ thr[t].intent = "provider"
  <2>1. CASE thr[t].status = "starting"
    BY <1>0, <2>1 DEF Attached, ThreadRow
  <2>2. CASE thr[t].status # "starting"
    BY <1>0, <2>2 DEF Attached, ThreadRow
  <2> QED BY <2>1, <2>2
<1> QED BY <1>0, <1>1 DEF ThreadKeeps, StartupFits, LooksAfter, Calling

\* The row it attached to is nobody's any more, or still somebody else's.
LEMMA ReleasedKeeps ==
  ASSUME TypeOK, OwnersFit, NEW t \in Threads, NEW e \in Envs,
         \/ env'[e] = Released(env[e], t)
         \/ /\ env'[e] = Released(Reopened(env[e]), t)
            /\ env[e].status = "error" => env[e].owner = None,
         ~Calling(thr'[t]), op' = op
  PROVE  RowKeeps(e)
PROOF
<1>0. env[e] \in EnvRow /\ t # None
      /\ ClaimFits(env[e]) /\ (AtHook(op[e]) => Removing(env[e]))
  BY ConstantsAssumption DEF TypeOK, OwnersFit
<1>1. PICK row \in {env[e], Reopened(env[e])} :
        /\ env'[e] = Released(row, t)
        /\ row # env[e] => env[e].owner = None
  BY DEF Reopened
<1>2. /\ row \in EnvRow
      /\ row.owner = env[e].owner /\ row.td = env[e].td /\ row.claim = env[e].claim
      /\ row.path = env[e].path
  <2>1. CASE row = env[e]
    BY <1>0, <2>1
  <2>2. CASE row = [env[e] EXCEPT !.status = "provisioning", !.attempt = @ + 1]
    <3> DEFINE n == env[e].attempt + 1
    <3>1. n \in Nat
      BY <1>0 DEF EnvRow
    <3>2. row = [env[e] EXCEPT !.status = "provisioning", !.attempt = n]
      BY <2>2
    <3> HIDE DEF n
    <3> QED BY <1>0, <3>1, <3>2 DEF EnvRow, EnvironmentStatus
  <2> QED BY <1>1, <2>1, <2>2 DEF Reopened
<1>3. CASE env[e].owner = t
  <2>1. env'[e].owner = None /\ env'[e].td = env[e].td
    BY <1>1, <1>2, <1>3 DEF Released, EnvRow
  <2> QED BY <1>0, <1>3, <2>1 DEF RowKeeps, Held, ClaimFits, Offered, Removing
<1>4. CASE env[e].owner # t
  <2>1. env'[e] = row
    BY <1>1, <1>2, <1>4 DEF Released
  <2>2. CASE row = env[e]
    BY <2>1, <2>2, SameRowKeeps
  <2>3. CASE row # env[e]
    BY <1>0, <1>1, <1>2, <2>1, <2>3, ConstantsAssumption
       DEF RowKeeps, Held, ClaimFits, Offered, Removing
  <2> QED BY <2>2, <2>3
<1> QED BY <1>3, <1>4

LEMMA PlacementKeepsOwners ==
  ASSUME OwnersInv, TypeOK', NEW t \in Threads, Placement(t)
  PROVE  OwnersFit'
PROOF
<1>0. /\ TypeOK /\ OwnersFit /\ OneOwner
      /\ thr \in [Threads -> ThreadRow] /\ env \in [Envs -> EnvRow]
      /\ thr[t] \in ThreadRow /\ StartupFits(thr[t])
      /\ Wanted(t) \in Envs \union {None}
      /\ t # None
  BY WantedTypes, ConstantsAssumption
     DEF OwnersInv, ClaimsInv, RowsApart, TypeOK, OwnersFit
<1>1. ASSUME NEW e \in Envs, Reserve(t, e) PROVE OwnersFit'
  BY <1>1, ReserveKeepsOwners
<1>2. CASE Reject(t)
  <2>1. ASSUME NEW e \in Envs, env[e].owner = t PROVE ~Held(env[e])
    <3>1. /\ Preparing(env, t) \in Envs
          /\ env[Preparing(env, t)].owner = t
          /\ env[Preparing(env, t)].status = "error"
      BY <1>2, PreparingFinds DEF Reject
    <3>2. e = Preparing(env, t)
      BY <1>0, <2>1, <3>1 DEF OneOwner
    <3> QED BY <3>1, <3>2 DEF Held
  <2>2. FailThread(t) /\ UNCHANGED <<env, op>>
    BY <1>2 DEF Reject
  <2> QED BY <2>1, <2>2, FailureKeeps
\* A starting thread that goes on without a workspace goes on with its row.
<1>3. ASSUME Advancing(t), thr[t].env = None
      PROVE  /\ thr[t].intent = "provider" /\ ~thr[t].attached
             /\ Wanted(t) \in Envs
             /\ env[Wanted(t)].owner = t /\ env[Wanted(t)].td = "none"
             /\ env[Wanted(t)].status # "creating"
  <2>1. thr[t].intent = "provider" /\ ~thr[t].attached
    BY <1>0, <1>3 DEF Advancing, HasContext, StartupFits, ThreadRow
  <2>2. Wanted(t) = Preparing(env, t) /\ Wanted(t) # None
    BY <1>3, <2>1 DEF Advancing, Wanted
  <2> QED BY <1>0, <1>3, <2>1, <2>2, PreparingFinds DEF Advancing
<1>4. CASE Attach(t)
  <2> DEFINE e == Wanted(t)
  <2>1. e \in Envs /\ (env[e].status = "error" => env[e].owner = None)
    BY <1>0, <1>4 DEF Attach, MayAttach, Advancing
  <2> HIDE DEF e
  <2>2. /\ env' = [env EXCEPT ![e] = Released(Reopened(env[e]), t)]
        /\ thr' = [thr EXCEPT ![t] = Attached(thr[t], e)]
        /\ op' = op
    BY <1>4 DEF Attach, e
  <2>3. /\ thr'[t] = Attached(thr[t], e) /\ \A u \in Threads \ {t} : thr'[u] = thr[u]
        /\ env'[e] = Released(Reopened(env[e]), t) /\ \A f \in Envs \ {e} : env'[f] = env[f]
    BY <1>0, <2>1, <2>2
  <2>4. ThreadKeeps(t) /\ ~Calling(thr'[t])
    BY <1>0, <2>1, <2>3, AttachedKeeps
  <2>5. RowKeeps(e)
    BY <1>0, <2>1, <2>2, <2>3, <2>4, ReleasedKeeps
  <2> QED BY <1>0, <2>2, <2>3, <2>4, <2>5, SameThreadKeeps, SameRowKeeps, KeepsOwners
<1>5. CASE AttachLater(t)
  <2> DEFINE e == Wanted(t)
             th == [thr[t] EXCEPT !.adv = e, !.advStart = thr[t].start]
  <2>1. e \in Envs /\ Advancing(t)
    BY <1>0, <1>5 DEF AttachLater, MayAttach, Advancing
  <2>2. /\ thr' = [thr EXCEPT ![t] = th] /\ env' = env /\ op' = op
    BY <1>0, <1>5 DEF AttachLater
  <2>3. thr'[t] = th /\ \A u \in Threads \ {t} : thr'[u] = thr[u]
    BY <1>0, <2>2
  <2>4. /\ th.adv = e /\ th.advStart = thr[t].start /\ th.start = thr[t].start
        /\ th.status = thr[t].status /\ th.env = thr[t].env /\ th.intent = thr[t].intent
        /\ th.attached = thr[t].attached /\ th.arch = thr[t].arch
    BY <1>0 DEF ThreadRow
  <2>5. Calling(th) => Offered(env[e], t)
    BY <1>3, <2>1, <2>4 DEF Calling, Offered
  <2>6. thr[t].start <= thr[t].start
    BY <1>0 DEF ThreadRow
  <2> HIDE DEF th, e
  <2>7. \A u \in Threads : StartupFits(thr'[u])
    BY <1>0, <2>3, <2>4, <2>6 DEF OwnersFit, StartupFits
  <2>8. \A u \in Threads : LooksAfter(thr[u]) => LooksAfter(thr'[u])
    BY <2>3, <2>4 DEF LooksAfter
  <2>9. \A u \in Threads : Calling(thr'[u]) => Offered(env'[thr'[u].adv], u)
    BY <1>0, <2>2, <2>3, <2>4, <2>5 DEF OwnersFit
  <2>10. \A f \in Envs : Held(env'[f]) => LooksAfter(thr'[env'[f].owner])
    BY <1>0, <2>2, <2>8 DEF OwnersFit, Held, EnvRow
  <2> QED BY <1>0, <2>2, <2>7, <2>9, <2>10 DEF OwnersFit
<1>6. CASE AttachNow(t)
  <2> DEFINE e == thr[t].adv
             current == HasContext(thr[t]) /\ thr[t].start = thr[t].advStart
  <2>1. e \in Envs /\ op' = op
    BY <1>0, <1>6 DEF AttachNow, ThreadRow
  <2>2. CASE current /\ ~BusyFor(t, e)
    <3>1. /\ env' = [env EXCEPT ![e] =
                       IF env[e].status \in {"provisioning", "ready"}
                       THEN Released(env[e], t) ELSE env[e]]
          /\ thr' = [thr EXCEPT ![t] = Attached(thr[t], e)]
      BY <1>6, <2>2 DEF AttachNow
    <3> HIDE DEF e
    <3>2. /\ thr'[t] = Attached(thr[t], e) /\ \A u \in Threads \ {t} : thr'[u] = thr[u]
          /\ env'[e] = Released(env[e], t) \/ env'[e] = env[e]
          /\ \A f \in Envs \ {e} : env'[f] = env[f]
      BY <1>0, <2>1, <3>1
    <3>3. ThreadKeeps(t) /\ ~Calling(thr'[t])
      BY <1>0, <2>1, <3>2, AttachedKeeps
    <3>4. RowKeeps(e)
      BY <1>0, <2>1, <3>2, <3>3, ReleasedKeeps, SameRowKeeps
    <3> QED BY <1>0, <2>1, <3>2, <3>3, <3>4, SameThreadKeeps, SameRowKeeps, KeepsOwners
  <2>3. CASE ~(current /\ ~BusyFor(t, e))
    <3>1. env' = env
      BY <1>6, <2>3 DEF AttachNow
    <3>2. CASE current /\ thr[t].status = "starting" /\ ~thr[t].arch
      <4>1. FailThread(t) /\ BusyFor(t, e)
        BY <1>6, <2>3, <3>2 DEF AttachNow
      <4>2. ASSUME thr[t].env = None PROVE \A f \in Envs : env[f].owner = t => ~Held(env[f])
        <5>1. Calling(thr[t])
          BY <1>0, <1>6, <3>2, <4>2
             DEF AttachNow, Calling, HasContext, StartupFits, ThreadRow
        <5>2. Offered(env[e], t)
          BY <1>0, <5>1 DEF OwnersFit
        <5> QED BY <2>1, <4>1, <5>2, OwnRowIsFree DEF Offered
      <4> QED BY <2>1, <3>1, <4>1, <4>2, FailureKeeps
    <3>3. CASE ~(current /\ thr[t].status = "starting" /\ ~thr[t].arch)
      <4>1. thr' = [thr EXCEPT ![t] = [thr[t] EXCEPT !.adv = None]]
        BY <1>0, <1>6, <2>3, <3>3 DEF AttachNow
      <4>2. thr'[t] = [thr[t] EXCEPT !.adv = None]
        BY <1>0, <4>1
      <4>3. ThreadKeeps(t)
        BY <1>0, <4>2, CallEndsKeeps
      <4> QED BY <1>0, <2>1, <3>1, <4>1, <4>3, ThreadStepKeeps
    <3> QED BY <3>2, <3>3
  <2> QED BY <2>2, <2>3
<1>7. CASE StartFails(t)
  <2>1. Advancing(t) /\ FailThread(t) /\ UNCHANGED <<env, op>>
    BY <1>7 DEF StartFails
  <2>2. thr[t].env # None
    <3> SUFFICES ASSUME thr[t].env = None PROVE FALSE
      OBVIOUS
    <3>1. BusyFor(t, Wanted(t))
      BY <1>3, <1>7, <2>1 DEF StartFails
    <3> QED BY <1>3, <2>1, <3>1, OwnRowIsFree
  <2> QED BY <2>1, <2>2, FailureKeeps
<1>8. CASE StartTurn(t)
  <2>1. "run.started" \in LifecycleEvent \ {"run.preparing"}
    BY DEF LifecycleEvent
  <2>2. thr' = [thr EXCEPT ![t] = ThreadApply(thr[t], "run.started")]
        /\ UNCHANGED <<env, op>> /\ thr[t].attached
    BY <1>8 DEF StartTurn
  <2>3. thr'[t] = ThreadApply(thr[t], "run.started") /\ thr[t].env # None
    BY <1>0, <2>2 DEF TypeOK
  <2>4. ThreadKeeps(t)
    BY <1>0, <2>1, <2>3, EventKeeps
  <2> QED BY <1>0, <2>2, <2>4, ThreadStepKeeps
<1> QED BY <1>1, <1>2, <1>4, <1>5, <1>6, <1>7, <1>8 DEF Placement

\* One row and its operation change, and no thread.
LEMMA RowStepKeeps ==
  ASSUME TypeOK, TypeOK', OwnersFit, NEW e \in Envs, thr' = thr, RowKeeps(e),
         \A f \in Envs \ {e} : env'[f] = env[f] /\ op'[f] = op[f]
  PROVE  OwnersFit'
PROOF
<1>1. \A t \in Threads : ThreadKeeps(t)
  BY SameThreadKeeps
<1>2. \A f \in Envs : RowKeeps(f)
  BY SameRowKeeps
<1> QED BY <1>1, <1>2, KeepsOwners

\* The answer is put on the reserved row, or the preparation moves to the row
\* that stands for the workspace.
LEMMA CreateBindsKeepsOwners ==
  ASSUME OwnersInv, TypeOK', NEW e \in Envs, CreateBinds(e)
  PROVE  OwnersFit'
PROOF
<1> DEFINE p   == op[e].path
           old == [env[e] EXCEPT !.claim = p, !.path = p]
           row == Settled(old, op[e].aborted)
<1>0. /\ TypeOK /\ OwnersFit
      /\ env[e] \in EnvRow /\ op[e] \in Operation /\ env \in [Envs -> EnvRow]
      /\ op[e].kind = "create" /\ env[e].status = "creating"
  BY DEF OwnersInv, ClaimsInv, TypeOK, OperationsFitRows, FitsRow, CreateBinds, Created
<1>1. /\ env' = [env EXCEPT ![e] = row] /\ thr' = thr
      /\ op' = [op EXCEPT ![e] = NoOp]
  BY DEF CreateBinds
<1>2. /\ old \in EnvRow /\ old.owner = env[e].owner /\ old.status = env[e].status
      /\ old.td = env[e].td /\ old.claim = p /\ old.path = p
  BY <1>0 DEF EnvRow, Operation
<1> HIDE DEF old, p
<1>3. /\ row.owner = env[e].owner /\ row.td = env[e].td
      /\ row.claim = p /\ row.path = p /\ row.status # "destroyed"
  BY <1>0, <1>2, SettledFacts
<1> HIDE DEF row
<1>4. env'[e] = row /\ op'[e] = NoOp
      /\ \A f \in Envs \ {e} : env'[f] = env[f] /\ op'[f] = op[f]
  BY <1>0, <1>1 DEF TypeOK
<1>5. RowKeeps(e)
  BY <1>0, <1>3, <1>4 DEF RowKeeps, Held, ClaimFits, Offered, AtHook, NoOp
<1> QED BY <1>0, <1>1, <1>4, <1>5, RowStepKeeps

LEMMA CreateAdoptsKeepsOwners ==
  ASSUME OwnersInv, NEW e \in Envs, NEW f \in Envs, CreateAdopts(e, f)
  PROVE  OwnersFit'
PROOF
<1> DEFINE p     == op[e].path
           s     == IF env[f].status = "ready" THEN env[f].status ELSE env[e].status
           gone  == [env[e] EXCEPT !.owner = None, !.status = "destroyed",
                                   !.td = "removed", !.claim = None, !.path = None]
           taken == [env[f] EXCEPT
                       !.owner = env[e].owner, !.attempt = env[e].attempt,
                       !.status = s,
                       !.td = env[e].td, !.retire = env[e].retire, !.claim = p]
           row   == Settled(taken, op[e].aborted)
<1>0. /\ TypeOK /\ OwnersFit
      /\ env \in [Envs -> EnvRow] /\ op \in [Envs -> Operation]
      /\ op[e].kind = "create" /\ env[e].status = "creating"
  BY DEF OwnersInv, ClaimsInv, TypeOK, OperationsFitRows, FitsRow, CreateAdopts, Created
<1>1. /\ f # e /\ env[f].path = p /\ env[f].td = "none" /\ env[f].owner = None
      /\ env[f].status \in {"ready", "provisioning"}
  BY DEF CreateAdopts, AtPath, MayAdopt
<1>2. /\ \A g \in Envs : env'[g] = IF g = e THEN gone ELSE IF g = f THEN row ELSE env[g]
      /\ \A g \in Envs : op'[g] = IF g = e THEN NoOp ELSE op[g]
      /\ thr' = thr
  BY <1>0, <1>1 DEF CreateAdopts
<1>3. gone.owner = None /\ gone.td = "removed"
  BY <1>0 DEF EnvRow
<1>4. s \in EnvironmentStatus /\ s # "destroyed"
  BY <1>0, <1>1 DEF EnvironmentStatus
<1>5. env[e] \in EnvRow /\ env[f] \in EnvRow /\ p \in Paths \union {None}
  BY <1>0 DEF Operation
<1> HIDE DEF p, s
<1>6. /\ taken \in EnvRow /\ taken.owner = env[e].owner /\ taken.td = env[e].td
      /\ taken.claim = p /\ taken.path = p /\ taken.status # "destroyed"
  BY <1>1, <1>4, <1>5 DEF EnvRow
<1> HIDE DEF taken
<1>7. /\ row.owner = env[e].owner /\ row.td = env[e].td
      /\ row.claim = p /\ row.path = p /\ row.status # "destroyed"
  BY <1>6, SettledFacts
<1> HIDE DEF row, gone
\* Nobody is about to attach to either: the one is still being created, the
\* other was nobody's.
<1>8. \A t \in Threads : Calling(thr'[t]) => Offered(env'[thr'[t].adv], t)
  <2> SUFFICES ASSUME NEW t \in Threads, Calling(thr[t])
               PROVE  Offered(env'[thr[t].adv], t)
    BY <1>2
  <2>1. thr[t].adv \in Envs /\ Offered(env[thr[t].adv], t) /\ t # None
    BY <1>0, ConstantsAssumption DEF OwnersFit, TypeOK, ThreadRow, Calling
  <2>2. thr[t].adv \notin {e, f}
    BY <1>0, <1>1, <2>1 DEF Offered
  <2> QED BY <1>2, <2>1, <2>2
<1>9. \A g \in Envs : Held(env'[g]) => LooksAfter(thr'[env'[g].owner])
  <2>1. Held(row) => Held(env[e])
    BY <1>0, <1>7 DEF Held
  <2> QED BY <1>0, <1>2, <1>3, <1>7, <2>1 DEF OwnersFit, Held
<1>10. \A g \in Envs : ClaimFits(env'[g])
  BY <1>0, <1>2, <1>3, <1>7 DEF OwnersFit, ClaimFits
<1>11. \A g \in Envs : AtHook(op'[g]) => Removing(env'[g])
  <2>1. ~AtHook(op[f]) /\ ~AtHook(NoOp)
    BY <1>0, <1>1 DEF OwnersFit, Removing, AtHook, NoOp
  <2> QED BY <1>0, <1>2, <2>1 DEF OwnersFit
<1> QED BY <1>0, <1>2, <1>8, <1>9, <1>10, <1>11 DEF OwnersFit

LEMMA CreationKeepsOwners ==
  ASSUME OwnersInv, TypeOK', NEW e \in Envs, Creation(e)
  PROVE  OwnersFit'
PROOF
<1>0. /\ TypeOK /\ OwnersFit
      /\ env \in [Envs -> EnvRow] /\ op \in [Envs -> Operation]
      /\ env[e] \in EnvRow /\ op[e] \in Operation
      /\ ClaimFits(env[e]) /\ (AtHook(op[e]) => Removing(env[e]))
      /\ op[e].kind = "create" => env[e].status = "creating"
  BY DEF OwnersInv, ClaimsInv, TypeOK, OwnersFit, OperationsFitRows, FitsRow
\* Only the operation goes on.
<1>1. ASSUME NEW o, op' = [op EXCEPT ![e] = o], env' = env, thr' = thr,
             AtHook(o) => AtHook(op[e])
      PROVE  OwnersFit'
  <2>1. \A f \in Envs : AtHook(op'[f]) => AtHook(op[f])
    BY <1>0, <1>1
  <2> QED BY <1>0, <1>1, <2>1, SameThreadKeeps, SameRowKeeps, KeepsOwners
<1>2. CASE StartCreate(e)
  <2>1. ~AtHook(CreateOp(e, env[e]))
    BY DEF AtHook, CreateOp, OpAt, NoOp
  <2> QED BY <1>1, <1>2, <2>1 DEF StartCreate
<1>3. ASSUME NEW p, op[e].kind = "create" PROVE ~AtHook([op[e] EXCEPT !.pc = "made", !.path = p])
  BY <1>0, <1>3 DEF AtHook, Operation
<1>4. ASSUME NEW p, op[e].kind = "create", thr' = thr, env' = env,
             op' = [op EXCEPT ![e] = [op[e] EXCEPT !.pc = "made", !.path = p]]
      PROVE  OwnersFit'
  BY <1>1, <1>3, <1>4
<1>5. CASE CreateMakes(e)
  BY <1>0, <1>4, <1>5 DEF CreateMakes, Asked
<1>6. ASSUME NEW p \in Paths, CreateFinds(e, p) PROVE OwnersFit'
  BY <1>0, <1>4, <1>6 DEF CreateFinds, Asked
<1>7. ASSUME NEW p \in Paths, CreateClaims(e, p) PROVE OwnersFit'
  <2>1. env' = [env EXCEPT ![e] = [env[e] EXCEPT !.claim = p]] /\ op' = op /\ thr' = thr
        /\ env[e].claim = None
    BY <1>7 DEF CreateClaims
  <2>2. /\ env'[e].owner = env[e].owner /\ env'[e].td = env[e].td
        /\ env'[e].status = env[e].status /\ env'[e].path = env[e].path
        /\ \A f \in Envs \ {e} : env'[f] = env[f]
    BY <1>0, <2>1 DEF EnvRow
  <2>3. RowKeeps(e)
    BY <1>0, <2>1, <2>2 DEF RowKeeps, Held, ClaimFits, Offered, Removing
  <2> QED BY <1>0, <2>1, <2>2, <2>3, RowStepKeeps
<1>8. CASE CreateFails(e)
  <2>1. /\ \/ env'[e] = env[e]
           \/ env'[e] = [env[e] EXCEPT !.status = "error"]
        /\ op'[e] = NoOp /\ thr' = thr
        /\ \A f \in Envs \ {e} : env'[f] = env[f] /\ op'[f] = op[f]
    BY <1>0, <1>8 DEF CreateFails
  <2>2. ~AtHook(NoOp)
    BY DEF AtHook, NoOp
  <2>3. CASE env'[e] = [env[e] EXCEPT !.status = "error"]
    <3>1. /\ env'[e].owner = env[e].owner /\ env'[e].td = env[e].td
          /\ env'[e].status = "error" /\ env'[e].path = env[e].path
          /\ env'[e].claim = env[e].claim
      BY <1>0, <2>3 DEF EnvRow
    <3>2. RowKeeps(e)
      BY <1>0, <2>1, <2>2, <3>1 DEF RowKeeps, Held, ClaimFits, Offered
    <3> QED BY <1>0, <2>1, <3>2, RowStepKeeps
  <2>4. CASE env'[e] = env[e]
    BY <1>0, <2>1, <2>2, <2>4, SameRowKeeps, RowStepKeeps
  <2> QED BY <2>1, <2>3, <2>4
<1>9. CASE CreateRefused(e)
  <2> DEFINE row == [env[e] EXCEPT !.td = "removed", !.claim = None, !.path = None]
             new == IF row.status = "creating"
                    THEN [row EXCEPT !.status = "error"] ELSE row
  <2>1. /\ env'[e] \in {env[e], new}
        /\ op'[e] = NoOp /\ thr' = thr /\ env[e].status = "creating"
        /\ \A f \in Envs \ {e} : env'[f] = env[f] /\ op'[f] = op[f]
    BY <1>0, <1>9 DEF CreateRefused, Created
  <2>2. ~AtHook(NoOp)
    BY DEF AtHook, NoOp
  <2>3. CASE env'[e] = new
    <3>1. row \in EnvRow /\ row.td = "removed"
      BY <1>0 DEF EnvRow, Teardown
    <3> HIDE DEF row
    <3>2. new.td = "removed"
      BY <3>1 DEF EnvRow
    <3>3. RowKeeps(e)
      BY <2>1, <2>2, <2>3, <3>2 DEF RowKeeps, Held, ClaimFits, Offered
    <3> QED BY <1>0, <2>1, <3>3, RowStepKeeps
  <2>4. CASE env'[e] = env[e]
    BY <1>0, <2>1, <2>2, <2>4, SameRowKeeps, RowStepKeeps
  <2> QED BY <2>1, <2>3, <2>4
<1>10. CASE CreateBinds(e)
  BY <1>10, CreateBindsKeepsOwners
<1>11. ASSUME NEW f \in Envs, CreateAdopts(e, f) PROVE OwnersFit'
  BY <1>11, CreateAdoptsKeepsOwners
<1> QED BY <1>2, <1>5, <1>6, <1>7, <1>8, <1>9, <1>10, <1>11 DEF Creation

\* The end of a setup, as the row sees it.
LEMMA EnvApplyKeeps ==
  ASSUME TypeOK, OwnersFit, NEW e \in Envs,
         NEW event \in {"provision.succeeded", "provision.failed", "provision.cancelled"},
         env' = EnvApply(env, thr, e, event),
         \A f \in Envs : AtHook(op'[f]) => AtHook(op[f])
  PROVE  \A f \in Envs : RowKeeps(f)
PROOF
<1>0. /\ event \in EnvironmentEvent
      /\ env \in [Envs -> EnvRow] /\ env[e] \in EnvRow /\ ClaimFits(env[e])
      /\ AtHook(op[e]) => Removing(env[e])
  BY DEF TypeOK, OwnersFit, EnvironmentEvent
<1>1. \A f \in Envs \ {e} : RowKeeps(f)
  BY <1>0, EnvApplyFacts, SameRowKeeps
<1>2. CASE env' = env
  BY <1>2, SameRowKeeps
<1>3. CASE env' # env
  <2> DEFINE s == EnvAfter(env[e].status, event, env[e].path # None)
  <2>1. env[e].status \in EnvSources(event)
    BY <1>3 DEF EnvApply
  <2>2. env[e].status \notin {"error", "destroyed"} /\ s # "creating"
    BY <2>1 DEF EnvSources, EnvAfter, EnvTarget
  <2>3. env' = [env EXCEPT ![e] = [env[e] EXCEPT !.status = s,
                                     !.path = IF s = "destroyed" THEN None ELSE env[e].path]]
    BY <1>3 DEF EnvApply
  <2> HIDE DEF s
  <2>4. /\ env'[e].owner = env[e].owner /\ env'[e].td = env[e].td
        /\ env'[e].claim = env[e].claim /\ env'[e].status = s
        /\ env'[e].path = IF s = "destroyed" THEN None ELSE env[e].path
    BY <1>0, <2>3 DEF EnvRow
  <2>5. RowKeeps(e)
    BY <1>0, <2>2, <2>4 DEF RowKeeps, Held, ClaimFits, Offered, Removing
  <2> QED BY <1>1, <2>5
<1> QED BY <1>2, <1>3

LEMMA SetupFailureKeepsOwners ==
  ASSUME OwnersInv, TypeOK', NEW e \in Envs, RecordSetupFailure(e),
         \A f \in Envs : AtHook(op'[f]) => AtHook(op[f])
  PROVE  OwnersFit'
PROOF
<1>0. TypeOK /\ OwnersFit /\ "run.failed" \in LifecycleEvent \ {"run.preparing"}
  BY DEF OwnersInv, ClaimsInv, LifecycleEvent
<1>1. \A f \in Envs : RowKeeps(f)
  BY <1>0, EnvApplyKeeps DEF RecordSetupFailure, SetupFailureEvent
<1>2. ASSUME NEW t \in Threads PROVE ThreadKeeps(t)
  <2>1. CASE t \in FailedBySetup(thr, e)
    <3>1. thr[t].env # None
      BY <2>1, ConstantsAssumption DEF FailedBySetup
    <3>2. thr'[t] = ThreadApply(thr[t], "run.failed")
      BY <2>1 DEF RecordSetupFailure, ThreadsAfterFailure
    <3> QED BY <1>0, <3>1, <3>2, EventKeeps
  <2>2. CASE t \notin FailedBySetup(thr, e)
    <3>1. thr'[t] = thr[t]
      BY <2>2 DEF RecordSetupFailure, ThreadsAfterFailure
    <3> QED BY <1>0, <3>1, SameThreadKeeps
  <2> QED BY <2>1, <2>2
<1> QED BY <1>0, <1>1, <1>2, KeepsOwners

\* Threads that were stopping come to rest.
LEMMA RestingKeeps ==
  ASSUME TypeOK, OwnersFit, NEW t \in Threads,
         \/ thr'[t] = thr[t]
         \/ /\ thr[t].status = "stopping"
            /\ thr'[t] = ThreadApply(thr[t], "stop.settled")
  PROVE  ThreadKeeps(t)
PROOF
<1>1. "stop.settled" \in LifecycleEvent \ {"run.preparing"}
  BY DEF LifecycleEvent
<1> QED BY <1>1, SameThreadKeeps, EventKeeps

LEMMA SetupKeepsOwners ==
  ASSUME OwnersInv, TypeOK', NEW e \in Envs, Setup(e)
  PROVE  OwnersFit'
PROOF
<1>0. /\ TypeOK /\ OwnersFit /\ op \in [Envs -> Operation] /\ op[e] \in Operation
      /\ op[e].cancel = "asked" => op[e].kind = "attach"
  BY DEF OwnersInv, ClaimsInv, TypeOK, OperationsFitRows, FitsRow
<1>1. ASSUME NEW o, op' = [op EXCEPT ![e] = o], ~AtHook(o)
      PROVE  \A f \in Envs : AtHook(op'[f]) => AtHook(op[f])
  BY <1>0, <1>1
<1>2. ~AtHook(NoOp)
  BY DEF AtHook, NoOp
<1>3. CASE SendSetup(e)
  <2>1. ~AtHook(OpAt("attach", "sent"))
    BY DEF AtHook, OpAt, NoOp
  <2> QED BY <1>0, <1>1, <1>3, <2>1, SameThreadKeeps, SameRowKeeps, KeepsOwners
          DEF SendSetup
<1>4. CASE InterruptSetup(e)
  BY <1>4, SetupFailureKeepsOwners DEF InterruptSetup
<1>5. ASSUME SetupOver(e), SetupSent(e)
      PROVE  \A f \in Envs : AtHook(op'[f]) => AtHook(op[f])
  <2>1. ~AtHook([op[e] EXCEPT !.pc = "done"])
    BY <1>0, <1>5 DEF SetupSent, AtHook, Operation
  <2> QED BY <1>1, <1>2, <1>5, <2>1 DEF SetupOver
<1>6. CASE SetupSucceeds(e)
  <2>1. \A f \in Envs : RowKeeps(f)
    BY <1>0, <1>5, <1>6, EnvApplyKeeps DEF SetupSucceeds
  <2> QED BY <1>0, <1>6, <2>1, SameThreadKeeps, KeepsOwners DEF SetupSucceeds
<1>7. CASE SetupFails(e)
  BY <1>5, <1>7, SetupFailureKeepsOwners DEF SetupFails
<1>8. CASE CancelSetup(e)
  <2>1. op[e].kind \in {"none", "attach"} /\ op' = [op EXCEPT ![e] = CancelAsked(op[e])]
    BY <1>8 DEF CancelSetup, Cancellable
  <2>2. ~AtHook(CancelAsked(op[e]))
    BY <1>0, <2>1 DEF AtHook, CancelAsked, OpAt, NoOp, Operation
  <2> QED BY <1>0, <1>1, <1>8, <2>1, <2>2, SameThreadKeeps, SameRowKeeps, KeepsOwners
          DEF CancelSetup
<1>9. ASSUME CancelOver(e), op[e].cancel = "asked"
      PROVE  \A f \in Envs : AtHook(op'[f]) => AtHook(op[f])
  <2>1. ~AtHook([op[e] EXCEPT !.cancel = "over"])
    BY <1>0, <1>9 DEF AtHook, Operation
  <2> QED BY <1>1, <1>2, <1>9, <2>1 DEF CancelOver
<1>10. CASE SetupCancelled(e)
  <2>1. \A f \in Envs : RowKeeps(f)
    BY <1>0, <1>9, <1>10, EnvApplyKeeps DEF SetupCancelled
  <2>2. \A t \in Threads : ThreadKeeps(t)
    BY <1>0, <1>10, RestingKeeps DEF SetupCancelled
  <2> QED BY <1>0, <2>1, <2>2, KeepsOwners
<1>11. CASE CancelFails(e)
  <2>1. \A f \in Envs : RowKeeps(f)
    BY <1>0, <1>9, <1>11, SameRowKeeps DEF CancelFails
  <2>2. \A t \in Threads : ThreadKeeps(t)
    BY <1>0, <1>11, RestingKeeps DEF CancelFails, StoppedBeforeStart
  <2> QED BY <1>0, <2>1, <2>2, KeepsOwners
<1>12. CASE HostGrace(e)
  BY <1>12, SetupFailureKeepsOwners DEF HostGrace
<1> QED BY <1>3, <1>4, <1>6, <1>7, <1>8, <1>10, <1>11, <1>12 DEF Setup

LEMMA RemovalKeepsOwners ==
  ASSUME OwnersInv, TypeOK', NEW e \in Envs, Removal(e) \/ DeleteEnv(e)
  PROVE  OwnersFit'
PROOF
<1>0. /\ TypeOK /\ OwnersFit
      /\ env \in [Envs -> EnvRow] /\ op \in [Envs -> Operation]
      /\ env[e] \in EnvRow /\ op[e] \in Operation
      /\ ClaimFits(env[e]) /\ (AtHook(op[e]) => Removing(env[e]))
      /\ op[e].kind = "remove" /\ op[e].pc = "busy" => env[e].td = "running"
  BY DEF OwnersInv, ClaimsInv, TypeOK, OwnersFit, OperationsFitRows, FitsRow
\* A row that is being removed, or is nobody's, is held by nobody and keeps,
\* whatever else happens to it.
<1>1. ASSUME thr' = thr,
             \A f \in Envs \ {e} : env'[f] = env[f] /\ op'[f] = op[f],
             env'[e].owner = None \/ env'[e].td # "none",
             env[e].owner = None \/ env[e].td # "none",
             AtHook(op'[e]) => Removing(env'[e])
      PROVE  OwnersFit'
  <2>1. ASSUME NEW t \in Threads PROVE ~Offered(env[e], t)
    BY <1>1, ConstantsAssumption DEF Offered
  <2>2. RowKeeps(e)
    BY <1>1, <2>1 DEF RowKeeps, Held, ClaimFits
  <2> QED BY <1>0, <1>1, <2>2, RowStepKeeps
<1>2. ~AtHook(NoOp)
  BY DEF AtHook, NoOp
<1>3. CASE Sweep(e)
  <2>1. ~AtHook(OpAt("remove", "slot"))
    BY DEF AtHook, OpAt, NoOp
  <2>2. op[e].kind = "create" => ~AtHook([op[e] EXCEPT !.aborted = TRUE])
    BY <1>0 DEF AtHook, Operation
  <2>3. env' = env /\ thr' = thr /\ ~AtHook(op'[e])
        /\ \A f \in Envs \ {e} : op'[f] = op[f]
    BY <1>0, <1>3, <2>1, <2>2 DEF Sweep
  <2> QED BY <1>0, <2>3, SameRowKeeps, RowStepKeeps
<1>4. CASE SlotSpares(e)
  <2> DEFINE freed == [env[e] EXCEPT !.owner = None, !.claim = None, !.retire = "none",
                                     !.td = "none"]
             kept  == [env[e] EXCEPT !.retire = "none"]
  <2>1. /\ \/ env'[e] = env[e]
           \/ env'[e] = freed /\ CancelledRow(env[e])
           \/ env'[e] = kept /\ env[e].owner = None
        /\ op'[e] = NoOp /\ thr' = thr
        /\ \A f \in Envs \ {e} : env'[f] = env[f] /\ op'[f] = op[f]
    BY <1>0, <1>4 DEF SlotSpares
  <2>2. freed.owner = None /\ kept.owner = env[e].owner
    BY <1>0 DEF EnvRow
  <2> HIDE DEF freed, kept
  <2>3. CASE env'[e] = env[e]
    BY <1>0, <1>2, <2>1, <2>3, SameRowKeeps, RowStepKeeps
  <2>4. CASE env'[e] = freed /\ CancelledRow(env[e])
    BY <1>1, <1>2, <2>1, <2>2, <2>4 DEF CancelledRow
  <2>5. CASE env'[e] = kept /\ env[e].owner = None
    BY <1>1, <1>2, <2>1, <2>2, <2>5
  <2> QED BY <2>1, <2>3, <2>4, <2>5
<1>5. CASE SlotWaits(e)
  <2>1. /\ env'[e] = [env[e] EXCEPT !.retire =
                       IF @ = "none" /\ e \in Lasting THEN @ ELSE "waiting"]
        /\ op'[e] = NoOp /\ thr' = thr
        /\ \A f \in Envs \ {e} : env'[f] = env[f] /\ op'[f] = op[f]
        /\ env[e].owner # None => env[e].td # "none"
    BY <1>0, <1>5 DEF SlotWaits, SlotRetires, CancelledRow
  <2>2. env'[e].owner = env[e].owner /\ env'[e].td = env[e].td
    BY <1>0, <2>1 DEF EnvRow
  <2> QED BY <1>1, <1>2, <2>1, <2>2
<1>6. \A row \in EnvRow : GivenUp(row).td = "running"
  BY <1>0 DEF GivenUp, EnvRow
<1>7. CASE SlotBegins(e)
  <2> DEFINE row == [env[e] EXCEPT !.retire = "due",
                                   !.td = IF @ = "none" THEN "running" ELSE @]
  <2>1. /\ env'[e] \in {row, GivenUp(row)} /\ thr' = thr
        /\ \A f \in Envs \ {e} : env'[f] = env[f] /\ op'[f] = op[f]
        /\ env[e].owner # None => env[e].td # "none"
        /\ env[e].td # "removed"
    BY <1>0, <1>7 DEF SlotBegins, SlotRetires, CancelledRow
  <2>2. row \in EnvRow /\ Removing(row) /\ row.td # "none"
    BY <1>0, <2>1 DEF EnvRow, Teardown, Removing
  <2> HIDE DEF row
  <2>3. Removing(env'[e]) /\ env'[e].td # "none"
    BY <1>6, <2>1, <2>2 DEF Removing
  <2> QED BY <1>1, <2>1, <2>3
<1>8. CASE HookStopped(e)
  <2>1. Removing(env[e])
    BY <1>0, <1>8 DEF HookStopped, InHook, AtHook
  <2>2. /\ env'[e] = GivenUp(env[e]) /\ thr' = thr
        /\ \A f \in Envs \ {e} : env'[f] = env[f] /\ op'[f] = op[f]
    BY <1>0, <1>8, <2>1 DEF HookStopped, Removing
  <2>3. env'[e].td = "running"
    BY <1>0, <1>6, <2>2
  <2>4. Removing(env'[e]) /\ env'[e].td # "none" /\ env[e].td # "none"
    BY <2>1, <2>3 DEF Removing
  <2> QED BY <1>1, <2>2, <2>4
<1>9. CASE HookUnknown(e)
  <2>1. op'[e] = NoOp /\ env' = env /\ thr' = thr /\ \A f \in Envs \ {e} : op'[f] = op[f]
    BY <1>0, <1>9 DEF HookUnknown
  <2> QED BY <1>0, <1>2, <2>1, SameRowKeeps, RowStepKeeps
<1>10. CASE RemoveSucceeds(e)
  <2> DEFINE row  == [env[e] EXCEPT !.td = "removed", !.claim = None, !.retire = "none"]
             rows == [env EXCEPT ![e] = row]
  <2>1. row \in EnvRow /\ row.td = "removed"
    BY <1>0 DEF EnvRow, Teardown
  <2> HIDE DEF row
  <2>2. rows \in [Envs -> EnvRow] /\ rows[e].td = "removed"
        /\ \A f \in Envs \ {e} : rows[f] = env[f]
    BY <1>0, <2>1
  <2>3. env' = EnvApply(rows, thr, e, "destroy.recorded") /\ thr' = thr
        /\ op'[e] = NoOp /\ \A f \in Envs \ {e} : op'[f] = op[f]
    BY <1>0, <1>10 DEF RemoveSucceeds, row
  <2> HIDE DEF rows
  <2>4. env'[e].td = "removed" /\ \A f \in Envs \ {e} : env'[f] = env[f]
    <3>1. "destroy.recorded" \in EnvironmentEvent
      BY DEF EnvironmentEvent
    <3> QED BY <2>2, <2>3, <3>1, EnvApplyFacts
  <2>5. env[e].td = "running"
    BY <1>0, <1>10 DEF RemoveSucceeds, InRemoval
  <2> QED BY <1>1, <1>2, <2>3, <2>4, <2>5
<1>11. CASE RemoveFails(e)
  <2>1. /\ env'[e] = [env[e] EXCEPT !.td = "failed", !.retire = "waiting"]
        /\ op'[e] = NoOp /\ thr' = thr /\ env[e].td = "running"
        /\ \A f \in Envs \ {e} : env'[f] = env[f] /\ op'[f] = op[f]
    BY <1>0, <1>11 DEF RemoveFails, InRemoval
  <2>2. env'[e].td = "failed"
    BY <1>0, <2>1 DEF EnvRow
  <2> QED BY <1>1, <1>2, <2>1, <2>2
<1>12. CASE RetireDue(e)
  <2>1. env'[e] = [env[e] EXCEPT !.retire = "due"] /\ op' = op /\ thr' = thr
        /\ \A f \in Envs \ {e} : env'[f] = env[f]
    BY <1>0, <1>12 DEF RetireDue
  <2>2. /\ env'[e].owner = env[e].owner /\ env'[e].td = env[e].td
        /\ env'[e].status = env[e].status /\ env'[e].path = env[e].path
        /\ env'[e].claim = env[e].claim
    BY <1>0, <2>1 DEF EnvRow
  <2>3. RowKeeps(e)
    BY <1>0, <2>1, <2>2 DEF RowKeeps, Held, ClaimFits, Offered, Removing
  <2> QED BY <1>0, <2>1, <2>3, RowStepKeeps
\* The user's deletion spares the row of a thread that is starting.
<1>13. CASE DeleteEnv(e)
  <2>1. env'[e] = [env[e] EXCEPT !.td = "running", !.retire = "due"] /\ op' = op /\ thr' = thr
        /\ \A f \in Envs \ {e} : env'[f] = env[f]
    BY <1>0, <1>13 DEF DeleteEnv
  <2>2. env'[e].td = "running"
    BY <1>0, <2>1 DEF EnvRow
  <2>3. ASSUME NEW t \in Threads, Calling(thr[t]), Offered(env[e], t) PROVE FALSE
    <3>1. thr[t].status = "starting" /\ ~thr[t].arch /\ env[e].owner = t /\ t # None
      BY <1>0, <2>3, ConstantsAssumption DEF Calling, Offered, OwnersFit, StartupFits
    <3> QED BY <1>13, <3>1 DEF DeleteEnv
  <2>4. RowKeeps(e)
    BY <1>0, <2>1, <2>2, <2>3 DEF RowKeeps, Held, ClaimFits, Removing
  <2> QED BY <1>0, <2>1, <2>4, RowStepKeeps
<1> QED BY <1>3, <1>4, <1>5, <1>7, <1>8, <1>9, <1>10, <1>11, <1>12, <1>13 DEF Removal

\* The server and the host come and go, threads stop again and end their turns.
LEMMA RestKeepsOwners ==
  ASSUME OwnersInv, TypeOK',
         \/ \E t \in Threads : StopAgain(t) \/ TurnEnds(t)
         \/ HostDrops \/ HostReturns \/ Crash \/ UNCHANGED vars
  PROVE  OwnersFit'
PROOF
<1>0. TypeOK /\ OwnersFit /\ thr \in [Threads -> ThreadRow]
  BY DEF OwnersInv, ClaimsInv, TypeOK
<1>1. ASSUME NEW t \in Threads, StopAgain(t) \/ TurnEnds(t) PROVE OwnersFit'
  <2>1. PICK event \in LifecycleEvent \ {"run.preparing"} :
          thr' = [thr EXCEPT ![t] = ThreadApply(thr[t], event)]
    BY <1>1 DEF StopAgain, TurnEnds, LifecycleEvent
  <2>2. thr[t].status # "starting" /\ UNCHANGED <<env, op>>
    BY <1>1 DEF StopAgain, TurnEnds, StoppedBeforeStart
  <2>3. ThreadKeeps(t)
    BY <1>0, <2>1, <2>2, EventKeeps
  <2> QED BY <1>0, <2>1, <2>2, <2>3, ThreadStepKeeps
<1>2. ~AtHook(NoOp)
  BY DEF AtHook, NoOp
<1>3. ASSUME env' = env, \A e \in Envs : op'[e] \in {op[e], NoOp},
             \A t \in Threads : ThreadKeeps(t)
      PROVE  OwnersFit'
  BY <1>0, <1>2, <1>3, SameRowKeeps, KeepsOwners
<1>4. CASE HostDrops
  BY <1>0, <1>3, <1>4, SameThreadKeeps DEF HostDrops
<1>5. CASE HostReturns
  BY <1>0, <1>3, <1>5, RestingKeeps DEF HostReturns, StoppedBeforeStart
<1>6. CASE Crash
  BY <1>0, <1>3, <1>6, CallEndsKeeps DEF Crash
<1>7. CASE UNCHANGED vars
  BY <1>0, <1>3, <1>7, SameThreadKeeps DEF vars
<1> QED BY <1>1, <1>4, <1>5, <1>6, <1>7

-----------------------------------------------------------------------------

LEMMA OwnersKept == OwnersInv /\ [Next]_vars => OwnersInv'
PROOF
<1> SUFFICES ASSUME OwnersInv, [Next]_vars PROVE OwnersInv'
  OBVIOUS
<1>1. ClaimsInv' /\ TypeOK'
  BY ClaimsKept DEF OwnersInv, ClaimsInv
<1>2. ASSUME NEW t \in Threads, Request(t) \/ Placement(t) PROVE OwnersFit'
  BY <1>1, <1>2, RequestKeepsOwners, PlacementKeepsOwners
<1>3. ASSUME NEW e \in Envs, Creation(e) \/ Setup(e) \/ Removal(e) \/ DeleteEnv(e)
      PROVE  OwnersFit'
  BY <1>1, <1>3, CreationKeepsOwners, SetupKeepsOwners, RemovalKeepsOwners
<1>4. ASSUME \/ \E t \in Threads : StopAgain(t) \/ TurnEnds(t)
             \/ HostDrops \/ HostReturns \/ Crash \/ UNCHANGED vars
      PROVE  OwnersFit'
  BY <1>1, <1>4, RestKeepsOwners
<1>5. OwnersFit'
  BY <1>2, <1>3, <1>4 DEF Next
<1> QED BY <1>1, <1>5 DEF OwnersInv

LEMMA OwnersAtInit == Init => OwnersInv
PROOF
<1> SUFFICES ASSUME Init PROVE OwnersInv
  OBVIOUS
<1>1. OwnersFit
  BY DEF Init, OwnersFit, StartupFits, Calling, ClaimFits, AtHook, Held,
         NewThread, NoRow, NoOp
<1> QED BY <1>1, ClaimsAtInit DEF OwnersInv

\* A preparation that nobody cancelled always leads back to a thread: whatever
\* makes the owner leave (a stop, a failure, an archival, an attachment to
\* another row) lets go of its row, for any number of threads and rows and
\* however their starts, setups and removals interleave.
THEOREM ReservationsStayWanted == Spec => []ReservationsAreWanted
PROOF
<1>1. OwnersInv => ReservationsAreWanted
  BY DEF OwnersInv, OwnersFit, Held, LooksAfter, ReservationsAreWanted
<1>2. Spec => []OwnersInv
  BY OwnersAtInit, OwnersKept, PTL DEF Spec
<1> QED BY <1>1, <1>2, PTL
=============================================================================
