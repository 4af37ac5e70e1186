------------------------ MODULE EnvironmentUse_proofs ------------------------
(***************************************************************************)
(* Who uses a workspace: no turn loses it, it stays claimed until it is     *)
(* removed or handed over, and EnvironmentEngine implements WorkspaceUse.   *)
(* All of it for a provider that makes what it answers and for archived     *)
(* threads that stay archived; what else is known to break the promises is  *)
(* in the README.                                                           *)
(*                                                                          *)
(* The invariant says where nobody can live: at a row that has no workspace *)
(* yet, that is still being created, whose removal has begun, or that was   *)
(* given up.  Every way into a row looks at one of these, or is taken by    *)
(* the thread the row was prepared for.                                     *)
(***************************************************************************)
EXTENDS EnvironmentOwners_proofs

\* Nothing is adopted, and nobody comes back from the archive.
Settling == ~Adopts /\ Limit["back"] = 0

Live(th) == ~th.arch \/ th.status \in {"stopping", "active"}

NobodyIn(e) == \A t \in Threads : thr[t].env = e => ~Live(thr[t])

NothingOf(e) == \A p \in Paths : <<e, p>> \notin made

\* What a row and the operation on it tell of each other.
RowOK(row, o) ==
  /\ row.claim # None => row.owner # None
  /\ row.td = "removed" \/ row.status = "destroyed" =>
       row.claim = None /\ row.path = None
  /\ row.owner # None /\ row.path # None => row.claim = row.path
  /\ row.status \in {"ready", "provisioning"} => row.path # None
  /\ row.status = "none" => row.path = None
  /\ row.status = "creating" /\ row.path # None => Removing(row) \/ row.owner = None
  /\ o.kind = "create" => row.path = None /\ row.owner # None
  /\ o.kind = "create" /\ o.pc = "made" => o.path = row.claim /\ row.claim # None

\* A row nobody can live in: it has no workspace yet, or is being removed.
Deserted(row, o) ==
  \/ row.path = None
  \/ row.status = "creating"
  \/ o.kind = "remove" /\ o.pc \in {"hook", "busy"}
  \/ Removing(row) /\ row.owner = None

\* A thread asks a provider only while it has no workspace, and a call that
\* waits for the host is that of a thread that asked.
ThreadOK(th) ==
  /\ th.intent = "provider" => th.env = None /\ th.status \notin {"active", "stopping"}
  /\ th.status = "pending" => th.intent # "provider"
  /\ th.adv # None /\ th.start = th.advStart => th.intent # "reuse"

UsesFit ==
  /\ \A t \in Threads : ThreadOK(thr[t])
  /\ \A t \in Threads : Calling(thr[t]) => env[thr[t].adv].status = "ready"
  /\ \A t \in Threads : thr[t].status = "active" => env[thr[t].env].status = "ready"
  /\ \A e \in Envs : RowOK(env[e], op[e])
  /\ \A e \in Envs : Deserted(env[e], op[e]) => NobodyIn(e)
  /\ \A e \in Envs, t \in Threads : env[e].owner = t =>
       thr[t].env = None /\ thr[t].status # "pending"

\* What was made is at the row it was made for and at no other.
MadeFits ==
  /\ \A e \in Envs : \A f \in Envs \ {e} :
       env[e].claim # None => env[f].path # env[e].claim
  /\ \A e \in Envs : \A f \in Envs \ {e} : \A p \in Paths :
       <<e, p>> \in made => env[f].claim # p /\ env[f].path # p
  /\ \A e \in Envs : env[e].path # None => <<e, env[e].path>> \in made
  /\ \A e \in Envs : Created(e) => <<e, op[e].path>> \in made

UseInv == OwnersInv /\ UsesFit /\ MadeFits

-----------------------------------------------------------------------------
(* Most steps move nobody into a row he could not live in, and take nothing *)
(* from a row that somebody lives in.                                       *)

ThreadStays(t) ==
  /\ ThreadOK(thr'[t])
  /\ Calling(thr'[t]) => LET e == thr'[t].adv IN
       Offered(env[e], t) /\ env[e].status = "ready"
  /\ thr'[t].status = "active" =>
       /\ thr'[t].env = thr[t].env
       /\ Live(thr[t])
       /\ thr[t].status = "active" \/ env[thr[t].env].status = "ready"
  /\ \/ /\ thr'[t].env = thr[t].env
        /\ Live(thr'[t]) => Live(thr[t])
        /\ thr'[t].status = "pending" => thr[t].status = "pending"
     \/ /\ thr'[t].env \in Envs
        /\ ~Deserted(env'[thr'[t].env], op'[thr'[t].env])
        /\ \A e \in Envs : env'[e].owner # t

RowStays(e) ==
  /\ env'[e].owner \in {env[e].owner, None}
  /\ env'[e].claim \in {env[e].claim, None}
  /\ \/ env'[e].path = env[e].path
     \/ env'[e].path = None /\ NobodyIn(e) /\ NothingOf(e)'
  /\ \/ env'[e].claim = env[e].claim
     \/ env'[e].td = "none" /\ env'[e].path = env[e].claim
     \/ NothingOf(e)'
     \/ CreateRefused(e)
  /\ RowOK(env'[e], op'[e])
  /\ Deserted(env'[e], op'[e]) => NobodyIn(e)
  /\ env[e].status = "ready" =>
       \/ env'[e].status = "ready"
       \/ NobodyIn(e) /\ (env[e].owner = None \/ env[e].td # "none")
  /\ Created(e)' => Created(e) /\ op'[e].path = op[e].path

LEMMA StaysKeeps ==
  ASSUME TypeOK, TypeOK', UsesFit,
         \A t \in Threads : ThreadStays(t), \A e \in Envs : RowStays(e)
  PROVE  UsesFit'
PROOF
<1>1. \A t \in Threads : ThreadOK(thr[t])'
  BY DEF ThreadStays
<1>2. ASSUME NEW t \in Threads, Calling(thr'[t])
      PROVE  env'[thr'[t].adv].status = "ready"
  <2>1. thr'[t].adv \in Envs /\ t # None
    BY <1>2, ConstantsAssumption DEF TypeOK, ThreadRow, Calling
  <2> QED BY <1>2, <2>1 DEF ThreadStays, Offered, RowStays
<1>3. ASSUME NEW t \in Threads, thr'[t].status = "active"
      PROVE  env'[thr'[t].env].status = "ready"
  <2>1. thr'[t].env \in Envs /\ thr'[t].env = thr[t].env /\ Live(thr[t])
    BY <1>3 DEF TypeOK, ThreadRow, ThreadStays
  <2>2. env[thr[t].env].status = "ready"
    BY <1>3 DEF ThreadStays, UsesFit
  <2> QED BY <2>1, <2>2 DEF RowStays, NobodyIn
<1>4. \A e \in Envs : RowOK(env[e], op[e])'
  BY DEF RowStays
<1>5. ASSUME NEW e \in Envs, Deserted(env'[e], op'[e]),
             NEW t \in Threads, thr'[t].env = e
      PROVE  ~Live(thr'[t])
  BY <1>5 DEF RowStays, ThreadStays, NobodyIn
<1>6. ASSUME NEW e \in Envs, NEW t \in Threads, env'[e].owner = t
      PROVE  thr'[t].env = None /\ thr'[t].status # "pending"
  <2>1. env[e].owner = t
    BY <1>6, ConstantsAssumption DEF RowStays
  <2> QED BY <1>6, <2>1 DEF ThreadStays, UsesFit
<1>7. \A e \in Envs : Deserted(env[e], op[e])' => NobodyIn(e)'
  BY <1>5 DEF NobodyIn, Deserted, Live
<1> QED BY <1>1, <1>2, <1>3, <1>4, <1>6, <1>7
        DEF UsesFit, Calling, ThreadOK, RowOK, Deserted

\* Nothing new is made, and what a row needs stays.
LEMMA StaysKeepsMade ==
  ASSUME MadeFits, \A e \in Envs : RowStays(e), made' \subseteq made,
         \A e \in Envs : env'[e].path # None => <<e, env[e].path>> \in made',
         \A e \in Envs : Created(e)' => <<e, op[e].path>> \in made'
  PROVE  MadeFits'
PROOF
<1>1. \A e \in Envs : env'[e].path \in {env[e].path, None}
                      /\ env'[e].claim \in {env[e].claim, None}
  BY DEF RowStays
<1>2. \A e \in Envs : \A f \in Envs \ {e} :
        env'[e].claim # None => env'[f].path # env'[e].claim
  BY <1>1 DEF MadeFits
<1>3. ASSUME NEW e \in Envs, NEW f \in Envs \ {e}, NEW p \in Paths, <<e, p>> \in made'
      PROVE  env'[f].claim # p /\ env'[f].path # p
  BY <1>1, <1>3, ConstantsAssumption DEF MadeFits
<1>4. \A e \in Envs : env'[e].path # None => <<e, env'[e].path>> \in made'
  BY <1>1
<1>5. \A e \in Envs : Created(e)' => <<e, op'[e].path>> \in made'
  BY DEF RowStays
<1> QED BY <1>2, <1>3, <1>4, <1>5 DEF MadeFits

\* What does not change stays.
LEMMA SameThreadStays ==
  ASSUME OwnersFit, UsesFit, NEW t \in Threads, thr'[t] = thr[t]
  PROVE  ThreadStays(t)
PROOF BY DEF OwnersFit, UsesFit, ThreadStays, Live

LEMMA SameRowStays ==
  ASSUME UsesFit, NEW e \in Envs, env'[e] = env[e],
         \/ op'[e] = op[e]
         \/ /\ op'[e].kind = op[e].kind /\ op'[e].pc = op[e].pc
            /\ op'[e].path = op[e].path
         \/ /\ op'[e].kind \notin {"create", "remove"}
  PROVE  RowStays(e)
PROOF BY DEF UsesFit, RowStays, RowOK, Deserted, Created

\* An event ends what a thread does, or does not apply.
Ending == {"run.failed", "run.succeeded", "stop.settled"}

LEMMA EndingLeaves ==
  ASSUME NEW th \in ThreadRow, NEW event \in Ending
  PROVE  LET new == ThreadApply(th, event) IN
         /\ new \in ThreadRow
         /\ new.env = th.env /\ new.arch = th.arch /\ new.adv = th.adv
         /\ new.start = th.start /\ new.advStart = th.advStart
         /\ new.intent \in {th.intent, "none"}
         /\ new.status \in {th.status, "idle", "error"}
         /\ new.status = "starting" => new = th
PROOF
<1>1. event \in LifecycleEvent /\ event # "run.preparing"
  BY DEF Ending, LifecycleEvent
<1>2. ThreadApply(th, event).status \in {th.status, "idle", "error"}
  <2> DEFINE s == After(th.status, event, th.arch)
  <2>1. s \in {th.status, "idle", "error"}
    BY DEF Ending, After, Target
  <2> HIDE DEF s
  <2>2. \/ ThreadApply(th, event) = th
        \/ ThreadApply(th, event) = [th EXCEPT !.status = s]
        \/ ThreadApply(th, event)
             = [th EXCEPT !.status = s, !.intent = "none", !.attached = FALSE]
    BY DEF ThreadApply, s
  <2> QED BY <2>1, <2>2 DEF ThreadRow
<1> QED BY <1>1, <1>2, ApplyLeaves

LEMMA EndingStays ==
  ASSUME TypeOK, OwnersFit, UsesFit, NEW t \in Threads, NEW event \in Ending,
         \/ thr'[t] = thr[t]
         \/ thr'[t] = ThreadApply(thr[t], event)
         \/ thr'[t] = [ThreadApply(thr[t], event) EXCEPT !.adv = None]
         \/ thr'[t] = [thr[t] EXCEPT !.adv = None]
  PROVE  ThreadStays(t)
PROOF
<1> DEFINE new == ThreadApply(thr[t], event)
<1>0. thr[t] \in ThreadRow /\ ThreadOK(thr[t])
  BY DEF TypeOK, UsesFit
<1>1. /\ new \in ThreadRow
      /\ new.env = thr[t].env /\ new.arch = thr[t].arch /\ new.adv = thr[t].adv
      /\ new.start = thr[t].start /\ new.advStart = thr[t].advStart
      /\ new.intent \in {thr[t].intent, "none"}
      /\ new.status \in {thr[t].status, "idle", "error"}
      /\ new.status = "starting" => new = thr[t]
  BY <1>0, EndingLeaves
<1> HIDE DEF new
<1>2. ASSUME NEW th \in {thr[t], new, [new EXCEPT !.adv = None], [thr[t] EXCEPT !.adv = None]}
      PROVE  /\ th.env = thr[t].env /\ th.arch = thr[t].arch
             /\ th.start = thr[t].start /\ th.advStart = thr[t].advStart
             /\ th.adv \in {thr[t].adv, None}
             /\ th.intent \in {thr[t].intent, "none"}
             /\ th.status \in {thr[t].status, "idle", "error"}
             /\ th.status = "starting" => thr[t].status = "starting" /\ th.intent = thr[t].intent
  BY <1>0, <1>1, <1>2 DEF ThreadRow
<1>3. thr'[t] \in {thr[t], new, [new EXCEPT !.adv = None], [thr[t] EXCEPT !.adv = None]}
  BY DEF new
<1>4. ThreadOK(thr'[t])
  BY <1>0, <1>2, <1>3 DEF ThreadOK
<1>5. Calling(thr'[t]) => Calling(thr[t]) /\ thr'[t].adv = thr[t].adv
  BY <1>2, <1>3 DEF Calling
<1>6. Live(thr'[t]) => Live(thr[t])
  BY <1>2, <1>3 DEF Live
<1>7. thr'[t].status \in {"active", "pending"} => thr[t].status = thr'[t].status
  BY <1>2, <1>3
<1>8. thr'[t].env = thr[t].env
  BY <1>2, <1>3
<1> QED BY <1>4, <1>5, <1>6, <1>7, <1>8 DEF ThreadStays, OwnersFit, UsesFit, Live

\* A thread that starts anew.
LEMMA BeginStartStays ==
  ASSUME TypeOK, OwnersFit, UsesFit, NEW t \in Threads, CanSend(t),
         NEW intent \in {"provider", "reuse"},
         intent = "provider" => thr[t].env = None,
         thr'[t] = BeginStart(thr[t], intent, thr[t].env)
  PROVE  ThreadStays(t)
PROOF
<1>1. thr[t] \in ThreadRow /\ StartupFits(thr[t]) /\ thr[t].env \in Envs \union {None}
  BY DEF TypeOK, OwnersFit, ThreadRow
<1>2. /\ thr'[t].status = "starting" /\ thr'[t].env = thr[t].env
      /\ thr'[t].intent = intent
      /\ thr'[t].advStart # thr'[t].start
  BY <1>1, BeginStartLeaves DEF CanSend, StartupFits
<1>3. Live(thr[t])
  BY DEF CanSend, Live
<1> QED BY <1>2, <1>3 DEF ThreadStays, ThreadOK, Calling

\* A stop: who asks a provider has no workspace whose setup he could await.
LEMMA StoppedSettles ==
  ASSUME TypeOK, UsesFit, NEW t \in Threads, thr[t].status # "pending"
  PROVE  /\ Stopped(t).status \notin {"starting", "active", "pending"}
         /\ Stopped(t).intent = "provider" => Stopped(t).status # "stopping"
         /\ Stopped(t).adv = thr[t].adv
PROOF
<1> DEFINE new == ThreadApply(thr[t], "stop.requested")
           h   == new.halted \/ thr[t].status = "starting"
           asked == [new EXCEPT !.halted = h]
<1>0. /\ thr[t] \in ThreadRow /\ ThreadOK(thr[t])
      /\ "stop.requested" \in LifecycleEvent /\ "stop.settled" \in Ending
  BY DEF TypeOK, UsesFit, LifecycleEvent, Ending
<1>1. /\ new \in ThreadRow /\ new.adv = thr[t].adv
      /\ new.intent \in {thr[t].intent, "none"} /\ new.status # "starting"
  BY <1>0, ApplyLeaves
<1>2. new.status \notin {"active", "pending"}
  <2> DEFINE s == After(thr[t].status, "stop.requested", thr[t].arch)
  <2>1. s \notin {"active", "pending"}
    BY DEF After, Applies, Superseded, Sources, Target
  <2> HIDE DEF s
  <2>2. \/ new = thr[t] /\ s = thr[t].status
        \/ new = [thr[t] EXCEPT !.status = s]
        \/ new = [thr[t] EXCEPT !.status = s, !.intent = "none", !.attached = FALSE]
    BY DEF ThreadApply, s
  <2> HIDE DEF new
  <2> QED BY <1>0, <2>1, <2>2 DEF ThreadRow
<1>3. h \in BOOLEAN
  BY <1>1 DEF ThreadRow
<1>4. Stopped(t) = IF thr[t].status = "active" \/ AwaitsHostCancel(t) THEN asked
                   ELSE ThreadApply(asked, "stop.settled")
  BY DEF Stopped
<1> HIDE DEF new, h
<1>5. /\ asked \in ThreadRow /\ asked.status = new.status
      /\ asked.intent = new.intent /\ asked.adv = new.adv /\ asked.arch = new.arch
  BY <1>1, <1>3 DEF ThreadRow
<1> HIDE DEF asked
<1>6. CASE thr[t].status = "active" \/ AwaitsHostCancel(t)
  <2>1. thr[t].intent # "provider"
    BY <1>0, <1>6 DEF ThreadOK, AwaitsHostCancel
  <2> QED BY <1>1, <1>2, <1>4, <1>5, <1>6, <2>1
<1>7. CASE ~(thr[t].status = "active" \/ AwaitsHostCancel(t))
  <2> DEFINE over == ThreadApply(asked, "stop.settled")
  <2>1. /\ over.adv = asked.adv
        /\ over.status \in {asked.status, "idle", "error"}
    BY <1>0, <1>5, EndingLeaves
  <2>2. over.status # "stopping"
    <3> DEFINE s == After(asked.status, "stop.settled", asked.arch)
    <3>1. s # "stopping"
      BY DEF After, Applies, Superseded, Sources, Target
    <3> HIDE DEF s
    <3>2. \/ over = asked /\ s = asked.status
          \/ over = [asked EXCEPT !.status = s]
          \/ over = [asked EXCEPT !.status = s, !.intent = "none", !.attached = FALSE]
      BY DEF ThreadApply, s
    <3> HIDE DEF over
    <3> QED BY <1>5, <3>1, <3>2 DEF ThreadRow
  <2> HIDE DEF over
  <2>3. Stopped(t) = over
    BY <1>4, <1>7 DEF over
  <2> QED BY <1>1, <1>2, <1>5, <2>1, <2>2, <2>3
<1> QED BY <1>6, <1>7

\* A thread that is stopped, archived, or both.
LEMMA StoppedStays ==
  ASSUME TypeOK, OwnersFit, UsesFit, NEW t \in Threads,
         \/ /\ thr'[t] = Stopped(t)
            /\ thr[t].status \in {"starting", "active"}
         \/ /\ thr'[t] = [Stopped(t) EXCEPT !.arch = TRUE]
            /\ thr[t].status # "pending" /\ ~thr[t].arch
         \/ /\ thr'[t] = [thr[t] EXCEPT !.arch = TRUE]
            /\ thr[t].status \notin {"starting", "active"} /\ ~thr[t].arch
  PROVE  ThreadStays(t)
PROOF
<1> DEFINE stop == Stopped(t)
<1>0. thr[t] \in ThreadRow /\ StartupFits(thr[t]) /\ ThreadOK(thr[t])
  BY DEF TypeOK, OwnersFit, UsesFit
<1>1. Live(thr[t])
  BY <1>0 DEF Live, StartupFits
<1>2. CASE thr'[t] = [thr[t] EXCEPT !.arch = TRUE] /\ thr[t].status \notin {"starting", "active"}
  <2>1. /\ thr'[t].status = thr[t].status /\ thr'[t].env = thr[t].env
        /\ thr'[t].intent = thr[t].intent /\ thr'[t].adv = thr[t].adv
        /\ thr'[t].start = thr[t].start /\ thr'[t].advStart = thr[t].advStart
    BY <1>0, <1>2 DEF ThreadRow
  <2> QED BY <1>0, <1>1, <1>2, <2>1 DEF ThreadStays, ThreadOK, Calling
<1>3. CASE thr'[t] \in {stop, [stop EXCEPT !.arch = TRUE]} /\ thr[t].status # "pending"
  <2>1. /\ stop \in ThreadRow
        /\ stop.env = thr[t].env
        /\ stop.start = thr[t].start /\ stop.advStart = thr[t].advStart
        /\ stop.intent \in {thr[t].intent, "none"}
        /\ stop.status \notin {"starting", "active", "pending"}
        /\ stop.intent = "provider" => stop.status # "stopping"
        /\ stop.adv = thr[t].adv
    BY <1>3, StoppedLeaves, StoppedSettles
  <2> HIDE DEF stop
  <2>2. /\ thr'[t].env = stop.env /\ thr'[t].start = stop.start
        /\ thr'[t].advStart = stop.advStart /\ thr'[t].intent = stop.intent
        /\ thr'[t].status = stop.status /\ thr'[t].adv = stop.adv
    BY <1>3, <2>1 DEF ThreadRow
  <2> QED BY <1>0, <1>1, <2>1, <2>2 DEF ThreadStays, ThreadOK, Calling
<1> QED BY <1>2, <1>3

\* A thread whose turn starts.
LEMMA StartedStays ==
  ASSUME TypeOK, OwnersFit, UsesFit, NEW t \in Threads,
         thr[t].env # None, ~thr[t].arch, thr[t].intent # "provider",
         env[thr[t].env].status = "ready",
         thr'[t] = ThreadApply(thr[t], "run.started")
  PROVE  ThreadStays(t)
PROOF
<1> DEFINE s == After(thr[t].status, "run.started", thr[t].arch)
<1>0. thr[t] \in ThreadRow /\ ThreadOK(thr[t]) /\ "run.started" \in LifecycleEvent
  BY DEF TypeOK, UsesFit, LifecycleEvent
<1>1. /\ thr'[t] \in ThreadRow
      /\ thr'[t].env = thr[t].env /\ thr'[t].arch = thr[t].arch
      /\ thr'[t].adv = thr[t].adv
      /\ thr'[t].start = thr[t].start /\ thr'[t].advStart = thr[t].advStart
      /\ thr'[t].intent \in {thr[t].intent, "none"}
  BY <1>0, ApplyLeaves
<1>2. s = "pending" => thr[t].status = "pending"
  BY DEF After, Target
<1> HIDE DEF s
<1>3. \/ thr'[t] = thr[t]
      \/ thr'[t] = [thr[t] EXCEPT !.status = s]
      \/ thr'[t] = [thr[t] EXCEPT !.status = s, !.intent = "none", !.attached = FALSE]
  BY DEF ThreadApply, s
<1>4. thr'[t].status = "pending" => thr[t].status = "pending"
  BY <1>0, <1>2, <1>3 DEF ThreadRow
<1> QED BY <1>0, <1>1, <1>4 DEF ThreadStays, ThreadOK, Calling, Live

\* A preparation that is cancelled, and the creation that runs for it.
LEMMA CancelledRowStays ==
  ASSUME TypeOK, UsesFit, NEW t \in Threads, NEW e \in Envs,
         env' = MarkCancelled(env, t),
         op'[e].kind = op[e].kind, op'[e].pc = op[e].pc, op'[e].path = op[e].path
  PROVE  RowStays(e)
PROOF
<1>0. env \in [Envs -> EnvRow] /\ env[e] \in EnvRow /\ RowOK(env[e], op[e])
  BY DEF TypeOK, UsesFit
<1>1. CASE e = Preparing(env, t)
  <2>1. env[e].owner = t /\ t # None
    BY <1>1, PreparingFinds, ConstantsAssumption
  <2>2. /\ env'[e].owner = env[e].owner
        /\ env'[e].claim = env[e].claim /\ env'[e].path = env[e].path
        /\ Removing(env[e]) => Removing(env'[e])
        /\ env'[e].td = "removed" <=> env[e].td = "removed"
        /\ \/ env'[e].status = env[e].status
           \/ env[e].td = "removed" /\ env'[e].status = "destroyed"
    BY <1>0, <1>1, MarkCancelledFacts DEF MarkCancelled, EnvRow, Removing
  <2>3. RowOK(env'[e], op'[e])
    BY <1>0, <2>2 DEF RowOK
  <2>4. Deserted(env'[e], op'[e]) => Deserted(env[e], op[e])
    BY <2>1, <2>2 DEF Deserted
  <2>5. env[e].status = "ready" => env'[e].status = "ready"
    BY <1>0, <2>2 DEF RowOK
  <2> QED BY <2>2, <2>3, <2>4, <2>5 DEF RowStays, UsesFit, Created
<1>2. CASE e # Preparing(env, t)
  BY <1>2, SameRowStays DEF MarkCancelled
<1> QED BY <1>1, <1>2

-----------------------------------------------------------------------------
(* The actions that leave everybody where he can live.                      *)

Stays ==
  /\ \A t \in Threads : ThreadStays(t)
  /\ \A e \in Envs : RowStays(e)

\* A row that is there for the thread to come.
LEMMA NotDeserted ==
  ASSUME OwnersInv, UsesFit, NEW e \in Envs,
         env[e].td = "none", env[e].status \in {"ready", "provisioning"}
  PROVE  ~Deserted(env[e], op[e])
PROOF
<1>1. RowOK(env[e], op[e]) /\ FitsRow(env[e], op[e])
      /\ (AtHook(op[e]) => Removing(env[e]))
  BY DEF OwnersInv, ClaimsInv, OperationsFitRows, OwnersFit, UsesFit
<1> QED BY <1>1 DEF Deserted, RowOK, FitsRow, AtHook, Removing

\* A workspace with a claim on it is occupied for everybody but its owner.
LEMMA ClaimedIsOccupied ==
  ASSUME UsesFit, NEW e \in Envs, NEW own, own # e,
         env[e].owner # None, env[e].path # None
  PROVE  Occupied(e, own)
PROOF
<1>1. env[e].claim = env[e].path /\ env[e].status # "destroyed"
  BY DEF UsesFit, RowOK
<1> QED BY <1>1 DEF Occupied, PathClaimed

\* A thread that lives somewhere prepares nothing.
LEMMA SettledPreparesNothing ==
  ASSUME UsesFit, NEW t \in Threads, thr[t].env # None
  PROVE  Preparing(env, t) = None
PROOF BY PreparingFinds DEF UsesFit

\* A thread's message to its broken workspace sets it up again: nobody comes
\* back to a row that lost its workspace.
LEMMA RepairsInPlace ==
  ASSUME OwnersInv, UsesFit, NEW t \in Threads, StartReprovisioning(t)
  PROVE  thr'[t] = BeginStart(thr[t], "reuse", thr[t].env)
PROOF
<1> DEFINE e == thr[t].env
<1>0. /\ thr \in [Threads -> ThreadRow] /\ e \in Envs /\ e # None
      /\ env[e] \in EnvRow /\ RowOK(env[e], op[e])
      /\ ~thr[t].arch
  BY DEF StartReprovisioning, CanSend, OwnersInv, ClaimsInv, TypeOK, ThreadRow, UsesFit
<1>1. ~Deserted(env[e], op[e])
  BY <1>0 DEF UsesFit, NobodyIn, Live
<1>2. ~Occupied(e, None)
  BY <1>0, SettledPreparesNothing DEF StartReprovisioning
<1>3. env[e].path # None /\ ~(Removing(env[e]) /\ env[e].owner = None)
  BY <1>1 DEF Deserted
<1>4. env[e].owner = None
  BY <1>0, <1>2, <1>3, ClaimedIsOccupied
<1>5. env[e].td = "none"
  BY <1>0, <1>3, <1>4 DEF RowOK, Removing, EnvRow, Teardown
<1>6. env[e].status = "error"
  <2>1. env[e].status \notin {"none", "creating", "destroyed"}
    BY <1>0, <1>1, <1>3 DEF RowOK, Deserted
  <2>2. env[e].status \notin {"ready", "provisioning"}
    BY <1>3 DEF StartReprovisioning
  <2> QED BY <1>0, <2>1, <2>2 DEF EnvRow, EnvironmentStatus
<1> QED BY <1>0, <1>3, <1>5, <1>6 DEF StartReprovisioning

\* One thread changes.
LEMMA OneThreadStays ==
  ASSUME OwnersFit, UsesFit, NEW t \in Threads, ThreadStays(t),
         \A u \in Threads \ {t} : thr'[u] = thr[u], \A e \in Envs : RowStays(e)
  PROVE  Stays
PROOF
<1>1. \A u \in Threads \ {t} : ThreadStays(u)
  BY SameThreadStays
<1> QED BY <1>1 DEF Stays

\* One thread changes, and no row.
LEMMA ThreadStepStays ==
  ASSUME TypeOK, OwnersFit, UsesFit, NEW t \in Threads,
         NEW th, thr' = [thr EXCEPT ![t] = th], ThreadStays(t),
         UNCHANGED <<env, op>>
  PROVE  Stays
PROOF
<1>1. \A u \in Threads : ThreadStays(u)
  BY SameThreadStays DEF TypeOK
<1>2. \A e \in Envs : RowStays(e)
  BY SameRowStays
<1> QED BY <1>1, <1>2 DEF Stays

LEMMA RequestStays ==
  ASSUME Limit["back"] = 0, OwnersInv, UsesFit, NEW t \in Threads, Request(t)
  PROVE  Stays /\ UNCHANGED made
PROOF
<1>0. /\ TypeOK /\ OwnersFit
      /\ thr \in [Threads -> ThreadRow] /\ op \in [Envs -> Operation]
      /\ thr[t] \in ThreadRow /\ ThreadOK(thr[t]) /\ StartupFits(thr[t])
  BY DEF OwnersInv, ClaimsInv, TypeOK, OwnersFit, UsesFit
<1>1. ASSUME NEW e \in Envs, CreateIn(t, e) PROVE Stays
  <2>1. thr' = [thr EXCEPT ![t] = [thr[t] EXCEPT !.env = e]]
        /\ UNCHANGED <<env, op>>
    BY <1>0, <1>1 DEF CreateIn
  <2>2. ~Deserted(env[e], op[e])
    BY <1>1, NotDeserted DEF CreateIn
  <2>3. \A f \in Envs : env[f].owner # t
    BY <1>1 DEF CreateIn, UsesFit
  <2>4. /\ thr'[t].env = e /\ thr'[t].status = "pending"
        /\ thr'[t].intent = thr[t].intent /\ thr'[t].adv = thr[t].adv
        /\ thr'[t].start = thr[t].start /\ thr'[t].advStart = thr[t].advStart
    BY <1>0, <1>1, <2>1 DEF ThreadRow, CreateIn
  <2>5. ThreadStays(t)
    BY <1>0, <1>1, <2>1, <2>2, <2>3, <2>4
       DEF CreateIn, ThreadStays, ThreadOK, Calling, Deserted
  <2> QED BY <1>0, <2>1, <2>5, ThreadStepStays
<1>2. ASSUME StartFirst(t) PROVE Stays
  <2> DEFINE intent == IF thr[t].env = None THEN "provider" ELSE "reuse"
  <2>1. thr' = [thr EXCEPT ![t] = BeginStart(thr[t], intent, thr[t].env)]
    BY <1>0, <1>2 DEF StartFirst
  <2>2. ThreadStays(t)
    BY <1>0, <1>2, <2>1, BeginStartStays DEF StartFirst
  <2> QED BY <1>0, <1>2, <2>1, <2>2, ThreadStepStays DEF StartFirst
<1>3. ASSUME Restart(t) PROVE Stays
  <2>1. thr[t].env = None /\ CanSend(t)
    BY <1>3 DEF Restart
  <2>2. ThreadStays(t)
    <3>1. CASE thr' = thr
      BY <1>0, <3>1, SameThreadStays
    <3>2. CASE thr' # thr
      <4>1. thr'[t] = BeginStart(thr[t], "provider", thr[t].env)
        BY <1>0, <1>3, <2>1, <3>2 DEF Restart
      <4> QED BY <1>0, <2>1, <4>1, BeginStartStays
    <3> QED BY <3>1, <3>2
  <2>3. \A u \in Threads \ {t} : thr'[u] = thr[u]
    BY <1>0, <1>3 DEF Restart
  <2>4. \A e \in Envs : RowStays(e)
    BY <1>0, <1>3, AbortCreationFacts, CancelledRowStays DEF Restart
  <2> QED BY <1>0, <2>2, <2>3, <2>4, OneThreadStays
<1>4. ASSUME StartTurnInPlace(t) PROVE Stays
  <2>1. thr' = [thr EXCEPT ![t] = ThreadApply(thr[t], "run.started")]
        /\ UNCHANGED <<env, op>>
    BY <1>4 DEF StartTurnInPlace
  <2>2. ThreadStays(t)
    BY <1>0, <1>4, <2>1, StartedStays DEF StartTurnInPlace, CanSend, ThreadOK
  <2>3. \A u \in Threads \ {t} : thr'[u] = thr[u]
    BY <1>0, <2>1
  <2>4. \A e \in Envs : RowStays(e)
    BY <1>0, <2>1, SameRowStays
  <2> QED BY <1>0, <2>2, <2>3, <2>4, OneThreadStays
<1>5. ASSUME StartReprovisioning(t) PROVE Stays
  <2>1. PICK intent : thr' = [thr EXCEPT ![t] = BeginStart(thr[t], intent, thr[t].env)]
    BY <1>5 DEF StartReprovisioning
  <2>2. thr'[t] = BeginStart(thr[t], "reuse", thr[t].env)
    BY <1>5, RepairsInPlace
  <2>3. ThreadStays(t)
    BY <1>0, <1>5, <2>2, BeginStartStays DEF StartReprovisioning
  <2> QED BY <1>0, <1>5, <2>1, <2>3, ThreadStepStays DEF StartReprovisioning
<1>6. ASSUME Stop(t) PROVE Stays
  <2>1. thr'[t] = Stopped(t) /\ thr[t].status \in {"starting", "active"}
        /\ \A u \in Threads \ {t} : thr'[u] = thr[u]
    BY <1>0, <1>6 DEF Stop
  <2>2. ThreadStays(t)
    BY <1>0, <2>1, StoppedStays
  <2>3. CASE Abandons(t)
    <3>1. thr[t].env = None
      BY <1>0, <2>3 DEF Abandons, ThreadOK
    <3>2. env' = MarkCancelled(env, t)
      BY <1>6, <2>3 DEF Stop
    <3>3. \A e \in Envs : op'[e] = AbortCreation(env, op, t)[e]
      BY <1>6, <2>3, <3>1, ConstantsAssumption DEF Stop
    <3>4. \A e \in Envs : RowStays(e)
      BY <1>0, <3>2, <3>3, AbortCreationFacts, CancelledRowStays
    <3> QED BY <1>0, <2>1, <2>2, <3>4, OneThreadStays
  <2>4. CASE ~Abandons(t)
    <3>1. env' = env
      BY <1>6, <2>4 DEF Stop
    <3>2. ASSUME NEW e \in Envs
          PROVE  op'[e] = op[e] \/ op'[e].kind \notin {"create", "remove"}
      <4>1. \/ op'[e] = op[e]
            \/ op'[e] = CancelAsked(op[e]) /\ op[e].kind \in {"none", "attach"}
        BY <1>6, <2>4 DEF Stop, Cancellable
      <4>2. op[e] \in Operation
        BY <1>0
      <4>3. op[e].kind \in {"none", "attach"} => CancelAsked(op[e]).kind = "attach"
        BY <4>2 DEF CancelAsked, OpAt, NoOp, Operation
      <4> QED BY <4>1, <4>3
    <3>3. \A e \in Envs : RowStays(e)
      BY <3>1, <3>2, SameRowStays
    <3> QED BY <1>0, <2>1, <2>2, <3>3, OneThreadStays
  <2> QED BY <2>3, <2>4
<1>7. ASSUME Archive(t) PROVE Stays
  <2>1. /\ \A u \in Threads \ {t} : thr'[u] = thr[u]
        /\ env' = MarkCancelled(env, t)
        /\ op' = AbortCreation(env, op, t)
        /\ ~thr[t].arch
    BY <1>0, <1>7 DEF Archive
  <2>2. thr[t].status # "pending" \/ thr[t].status \notin {"starting", "active"}
    OBVIOUS
  <2>3. CASE thr[t].status \in {"starting", "active"} \/ StoppedBeforeStart(thr[t])
    <3>1. thr'[t] = [Stopped(t) EXCEPT !.arch = TRUE]
      BY <1>0, <1>7, <2>3 DEF Archive
    <3>2. ThreadStays(t)
      BY <1>0, <2>1, <2>3, <3>1, StoppedStays DEF StoppedBeforeStart
    <3>3. \A e \in Envs : RowStays(e)
      BY <1>0, <2>1, AbortCreationFacts, CancelledRowStays
    <3> QED BY <1>0, <2>1, <3>2, <3>3, OneThreadStays
  <2>4. CASE ~(thr[t].status \in {"starting", "active"} \/ StoppedBeforeStart(thr[t]))
    <3>1. thr'[t] = [thr[t] EXCEPT !.arch = TRUE]
      BY <1>0, <1>7, <2>4 DEF Archive
    <3>2. ThreadStays(t)
      BY <1>0, <2>1, <2>4, <3>1, StoppedStays
    <3>3. \A e \in Envs : RowStays(e)
      BY <1>0, <2>1, AbortCreationFacts, CancelledRowStays
    <3> QED BY <1>0, <2>1, <3>2, <3>3, OneThreadStays
  <2> QED BY <2>3, <2>4
<1>8. ~Unarchive(t)
  <2>1. spent["back"] \in Nat
    BY <1>0 DEF TypeOK, Disturbance
  <2>2. Unarchive(t) => spent["back"] < Limit["back"]
    BY Zenon DEF Unarchive, Spend
  <2>3. ~(spent["back"] < 0)
    BY <2>1
  <2> QED BY <2>2, <2>3
<1>9. UNCHANGED made
  BY <1>8 DEF Request, CreateIn, StartFirst, Restart, StartTurnInPlace,
              StartReprovisioning, Stop, Archive
<1> QED BY <1>1, <1>2, <1>3, <1>4, <1>5, <1>6, <1>7, <1>8, <1>9 DEF Request

\* A thread that goes on goes on with the row it reserved, or where it lives.
LEMMA AdvancingWhere ==
  ASSUME OwnersInv, UsesFit, NEW t \in Threads, Advancing(t)
  PROVE  /\ Wanted(t) \in Envs
         /\ \/ /\ thr[t].intent = "provider" /\ thr[t].env = None
               /\ env[Wanted(t)].owner = t /\ env[Wanted(t)].td = "none"
               /\ env[Wanted(t)].status \in {"provisioning", "ready"}
               /\ env[Wanted(t)].path # None
            \/ /\ thr[t].intent = "reuse" /\ thr[t].env = Wanted(t)
               /\ env[Wanted(t)].owner # t
               /\ ~Deserted(env[Wanted(t)], op[Wanted(t)])
PROOF
<1>0. /\ TypeOK /\ thr[t] \in ThreadRow /\ ThreadOK(thr[t])
      /\ Wanted(t) \in Envs \union {None} /\ Wanted(t) # None
      /\ thr[t].intent \in {"provider", "reuse"}
      /\ thr[t].status = "starting" /\ ~thr[t].arch
  BY WantedTypes DEF OwnersInv, ClaimsInv, UsesFit, TypeOK, Advancing, HasContext, ThreadRow
<1>1. CASE thr[t].intent = "provider"
  <2>1. Wanted(t) = Preparing(env, t)
    BY <1>1 DEF Wanted
  <2> QED BY <1>0, <1>1, <2>1, PreparingFinds DEF Advancing, ThreadOK
<1>2. CASE thr[t].intent = "reuse"
  <2>1. thr[t].env = Wanted(t)
    BY <1>2 DEF Wanted
  <2> QED BY <1>0, <1>2, <2>1 DEF UsesFit, NobodyIn, Live
<1> QED BY <1>0, <1>1, <1>2

\* Its thread takes over the row it prepared.
LEMMA ReleasedStays ==
  ASSUME OwnersInv, UsesFit, NEW t \in Threads, NEW e \in Envs,
         env[e].owner = t, env[e].td = "none", env[e].path # None,
         env[e].status \in {"provisioning", "ready"},
         env'[e] = Released(env[e], t), op'[e] = op[e]
  PROVE  RowStays(e) /\ ~Deserted(env'[e], op'[e]) /\ env'[e].owner # t
PROOF
<1>0. /\ env[e] \in EnvRow /\ RowOK(env[e], op[e]) /\ FitsRow(env[e], op[e]) /\ t # None
      /\ ~Deserted(env[e], op[e])
  BY NotDeserted, ConstantsAssumption
     DEF OwnersInv, ClaimsInv, TypeOK, OperationsFitRows, UsesFit
<1>1. /\ env'[e].owner = None /\ env'[e].claim = None
      /\ env'[e].path = env[e].path /\ env'[e].td = env[e].td
      /\ env'[e].status = env[e].status
  BY <1>0 DEF Released, EnvRow
<1>2. op[e].kind # "create"
  BY <1>0 DEF FitsRow
<1>3. ~Deserted(env'[e], op'[e])
  BY <1>0, <1>1 DEF Deserted, Removing
<1>4. RowOK(env'[e], op'[e])
  BY <1>0, <1>1, <1>2 DEF RowOK
<1> QED BY <1>0, <1>1, <1>2, <1>3, <1>4 DEF RowStays, RowOK, Created

\* A setup that is started over where somebody waits for it.
LEMMA ReopenedStays ==
  ASSUME OwnersInv, UsesFit, NEW e \in Envs,
         ~Deserted(env[e], op[e]),
         env'[e] = Reopened(env[e]), op'[e] = op[e]
  PROVE  RowStays(e)
PROOF
<1>0. env[e] \in EnvRow /\ RowOK(env[e], op[e]) /\ FitsRow(env[e], op[e])
  BY DEF OwnersInv, ClaimsInv, TypeOK, OperationsFitRows, UsesFit
<1>1. CASE env[e].status = "error"
  <2> DEFINE n == env[e].attempt + 1
  <2>1. env'[e] = [env[e] EXCEPT !.status = "provisioning", !.attempt = n]
    BY <1>1 DEF Reopened
  <2> HIDE DEF n
  <2>2. /\ env'[e].owner = env[e].owner /\ env'[e].claim = env[e].claim
        /\ env'[e].path = env[e].path /\ env'[e].td = env[e].td
        /\ env'[e].status = "provisioning"
    BY <1>0, <2>1 DEF EnvRow
  <2>3. ~Deserted(env'[e], op'[e]) /\ env[e].path # None
    BY <2>2 DEF Deserted, Removing
  <2>4. RowOK(env'[e], op'[e])
    BY <1>0, <1>1, <2>2, <2>3 DEF RowOK, FitsRow
  <2> QED BY <1>1, <2>2, <2>3, <2>4 DEF RowStays, Created
<1>2. CASE env[e].status # "error"
  BY <1>2, SameRowStays DEF Reopened
<1> QED BY <1>1, <1>2

\* The thread that attached.
LEMMA AttachedStays ==
  ASSUME TypeOK, OwnersFit, UsesFit, NEW t \in Threads, NEW e \in Envs,
         thr'[t] = Attached(thr[t], e), thr[t].status = "starting",
         \/ thr[t].env = e
         \/ /\ ~Deserted(env'[e], op'[e])
            /\ \A f \in Envs : env'[f].owner # t
  PROVE  ThreadStays(t)
PROOF
<1>0. thr[t] \in ThreadRow /\ StartupFits(thr[t])
  BY DEF TypeOK, OwnersFit
<1>1. /\ thr'[t].env = e /\ thr'[t].status = "starting" /\ thr'[t].intent = "reuse"
      /\ thr'[t].adv = None
  BY <1>0 DEF Attached, ThreadRow
<1> QED BY <1>0, <1>1 DEF ThreadStays, ThreadOK, StartupFits, Calling, Live

\* A thread's own row, once released, is owned by nobody who could be t.
LEMMA AttachingStays ==
  ASSUME OwnersInv, UsesFit, NEW t \in Threads, NEW e \in Envs,
         thr[t].status = "starting",
         env[e].owner = t, env[e].td = "none", env[e].path # None,
         env[e].status \in {"provisioning", "ready"},
         env'[e] = Released(env[e], t), \A f \in Envs \ {e} : env'[f] = env[f],
         thr'[t] = Attached(thr[t], e), \A u \in Threads \ {t} : thr'[u] = thr[u],
         op' = op
  PROVE  Stays
PROOF
<1>0. TypeOK /\ OwnersFit /\ OneOwner /\ t # None
  BY ConstantsAssumption DEF OwnersInv, ClaimsInv, RowsApart
<1>1. RowStays(e) /\ ~Deserted(env'[e], op'[e]) /\ env'[e].owner # t
  BY ReleasedStays
<1>2. \A f \in Envs : env'[f].owner # t
  BY <1>0, <1>1 DEF OneOwner
<1>3. ThreadStays(t)
  BY <1>0, <1>1, <1>2, AttachedStays
<1>4. \A f \in Envs : RowStays(f)
  BY <1>1, SameRowStays
<1> QED BY <1>0, <1>3, <1>4, OneThreadStays

LEMMA FailThreadStays ==
  ASSUME TypeOK, OwnersFit, UsesFit, NEW t \in Threads,
         FailThread(t) \/ thr' = [thr EXCEPT ![t].adv = None], UNCHANGED <<env, op>>
  PROVE  Stays
PROOF
<1>1. /\ \/ thr'[t] = [ThreadApply(thr[t], "run.failed") EXCEPT !.adv = None]
         \/ thr'[t] = [thr[t] EXCEPT !.adv = None]
      /\ \A u \in Threads \ {t} : thr'[u] = thr[u]
  BY DEF FailThread, TypeOK
<1>2. ThreadStays(t)
  BY <1>1, EndingStays DEF Ending
<1>3. \A e \in Envs : RowStays(e)
  BY SameRowStays
<1> QED BY <1>1, <1>2, <1>3, OneThreadStays

LEMMA PlacementStays ==
  ASSUME OwnersInv, UsesFit, NEW t \in Threads, Placement(t),
         ~\E e \in Envs : Reserve(t, e)
  PROVE  Stays /\ UNCHANGED made
PROOF
<1>0. /\ TypeOK /\ OwnersFit
      /\ thr \in [Threads -> ThreadRow] /\ env \in [Envs -> EnvRow]
      /\ thr[t] \in ThreadRow /\ ThreadOK(thr[t]) /\ StartupFits(thr[t])
  BY DEF OwnersInv, ClaimsInv, TypeOK, OwnersFit, UsesFit
<1>1. ASSUME Reject(t) PROVE Stays
  BY <1>0, <1>1, FailThreadStays DEF Reject
<1>2. ASSUME Attach(t) PROVE Stays
  <2> DEFINE e == Wanted(t)
  <2>1. Advancing(t) /\ thr[t].status = "starting"
    BY <1>2 DEF Attach, MayAttach, Advancing
  <2>2. /\ e \in Envs
        /\ \/ /\ env[e].owner = t /\ env[e].td = "none"
              /\ env[e].status \in {"provisioning", "ready"} /\ env[e].path # None
           \/ thr[t].env = e /\ env[e].owner # t /\ ~Deserted(env[e], op[e])
    BY <2>1, AdvancingWhere
  <2>3. /\ env' = [env EXCEPT ![e] = Released(Reopened(env[e]), t)]
        /\ thr' = [thr EXCEPT ![t] = Attached(thr[t], e)]
        /\ op' = op
    BY <1>2 DEF Attach
  <2> HIDE DEF e
  <2>4. /\ thr'[t] = Attached(thr[t], e) /\ \A u \in Threads \ {t} : thr'[u] = thr[u]
        /\ env'[e] = Released(Reopened(env[e]), t) /\ \A f \in Envs \ {e} : env'[f] = env[f]
    BY <1>0, <2>2, <2>3
  <2>5. CASE env[e].owner = t
    <3>1. env'[e] = Released(env[e], t)
      BY <2>2, <2>4, <2>5 DEF Reopened
    <3> QED BY <2>1, <2>2, <2>3, <2>4, <2>5, <3>1, AttachingStays
  <2>6. CASE env[e].owner # t
    <3>1. Reopened(env[e]).owner # t
      <4> DEFINE n == env[e].attempt + 1
      <4>1. \/ Reopened(env[e]) = env[e]
            \/ Reopened(env[e]) = [env[e] EXCEPT !.status = "provisioning", !.attempt = n]
        BY DEF Reopened
      <4> HIDE DEF n
      <4> QED BY <1>0, <2>2, <2>6, <4>1 DEF EnvRow
    <3>2. env'[e] = Reopened(env[e])
      BY <2>4, <3>1 DEF Released
    <3>3. RowStays(e)
      BY <2>2, <2>3, <2>6, <3>2, ReopenedStays
    <3>4. \A f \in Envs : RowStays(f)
      BY <2>3, <2>4, <3>3, SameRowStays
    <3>5. ThreadStays(t)
      BY <1>0, <2>1, <2>2, <2>4, <2>6, AttachedStays
    <3> QED BY <1>0, <2>4, <3>4, <3>5, OneThreadStays
  <2> QED BY <2>5, <2>6
<1>3. ASSUME AttachLater(t) PROVE Stays
  <2> DEFINE e == Wanted(t)
             th == [thr[t] EXCEPT !.adv = e, !.advStart = thr[t].start]
  <2>1. /\ Advancing(t) /\ thr[t].status = "starting"
        /\ env[e].status = "ready" /\ env[e].owner # None
        /\ env[e].owner # t => ~BusyFor(t, e)
    BY <1>3 DEF AttachLater, MayAttach, Advancing
  <2>2. /\ e \in Envs
        /\ \/ /\ thr[t].intent = "provider"
              /\ env[e].owner = t /\ env[e].td = "none"
           \/ thr[t].env = e /\ env[e].owner # t /\ ~Deserted(env[e], op[e])
    BY <2>1, AdvancingWhere
  <2>3. /\ thr' = [thr EXCEPT ![t] = th] /\ UNCHANGED <<env, op>>
    BY <1>0, <1>3 DEF AttachLater
  <2>4. thr'[t] = th /\ \A u \in Threads \ {t} : thr'[u] = thr[u]
    BY <1>0, <2>3
  <2>5. /\ th.adv = e /\ th.status = thr[t].status /\ th.env = thr[t].env
        /\ th.intent = thr[t].intent /\ th.arch = thr[t].arch
    BY <1>0 DEF ThreadRow
  <2> HIDE DEF th, e
  <2>6. env[e].owner = t
    <3> SUFFICES ASSUME env[e].owner # t PROVE FALSE
      OBVIOUS
    <3>1. thr[t].env = e /\ env[e].path # None /\ e # None
      BY <2>2, ConstantsAssumption DEF Deserted
    <3>2. Preparing(env, t) = None
      BY <3>1, SettledPreparesNothing
    <3>3. Occupied(e, None)
      BY <2>1, <2>2, <3>1, ClaimedIsOccupied
    <3> QED BY <2>1, <3>2, <3>3 DEF BusyFor
  <2>7. ThreadStays(t)
    BY <1>0, <2>1, <2>2, <2>3, <2>4, <2>5, <2>6
       DEF ThreadStays, ThreadOK, Calling, Offered, Live
  <2>8. \A f \in Envs : RowStays(f)
    BY <2>3, SameRowStays
  <2> QED BY <1>0, <2>4, <2>7, <2>8, OneThreadStays
<1>4. ASSUME AttachNow(t) PROVE Stays
  <2> DEFINE e == thr[t].adv
             current == HasContext(thr[t]) /\ thr[t].start = thr[t].advStart
  <2>1. e \in Envs /\ e # None /\ op' = op
    BY <1>0, <1>4 DEF AttachNow, ThreadRow
  <2>2. CASE current /\ ~BusyFor(t, e)
    <3>1. Calling(thr[t])
      BY <1>0, <2>1, <2>2 DEF Calling, HasContext, ThreadOK, ThreadRow
    <3>2. /\ env[e].owner = t /\ env[e].td = "none" /\ env[e].status = "ready"
          /\ env[e].path # None
      BY <2>1, <3>1 DEF OwnersInv, OwnersFit, UsesFit, Offered, RowOK
    <3>3. /\ env' = [env EXCEPT ![e] =
                       IF env[e].status \in {"provisioning", "ready"}
                       THEN Released(env[e], t) ELSE env[e]]
          /\ thr' = [thr EXCEPT ![t] = Attached(thr[t], e)]
      BY <1>4, <2>2 DEF AttachNow
    <3>4. thr[t].status = "starting"
      BY <3>1 DEF Calling
    <3> HIDE DEF e
    <3>5. /\ thr'[t] = Attached(thr[t], e) /\ \A u \in Threads \ {t} : thr'[u] = thr[u]
          /\ env'[e] = Released(env[e], t) /\ \A f \in Envs \ {e} : env'[f] = env[f]
      BY <1>0, <2>1, <3>2, <3>3
    <3> QED BY <2>1, <3>2, <3>4, <3>5, AttachingStays
  <2>3. CASE ~(current /\ ~BusyFor(t, e))
    BY <1>0, <1>4, <2>3, FailThreadStays DEF AttachNow
  <2> QED BY <2>2, <2>3
<1>5. ASSUME StartFails(t) PROVE Stays
  BY <1>0, <1>5, FailThreadStays DEF StartFails
<1>6. ASSUME StartTurn(t) PROVE Stays
  <2>1. /\ Advancing(t) /\ thr[t].attached /\ ~thr[t].arch
        /\ env[Wanted(t)].status = "ready"
        /\ thr' = [thr EXCEPT ![t] = ThreadApply(thr[t], "run.started")]
        /\ env' = env /\ op' = op
    BY <1>6 DEF StartTurn, Advancing
  <2>2. /\ thr[t].intent # "provider" /\ thr[t].env = Wanted(t)
        /\ thr[t].env # None
    BY <1>0, <2>1, AdvancingWhere, ConstantsAssumption DEF StartupFits
  <2>3. thr'[t] = ThreadApply(thr[t], "run.started")
        /\ \A u \in Threads \ {t} : thr'[u] = thr[u]
    BY <1>0, <2>1
  <2>4. ThreadStays(t)
    BY <1>0, <2>1, <2>2, <2>3, StartedStays
  <2>5. \A e \in Envs : RowStays(e)
    BY <2>1, SameRowStays
  <2> QED BY <1>0, <2>3, <2>4, <2>5, OneThreadStays
<1>7. UNCHANGED made
  BY DEF Placement, Reject, Attach, AttachLater, AttachNow, StartFails, StartTurn
<1> QED BY <1>1, <1>2, <1>3, <1>4, <1>5, <1>6, <1>7 DEF Placement

\* What happens to a row and its operation alone.
LEMMA OneRowStays ==
  ASSUME OwnersFit, UsesFit, NEW e \in Envs, thr' = thr, RowStays(e),
         \A f \in Envs \ {e} : env'[f] = env[f] /\ op'[f] = op[f]
  PROVE  Stays
PROOF
<1>1. \A t \in Threads : ThreadStays(t)
  BY SameThreadStays
<1>2. \A f \in Envs \ {e} : RowStays(f)
  BY SameRowStays
<1> QED BY <1>1, <1>2 DEF Stays

\* Creations that come to nothing: nothing is adopted.
LEMMA CreationStays ==
  ASSUME ~Adopts, UseInv, NEW e \in Envs,
         \/ StartCreate(e) \/ CreateFails(e) \/ CreateRefused(e)
         \/ \E p \in Paths : CreateFinds(e, p)
         \/ \E f \in Envs : CreateAdopts(e, f)
  PROVE  Stays /\ UNCHANGED made
PROOF
<1>0. /\ OwnersFit /\ UsesFit /\ MadeFits
      /\ env \in [Envs -> EnvRow] /\ op \in [Envs -> Operation]
      /\ env[e] \in EnvRow /\ op[e] \in Operation
      /\ RowOK(env[e], op[e]) /\ FitsRow(env[e], op[e])
      /\ Deserted(env[e], op[e]) => NobodyIn(e)
  BY DEF UseInv, OwnersInv, ClaimsInv, TypeOK, UsesFit, OperationsFitRows
<1>1. CASE StartCreate(e)
  <2>1. /\ op'[e] = CreateOp(e, env[e]) /\ env' = env /\ thr' = thr /\ made' = made
        /\ \A f \in Envs \ {e} : op'[f] = op[f]
        /\ env[e].status = "creating" /\ ~Removing(env[e]) /\ env[e].owner # None
    BY <1>0, <1>1 DEF StartCreate
  <2>2. env[e].path = None
    BY <1>0, <2>1 DEF RowOK
  <2>3. op'[e].kind = "create" /\ op'[e].pc = "asked"
    BY <2>1, <2>2 DEF CreateOp, OpAt, NoOp
  <2>4. RowOK(env'[e], op'[e])
    BY <1>0, <2>1, <2>2, <2>3 DEF RowOK
  <2>5. NobodyIn(e)
    BY <1>0, <2>1 DEF Deserted
  <2>6. RowStays(e)
    BY <2>1, <2>3, <2>4, <2>5 DEF RowStays, Created
  <2> QED BY <1>0, <2>1, <2>6, OneRowStays
<1>2. CASE CreateFails(e)
  <2> DEFINE row == [env[e] EXCEPT !.status = "error"]
  <2>1. /\ env'[e] \in {env[e], row} /\ op'[e] = NoOp /\ thr' = thr /\ made' = made
        /\ \A f \in Envs \ {e} : env'[f] = env[f] /\ op'[f] = op[f]
        /\ op[e].kind = "create"
    BY <1>0, <1>2 DEF CreateFails, Asked
  <2>2. /\ row.owner = env[e].owner /\ row.claim = env[e].claim
        /\ row.path = env[e].path /\ row.td = env[e].td /\ row.status = "error"
    BY <1>0 DEF EnvRow
  <2>3. NobodyIn(e) /\ env[e].status = "creating" /\ env[e].path = None
    BY <1>0, <2>1 DEF RowOK, FitsRow, Deserted
  <2>4. op'[e].kind = "none"
    BY <2>1 DEF NoOp
  <2> HIDE DEF row
  <2>5. RowStays(e)
    BY <1>0, <2>1, <2>2, <2>3, <2>4 DEF RowStays, RowOK, Created
  <2> QED BY <1>0, <2>1, <2>5, OneRowStays
<1>3. CASE CreateRefused(e)
  <2> DEFINE row == [env[e] EXCEPT !.td = "removed", !.claim = None, !.path = None]
             err == [row EXCEPT !.status = "error"]
  <2> HIDE DEF err
  <2>0. \/ env' = env
        \/ env' = [env EXCEPT ![e] = IF row.status = "creating" THEN err ELSE row]
    BY <1>3 DEF CreateRefused, err
  <2>1. /\ env'[e] \in {env[e], row, err} /\ op'[e] = NoOp /\ thr' = thr /\ made' = made
        /\ \A f \in Envs \ {e} : env'[f] = env[f] /\ op'[f] = op[f]
        /\ op[e].kind = "create"
    <3>1. /\ op' = [op EXCEPT ![e] = NoOp] /\ thr' = thr /\ made' = made
          /\ op[e].kind = "create"
      BY <1>3 DEF CreateRefused, Created
    <3> HIDE DEF row
    <3> QED BY <1>0, <2>0, <3>1
  <2>2. /\ row.owner = env[e].owner /\ row.claim = None
        /\ row.path = None /\ row.td = "removed" /\ row.status = env[e].status
        /\ err.owner = env[e].owner /\ err.claim = None
        /\ err.path = None /\ err.td = "removed" /\ err.status = "error"
    BY <1>0 DEF EnvRow, err
  <2>3. NobodyIn(e) /\ env[e].status = "creating" /\ env[e].path = None
    BY <1>0, <2>1 DEF RowOK, FitsRow, Deserted
  <2>4. op'[e].kind = "none"
    BY <2>1 DEF NoOp
  <2> HIDE DEF row, err
  <2>5. RowStays(e)
    BY <1>0, <1>3, <2>1, <2>2, <2>3, <2>4 DEF RowStays, RowOK, Created
  <2> QED BY <1>0, <2>1, <2>5, OneRowStays
<1>4. ~\E p \in Paths : CreateFinds(e, p)
  BY DEF CreateFinds
<1>5. ~\E f \in Envs : CreateAdopts(e, f)
  <2> SUFFICES ASSUME NEW f \in Envs, CreateAdopts(e, f) PROVE FALSE
    OBVIOUS
  <2>1. Created(e) /\ f \in Envs \ {e} /\ env[f].path = op[e].path
    BY DEF CreateAdopts, AtPath
  <2>2. op[e].path = env[e].claim /\ env[e].claim # None
    BY <1>0, <2>1 DEF Created, RowOK
  <2> QED BY <1>0, <2>1, <2>2 DEF MadeFits
<1> QED BY <1>1, <1>2, <1>3, <1>4, <1>5

\* An event of the setup: there is a workspace wherever a setup runs.
LEMMA EventRowStays ==
  ASSUME TypeOK, UsesFit, NEW e \in Envs,
         NEW event \in {"provision.succeeded", "provision.failed", "provision.cancelled"},
         env' = EnvApply(env, thr, e, event),
         op'[e] = op[e] \/ op'[e].kind \notin {"create", "remove"},
         \A f \in Envs \ {e} : op'[f] = op[f]
  PROVE  \A f \in Envs : RowStays(f)
PROOF
<1>0. /\ event \in EnvironmentEvent
      /\ env \in [Envs -> EnvRow] /\ env[e] \in EnvRow
      /\ RowOK(env[e], op[e])
  BY DEF TypeOK, UsesFit, EnvironmentEvent
<1>1. \A f \in Envs \ {e} : RowStays(f)
  BY <1>0, EnvApplyFacts, SameRowStays
<1>2. CASE env' = env
  BY <1>1, <1>2, SameRowStays
<1>3. CASE env' # env
  <2> DEFINE s == EnvAfter(env[e].status, event, env[e].path # None)
  <2>1. env[e].status \in EnvSources(event)
    BY <1>3 DEF EnvApply
  <2>2. env[e].status \in {"creating", "provisioning"}
    BY <2>1 DEF EnvSources
  <2>3. /\ s \in {"ready", "error"}
        /\ s = "ready" => env[e].status = "provisioning"
    BY <1>0, <2>1, <2>2 DEF EnvSources, EnvAfter, EnvTarget, RowOK
  <2>4. env' = [env EXCEPT ![e] = [env[e] EXCEPT !.status = s,
                                     !.path = IF s = "destroyed" THEN None ELSE env[e].path]]
    BY <1>3 DEF EnvApply
  <2> HIDE DEF s
  <2>5. /\ env'[e].owner = env[e].owner /\ env'[e].td = env[e].td
        /\ env'[e].claim = env[e].claim /\ env'[e].status = s
        /\ env'[e].path = env[e].path
    BY <1>0, <2>3, <2>4 DEF EnvRow
  <2>6. Deserted(env'[e], op'[e]) => Deserted(env[e], op[e])
    BY <2>3, <2>5 DEF Deserted, Removing
  <2>7. RowOK(env'[e], op'[e])
    BY <1>0, <2>2, <2>3, <2>5 DEF RowOK
  <2>8. RowStays(e)
    BY <2>2, <2>5, <2>6, <2>7 DEF RowStays, UsesFit, Created
  <2> QED BY <1>1, <2>8
<1> QED BY <1>2, <1>3

LEMMA SetupStays ==
  ASSUME OwnersInv, UsesFit, NEW e \in Envs, Setup(e)
  PROVE  Stays /\ UNCHANGED made
PROOF
<1>0. /\ TypeOK /\ OwnersFit
      /\ env \in [Envs -> EnvRow] /\ op \in [Envs -> Operation]
      /\ op[e] \in Operation /\ FitsRow(env[e], op[e])
  BY DEF OwnersInv, ClaimsInv, TypeOK, OperationsFitRows
<1>1. UNCHANGED made
  BY DEF Setup, SendSetup, InterruptSetup, SetupSucceeds, SetupFails, CancelSetup,
         SetupCancelled, CancelFails, HostGrace
<1>2. SetupFailureEvent(thr, e) \in {"provision.failed", "provision.cancelled"}
  BY DEF SetupFailureEvent
<1>3. \/ env' = env
      \/ \E event \in {"provision.succeeded", "provision.failed", "provision.cancelled"} :
           env' = EnvApply(env, thr, e, event)
  BY <1>2 DEF Setup, SendSetup, InterruptSetup, SetupSucceeds, SetupFails, CancelSetup,
              SetupCancelled, CancelFails, HostGrace, RecordSetupFailure
<1>4. \A f \in Envs \ {e} : op'[f] = op[f]
  BY <1>0 DEF Setup, SendSetup, InterruptSetup, SetupSucceeds, SetupFails, CancelSetup,
              SetupCancelled, CancelFails, HostGrace, SetupOver, CancelOver
<1>5. op'[e] = op[e] \/ op'[e].kind \notin {"create", "remove"}
  <2>1. CASE InterruptSetup(e) \/ HostGrace(e)
    BY <2>1 DEF InterruptSetup, HostGrace
  <2>2. CASE SendSetup(e)
    BY <1>0, <2>2 DEF SendSetup, OpAt, NoOp
  <2>3. CASE SetupSucceeds(e) \/ SetupFails(e)
    <3>1. SetupOver(e) /\ op[e].kind = "attach"
      BY <2>3 DEF SetupSucceeds, SetupFails, SetupSent
    <3> QED BY <1>0, <3>1 DEF SetupOver, NoOp, Operation
  <2>4. CASE CancelSetup(e)
    <3>1. op'[e] = CancelAsked(op[e]) /\ op[e].kind \in {"none", "attach"}
      BY <1>0, <2>4 DEF CancelSetup, Cancellable
    <3> QED BY <1>0, <3>1 DEF CancelAsked, OpAt, NoOp, Operation
  <2>5. CASE SetupCancelled(e) \/ CancelFails(e)
    <3>1. CancelOver(e) /\ op[e].kind = "attach"
      BY <1>0, <2>5 DEF SetupCancelled, CancelFails, FitsRow
    <3> QED BY <1>0, <3>1 DEF CancelOver, NoOp, Operation
  <2> QED BY <2>1, <2>2, <2>3, <2>4, <2>5 DEF Setup
<1>6. \A f \in Envs : RowStays(f)
  BY <1>0, <1>3, <1>4, <1>5, SameRowStays, EventRowStays
<1>7. \A t \in Threads :
        \/ thr'[t] = thr[t]
        \/ \E event \in Ending : thr'[t] = ThreadApply(thr[t], event)
  BY DEF Setup, SendSetup, InterruptSetup, SetupSucceeds, SetupFails, CancelSetup,
         SetupCancelled, CancelFails, HostGrace, RecordSetupFailure,
         ThreadsAfterFailure, Ending
<1>8. \A t \in Threads : ThreadStays(t)
  BY <1>0, <1>7, SameThreadStays, EndingStays
<1> QED BY <1>1, <1>6, <1>8 DEF Stays

\* A removal that succeeds leaves nothing of the row: nobody is there.
LEMMA RemovalClears ==
  ASSUME OwnersInv, UsesFit, NEW e \in Envs, RemoveSucceeds(e)
  PROVE  /\ NobodyIn(e) /\ env[e].status # "ready"
         /\ env'[e].td = "removed" /\ env'[e].status = "destroyed"
         /\ env'[e].claim = None /\ env'[e].path = None /\ env'[e].owner = env[e].owner
         /\ thr' = thr /\ op'[e] = NoOp
         /\ \A f \in Envs \ {e} : env'[f] = env[f] /\ op'[f] = op[f]
PROOF
<1>0. /\ env \in [Envs -> EnvRow] /\ op \in [Envs -> Operation]
      /\ env[e] \in EnvRow
      /\ RowOK(env[e], op[e]) /\ FitsRow(env[e], op[e])
      /\ Deserted(env[e], op[e]) => NobodyIn(e)
  BY DEF OwnersInv, ClaimsInv, TypeOK, UsesFit, OperationsFitRows
<1> DEFINE row  == [env[e] EXCEPT !.td = "removed", !.claim = None, !.retire = "none"]
           rows == [env EXCEPT ![e] = row]
<1>1. /\ row \in EnvRow /\ row.td = "removed" /\ row.claim = None
      /\ row.owner = env[e].owner /\ row.path = env[e].path /\ row.status = env[e].status
  BY <1>0 DEF EnvRow, Teardown
<1> HIDE DEF row
<1>2. /\ rows \in [Envs -> EnvRow] /\ rows[e] = row
      /\ \A f \in Envs \ {e} : rows[f] = env[f]
  BY <1>0, <1>1
<1>3. /\ env' = EnvApply(rows, thr, e, "destroy.recorded") /\ thr' = thr
      /\ op'[e] = NoOp /\ \A f \in Envs \ {e} : op'[f] = op[f]
  BY <1>0 DEF RemoveSucceeds, row
<1> HIDE DEF rows
<1>4. /\ env'[e].td = "removed" /\ env'[e].claim = None /\ env'[e].owner = env[e].owner
      /\ \A f \in Envs \ {e} : env'[f] = env[f]
  <2>1. "destroy.recorded" \in EnvironmentEvent
    BY DEF EnvironmentEvent
  <2> QED BY <1>1, <1>2, <1>3, <2>1, EnvApplyFacts
<1>5. /\ NobodyIn(e) /\ ~StillInhabited(thr, e)
      /\ env[e].status \in {"error", "destroyed"}
  BY <1>0 DEF RemoveSucceeds, InRemoval, FitsRow, Deserted, NobodyIn, Live, StillInhabited
<1>6. env'[e].status = "destroyed" /\ env'[e].path = None
  <2>1. CASE env[e].status = "error"
    <3>1. EnvAfter(rows[e].status, "destroy.recorded", rows[e].path # None) = "destroyed"
          /\ rows[e].status \in EnvSources("destroy.recorded")
      BY <1>1, <1>2, <2>1 DEF EnvAfter, EnvSources, EnvTarget
    <3>2. env' = [rows EXCEPT ![e] = [rows[e] EXCEPT !.status = "destroyed", !.path = None]]
      BY <1>3, <1>5, <3>1 DEF EnvApply
    <3> QED BY <1>1, <1>2, <3>2 DEF EnvRow
  <2>2. CASE env[e].status = "destroyed"
    <3>1. env' = rows
      BY <1>1, <1>2, <1>3, <2>2 DEF EnvApply, EnvSources
    <3> QED BY <1>0, <1>1, <1>2, <2>2, <3>1 DEF RowOK
  <2> QED BY <1>5, <2>1, <2>2
<1> QED BY <1>0, <1>3, <1>4, <1>5, <1>6

\* Who lives there was looked at before a removal began, and nobody has come.
LEMMA RemovalStays ==
  ASSUME OwnersInv, UsesFit, NEW e \in Envs, Removal(e) \/ DeleteEnv(e)
  PROVE  Stays /\ (RemoveSucceeds(e) \/ UNCHANGED made)
PROOF
<1>0. /\ TypeOK /\ OwnersFit
      /\ env \in [Envs -> EnvRow] /\ op \in [Envs -> Operation]
      /\ env[e] \in EnvRow /\ op[e] \in Operation
      /\ RowOK(env[e], op[e]) /\ FitsRow(env[e], op[e])
      /\ Deserted(env[e], op[e]) => NobodyIn(e)
      /\ AtHook(op[e]) => Removing(env[e])
  BY DEF OwnersInv, ClaimsInv, TypeOK, OwnersFit, UsesFit, OperationsFitRows
<1>1. HasLiveThreads(thr, e) <=> ~NobodyIn(e)
  BY DEF HasLiveThreads, NobodyIn, Live
<1>2. NoOp.kind = "none"
  BY DEF NoOp
<1>3. ASSUME Sweep(e) PROVE Stays
  <2>1. /\ env' = env /\ thr' = thr /\ \A f \in Envs \ {e} : op'[f] = op[f]
        /\ \/ op'[e] = OpAt("remove", "slot")
           \/ op'[e] = [op[e] EXCEPT !.aborted = TRUE]
    BY <1>0, <1>3 DEF Sweep
  <2>2. CASE op'[e] = OpAt("remove", "slot")
    <3>1. op'[e].kind = "remove" /\ op'[e].pc = "slot"
      BY <2>2 DEF OpAt, NoOp
    <3>2. RowStays(e)
      BY <1>0, <2>1, <3>1 DEF RowStays, RowOK, Deserted, Created
    <3> QED BY <1>0, <2>1, <3>2, OneRowStays
  <2>3. CASE op'[e] = [op[e] EXCEPT !.aborted = TRUE]
    <3>1. op'[e].kind = op[e].kind /\ op'[e].pc = op[e].pc /\ op'[e].path = op[e].path
      BY <1>0, <2>3 DEF Operation
    <3> QED BY <1>0, <2>1, <3>1, SameRowStays, OneRowStays
  <2> QED BY <2>1, <2>2, <2>3
<1>4. ASSUME SlotSpares(e) PROVE Stays
  <2> DEFINE freed == [env[e] EXCEPT !.owner = None, !.claim = None, !.retire = "none",
                                     !.td = "none"]
             kept  == [env[e] EXCEPT !.retire = "none"]
  <2>1. /\ \/ env'[e] = env[e]
           \/ env'[e] = freed /\ CancelledRow(env[e]) /\ ~NobodyIn(e)
           \/ env'[e] = kept
        /\ op'[e] = NoOp /\ thr' = thr
        /\ \A f \in Envs \ {e} : env'[f] = env[f] /\ op'[f] = op[f]
    BY <1>0, <1>1, <1>4 DEF SlotSpares
  <2>2. /\ freed.owner = None /\ freed.claim = None /\ freed.td = "none"
        /\ freed.path = env[e].path /\ freed.status = env[e].status
        /\ kept.owner = env[e].owner /\ kept.claim = env[e].claim
        /\ kept.td = env[e].td /\ kept.path = env[e].path /\ kept.status = env[e].status
    BY <1>0 DEF EnvRow
  <2> HIDE DEF freed, kept
  <2>3. RowStays(e)
    <3>1. CASE env'[e] = env[e]
      BY <1>2, <2>1, <3>1, <1>0, SameRowStays
    <3>2. CASE env'[e] = freed /\ CancelledRow(env[e]) /\ ~NobodyIn(e)
      <4>1. ~Deserted(env[e], op[e])
        BY <1>0, <3>2
      <4>2. env[e].claim = env[e].path /\ env[e].path # None /\ env[e].status # "destroyed"
        BY <1>0, <3>2, <4>1 DEF RowOK, Deserted, CancelledRow
      <4>3. ~Deserted(env'[e], op'[e])
        BY <1>2, <2>1, <2>2, <3>2, <4>1 DEF Deserted, Removing
      <4>4. RowOK(env'[e], op'[e])
        BY <1>0, <1>2, <2>1, <2>2, <3>2, <4>2 DEF RowOK
      <4> QED BY <1>2, <2>1, <2>2, <3>2, <4>2, <4>3, <4>4 DEF RowStays, Created
    <3>3. CASE env'[e] = kept
      BY <1>0, <1>2, <2>1, <2>2, <3>3 DEF RowStays, RowOK, Deserted, Removing, Created
    <3> QED BY <2>1, <3>1, <3>2, <3>3
  <2> QED BY <1>0, <2>1, <2>3, OneRowStays
<1>5. ASSUME SlotWaits(e) \/ RetireDue(e) PROVE Stays
  <2>1. /\ \/ env'[e] = [env[e] EXCEPT !.retire =
                           IF @ = "none" /\ e \in Lasting THEN @ ELSE "waiting"]
           \/ env'[e] = [env[e] EXCEPT !.retire = "due"]
        /\ op'[e] \in {op[e], NoOp} /\ thr' = thr
        /\ \A f \in Envs \ {e} : env'[f] = env[f] /\ op'[f] = op[f]
    BY <1>0, <1>5 DEF SlotWaits, RetireDue
  <2>2. /\ env'[e].owner = env[e].owner /\ env'[e].claim = env[e].claim
        /\ env'[e].td = env[e].td /\ env'[e].path = env[e].path
        /\ env'[e].status = env[e].status
    BY <1>0, <2>1 DEF EnvRow
  <2>3. RowStays(e)
    BY <1>0, <1>2, <2>1, <2>2 DEF RowStays, RowOK, Deserted, Removing, Created
  <2> QED BY <1>0, <2>1, <2>3, OneRowStays
<1>6. ASSUME NEW row \in EnvRow
      PROVE  /\ GivenUp(row).owner = row.owner /\ GivenUp(row).claim = row.claim
             /\ GivenUp(row).path = row.path /\ GivenUp(row).td = "running"
             /\ GivenUp(row).status = IF row.status = "destroyed" THEN "destroyed" ELSE "error"
  BY <1>6 DEF GivenUp, EnvRow
<1>7. ASSUME SlotBegins(e) PROVE Stays
  <2> DEFINE row == [env[e] EXCEPT !.retire = "due",
                                   !.td = IF @ = "none" THEN "running" ELSE @]
  <2>1. /\ env'[e] \in {row, GivenUp(row)} /\ thr' = thr
        /\ \A f \in Envs \ {e} : env'[f] = env[f] /\ op'[f] = op[f]
        /\ env[e].owner # None => env[e].td # "none"
        /\ env[e].td # "removed" /\ NobodyIn(e)
        /\ op[e].kind = "remove"
        /\ op'[e] \in {[op[e] EXCEPT !.pc = "hook"], [op[e] EXCEPT !.pc = "busy"]}
    BY <1>0, <1>1, <1>7 DEF SlotBegins, SlotRetires, CancelledRow, InSlot
  <2>2. /\ row \in EnvRow /\ Removing(row)
        /\ row.owner = env[e].owner /\ row.claim = env[e].claim
        /\ row.path = env[e].path /\ row.status = env[e].status
    BY <1>0, <2>1 DEF EnvRow, Teardown, Removing
  <2>3. op'[e].kind = "remove"
    BY <1>0, <2>1 DEF Operation
  <2> HIDE DEF row
  <2>4. /\ env'[e].owner = env[e].owner /\ env'[e].claim = env[e].claim
        /\ env'[e].path = env[e].path /\ Removing(env'[e])
        /\ \/ env'[e].status = env[e].status
           \/ env'[e].status = "error" /\ env[e].status # "destroyed"
    BY <1>6, <2>1, <2>2 DEF Removing
  <2>5. RowStays(e)
    BY <1>0, <2>1, <2>3, <2>4 DEF RowStays, RowOK, Created, Removing
  <2> QED BY <1>0, <2>1, <2>5, OneRowStays
<1>8. ASSUME HookStopped(e) PROVE Stays
  <2>1. Removing(env[e]) /\ NobodyIn(e) /\ op[e].kind = "remove"
    BY <1>0, <1>8 DEF HookStopped, InHook, AtHook, Deserted
  <2>2. /\ env'[e] = GivenUp(env[e]) /\ thr' = thr
        /\ op'[e] = [op[e] EXCEPT !.pc = "busy"]
        /\ \A f \in Envs \ {e} : env'[f] = env[f] /\ op'[f] = op[f]
    BY <1>0, <1>8, <2>1 DEF HookStopped, Removing
  <2>3. /\ env'[e].owner = env[e].owner /\ env'[e].claim = env[e].claim
        /\ env'[e].path = env[e].path /\ env'[e].td = "running"
        /\ env'[e].status = IF env[e].status = "destroyed" THEN "destroyed" ELSE "error"
    BY <1>0, <1>6, <2>2
  <2>4. op'[e].kind = "remove"
    BY <1>0, <2>1, <2>2 DEF Operation
  <2>5. RowStays(e)
    BY <1>0, <2>1, <2>3, <2>4 DEF RowStays, RowOK, Removing, Created
  <2> QED BY <1>0, <2>2, <2>5, OneRowStays
<1>9. ASSUME HookUnknown(e) PROVE Stays
  <2>1. op'[e] = NoOp /\ env' = env /\ thr' = thr /\ \A f \in Envs \ {e} : op'[f] = op[f]
    BY <1>0, <1>9 DEF HookUnknown
  <2> QED BY <1>0, <1>2, <2>1, SameRowStays, OneRowStays
<1>10. ASSUME RemoveSucceeds(e) PROVE Stays
  <2>1. NothingOf(e)'
    BY <1>10 DEF RemoveSucceeds, NothingOf
  <2>2. /\ NobodyIn(e) /\ env[e].status # "ready"
        /\ env'[e].td = "removed" /\ env'[e].status = "destroyed"
        /\ env'[e].claim = None /\ env'[e].path = None /\ env'[e].owner = env[e].owner
        /\ thr' = thr /\ op'[e] = NoOp
        /\ \A f \in Envs \ {e} : env'[f] = env[f] /\ op'[f] = op[f]
    BY <1>10, RemovalClears
  <2>3. RowOK(env'[e], op'[e])
    BY <1>2, <2>2 DEF RowOK
  <2>4. RowStays(e)
    BY <1>2, <2>1, <2>2, <2>3 DEF RowStays, Created
  <2> QED BY <1>0, <2>2, <2>4, OneRowStays
<1>11. ASSUME RemoveFails(e) PROVE Stays
  <2>1. /\ env'[e] = [env[e] EXCEPT !.td = "failed", !.retire = "waiting"]
        /\ op'[e] = NoOp /\ thr' = thr
        /\ op[e].kind = "remove" /\ op[e].pc = "busy"
        /\ \A f \in Envs \ {e} : env'[f] = env[f] /\ op'[f] = op[f]
    BY <1>0, <1>11 DEF RemoveFails, InRemoval
  <2>2. /\ env'[e].owner = env[e].owner /\ env'[e].claim = env[e].claim
        /\ env'[e].path = env[e].path /\ env'[e].td = "failed"
        /\ env'[e].status = env[e].status
    BY <1>0, <2>1 DEF EnvRow
  <2>3. NobodyIn(e) /\ env[e].td = "running"
    BY <1>0, <2>1 DEF Deserted, FitsRow
  <2>4. RowStays(e)
    BY <1>0, <1>2, <2>1, <2>2, <2>3 DEF RowStays, RowOK, Removing, Created
  <2> QED BY <1>0, <2>1, <2>4, OneRowStays
<1>12. ASSUME DeleteEnv(e) PROVE Stays
  <2>1. /\ env'[e] = [env[e] EXCEPT !.td = "running", !.retire = "due"]
        /\ op' = op /\ thr' = thr /\ NobodyIn(e) /\ env[e].td = "none"
        /\ \A f \in Envs \ {e} : env'[f] = env[f]
    BY <1>0, <1>1, <1>12 DEF DeleteEnv
  <2>2. /\ env'[e].owner = env[e].owner /\ env'[e].claim = env[e].claim
        /\ env'[e].path = env[e].path /\ env'[e].td = "running"
        /\ env'[e].status = env[e].status
    BY <1>0, <2>1 DEF EnvRow
  <2>3. RowStays(e)
    BY <1>0, <2>1, <2>2 DEF RowStays, RowOK, Removing, Created
  <2> QED BY <1>0, <2>1, <2>3, OneRowStays
<1>13. RemoveSucceeds(e) \/ UNCHANGED made
  BY DEF Removal, Sweep, SlotSpares, SlotWaits, SlotBegins, HookStopped, HookUnknown,
         RemoveFails, RetireDue, DeleteEnv
<1> QED BY <1>3, <1>4, <1>5, <1>7, <1>8, <1>9, <1>10, <1>11, <1>12, <1>13 DEF Removal

LEMMA RestStays ==
  ASSUME OwnersInv, UsesFit,
         \/ \E t \in Threads : StopAgain(t) \/ TurnEnds(t)
         \/ HostDrops \/ HostReturns \/ Crash \/ UNCHANGED vars
  PROVE  Stays /\ UNCHANGED made
PROOF
<1>0. TypeOK /\ OwnersFit
  BY DEF OwnersInv, ClaimsInv
<1>1. env' = env /\ made' = made /\ \A e \in Envs : op'[e] \in {op[e], NoOp}
  BY DEF StopAgain, TurnEnds, HostDrops, HostReturns, Crash, vars
<1>2. NoOp.kind = "none"
  BY DEF NoOp
<1>3. \A e \in Envs : RowStays(e)
  BY <1>0, <1>1, <1>2, SameRowStays
<1>4. \A t \in Threads :
        \/ thr'[t] = thr[t]
        \/ thr'[t] = [thr[t] EXCEPT !.adv = None]
        \/ \E event \in Ending : thr'[t] = ThreadApply(thr[t], event)
  BY <1>0 DEF StopAgain, TurnEnds, HostDrops, HostReturns, Crash, vars, Ending, TypeOK
<1>5. Ending # {}
  BY DEF Ending
<1>6. \A t \in Threads : ThreadStays(t)
  BY <1>0, <1>4, <1>5, SameThreadStays, EndingStays
<1> QED BY <1>1, <1>3, <1>6 DEF Stays

-----------------------------------------------------------------------------
(* The steps that give a row what it did not have.  Nobody is there yet.     *)

LEMMA EmptyRowChanges ==
  ASSUME TypeOK, UsesFit, NEW e \in Envs, thr' = thr, NobodyIn(e),
         \A f \in Envs \ {e} : env'[f] = env[f] /\ op'[f] = op[f],
         env[e].status # "ready", RowOK(env'[e], op'[e]),
         \A t \in Threads : env'[e].owner = t => thr[t].env = None /\ thr[t].status # "pending"
  PROVE  UsesFit'
PROOF
<1>1. \A t \in Threads : Calling(thr[t]) =>
        thr[t].adv \in Envs /\ env'[thr[t].adv].status = "ready"
  BY DEF UsesFit, TypeOK, ThreadRow, Calling
<1>2. ASSUME NEW t \in Threads, thr[t].status = "active"
      PROVE  env'[thr[t].env].status = "ready"
  <2>1. thr[t].env \in Envs /\ env[thr[t].env].status = "ready"
    BY <1>2 DEF UsesFit, TypeOK, ThreadRow
  <2> QED BY <2>1
<1>3. \A f \in Envs : RowOK(env'[f], op'[f]) /\ (Deserted(env'[f], op'[f]) => NobodyIn(f))
  BY DEF UsesFit
<1>4. \A f \in Envs, t \in Threads : env'[f].owner = t =>
        thr[t].env = None /\ thr[t].status # "pending"
  BY DEF UsesFit
<1>5. \A t \in Threads : ThreadOK(thr[t])
  BY DEF UsesFit
<1> QED BY <1>1, <1>2, <1>3, <1>4, <1>5
        DEF UsesFit, Calling, NobodyIn, Live, ThreadOK, RowOK, Deserted, Removing

LEMMA ReserveUses ==
  ASSUME UseInv, NEW t \in Threads, NEW e \in Envs, Reserve(t, e)
  PROVE  UsesFit' /\ MadeFits'
PROOF
<1> DEFINE own  == Preparing(env, t)
           last == IF own # None THEN env[own].attempt
                   ELSE IF thr[t].env # None THEN env[thr[t].env].attempt ELSE 0
           row  == [NoRow EXCEPT !.status = "creating", !.owner = t, !.attempt = last + 1]
<1>0. /\ TypeOK /\ UsesFit /\ MadeFits
      /\ env \in [Envs -> EnvRow] /\ op \in [Envs -> Operation]
      /\ RowOK(env[e], op[e]) /\ FitsRow(env[e], op[e])
      /\ t # None /\ e # None
  BY ConstantsAssumption
     DEF UseInv, OwnersInv, ClaimsInv, TypeOK, OperationsFitRows, UsesFit
<1>1. /\ row.status = "creating" /\ row.owner = t /\ row.path = None
      /\ row.claim = None /\ row.td = "none"
  BY DEF NoRow
<1>2. /\ env' = [env EXCEPT ![e] = row] /\ thr' = thr /\ made' = made
      /\ op' = IF op[e].kind = "none" THEN [op EXCEPT ![e] = CreateOp(e, row)] ELSE op
  BY DEF Reserve
<1> HIDE DEF row
<1>3. \A f \in Envs \ {e} : env'[f] = env[f] /\ op'[f] = op[f]
  BY <1>0, <1>2
<1>4. env'[e] = row
  BY <1>0, <1>2
\* The row is forgotten, or the remains of the thread's previous attempt.
<1>5. /\ NobodyIn(e) /\ env[e].status # "ready" /\ op[e].kind # "create"
  <2>1. CASE own = None
    BY <2>1 DEF Reserve, Forgotten, NobodyIn, NoOp
  <2>2. CASE own # None
    <3>1. env[e].td = "removed"
      BY <2>2 DEF Reserve
    <3>2. env[e].path = None
      BY <1>0, <3>1 DEF RowOK
    <3> QED BY <1>0, <3>1, <3>2 DEF RowOK, FitsRow, Deserted, UsesFit
  <2> QED BY <2>1, <2>2
<1>6. op'[e].kind = "create" => op'[e].pc = "asked"
  <2>1. CreateOp(e, row).pc = "asked"
    BY <1>1 DEF CreateOp, OpAt, NoOp
  <2> QED BY <1>0, <1>2, <1>5, <2>1
<1>7. RowOK(env'[e], op'[e])
  BY <1>0, <1>1, <1>4, <1>6 DEF RowOK
<1>8. thr[t].env = None /\ thr[t].status # "pending"
  BY <1>0 DEF Reserve, Asking, UsesFit, ThreadOK
<1>9. UsesFit'
  BY <1>0, <1>1, <1>2, <1>3, <1>4, <1>5, <1>7, <1>8, EmptyRowChanges
<1>10. /\ \A f \in Envs : Created(f)' => f # e /\ Created(f)
  BY <1>3, <1>6 DEF Created
<1>11. MadeFits'
  BY <1>0, <1>1, <1>2, <1>3, <1>4, <1>10, ConstantsAssumption DEF MadeFits
<1> QED BY <1>9, <1>11

LEMMA CreateClaimsUses ==
  ASSUME ~Adopts, UseInv, NEW e \in Envs, NEW p \in Paths, CreateClaims(e, p)
  PROVE  UsesFit' /\ MadeFits'
PROOF
<1>0. /\ TypeOK /\ UsesFit /\ MadeFits
      /\ env \in [Envs -> EnvRow] /\ op \in [Envs -> Operation]
      /\ env[e] \in EnvRow /\ RowOK(env[e], op[e]) /\ FitsRow(env[e], op[e])
      /\ p # None
  BY ConstantsAssumption
     DEF UseInv, OwnersInv, ClaimsInv, TypeOK, OperationsFitRows, UsesFit
<1>1. /\ env'[e] = [env[e] EXCEPT !.claim = p] /\ thr' = thr /\ op' = op /\ made' = made
      /\ \A f \in Envs \ {e} : env'[f] = env[f]
      /\ Asked(e) /\ Eligible(e, p)
  BY <1>0 DEF CreateClaims
<1>2. /\ env'[e].claim = p /\ env'[e].owner = env[e].owner /\ env'[e].td = env[e].td
      /\ env'[e].path = env[e].path /\ env'[e].status = env[e].status
  BY <1>0, <1>1 DEF EnvRow
<1>3. env[e].status = "creating" /\ env[e].path = None /\ NobodyIn(e)
  BY <1>0, <1>1 DEF Asked, FitsRow, RowOK, Deserted, UsesFit
<1>4. RowOK(env'[e], op'[e])
  BY <1>0, <1>1, <1>2, <1>3 DEF RowOK, FitsRow, Asked
<1>5. UsesFit'
  <2>1. \A t \in Threads : env'[e].owner = t => thr[t].env = None /\ thr[t].status # "pending"
    BY <1>0, <1>2 DEF UsesFit
  <2>2. \A f \in Envs \ {e} : env'[f] = env[f] /\ op'[f] = op[f]
    BY <1>1
  <2> QED BY <1>0, <1>1, <1>3, <1>4, <2>1, <2>2, EmptyRowChanges
<1>6. MadeFits'
  <2>1. \A f \in Envs \ {e} : env[f].path # p /\ <<f, p>> \notin made
    BY <1>1 DEF Eligible
  <2>2. \A f \in Envs : Created(f)' => f # e /\ Created(f)
    BY <1>1 DEF Created, Asked
  <2>3. \A f \in Envs : env'[f].path = env[f].path /\ (f # e => env'[f].claim = env[f].claim)
    BY <1>1, <1>2
  <2>4. \A g \in Envs : \A f \in Envs \ {g} :
          env'[g].claim # None => env'[f].path # env'[g].claim
    <3> SUFFICES ASSUME NEW g \in Envs, NEW f \in Envs \ {g}, env'[g].claim # None
                 PROVE  env'[f].path # env'[g].claim
      OBVIOUS
    <3>1. CASE g = e
      BY <1>2, <2>1, <2>3, <3>1
    <3>2. CASE g # e
      BY <1>0, <2>3, <3>2 DEF MadeFits
    <3> QED BY <3>1, <3>2
  <2>5. \A g \in Envs : \A f \in Envs \ {g} : \A q \in Paths :
          <<g, q>> \in made => env'[f].claim # q /\ env'[f].path # q
    <3> SUFFICES ASSUME NEW g \in Envs, NEW f \in Envs \ {g}, NEW q \in Paths,
                        <<g, q>> \in made
                 PROVE  env'[f].claim # q /\ env'[f].path # q
      OBVIOUS
    <3>1. env[f].claim # q /\ env[f].path # q
      BY <1>0 DEF MadeFits
    <3> QED BY <1>2, <2>1, <2>3, <3>1
  <2>6. \A f \in Envs : env'[f].path # None => <<f, env'[f].path>> \in made
    BY <1>0, <2>3 DEF MadeFits
  <2>7. \A f \in Envs : Created(f)' => <<f, op'[f].path>> \in made
    BY <1>0, <1>1, <2>2 DEF MadeFits
  <2> QED BY <1>1, <2>4, <2>5, <2>6, <2>7 DEF MadeFits
<1> QED BY <1>5, <1>6

LEMMA CreateMakesUses ==
  ASSUME UseInv, NEW e \in Envs, CreateMakes(e)
  PROVE  UsesFit' /\ MadeFits'
PROOF
<1> DEFINE c == env[e].claim
<1>0. /\ TypeOK /\ UsesFit /\ MadeFits /\ ClaimsAreExclusive
      /\ env \in [Envs -> EnvRow] /\ op \in [Envs -> Operation]
      /\ op[e] \in Operation /\ RowOK(env[e], op[e]) /\ FitsRow(env[e], op[e])
  BY DEF UseInv, OwnersInv, ClaimsInv, RowsApart, TypeOK, OperationsFitRows, UsesFit
<1>1. /\ op'[e] = [op[e] EXCEPT !.pc = "made", !.path = c] /\ thr' = thr /\ env' = env
      /\ made' = made \union {<<e, c>>}
      /\ \A f \in Envs \ {e} : op'[f] = op[f]
      /\ Asked(e) /\ c # None
  BY <1>0 DEF CreateMakes
<1>2. op'[e].kind = "create" /\ op'[e].pc = "made" /\ op'[e].path = c
  BY <1>0, <1>1 DEF Operation, Asked
<1>3. env[e].status = "creating" /\ env[e].path = None /\ NobodyIn(e)
  BY <1>0, <1>1 DEF Asked, FitsRow, RowOK, Deserted, UsesFit
<1>4. RowOK(env'[e], op'[e])
  BY <1>0, <1>1, <1>2, <1>3 DEF RowOK, Asked
<1>5. UsesFit'
  BY <1>0, <1>1, <1>3, <1>4, EmptyRowChanges DEF UsesFit
<1>6. \A f \in Envs \ {e} : env[f].path # c /\ env[f].claim # c
  <2>1. \A f \in Envs \ {e} : env[f].claim = c => env[f].status # "destroyed"
    BY <1>0, <1>1 DEF UsesFit, RowOK
  <2> QED BY <1>0, <1>1, <1>3, <2>1 DEF MadeFits, ClaimsAreExclusive
<1>7. MadeFits'
  <2>1. \A f \in Envs \ {e} : Created(f)' => Created(f)
    BY <1>1 DEF Created
  <2>2. \A g \in Envs : \A f \in Envs \ {g} : \A p \in Paths :
          <<g, p>> \in made' => env[f].claim # p /\ env[f].path # p
    BY <1>0, <1>1, <1>6 DEF MadeFits
  <2>3. \A f \in Envs : Created(f)' => <<f, op'[f].path>> \in made'
    BY <1>0, <1>1, <1>2, <2>1 DEF MadeFits
  <2>4. \A f \in Envs : env[f].path # None => <<f, env[f].path>> \in made'
    BY <1>0, <1>1 DEF MadeFits
  <2>5. \A g \in Envs : \A f \in Envs \ {g} :
          env[g].claim # None => env[f].path # env[g].claim
    BY <1>0 DEF MadeFits
  <2> QED BY <1>1, <2>2, <2>3, <2>4, <2>5 DEF MadeFits
<1> QED BY <1>5, <1>7

LEMMA CreateBindsUses ==
  ASSUME UseInv, NEW e \in Envs, CreateBinds(e)
  PROVE  UsesFit' /\ MadeFits'
PROOF
<1> DEFINE p   == op[e].path
           row == [env[e] EXCEPT !.claim = p, !.path = p]
<1>0. /\ TypeOK /\ UsesFit /\ MadeFits /\ ClaimsAreExclusive
      /\ env \in [Envs -> EnvRow] /\ op \in [Envs -> Operation]
      /\ env[e] \in EnvRow /\ op[e] \in Operation
      /\ RowOK(env[e], op[e]) /\ FitsRow(env[e], op[e])
  BY DEF UseInv, OwnersInv, ClaimsInv, RowsApart, TypeOK, OperationsFitRows, UsesFit
<1>1. /\ env'[e] = Settled(row, op[e].aborted) /\ op'[e] = NoOp
      /\ thr' = thr /\ made' = made
      /\ \A f \in Envs \ {e} : env'[f] = env[f] /\ op'[f] = op[f]
      /\ Created(e)
  BY <1>0 DEF CreateBinds
<1>2. /\ p = env[e].claim /\ p # None /\ p \in Paths /\ env[e].owner # None
      /\ env[e].status = "creating" /\ env[e].td # "removed" /\ NobodyIn(e)
      /\ <<e, p>> \in made
  BY <1>0, <1>1 DEF Created, RowOK, FitsRow, Deserted, UsesFit, MadeFits, Operation
<1> HIDE DEF p
<1>3. /\ row \in EnvRow /\ row.claim = p /\ row.path = p /\ row.owner = env[e].owner
      /\ row.td = env[e].td /\ row.status = "creating"
  BY <1>0, <1>2 DEF EnvRow
<1> HIDE DEF row
<1>4. /\ env'[e].claim = p /\ env'[e].path = p /\ env'[e].owner = env[e].owner
      /\ env'[e].td = env[e].td
      /\ env'[e].status = "creating" => env[e].td = "running"
      /\ env'[e].status # "none" /\ env'[e].status # "destroyed"
  BY <1>1, <1>3, SettledFacts, SettledStays
<1>5. op'[e].kind = "none"
  BY <1>1 DEF NoOp
<1>6. RowOK(env'[e], op'[e])
  BY <1>2, <1>4, <1>5 DEF RowOK, Removing
<1>7. UsesFit'
  BY <1>0, <1>1, <1>2, <1>4, <1>6, EmptyRowChanges DEF UsesFit
<1>8. \A f \in Envs \ {e} : env[f].path # p /\ env[f].claim # p
  BY <1>0, <1>2 DEF MadeFits
<1>9. \A f \in Envs : Created(f)' => f # e /\ Created(f)
  BY <1>1, <1>5 DEF Created
<1>10. MadeFits'
  BY <1>0, <1>1, <1>2, <1>4, <1>8, <1>9 DEF MadeFits
<1> QED BY <1>7, <1>10

-----------------------------------------------------------------------------
(* The invariant.                                                           *)

\* Every step is one of the few that make, claim, bind or remove something,
\* or leaves everybody where he can live.
LEMMA UseSteps ==
  ASSUME Settling, UseInv, [Next]_vars
  PROVE  \/ Stays /\ UNCHANGED made
         \/ \E e \in Envs : RemoveSucceeds(e) /\ Stays
         \/ \E t \in Threads, e \in Envs : Reserve(t, e)
         \/ \E e \in Envs, p \in Paths : CreateClaims(e, p)
         \/ \E e \in Envs : CreateMakes(e) \/ CreateBinds(e)
PROOF
<1> DEFINE quiet == Stays /\ UNCHANGED made
<1>0. OwnersInv /\ UsesFit
  BY DEF UseInv
<1>1. ASSUME NEW t \in Threads, Request(t) PROVE quiet
  BY <1>0, <1>1, RequestStays DEF Settling
<1>2. ASSUME NEW t \in Threads, Placement(t) PROVE quiet \/ \E e \in Envs : Reserve(t, e)
  BY <1>0, <1>2, PlacementStays
<1>3. ASSUME NEW e \in Envs, Creation(e)
      PROVE  quiet \/ (\E p \in Paths : CreateClaims(e, p)) \/ CreateMakes(e) \/ CreateBinds(e)
  BY <1>3, CreationStays DEF Creation, Settling
<1>4. ASSUME NEW e \in Envs, Setup(e) PROVE quiet
  BY <1>0, <1>4, SetupStays
<1>5. ASSUME NEW e \in Envs, Removal(e) \/ DeleteEnv(e)
      PROVE  quiet \/ (RemoveSucceeds(e) /\ Stays)
  BY <1>0, <1>5, RemovalStays
<1>6. ASSUME \/ \E t \in Threads : StopAgain(t) \/ TurnEnds(t)
             \/ HostDrops \/ HostReturns \/ Crash \/ UNCHANGED vars
      PROVE  quiet
  BY <1>0, <1>6, RestStays
<1> HIDE DEF quiet
<1>7. \/ quiet
      \/ \E e \in Envs : RemoveSucceeds(e) /\ Stays
      \/ \E t \in Threads, e \in Envs : Reserve(t, e)
      \/ \E e \in Envs, p \in Paths : CreateClaims(e, p)
      \/ \E e \in Envs : CreateMakes(e) \/ CreateBinds(e)
  BY <1>1, <1>2, <1>3, <1>4, <1>5, <1>6 DEF Next
<1> QED BY <1>7 DEF quiet

\* A removal takes what was made for its row, and nothing a row still needs.
LEMMA RemovalTakesItsOwn ==
  ASSUME UseInv, NEW e \in Envs, RemoveSucceeds(e), Stays
  PROVE  /\ made' \subseteq made
         /\ \A f \in Envs : env'[f].path # None => <<f, env[f].path>> \in made'
         /\ \A f \in Envs : Created(f)' => <<f, op[f].path>> \in made'
PROOF
<1>0. /\ UsesFit /\ MadeFits /\ OneRowPerPath
      /\ env \in [Envs -> EnvRow] /\ op \in [Envs -> Operation]
  BY DEF UseInv, OwnersInv, ClaimsInv, RowsApart, TypeOK
<1>1. /\ made' = {m \in made : m[1] # e /\ m[2] # env[e].path}
      /\ op'[e] = NoOp
  BY <1>0 DEF RemoveSucceeds
<1>2. NothingOf(e)' /\ made' \subseteq made
  BY <1>1 DEF NothingOf
<1>3. ASSUME NEW f \in Envs, env'[f].path # None PROVE <<f, env[f].path>> \in made'
  <2>1. env'[f].path = env[f].path /\ env[f].path # None
    BY <1>3 DEF Stays, RowStays
  <2>2. <<f, env[f].path>> \in made
    BY <1>0, <2>1 DEF MadeFits
  <2>3. f # e
    BY <1>3, RemovalClears DEF UseInv
  <2>4. f # e /\ env[f].path # env[e].path
    BY <1>0, <2>1, <2>3 DEF OneRowPerPath
  <2> QED BY <1>1, <2>2, <2>4
<1>4. ASSUME NEW f \in Envs, Created(f)' PROVE <<f, op[f].path>> \in made'
  <2>1. Created(f) /\ f # e
    BY <1>1, <1>4 DEF Stays, RowStays, Created, NoOp
  <2>2. <<f, op[f].path>> \in made
    BY <1>0, <2>1 DEF MadeFits
  <2>3. op[f].path # env[e].path
    BY <1>0, <2>1 DEF UsesFit, RowOK, Created, MadeFits
  <2> QED BY <1>1, <2>1, <2>2, <2>3
<1> QED BY <1>2, <1>3, <1>4

LEMMA StayingKeepsUse ==
  ASSUME UseInv, TypeOK', Stays,
         UNCHANGED made \/ \E e \in Envs : RemoveSucceeds(e)
  PROVE  UsesFit' /\ MadeFits'
PROOF
<1>0. TypeOK /\ UsesFit /\ MadeFits /\ (\A t \in Threads : ThreadStays(t))
      /\ (\A e \in Envs : RowStays(e))
  BY DEF UseInv, OwnersInv, ClaimsInv, Stays
<1>1. /\ made' \subseteq made
      /\ \A f \in Envs : env'[f].path # None => <<f, env[f].path>> \in made'
      /\ \A f \in Envs : Created(f)' => <<f, op[f].path>> \in made'
  <2>1. CASE UNCHANGED made
    BY <1>0, <2>1 DEF MadeFits, RowStays
  <2>2. CASE \E e \in Envs : RemoveSucceeds(e)
    BY <2>2, RemovalTakesItsOwn
  <2> QED BY <2>1, <2>2
<1> QED BY <1>0, <1>1, StaysKeeps, StaysKeepsMade

LEMMA UseKept ==
  ASSUME Settling, UseInv, [Next]_vars
  PROVE  UseInv'
PROOF
<1>1. OwnersInv' /\ TypeOK'
  BY OwnersKept DEF UseInv, OwnersInv, ClaimsInv
<1>2. UsesFit' /\ MadeFits'
  <2>1. ASSUME Stays, UNCHANGED made \/ \E e \in Envs : RemoveSucceeds(e)
        PROVE  UsesFit' /\ MadeFits'
    BY <1>1, <2>1, StayingKeepsUse
  <2>2. ASSUME NEW t \in Threads, NEW e \in Envs, Reserve(t, e)
        PROVE  UsesFit' /\ MadeFits'
    BY <2>2, ReserveUses
  <2>3. ASSUME NEW e \in Envs, NEW p \in Paths, CreateClaims(e, p)
        PROVE  UsesFit' /\ MadeFits'
    BY <2>3, CreateClaimsUses DEF Settling
  <2>4. ASSUME NEW e \in Envs, CreateMakes(e) \/ CreateBinds(e)
        PROVE  UsesFit' /\ MadeFits'
    BY <2>4, CreateMakesUses, CreateBindsUses
  <2> QED BY <2>1, <2>2, <2>3, <2>4, UseSteps
<1> QED BY <1>1, <1>2 DEF UseInv

LEMMA UseAtInit == Init => UseInv
PROOF
<1> SUFFICES ASSUME Init PROVE UseInv
  OBVIOUS
<1>1. /\ \A t \in Threads : thr[t] = NewThread
      /\ \A e \in Envs : env[e] = NoRow /\ op[e] = NoOp
      /\ made = {}
  BY DEF Init
<1>2. UsesFit
  BY <1>1, ConstantsAssumption
     DEF UsesFit, ThreadOK, Calling, RowOK, Deserted, NobodyIn, Removing,
         NewThread, NoRow, NoOp
<1>3. MadeFits
  BY <1>1 DEF MadeFits, Created, NoRow, NoOp
<1> QED BY <1>2, <1>3, OwnersAtInit DEF UseInv

-----------------------------------------------------------------------------
(* What the invariant is for.                                               *)

\* Only a removal takes workspaces, and nobody is in what it takes.
LEMMA RemovalsSpareTurns ==
  ASSUME Settling, UseInv, [Next]_vars,
         NEW m \in made \ made', NEW t \in Threads, thr[t].status = "active"
  PROVE  env[thr[t].env].path # m[2]
PROOF
<1> DEFINE g == thr[t].env
<1>0. /\ TypeOK /\ OwnersInv /\ UsesFit /\ MadeFits /\ OneRowPerPath
      /\ m \in Envs \X Paths /\ g \in Envs
  BY DEF UseInv, OwnersInv, ClaimsInv, RowsApart, TypeOK, ThreadRow
<1>1. PICK e \in Envs : RemoveSucceeds(e)
  <2>1. ~(made \subseteq made')
    OBVIOUS
  <2>2. \A e \in Envs : CreateMakes(e) => made \subseteq made'
    BY DEF CreateMakes
  <2> QED BY <2>1, <2>2, UseSteps DEF Reserve, CreateClaims, CreateBinds
<1>2. m[1] = e \/ m[2] = env[e].path
  BY <1>1 DEF RemoveSucceeds
<1>3. g # e
  BY <1>0, <1>1, RemovalClears DEF NobodyIn, Live
<1>4. m[1] \in Envs /\ m[2] \in Paths /\ m[2] # None /\ <<m[1], m[2]>> \in made
  BY <1>0, ConstantsAssumption
<1>5. m[1] = e => env[g].path # m[2]
  BY <1>0, <1>3, <1>4 DEF MadeFits
<1>6. m[2] = env[e].path => env[g].path # m[2]
  BY <1>0, <1>3, <1>4 DEF OneRowPerPath
<1> QED BY <1>2, <1>5, <1>6

\* NobodyIsEvicted: whoever lived in a row was looked at before its removal
\* waited for the slot's turn, the setup hook and the provider, and nobody can
\* come to a row whose removal waits, for any number of threads, rows and
\* paths.  The provider makes what it answers (adopted workspaces are TLC's
\* matter), and who is archived stays archived: README.md tells what happens
\* otherwise.
THEOREM NoTurnLosesItsWorkspace ==
  ASSUME Settling
  PROVE  Spec => NobodyIsEvicted
PROOF
<1>1. UseInv /\ [Next]_vars => UseInv'
  BY UseKept
<1>2. UseInv /\ [Next]_vars =>
        [\A m \in made \ made', t \in Threads :
           thr[t].status = "active" => env[thr[t].env].path # m[2]]_vars
  BY RemovalsSpareTurns
<1> QED BY <1>1, <1>2, UseAtInit, PTL DEF Spec, NobodyIsEvicted

-----------------------------------------------------------------------------
(* What is made is never lost while no host drops.                          *)

\* What the provider answered fits its row, so the recording fails only when
\* the host has gone.
LEMMA NothingIsRefused ==
  ASSUME UseInv, LeaksInv, spent["drop"] = 0, NEW e \in Envs, Created(e)
  PROVE  ~CreateRefused(e)
PROOF
<1> SUFFICES ASSUME CreateRefused(e) PROVE FALSE
  OBVIOUS
<1>1. <<e, op[e].path>> \in made
  BY DEF UseInv, MadeFits
<1>2. ~Empty(e)
  BY <1>1 DEF Empty
<1>3. online
  BY DEF LeaksInv, HomesInv, Homed
<1>4. ~MayBind(e, op[e].path) \/ AtPath(e, op[e].path) # {}
  BY <1>3 DEF CreateRefused
<1> QED BY <1>2, <1>4, UnboundIsEmpty

\* A path that is claimed and has a workspace has that of the row itself.
LEMMA ClaimedIsOwn ==
  ASSUME UseInv, NEW e \in Envs, NEW f \in Envs, env[e].claim # None,
         <<f, env[e].claim>> \in made
  PROVE  f = e
PROOF
<1>1. env[e].claim \in Paths
  BY DEF UseInv, OwnersInv, ClaimsInv, TypeOK, EnvRow
<1> QED BY <1>1 DEF UseInv, MadeFits

\* The steps that take something let go of no claim.
LEMMA TakersKeepClaims ==
  ASSUME UseInv,
         \/ \E t \in Threads, f \in Envs : Reserve(t, f)
         \/ \E f \in Envs, p \in Paths : CreateClaims(f, p)
         \/ \E f \in Envs : CreateMakes(f) \/ CreateBinds(f),
         NEW e \in Envs, env[e].claim # None
  PROVE  env'[e].claim = env[e].claim
PROOF
<1>0. /\ env \in [Envs -> EnvRow] /\ \A f \in Envs : RowOK(env[f], op[f])
      /\ env[e] \in EnvRow
  BY DEF UseInv, OwnersInv, ClaimsInv, TypeOK, UsesFit
<1>1. ASSUME NEW t \in Threads, NEW f \in Envs, Reserve(t, f)
      PROVE  env'[e].claim = env[e].claim
  <2>1. env[f].claim = None
    <3>1. Forgotten(f) \/ env[f].td = "removed"
      BY <1>1 DEF Reserve
    <3> QED BY <1>0, <3>1 DEF Forgotten, RowOK
  <2> QED BY <1>0, <1>1, <2>1 DEF Reserve
<1>2. ASSUME NEW f \in Envs, NEW p \in Paths, CreateClaims(f, p)
      PROVE  env'[e].claim = env[e].claim
  BY <1>0, <1>2 DEF CreateClaims
<1>3. ASSUME NEW f \in Envs, CreateMakes(f)
      PROVE  env'[e].claim = env[e].claim
  BY <1>3 DEF CreateMakes
<1>4. ASSUME NEW f \in Envs, CreateBinds(f)
      PROVE  env'[e].claim = env[e].claim
  <2> DEFINE row == [env[f] EXCEPT !.claim = op[f].path, !.path = op[f].path]
  <2>1. CASE f = e
    <3>1. op[e].path = env[e].claim
      BY <1>0, <1>4, <2>1 DEF CreateBinds, Created, RowOK
    <3>2. row \in EnvRow /\ row.claim = env[e].claim
      BY <1>0, <2>1, <3>1 DEF EnvRow
    <3>3. env'[e] = Settled(row, op[e].aborted)
      BY <1>0, <1>4, <2>1 DEF CreateBinds
    <3> HIDE DEF row
    <3> QED BY <3>2, <3>3 DEF Settled, EnvRow
  <2>2. CASE f # e
    BY <1>0, <1>4, <2>2 DEF CreateBinds
  <2> QED BY <2>1, <2>2
<1> QED BY <1>1, <1>2, <1>3, <1>4

LEMMA ClaimsStay ==
  ASSUME Settling, UseInv, LeaksInv, spent["drop"] = 0, [Next]_vars,
         NEW e \in Envs, NEW f \in Envs, env[e].claim # None,
         <<f, env[e].claim>> \in made', env'[e].claim # env[e].claim
  PROVE  env'[e].td = "none" /\ env'[e].path = env[e].claim
PROOF
<1>1. Stays /\ made' \subseteq made
  BY UseSteps, TakersKeepClaims, RemovalTakesItsOwn
<1>2. f = e
  BY <1>1, ClaimedIsOwn
<1>3. ~NothingOf(e)'
  <2>1. env[e].claim \in Paths
    BY DEF UseInv, OwnersInv, ClaimsInv, TypeOK, EnvRow
  <2> QED BY <1>2, <2>1 DEF NothingOf
<1>4. ~CreateRefused(e)
  BY NothingIsRefused DEF CreateRefused
<1> QED BY <1>1, <1>3, <1>4 DEF Stays, RowStays

UndroppedInv == UseInv /\ LeaksInv /\ spent["drop"] = 0

LEMMA UndroppedKept ==
  ASSUME Settling, Limit["drop"] = 0, UndroppedInv, [Next]_vars
  PROVE  UndroppedInv'
PROOF
<1>1. UseInv' /\ LeaksInv'
  BY UseKept, HomesKept DEF UndroppedInv
<1>2. TypeOK
  BY DEF UndroppedInv, LeaksInv, ClaimsInv
<1>3. ~HostDrops
  BY DEF HostDrops, Spend, UndroppedInv
<1>4. spent'["drop"] = 0
  BY <1>2, <1>3, DropsAreCounted DEF UndroppedInv
<1> QED BY <1>1, <1>4 DEF UndroppedInv

LEMMA UndroppedAtInit == Init => UndroppedInv
PROOF
<1> SUFFICES ASSUME Init PROVE UndroppedInv
  OBVIOUS
<1>1. spent["drop"] = 0
  BY DEF Init, Disturbance
<1> QED BY <1>1, UseAtInit, HomesAtInit DEF UndroppedInv

\* ClaimOutlivesWorkspace: nobody else may claim a path while something is
\* there, through failed and cancelled creations, retries, removals that fail
\* and restarts.  As far as the host does not drop in between, for a provider
\* that makes what it answers and archived threads that stay so.
THEOREM ClaimsOutlive ==
  ASSUME Settling, Limit["drop"] = 0
  PROVE  Spec => ClaimOutlivesWorkspace
PROOF
<1>1. UndroppedInv /\ [Next]_vars => UndroppedInv'
  BY UndroppedKept
<1>2. UndroppedInv /\ [Next]_vars =>
        [\A e \in Envs :
           /\ env[e].claim # None
           /\ \E f \in Envs : <<f, env[e].claim>> \in made'
           /\ env'[e].claim # env[e].claim
           => env'[e].td = "none" /\ env'[e].path = env[e].claim]_vars
  BY ClaimsStay DEF UndroppedInv
<1> QED BY <1>1, <1>2, UndroppedAtInit, PTL DEF Spec, ClaimOutlivesWorkspace

-----------------------------------------------------------------------------
(* The engine implements WorkspaceUse.                                      *)

There == {m[2] : m \in made}

Where(t) == IF thr[t].status = "active" THEN env[thr[t].env].path ELSE None

Within == [t \in Threads |-> Where(t)]

\* A turn runs at a row that is ready, where something is.
LEMMA TurnsAreSomewhere ==
  ASSUME UseInv, NEW t \in Threads, thr[t].status = "active"
  PROVE  /\ thr[t].env \in Envs /\ Live(thr[t])
         /\ env[thr[t].env].status = "ready"
         /\ Where(t) \in There /\ Where(t) # None /\ Where(t) \in Paths
PROOF
<1> DEFINE g == thr[t].env
<1>1. g \in Envs /\ TypeOK /\ UsesFit /\ MadeFits
  BY DEF UseInv, OwnersInv, ClaimsInv, TypeOK, ThreadRow
<1>2. env[g].status = "ready" /\ env[g].path # None
  BY <1>1 DEF UsesFit, RowOK
<1>3. <<g, env[g].path>> \in made /\ env[g].path \in Paths
  BY <1>1, <1>2 DEF MadeFits, TypeOK, EnvRow
<1>4. env[g].path \in There
  BY <1>3 DEF There
<1> QED BY <1>1, <1>2, <1>3, <1>4 DEF Where, Live

LEMMA TurnsAreSomewhereNext ==
  ASSUME NEW t \in Threads
  PROVE  (UseInv /\ thr[t].status = "active" =>
            thr[t].env \in Envs /\ Where(t) \in There /\ Where(t) \in Paths)'
PROOF
<1>1. UseInv /\ thr[t].status = "active" =>
        thr[t].env \in Envs /\ Where(t) \in There /\ Where(t) \in Paths
  BY TurnsAreSomewhere
<1> QED BY <1>1, PTL

\* Either one thread moves, or no turn begins.
LEMMA TurnsBeginAlone ==
  ASSUME TypeOK, [Next]_vars
  PROVE  \/ \E t \in Threads : \A u \in Threads \ {t} : thr'[u] = thr[u]
         \/ \A t \in Threads : thr'[t].status = "active" => thr[t].status = "active"
PROOF
<1> DEFINE alone == \E t \in Threads : \A u \in Threads \ {t} : thr'[u] = thr[u]
           none == \A t \in Threads : thr'[t].status = "active" => thr[t].status = "active"
<1>0. thr \in [Threads -> ThreadRow]
  BY DEF TypeOK
<1>1. ASSUME NEW t \in Threads, Request(t) \/ Placement(t) \/ StopAgain(t) \/ TurnEnds(t)
      PROVE  alone
  <2>1. thr' = thr \/ \E th : thr' = [thr EXCEPT ![t] = th]
    <3>1. CASE Request(t)
      BY <3>1 DEF Request, CreateIn, StartFirst, Restart, StartTurnInPlace,
                  StartReprovisioning, Stop, Archive, Unarchive
    <3>2. CASE Placement(t)
      BY <3>2 DEF Placement, Reserve, Reject, Attach, AttachLater, AttachNow,
                  StartFails, StartTurn, FailThread
    <3>3. CASE StopAgain(t) \/ TurnEnds(t)
      BY <3>3 DEF StopAgain, TurnEnds
    <3> QED BY <1>1, <3>1, <3>2, <3>3
  <2> QED BY <1>0, <2>1
<1>2. ASSUME \A t \in Threads :
               \/ thr'[t] = thr[t]
               \/ thr'[t] = [thr[t] EXCEPT !.adv = None]
               \/ \E event \in Ending : thr'[t] = ThreadApply(thr[t], event)
      PROVE  none
  <2> SUFFICES ASSUME NEW t \in Threads, thr'[t].status = "active"
               PROVE  thr[t].status = "active"
    OBVIOUS
  <2>1. thr[t] \in ThreadRow
    BY <1>0
  <2>2. \A event \in Ending :
          ThreadApply(thr[t], event).status \in {thr[t].status, "idle", "error"}
    BY <2>1, EndingLeaves
  <2>3. [thr[t] EXCEPT !.adv = None].status = thr[t].status
    BY <2>1 DEF ThreadRow
  <2> QED BY <1>2, <2>2, <2>3
<1>3. ASSUME NEW e \in Envs, Setup(e) PROVE none
  <2>1. \A t \in Threads :
          \/ thr'[t] = thr[t]
          \/ \E event \in Ending : thr'[t] = ThreadApply(thr[t], event)
    BY <1>3 DEF Setup, SendSetup, InterruptSetup, SetupSucceeds, SetupFails, CancelSetup,
                SetupCancelled, CancelFails, HostGrace, RecordSetupFailure,
                ThreadsAfterFailure, Ending
  <2> HIDE DEF none
  <2> QED BY <1>2, <2>1
<1>4. ASSUME NEW e \in Envs, Creation(e) \/ Removal(e) \/ DeleteEnv(e) PROVE none
  <2>1. thr' = thr
    BY <1>4 DEF Creation, StartCreate, CreateClaims, CreateMakes, CreateFinds, CreateFails,
                CreateBinds, CreateAdopts, CreateRefused, Removal, Sweep, SlotSpares,
                SlotWaits, SlotBegins, HookStopped, HookUnknown, RemoveSucceeds,
                RemoveFails, RetireDue, DeleteEnv
  <2> QED BY <2>1
<1>5. ASSUME HostDrops \/ HostReturns \/ Crash \/ UNCHANGED vars PROVE none
  <2>1. \A t \in Threads :
          \/ thr'[t] = thr[t]
          \/ thr'[t] = [thr[t] EXCEPT !.adv = None]
          \/ \E event \in Ending : thr'[t] = ThreadApply(thr[t], event)
    BY <1>0, <1>5 DEF HostDrops, HostReturns, Crash, vars, Ending
  <2> HIDE DEF none
  <2> QED BY <1>2, <2>1
<1> HIDE DEF alone, none
<1>6. alone \/ none
  BY <1>1, <1>3, <1>4, <1>5 DEF Next
<1> QED BY <1>6 DEF alone, none

\* In most steps a turn stays where it is, ends, or begins somewhere.
LEMMA StayingStaysSomewhere ==
  ASSUME UseInv, UseInv', Stays, NEW t \in Threads
  PROVE  \/ Where(t)' = Where(t)
         \/ Where(t)' = None /\ Where(t) # None
         \/ /\ thr'[t] # thr[t] /\ thr'[t].status = "active" /\ thr[t].status # "active"
            /\ Where(t) = None /\ Where(t)' \in Paths /\ Where(t)' \in There'
PROOF
<1>1. CASE thr'[t].status = "active"
  <2> DEFINE g == thr[t].env
  <2>1. thr'[t].env = g /\ g \in Envs /\ Live(thr[t])
        /\ Where(t)' \in There' /\ Where(t)' \in Paths
    <3>1. thr'[t].env = g /\ Live(thr[t])
      BY <1>1 DEF Stays, ThreadStays
    <3>2. thr'[t].env \in Envs /\ Where(t)' \in There' /\ Where(t)' \in Paths
      BY <1>1, TurnsAreSomewhereNext
    <3> QED BY <3>1, <3>2
  <2>2. env'[g].path = env[g].path
    BY <2>1 DEF Stays, RowStays, NobodyIn
  <2>3. CASE thr[t].status = "active"
    BY <1>1, <2>1, <2>2, <2>3 DEF Where
  <2>4. CASE thr[t].status # "active"
    BY <1>1, <2>1, <2>4 DEF Where
  <2> QED BY <2>3, <2>4
<1>2. CASE thr'[t].status # "active"
  <2>1. Where(t)' = None
    BY <1>2 DEF Where
  <2> QED BY <2>1
<1> QED BY <1>1, <1>2

\* The steps that take something take a row without a workspace.
LEMMA TakersMoveNobody ==
  ASSUME UseInv,
         \/ \E t \in Threads, f \in Envs : Reserve(t, f)
         \/ \E f \in Envs, p \in Paths : CreateClaims(f, p)
         \/ \E f \in Envs : CreateMakes(f) \/ CreateBinds(f)
  PROVE  Within' = Within
PROOF
<1>0. env \in [Envs -> EnvRow] /\ \A f \in Envs : RowOK(env[f], op[f])
  BY DEF UseInv, OwnersInv, ClaimsInv, TypeOK, UsesFit
<1>1. thr' = thr
  BY DEF Reserve, CreateClaims, CreateMakes, CreateBinds
<1>2. ASSUME NEW g \in Envs, env[g].path # None PROVE env'[g].path = env[g].path
  <2>1. ASSUME NEW t \in Threads, NEW f \in Envs, Reserve(t, f)
        PROVE  env'[g].path = env[g].path
    <3>1. Forgotten(f) \/ env[f].td = "removed"
      BY <2>1 DEF Reserve
    <3>2. env[f].path = None
      BY <1>0, <3>1 DEF Forgotten, RowOK
    <3> QED BY <1>0, <1>2, <2>1, <3>2 DEF Reserve
  <2>2. ASSUME NEW f \in Envs, NEW p \in Paths, CreateClaims(f, p)
        PROVE  env'[g].path = env[g].path
    BY <1>0, <2>2 DEF CreateClaims, EnvRow
  <2>3. ASSUME NEW f \in Envs, CreateMakes(f) PROVE env'[g].path = env[g].path
    BY <2>3 DEF CreateMakes
  <2>4. ASSUME NEW f \in Envs, CreateBinds(f) PROVE env'[g].path = env[g].path
    <3>1. env[f].path = None
      BY <1>0, <2>4 DEF CreateBinds, Created, RowOK
    <3> QED BY <1>0, <1>2, <2>4, <3>1 DEF CreateBinds
  <2> QED BY <2>1, <2>2, <2>3, <2>4
<1>3. ASSUME NEW t \in Threads PROVE Where(t)' = Where(t)
  <2>1. CASE thr[t].status = "active"
    <3>1. thr[t].env \in Envs /\ env[thr[t].env].path # None
      BY <2>1, TurnsAreSomewhere DEF Where
    <3> QED BY <1>1, <1>2, <3>1 DEF Where
  <2>2. CASE thr[t].status # "active"
    BY <1>1, <2>2 DEF Where
  <2> QED BY <2>1, <2>2
<1> QED BY <1>3 DEF Within

\* A creation makes at most one workspace.
LEMMA OneAppears ==
  ASSUME UseInv,
         \/ \E t \in Threads, f \in Envs : Reserve(t, f)
         \/ \E f \in Envs, p \in Paths : CreateClaims(f, p)
         \/ \E f \in Envs : CreateMakes(f) \/ CreateBinds(f)
  PROVE  There' = There \/ \E p \in Paths : p \notin There /\ There' = There \union {p}
PROOF
<1>1. CASE UNCHANGED made
  BY <1>1 DEF There
<1>2. ASSUME NEW f \in Envs, CreateMakes(f)
      PROVE  There' = There \/ \E p \in Paths : p \notin There /\ There' = There \union {p}
  <2> DEFINE c == env[f].claim
  <2>1. c \in Paths /\ made' = made \union {<<f, c>>}
    BY <1>2 DEF CreateMakes, UseInv, OwnersInv, ClaimsInv, TypeOK, EnvRow
  <2> HIDE DEF c
  <2>2. There' = There \union {c}
    <3>1. <<f, c>> \in made' /\ <<f, c>>[2] = c
      BY <2>1
    <3>2. c \in There' /\ There \subseteq There'
      BY <2>1, <3>1 DEF There
    <3>3. There' \subseteq There \union {c}
      BY <2>1 DEF There
    <3> QED BY <3>2, <3>3
  <2>3. c \in There => There' = There
    BY <2>2
  <2> QED BY <2>1, <2>2, <2>3
<1> QED BY <1>1, <1>2 DEF Reserve, CreateClaims, CreateBinds

\* What a removal takes nobody's turn is in.
LEMMA UnusedGo ==
  ASSUME Settling, UseInv, NEW e \in Envs, RemoveSucceeds(e), Stays
  PROVE  /\ Within' = Within
         /\ \/ There' = There
            \/ \E P \in SUBSET Paths :
                 /\ P # {} /\ P \subseteq There /\ There' = There \ P
                 /\ \A t \in Threads : Within[t] \notin P
PROOF
<1>0. TypeOK /\ made \subseteq Envs \X Paths /\ There \subseteq Paths
  BY DEF UseInv, OwnersInv, ClaimsInv, TypeOK, There
<1>1. made' \subseteq made /\ thr' = thr
  BY DEF RemoveSucceeds
<1>2. ASSUME NEW t \in Threads, thr[t].status = "active"
      PROVE  /\ env'[thr[t].env].path = env[thr[t].env].path
             /\ \A m \in made \ made' : env[thr[t].env].path # m[2]
  <2>1. thr[t].env \in Envs /\ Live(thr[t])
    BY <1>0, <1>2, TurnsAreSomewhere
  <2>2. env'[thr[t].env].path = env[thr[t].env].path
    BY <2>1 DEF Stays, RowStays, NobodyIn
  <2>3. [Next]_vars
    BY DEF Next, Removal
  <2>4. \A m \in made \ made' : env[thr[t].env].path # m[2]
    BY <1>0, <1>2, <2>3, RemovalsSpareTurns
  <2> QED BY <2>2, <2>4
<1>3. Within' = Within
  BY <1>1, <1>2 DEF Within, Where
<1> DEFINE P == There \ There'
<1>4. P \subseteq Paths /\ P \subseteq There
  BY <1>0
<1>5. There' \subseteq There
  BY <1>1 DEF There
<1>6. ASSUME NEW t \in Threads PROVE Within[t] \notin P
  <2>1. \A p \in P : p # None /\ \E m \in made \ made' : m[2] = p
    BY <1>4, ConstantsAssumption DEF There
  <2> HIDE DEF P
  <2> QED BY <1>2, <2>1 DEF Within, Where
<1>7. There' = There \ P
  BY <1>5
<1>8. P = {} => There' = There
  BY <1>7
<1> HIDE DEF P
<1> QED BY <1>3, <1>4, <1>6, <1>7, <1>8

LEMMA UseAtFirst == Init => Use!Init
PROOF
<1> SUFFICES ASSUME Init PROVE Use!Init
  OBVIOUS
<1>1. made = {} /\ \A t \in Threads : thr[t].status = "pending"
  BY DEF Init, NewThread
<1> QED BY <1>1 DEF Use!Init

LEMMA StepsServe ==
  ASSUME Settling, UseInv, UseInv', [Next]_vars
  PROVE  \/ Within' = Within /\ There' = There
         \/ Within' = Within /\ \E p \in Paths : p \notin There /\ There' = There \union {p}
         \/ /\ Within' = Within
            /\ \E P \in SUBSET Paths :
                 /\ P # {} /\ P \subseteq There /\ There' = There \ P
                 /\ \A t \in Threads : Within[t] \notin P
         \/ /\ There' = There
            /\ \E t \in Threads, p \in Paths :
                 Within[t] = None /\ p \in There /\ Within' = [Within EXCEPT ![t] = p]
         \/ /\ There' = There
            /\ \E S \in SUBSET Threads :
                 /\ \E t \in S : Within[t] # None
                 /\ Within' = [t \in Threads |-> IF t \in S THEN None ELSE Within[t]]
PROOF
<1>0. UseInv /\ TypeOK
  BY DEF UseInv, OwnersInv, ClaimsInv
<1>1. CASE Stays /\ UNCHANGED made
  <2>1. There' = There
    BY <1>1 DEF There
  <2>2. \A t \in Threads :
          \/ Where(t)' = Where(t)
          \/ Where(t)' = None /\ Where(t) # None
          \/ /\ thr'[t] # thr[t] /\ thr'[t].status = "active" /\ thr[t].status # "active"
             /\ Where(t) = None /\ Where(t)' \in Paths /\ Where(t)' \in There
    BY <1>0, <1>1, <2>1, StayingStaysSomewhere
  <2>3. ASSUME NEW t \in Threads, Where(t)' # Where(t), Where(t)' # None
        PROVE  \E p \in Paths : Within[t] = None /\ p \in There /\ Within' = [Within EXCEPT ![t] = p]
    <3>1. /\ thr'[t] # thr[t] /\ thr'[t].status = "active" /\ thr[t].status # "active"
          /\ Where(t) = None /\ Where(t)' \in Paths /\ Where(t)' \in There
      BY <2>2, <2>3
    <3>2. \A u \in Threads \ {t} : thr'[u] = thr[u]
      BY <1>0, <3>1, TurnsBeginAlone
    <3>3. \A u \in Threads \ {t} : Where(u)' = Where(u)
      <4> SUFFICES ASSUME NEW u \in Threads \ {t}, Where(u)' # Where(u) PROVE FALSE
        OBVIOUS
      <4>1. Where(u)' = None /\ Where(u) # None /\ thr'[u] = thr[u]
        BY <2>2, <3>2
      <4>2. thr'[u].status = "active"
        BY <4>1 DEF Where
      <4>3. Where(u)' # None
        BY <4>2, TurnsAreSomewhereNext, ConstantsAssumption
      <4> QED BY <4>1, <4>3
    <3>4. Within' = [Within EXCEPT ![t] = Where(t)']
      BY <3>3 DEF Within
    <3>5. Within[t] = None
      BY <3>1 DEF Within
    <3> QED BY <3>1, <3>4, <3>5
  <2>4. CASE \A t \in Threads : Where(t)' = Where(t) \/ Where(t)' = None
    <3> DEFINE S == {t \in Threads : Where(t)' # Where(t)}
    <3>1. \A t \in S : Where(t)' = None /\ Where(t) # None
      BY <2>4
    <3>2. Within' = [t \in Threads |-> IF t \in S THEN None ELSE Within[t]]
      BY <3>1 DEF Within
    <3>3. CASE S = {}
      BY <2>1, <3>3 DEF Within
    <3>4. CASE S # {}
      <4>1. \E t \in S : Within[t] # None
        BY <3>1, <3>4 DEF Within
      <4>2. S \in SUBSET Threads
        OBVIOUS
      <4> HIDE DEF S
      <4> QED BY <2>1, <3>2, <4>1, <4>2
    <3> QED BY <3>3, <3>4
  <2> QED BY <2>1, <2>3, <2>4
<1>2. ASSUME NEW e \in Envs, RemoveSucceeds(e), Stays
      PROVE  \/ Within' = Within /\ There' = There
             \/ /\ Within' = Within
                /\ \E P \in SUBSET Paths :
                     /\ P # {} /\ P \subseteq There /\ There' = There \ P
                     /\ \A t \in Threads : Within[t] \notin P
  BY <1>0, <1>2, UnusedGo
<1>3. CASE \/ \E t \in Threads, f \in Envs : Reserve(t, f)
           \/ \E f \in Envs, p \in Paths : CreateClaims(f, p)
           \/ \E f \in Envs : CreateMakes(f) \/ CreateBinds(f)
  BY <1>0, <1>3, TakersMoveNobody, OneAppears
<1> QED BY <1>0, <1>1, <1>2, <1>3, UseSteps

LEMMA StepsAreUses ==
  ASSUME Settling, UseInv, UseInv', [Next]_vars
  PROVE  [Use!Next]_<<There, Within>>
PROOF
<1>1. CASE Within' = Within /\ There' = There
  BY <1>1
<1>2. ASSUME NEW p \in Paths, Within' = Within, p \notin There, There' = There \union {p}
      PROVE  Use!Appears(p)
  BY <1>2 DEF Use!Appears, There, Within, Where
<1>3. ASSUME NEW P \in SUBSET Paths, Within' = Within, P # {}, P \subseteq There,
             There' = There \ P, \A t \in Threads : Within[t] \notin P
      PROVE  Use!Goes(P)
  BY <1>3 DEF Use!Goes, There, Within, Where
<1>4. ASSUME NEW t \in Threads, NEW p \in Paths, There' = There, Within[t] = None,
             p \in There, Within' = [Within EXCEPT ![t] = p]
      PROVE  Use!Enters(t, p)
  BY <1>4 DEF Use!Enters, There, Within, Where
<1>5. ASSUME NEW S \in SUBSET Threads, There' = There, \E t \in S : Within[t] # None,
             Within' = [t \in Threads |-> IF t \in S THEN None ELSE Within[t]]
      PROVE  Use!Leaves(S)
  BY <1>5 DEF Use!Leaves, There, Within, Where
<1> QED BY <1>1, <1>2, <1>3, <1>4, <1>5, StepsServe DEF Use!Next

\* WorkspacesServeTurns: the engine implements WorkspaceUse.  A turn begins
\* alone, where something is; turns end one by one or with their setup; a
\* creation makes one workspace; and a removal takes what was made for a row
\* nobody can be in.  Every other step leaves turns and workspaces alone,
\* crashes of the server and drops of the host among them.
THEOREM EngineServesTurns ==
  ASSUME Settling
  PROVE  Spec => WorkspacesServeTurns
PROOF
<1>1. UseInv /\ [Next]_vars => UseInv'
  BY UseKept
<1>2. UseInv /\ UseInv' /\ [Next]_vars => [Use!Next]_<<There, Within>>
  BY StepsAreUses
<1>3. [Use!Next]_<<There, Within>> =>
        [Use!Next]_<<{m[2] : m \in made},
                     [t \in Threads |-> IF thr[t].status = "active"
                                        THEN env[thr[t].env].path ELSE None]>>
  BY DEF There, Within, Where
<1> QED BY <1>1, <1>2, <1>3, UseAtInit, UseAtFirst, PTL
        DEF Spec, WorkspacesServeTurns, Use!Spec
=============================================================================
