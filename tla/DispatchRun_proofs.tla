------------------------- MODULE DispatchRun_proofs -------------------------
(***************************************************************************)
(* Archiving and stopping, whatever is in flight when the user does it:    *)
(* an archived thread does not run, a stopped one is not brought back by a *)
(* late answer of the daemon, and a manual stop pauses the queue for every *)
(* attempt, those past their checks included.                              *)
(***************************************************************************)
EXTENDS DispatchClaims_proofs

RunStatus == {"starting", "active"}

\* An archived thread that does not run takes no event into a run.
LEMMA ArchivedRefuses ==
  ASSUME NEW s \in ThreadStatus \ RunStatus, NEW event \in LifecycleEvent
  PROVE  After(s, event, TRUE) \notin RunStatus
PROOF BY DEF After, Applies, Superseded, Sources, Target, RunStatus,
             ThreadStatus, LifecycleEvent

LEMMA StopLeavesRun ==
  ASSUME TypeOK, NEW gone \in BOOLEAN, StopThread(gone), gone \/ status \notin RunStatus
  PROVE  status' \notin RunStatus
PROOF BY DEF StopThread, StopRun, StopPreStart, RequestStop, After, Applies,
             Superseded, Sources, Target, RunStatus, TypeOK, ThreadTypeOK

LEMMA CompletionLeavesRun ==
  ASSUME TypeOK, status \notin RunStatus, NEW ended,
         NEW how \in {"completed", "failed", "interrupted"},
         HearCompletion(ended, how)
  PROVE  status' \notin RunStatus
PROOF BY DEF HearCompletion, Outcome, After, Target, RunStatus

LEMMA ArchivedStep == TypeOK /\ ArchivedNeverRuns /\ [Next]_vars => ArchivedNeverRuns'
PROOF
<1> SUFFICES ASSUME TypeOK, ArchivedNeverRuns, [Next]_vars, archived'
             PROVE  status' \notin RunStatus
  BY DEF ArchivedNeverRuns, RunStatus
<1>0. status \in ThreadStatus /\ archived \in BOOLEAN
  BY DEF TypeOK, ThreadTypeOK
<1>1. CASE UserArchives
  <2>1. CASE LiveRuntime \/ status \in {"starting", "stopping"}
    BY <1>1, <2>1, StopLeavesRun DEF UserArchives
  <2>2. CASE ~(LiveRuntime \/ status \in {"starting", "stopping"})
    BY <1>1, <2>2 DEF UserArchives, LiveRuntime, RunStatus
  <2> QED BY <2>1, <2>2
<1>2. CASE ~UserArchives /\ Next
  <2>1. archived
    BY <1>2 DEF Next, User, Dispatch, Advance, Disturb, Daemon, Run, Host,
       UserSends, UserQueues, UserDeletes, UserGroups, UserSendsNow, UserStops,
       UserUnarchives, Answered, Drain, StartWalk, DrainJoins, InteractionSettled,
       PluginRechecks, Sweep, WalkOn, CheckWaits, CheckPasses, CheckMoved,
       CheckArchived, FastSend, SendStart, SendJoin, Admit, CommitMoved,
       CommitFails, PluginHolds, AttemptFails, RequestStart, CommandAccepted,
       CommandRejected, TurnStarted, TurnSteered, TurnCompleted, TurnEndsUnheard,
       LateCompletion, Asks, DaemonStops, DaemonDies, EnvironmentAttaches,
       ProvisionSucceeds, ProvisionFails, StopSettled, StopFails, SweepArchived,
       HostDisconnects, Crash, CommandUndelivered, GraceExpires,
       InteractionGraceExpires, HostReturns, threadVars
  <2>2. status \notin RunStatus /\ archived = TRUE
    BY <1>0, <2>1 DEF ArchivedNeverRuns, RunStatus
  <2>3. \A event \in LifecycleEvent : After(status, event, archived) \notin RunStatus
    BY <1>0, <2>2, ArchivedRefuses
  <2>4. CASE User
    BY <1>2, <2>1, <2>2, <2>4, StopLeavesRun
    DEF User, UserSends, UserQueues, UserDeletes, UserGroups, UserSendsNow,
        UserStops, UserUnarchives, Answered, threadVars
  <2>5. CASE Dispatch
    BY <2>2, <2>5
    DEF Dispatch, Advance, Disturb, Drain, StartWalk, DrainJoins,
        InteractionSettled, PluginRechecks, Sweep, WalkOn, CheckWaits,
        CheckPasses, CheckMoved, CheckArchived, FastSend, SendStart, SendJoin,
        Admit, CommitMoved, CommitFails, PluginHolds, AttemptFails, Starts,
        Applies, Superseded, threadVars
  <2>6. CASE Daemon
    <3>1. \A ended, how : how \in {"completed", "failed", "interrupted"}
                          /\ HearCompletion(ended, how) => status' \notin RunStatus
      BY <2>2, CompletionLeavesRun
    <3>2. CASE CommandRejected
      BY <2>2, <2>3, <3>2, FailureFails DEF CommandRejected, LifecycleEvent
    <3> QED BY <2>2, <2>3, <2>6, <3>1, <3>2
        DEF Daemon, CommandAccepted, TurnStarted, TurnSteered,
            TurnCompleted, TurnEndsUnheard, LateCompletion, Asks, DaemonStops,
            DaemonDies, threadVars, LifecycleEvent
  <2>7. CASE Run
    BY <2>2, <2>3, <2>7, StopLeavesRun
    DEF Run, EnvironmentAttaches, ProvisionSucceeds, ProvisionFails, StopSettled,
        StopFails, SweepArchived, Finalize, threadVars, LifecycleEvent, RunStatus
  <2>8. CASE Host
    <3>1. CASE HostReturns
      <4>1. Reconcile(running # "none" /\ setup # "none")
        BY <3>1 DEF HostReturns
      <4> QED BY <2>2, <2>3, <4>1
          DEF Reconcile, RequestStop, Finalize, InterruptActive, LifecycleEvent,
              RunStatus
    <3>2. CASE ~HostReturns
      BY <2>2, <2>3, <2>8, <3>2, FailureFails
      DEF Host, HostDisconnects, Crash, CommandUndelivered, GraceExpires,
          InterruptActive, InteractionGraceExpires, threadVars, LifecycleEvent,
          RunStatus
    <3> QED BY <3>1, <3>2
  <2> QED BY <1>2, <2>4, <2>5, <2>6, <2>7, <2>8 DEF Next
<1>3. CASE UNCHANGED vars
  BY <1>0, <1>3 DEF vars, threadVars, ArchivedNeverRuns, RunStatus
<1> QED BY <1>1, <1>2, <1>3

\* ArchivedNeverRuns: no attempt, provisioning, command result or turn start
\* that was on its way when the thread was archived sets it running.
THEOREM ArchivedStaysQuiet == Spec => []ArchivedNeverRuns
PROOF
<1>1. Init => ArchivedNeverRuns
  BY DEF Init, ArchivedNeverRuns
<1> QED BY <1>1, ArchivedStep, TypesHold, PTL DEF Spec
-----------------------------------------------------------------------------
(* Stopping. *)

\* The statuses a run's events can lead to from outside it, the start apart.
LEMMA OnlyStartsRun ==
  ASSUME status # "active", NEW a, NEW event \in LifecycleEvent \ {"run.started"}
  PROVE  After(status, event, a) # "active"
PROOF BY DEF After, Target, LifecycleEvent

LEMMA StopStep ==
  ASSUME TypeOK, [Next]_vars,
         status # "active", mark = "stopped", mark' = "stopped", hostUp
  PROVE  status' # "active"
PROOF
<1>1. CASE UNCHANGED vars
  BY <1>1 DEF vars, threadVars
<1>2. \A a, event : event \in LifecycleEvent \ {"run.started"} =>
        After(status, event, a) # "active"
  BY OnlyStartsRun
<1>3. ASSUME NEW gone, StopThread(gone)
      PROVE  status' # "active"
  BY <1>2, <1>3 DEF StopThread, StopRun, StopPreStart, RequestStop, LifecycleEvent
<1>4. CASE User
  <2>1. CASE UserStops \/ UserArchives
    <3>1. CASE UserStops
      BY <1>3, <3>1 DEF UserStops
    <3>2. CASE UserArchives
      BY <1>3, <3>2 DEF UserArchives
    <3> QED BY <2>1, <3>1, <3>2
  <2>2. CASE ~(UserStops \/ UserArchives)
    BY <1>4, <2>2
    DEF User, UserSends, UserQueues, UserDeletes, UserGroups, UserSendsNow,
        UserUnarchives, Answered, threadVars
  <2> QED BY <2>1, <2>2
<1>5. CASE Dispatch
  <2>1. ASSUME NEW w \in Workers, Advance(w)
        PROVE  status' # "active"
    <3>1. CASE SendStart(w) \/ SendJoin(w) \/ Admit(w) \/ FastSend(w)
      BY <3>1
      DEF SendStart, SendJoin, Admit, FastSend, RequestStart, MarkRequested, Target,
          threadVars
    <3>2. CASE ~(SendStart(w) \/ SendJoin(w) \/ Admit(w) \/ FastSend(w))
      BY <2>1, <3>2
      DEF Advance, WalkOn, CheckWaits, CheckPasses, CheckMoved, CheckArchived,
          CommitMoved, CommitFails, threadVars
    <3> QED BY <3>1, <3>2
  <2>2. CASE ~\E w \in Workers : Advance(w)
    BY <1>5, <2>2
    DEF Dispatch, Disturb, Drain, StartWalk, DrainJoins, InteractionSettled,
        PluginRechecks, Sweep, PluginHolds, AttemptFails, threadVars
  <2> QED BY <2>1, <2>2
<1>6. CASE Daemon
  <2>1. ASSUME NEW ended, NEW how \in {"completed", "failed", "interrupted"},
               HearCompletion(ended, how)
        PROVE  status' # "active"
    BY <1>2, <2>1 DEF HearCompletion, Outcome, LifecycleEvent
  <2>2. CASE CommandRejected
    BY <1>2, <2>2, FailureFails DEF CommandRejected, LifecycleEvent
  <2> QED BY <1>2, <1>6, <2>1, <2>2
      DEF Daemon, CommandAccepted, TurnStarted, TurnSteered,
          TurnCompleted, TurnEndsUnheard, LateCompletion, Asks, DaemonStops,
          DaemonDies, threadVars, LifecycleEvent
<1>7. CASE Run
  BY <1>2, <1>3, <1>7
  DEF Run, EnvironmentAttaches, ProvisionSucceeds, ProvisionFails, StopSettled,
      StopFails, SweepArchived, Finalize, threadVars, LifecycleEvent
<1>8. CASE Host
  BY <1>2, <1>8, FailureFails
  DEF Host, HostDisconnects, Crash, CommandUndelivered, GraceExpires,
      InterruptActive, InteractionGraceExpires, HostReturns, threadVars,
      LifecycleEvent
<1> QED BY <1>1, <1>4, <1>5, <1>6, <1>7, <1>8 DEF Next

\* StopHolds: a stopped thread becomes active by a new turn request or by the
\* next session of its host, never by an answer to what the stop overtook.
THEOREM StoppedStaysStopped == Spec => StopHolds
PROOF BY StopStep, TypesHold, PTL DEF Spec, StopHolds
-----------------------------------------------------------------------------
(* The pause.  An attempt notes once whether a manual stop may hold it back; *)
(* the note must not go stale while the attempt holds its rows.              *)

Automatic(w) == job[w].kind \in {"drain", "auto"}

PauseInv ==
  \A m \in Msgs :
    token[m] \in Workers /\ Automatic(token[m]) /\ Ordinary(m)
      => job[token[m]].pausable = TRUE

\* What is still claimed was claimed before, with the same wait, by an attempt
\* that has not changed its note.
LEMMA NoteKeeps ==
  ASSUME PauseInv,
         \A m \in Msgs : token'[m] \in Workers =>
           /\ token'[m] = token[m] /\ wait'[m] = wait[m]
           /\ job'[token[m]].kind = job[token[m]].kind
           /\ job'[token[m]].pausable = job[token[m]].pausable
  PROVE  PauseInv'
PROOF BY DEF PauseInv, Automatic, Ordinary

\* An attempt notes it when it claims: what it has is what it claimed.
LEMMA ClaimNotes ==
  ASSUME HoldingInv, PauseInv, NEW w \in Workers, ~Working(w),
         NEW kind \in {"drain", "auto", "now"}, NEW S, NEW m, NEW rest, NEW cut,
         Claim(S, w, cut),
         job' = [job EXCEPT ![w] = Attempt(kind, S, m, "auto", rest)]
  PROVE  PauseInv'
PROOF
<1>0. /\ \A n \in Msgs : token'[n] = (IF n \in S THEN w ELSE token[n])
      /\ wait' = wait
      /\ \A n \in Msgs : token[n] # w
  BY DEF Claim, HoldingInv, ClaimsHaveOwners
<1>1. /\ job'[w].kind = kind
      /\ \A n \in S : kind \in {"drain", "auto"} /\ Ordinary(n)
                      => job'[w].pausable = TRUE
      /\ \A v \in Workers \ {w} : job'[v] = job[v]
  BY DEF Attempt, HoldingInv, TypeOK
<1>2. ASSUME NEW n \in Msgs, token'[n] \in Workers, Automatic(token[n])', Ordinary(n)'
      PROVE  job'[token'[n]].pausable = TRUE
  <2>1. CASE n \in S
    BY <1>0, <1>1, <1>2, <2>1 DEF Automatic, Ordinary
  <2>2. CASE n \notin S
    BY <1>0, <1>1, <1>2, <2>2 DEF PauseInv, Automatic, Ordinary
  <2> QED BY <2>1, <2>2
<1> QED BY <1>2 DEF PauseInv

LEMMA EndNotes ==
  ASSUME HoldingInv, HoldingInv', PauseInv, NEW w \in Workers, EndAttempt(w),
         \A m \in Msgs : token'[m] \in Workers =>
           token'[m] = token[m] /\ wait'[m] = wait[m]
  PROVE  PauseInv'
PROOF
<1>1. \A v \in Workers \ {w} : job'[v] = job[v]
  BY EndAttemptFacts DEF HoldingInv
<1>2. \A m \in Msgs : token'[m] # w
  BY EndAttemptFacts DEF HoldingInv, ClaimsHaveOwners
<1> QED BY <1>1, <1>2, NoteKeeps

LEMMA GiveUpNotes ==
  ASSUME HoldingInv, HoldingInv', PauseInv, NEW w \in Workers, NEW why, GiveUp(w, why)
  PROVE  PauseInv'
PROOF
<1>1. \A m \in Msgs : token'[m] \in Workers => token'[m] = token[m] /\ wait'[m] = wait[m]
  BY TokensDistinct
  DEF GiveUp, Settle, Release, ReleaseOffline, ReleaseFailed, Unclaimed,
      HoldingInv, TypeOK, QueueTypeOK
<1> QED BY <1>1, EndNotes DEF GiveUp

LEMMA QueueOnNotes ==
  ASSUME HoldingInv, HoldingInv', PauseInv, NEW w \in Workers, Working(w),
         NEW reason, QueueOn(w, reason)
  PROVE  PauseInv'
PROOF
<1>1. CASE job[w].kind = "inline"
  <2>1. token[job[w].cur] \notin Workers
    BY <1>1, InlineAlone DEF HoldingInv, ClaimsHaveOwners, Row
  <2> QED BY <1>1, <2>1, EndNotes DEF QueueOn, Create, HoldingInv, TypeOK, QueueTypeOK
<1>2. CASE job[w].kind # "inline"
  <2>1. \A m \in Msgs : token'[m] \in Workers => token'[m] = token[m] /\ wait'[m] = wait[m]
    BY <1>2, TokensDistinct
    DEF QueueOn, Requeue, Unclaimed, HoldingInv, TypeOK, QueueTypeOK
  <2> QED BY <2>1, EndNotes DEF QueueOn
<1> QED BY <1>1, <1>2

LEMMA ReattemptNotes ==
  ASSUME HoldingInv, HoldingInv', PauseInv, NEW w \in Workers, Reattempt(w)
  PROVE  PauseInv'
PROOF
<1>1. CASE job[w].retried
  BY <1>1, GiveUpNotes DEF Reattempt
<1>2. CASE ~job[w].retried
  <2>1. /\ UNCHANGED <<token, wait>>
        /\ \A v \in Workers : /\ job'[v].kind = job[v].kind
                              /\ job'[v].pausable = job[v].pausable
    BY <1>2 DEF Reattempt, queueVars, HoldingInv, TypeOK, Job
  <2> QED BY <2>1, NoteKeeps
<1> QED BY <1>1, <1>2

LEMMA DeliverNotes ==
  ASSUME HoldingInv, HoldingInv', PauseInv, NEW w \in Workers, Deliver(w)
  PROVE  PauseInv'
PROOF
<1>1. \A m \in Msgs : token'[m] \in Workers => token'[m] = token[m] /\ wait'[m] = wait[m]
  BY TokensDistinct DEF Deliver, Settle, Remove, HoldingInv, TypeOK, QueueTypeOK
<1> QED BY <1>1, EndNotes DEF Deliver

\* The steps that leave claims, waits and attempts alone.
LEMMA OthersNote ==
  ASSUME PauseInv, UNCHANGED <<token, job>>,
         \A m \in Msgs : token[m] \in Workers => wait'[m] = wait[m]
  PROVE  PauseInv'
PROOF BY NoteKeeps

LEMMA WaitsOfLive ==
  ASSUME NEW kind, ClearWaits(kind)
  PROVE  token' = token /\ \A m \in Msgs : token[m] \in Workers => wait'[m] = wait[m]
PROOF BY TokensDistinct DEF ClearWaits, WaitingOn, LiveRows, Live

LEMMA UserNotes ==
  ASSUME HoldingInv, HoldingInv', PauseInv, User
  PROVE  PauseInv'
PROOF
<1>1. ASSUME NEW w \in Workers, NEW m \in Msgs, NEW mode, UserSends(w, m, mode)
      PROVE  PauseInv'
  <2>1. /\ UNCHANGED <<token, wait>> /\ ~Working(w)
        /\ \A v \in Workers \ {w} : job'[v] = job[v]
    BY <1>1 DEF UserSends, Settle, Idle, Working, HoldingInv, TypeOK
  <2>2. \A n \in Msgs : token[n] # w
    BY <2>1 DEF HoldingInv, ClaimsHaveOwners
  <2> QED BY <2>1, <2>2, NoteKeeps
<1>2. ASSUME NEW m \in Msgs, UserQueues(m)
      PROVE  PauseInv'
  <2>1. token[m] \notin Workers
    BY <1>2 DEF UserQueues, HoldingInv, ClaimsHaveOwners, Row
  <2> QED BY <1>2, <2>1, OthersNote
      DEF UserQueues, Create, HoldingInv, TypeOK, QueueTypeOK
<1>3. ASSUME NEW m \in Msgs, UserDeletes(m)
      PROVE  PauseInv'
  <2>1. job' = job /\ \A n \in Msgs : token'[n] \in Workers =>
          token'[n] = token[n] /\ wait'[n] = wait[n]
    BY <1>3, TokensDistinct DEF UserDeletes, Remove
  <2> QED BY <2>1, NoteKeeps
<1>4. ASSUME NEW w \in Workers, NEW m \in Msgs, UserSendsNow(w, m)
      PROVE  PauseInv'
  BY <1>4, ClaimNotes DEF UserSendsNow, Idle, Working
<1>5. ASSUME NEW m \in Msgs, UserGroups(m)
      PROVE  PauseInv'
  BY <1>5, OthersNote DEF UserGroups, GroupUpTo
<1>6. ASSUME NEW gone, StopThread(gone), UNCHANGED job
      PROVE  PauseInv'
  BY <1>6, OthersNote, WaitsOfLive DEF StopThread, StopRun, StopPreStart, queueVars
<1>7. CASE UserStops \/ UserArchives \/ UserUnarchives \/ Answered
  BY <1>6, <1>7, OthersNote
  DEF UserStops, UserArchives, UserUnarchives, Answered, queueVars
<1> QED BY <1>1, <1>2, <1>3, <1>4, <1>5, <1>7 DEF User

LEMMA DispatchNotes ==
  ASSUME HoldingInv, HoldingInv', PauseInv, Dispatch
  PROVE  PauseInv'
PROOF
<1>0. /\ job \in [Workers -> Job]
      /\ \A w \in Workers : ~Working(w) => \A m \in Msgs : token[m] # w
  BY DEF HoldingInv, TypeOK, ClaimsHaveOwners
<1>1. ASSUME NEW w \in Workers, Drain(w)
      PROVE  PauseInv'
  BY <1>1, ClaimNotes, OthersNote DEF Drain, Idle, Working, queueVars
<1>2. ASSUME NEW w \in Workers, NEW wake, StartWalk(w, wake)
      PROVE  PauseInv'
  <2>1. token' = token /\ \A m \in Msgs : token[m] \in Workers => wait'[m] = wait[m]
    BY <1>2, WaitsOfLive DEF StartWalk, queueVars
  <2>2. ~Working(w) /\ \A v \in Workers \ {w} : job'[v] = job[v]
    BY <1>0, <1>2 DEF StartWalk, Idle, Working
  <2> QED BY <1>0, <2>1, <2>2, NoteKeeps
<1>3. ASSUME NEW w \in Workers, WalkOn(w)
      PROVE  PauseInv'
  <2> DEFINE m == Lead(job[w].todo)
             rest == job[w].todo \ {m}
  <2>1. ~Working(w)
    BY <1>3 DEF WalkOn, Working
  <2>2. CASE /\ Claim(GroupOf(m), w, {})
             /\ job' = [job EXCEPT ![w] = Attempt("auto", GroupOf(m), m, "auto", rest)]
    BY <2>1, <2>2, ClaimNotes
  <2>3. CASE UNCHANGED queueVars /\ \E j : job' = [job EXCEPT ![w] = j]
    BY <1>0, <2>1, <2>3, NoteKeeps DEF queueVars
  <2> QED BY <1>3, <2>2, <2>3 DEF WalkOn
<1>4. ASSUME NEW w \in Workers, CheckPasses(w)
      PROVE  PauseInv'
  <2>1. UNCHANGED <<token, wait>> /\ \A v \in Workers :
          job'[v].kind = job[v].kind /\ job'[v].pausable = job[v].pausable
    <3> DEFINE pc == IF First(job[w].snap) THEN "admit" ELSE "send"
    <3>1. job' = [job EXCEPT ![w] = [job[w] EXCEPT !.pc = pc]]
      BY <1>0, <1>4 DEF CheckPasses
    <3> HIDE DEF pc
    <3> QED BY <1>0, <1>4, <3>1 DEF CheckPasses, queueVars, Job
  <2> QED BY <2>1, NoteKeeps
<1>5. ASSUME NEW w \in Workers, CheckWaits(w) \/ PluginHolds(w)
      PROVE  PauseInv'
  BY <1>5, QueueOnNotes DEF CheckWaits, PluginHolds, Checking, Working
<1>6. ASSUME NEW w \in Workers, CheckMoved(w) \/ CommitMoved(w)
      PROVE  PauseInv'
  BY <1>6, ReattemptNotes DEF CheckMoved, CommitMoved
<1>7. ASSUME NEW w \in Workers,
             CheckArchived(w) \/ CommitFails(w) \/ \E why : AttemptFails(w, why)
      PROVE  PauseInv'
  <2>1. PICK why : GiveUp(w, why)
    BY <1>7 DEF CheckArchived, CommitFails, AttemptFails
  <2> QED BY <2>1, GiveUpNotes
<1>8. ASSUME NEW w \in Workers, FastSend(w) \/ SendStart(w) \/ SendJoin(w) \/ Admit(w)
      PROVE  PauseInv'
  BY <1>8, DeliverNotes DEF FastSend, SendStart, SendJoin, Admit
<1>9. CASE DrainJoins \/ InteractionSettled \/ PluginRechecks
  BY <1>9, OthersNote, WaitsOfLive
  DEF DrainJoins, InteractionSettled, PluginRechecks, queueVars
<1>10. ASSUME NEW stale, Sweep(stale)
       PROVE  PauseInv'
  <2>1. UNCHANGED <<wait, job>> /\ \A m \in Msgs : token'[m] \in Workers =>
          token'[m] = token[m]
    BY <1>10, TokensDistinct DEF Sweep, ReleaseOrphans, queueVars
  <2> QED BY <2>1, NoteKeeps
<1> QED BY <1>1, <1>2, <1>3, <1>4, <1>5, <1>6, <1>7, <1>8, <1>9, <1>10
    DEF Dispatch, Advance, Disturb

LEMMA RunNotes ==
  ASSUME HoldingInv, PauseInv, Daemon \/ Run \/ Host
  PROVE  PauseInv'
PROOF
<1>1. ASSUME NEW delivered \in BOOLEAN, Crash(delivered)
      PROVE  PauseInv'
  <2>1. \A m \in Msgs : token'[m] \notin Workers
    BY <1>1, TokensDistinct DEF Crash, Abandon, HoldingInv, TypeOK, QueueTypeOK
  <2> QED BY <2>1, NoteKeeps
<1>2. CASE ~\E delivered \in BOOLEAN : Crash(delivered)
  <2>1. UNCHANGED <<token, job>>
    BY <1>2, OthersHold DEF held
  <2>2. ASSUME NEW gone, StopThread(gone)
        PROVE  \A m \in Msgs : token[m] \in Workers => wait'[m] = wait[m]
    BY <2>2, WaitsOfLive DEF StopThread, StopRun, StopPreStart, queueVars
  <2>3. CASE Daemon
    BY <2>1, <2>3, OthersNote
    DEF Daemon, CommandAccepted, CommandRejected, TurnStarted, TurnSteered,
        TurnCompleted, TurnEndsUnheard, LateCompletion, Asks, DaemonStops,
        DaemonDies, queueVars
  <2>4. CASE Run
    BY <2>1, <2>2, <2>4, OthersNote, WaitsOfLive
    DEF Run, EnvironmentAttaches, ProvisionSucceeds, ProvisionFails, StopSettled,
        StopFails, SweepArchived, queueVars
  <2>5. CASE Host
    BY <1>2, <2>1, <2>5, OthersNote
    DEF Host, HostDisconnects, CommandUndelivered, GraceExpires,
        InteractionGraceExpires, HostReturns, queueVars
  <2> QED BY <2>3, <2>4, <2>5
<1> QED BY <1>1, <1>2

NotedInv == HoldingInv /\ PauseInv

LEMMA NotedInit == Init => NotedInv
PROOF
<1>1. Init => PauseInv
  BY TokensDistinct DEF Init, QueueInit, PauseInv
<1> QED BY <1>1, HoldingInit DEF NotedInv

LEMMA NotedStep == NotedInv /\ [Next]_vars => NotedInv'
PROOF
<1> SUFFICES ASSUME NotedInv, [Next]_vars
             PROVE  NotedInv'
  OBVIOUS
<1>1. HoldingInv /\ HoldingInv' /\ PauseInv
  BY HoldingStep DEF NotedInv
<1>2. CASE UNCHANGED vars
  BY <1>1, <1>2, OthersNote DEF vars, queueVars, NotedInv
<1>3. CASE Next
  BY <1>1, <1>3, UserNotes, DispatchNotes, RunNotes DEF Next, NotedInv
<1> QED BY <1>2, <1>3

LEMMA Noting == Spec => []NotedInv
PROOF BY NotedInit, NotedStep, PTL DEF Spec

\* A commit sends rows its attempt owns.
LEMMA CommitOwns ==
  ASSUME HoldingInv, NEW w \in Workers, Working(w), MayCommit(w), Deliver(w),
         NEW m \in Msgs, Row(m), place'[m] = "sent"
  PROVE  token[m] = w
PROOF
<1>1. CASE job[w].kind = "inline"
  BY <1>1, InlineAlone DEF HoldingInv, TypeOK, QueueTypeOK, Deliver, Settle, Row
<1>2. CASE job[w].kind # "inline"
  <2>1. m \in job[w].rows
    BY <1>2 DEF Deliver, Remove, Row
  <2> QED BY <1>2, <2>1 DEF MayCommit, ClaimLost, Owned
<1> QED BY <1>1, <1>2

\* Nothing but a commit sends a row.
LEMMA SentByOwner ==
  ASSUME HoldingInv, [Next]_vars, NEW m \in Msgs, Row(m), place'[m] = "sent"
  PROVE  \E w \in Workers : token[m] = w /\ MayCommit(w)
PROOF
<1>0. place \in [Msgs -> Place] /\ place[m] = "queue" /\ "queue" # "sent"
  BY DEF HoldingInv, TypeOK, QueueTypeOK, Row
<1>1. ASSUME NEW w \in Workers, NEW why, GiveUp(w, why)
      PROVE  FALSE
  BY <1>0, <1>1 DEF GiveUp, Settle, Release, ReleaseOffline, ReleaseFailed
<1>2. ASSUME NEW w \in Workers, NEW reason, QueueOn(w, reason)
      PROVE  FALSE
  BY <1>0, <1>2 DEF QueueOn, Create, Requeue
<1>3. ASSUME NEW w \in Workers, Reattempt(w)
      PROVE  FALSE
  BY <1>0, <1>1, <1>3 DEF Reattempt, queueVars
<1>4. CASE User
  <2>1. ASSUME NEW n \in Msgs, NEW w \in Workers, NEW mode,
               UserSends(w, n, mode) \/ UserSendsNow(w, n)
        PROVE  FALSE
    BY <1>0, <2>1 DEF UserSends, Settle, UserSendsNow, Claim
  <2>2. ASSUME NEW n \in Msgs, UserDeletes(n)
        PROVE  FALSE
    BY <1>0, <2>2 DEF UserDeletes, Remove
  <2>3. ASSUME UserStops \/ UserArchives \/ UserUnarchives \/ Answered
        PROVE  FALSE
    BY <1>0, <2>3
    DEF UserStops, UserArchives, UserUnarchives, Answered, StopThread, StopRun,
        StopPreStart, ClearWaits, queueVars
  <2>4. ASSUME NEW n \in Msgs, UserQueues(n) \/ UserGroups(n)
        PROVE  FALSE
    BY <1>0, <2>4 DEF UserQueues, Create, UserGroups, GroupUpTo
  <2> QED BY <1>4, <2>1, <2>2, <2>3, <2>4 DEF User
<1>5. CASE Dispatch
  <2>1. ASSUME NEW w \in Workers,
               FastSend(w) \/ SendStart(w) \/ SendJoin(w) \/ Admit(w)
        PROVE  token[m] = w /\ MayCommit(w)
    BY <2>1, CommitOwns DEF FastSend, SendStart, SendJoin, Admit, Working
  <2>2. ASSUME NEW w \in Workers,
               \/ CheckWaits(w) \/ CheckMoved(w) \/ CheckArchived(w)
               \/ CommitMoved(w) \/ CommitFails(w) \/ Disturb(w)
        PROVE  FALSE
    BY <1>1, <1>2, <1>3, <2>2
    DEF CheckWaits, CheckMoved, CheckArchived, CommitMoved, CommitFails,
        Disturb, PluginHolds, AttemptFails
  <2>3. ASSUME NEW w \in Workers,
               Drain(w) \/ WalkOn(w) \/ CheckPasses(w) \/ \E wake : StartWalk(w, wake)
        PROVE  FALSE
    BY <1>0, <2>3
    DEF Drain, WalkOn, CheckPasses, StartWalk, Claim, ClearWaits, queueVars
  <2>4. ASSUME \/ DrainJoins \/ InteractionSettled \/ PluginRechecks
               \/ \E stale \in BOOLEAN : Sweep(stale)
        PROVE  FALSE
    BY <1>0, <2>4
    DEF DrainJoins, InteractionSettled, PluginRechecks, Sweep, ClearWaits,
        ReleaseOrphans, queueVars
  <2> QED BY <1>5, <2>1, <2>2, <2>3, <2>4 DEF Dispatch, Advance
<1>6. CASE Daemon \/ Run \/ Host
  <2>1. ASSUME NEW delivered \in BOOLEAN, Crash(delivered)
        PROVE  FALSE
    BY <1>0, <2>1 DEF Crash, Abandon
  <2> QED BY <1>0, <1>6, <2>1, OthersHold DEF held
<1>7. CASE UNCHANGED vars
  BY <1>0, <1>7 DEF vars, queueVars
<1> QED BY <1>4, <1>5, <1>6, <1>7 DEF Next

\* The owner of a paused ordinary row commits only if it was sent by hand.
LEMMA PauseStep ==
  ASSUME NotedInv, [Next]_vars,
         NEW m \in Msgs, Row(m), Paused, Ordinary(m), place'[m] = "sent"
  PROVE  \E w \in Workers : token[m] = w /\ job[w].kind = "now"
PROOF
<1>1. PICK w \in Workers : token[m] = w /\ MayCommit(w)
  BY SentByOwner DEF NotedInv
<1>2. m \in job[w].rows /\ job[w].kind \in {"drain", "auto", "now"}
  BY <1>1 DEF NotedInv, HoldingInv, ClaimsHaveOwners, JobsCoherent, TypeOK, Job
<1>3. ~(job[w].pausable = TRUE)
  BY <1>1 DEF MayCommit, PauseStops
<1> QED BY <1>1, <1>2, <1>3 DEF NotedInv, PauseInv, Automatic

\* PauseHolds: while the queue is paused by a manual stop an ordinary row is
\* sent by nobody but the user who sends it now, whatever any attempt read
\* before the stop.
THEOREM PausedRowsWait == Spec => PauseHolds
PROOF
<1>1. NotedInv /\ [Next]_vars =>
        [\A m \in Msgs : Row(m) /\ Paused /\ Ordinary(m) /\ place'[m] = "sent" =>
           \E w \in Workers : token[m] = w /\ job[w].kind = "now"]_vars
  BY PauseStep
<1> QED BY <1>1, Noting, PTL DEF Spec, PauseHolds
-----------------------------------------------------------------------------
(* What has happened so far.  A property that speaks of a history without a  *)
(* disturbance holds its premise at every state of that history.             *)

SpentInv == \A d \in Disturbance : left[d] <= Budget[d]

HistoryInv == TypeOK /\ SpentInv

LEMMA LeftStep ==
  ASSUME [Next]_vars
  PROVE  left' = left \/ \E d \in Disturbance : Spend(d)
PROOF
<1>1. CASE UNCHANGED vars
  BY <1>1 DEF vars
<1>2. CASE User
  BY <1>2 DEF User, UserSends, UserQueues, UserDeletes, UserGroups, UserSendsNow,
     UserStops, UserArchives, UserUnarchives, Answered, Disturbance
<1>3. CASE Dispatch
  BY <1>3 DEF Dispatch, Advance, Disturb, Drain, StartWalk, DrainJoins,
     InteractionSettled, PluginRechecks, Sweep, WalkOn, CheckWaits, CheckPasses,
     CheckMoved, CheckArchived, FastSend, SendStart, SendJoin, Admit, CommitMoved,
     CommitFails, PluginHolds, AttemptFails, Disturbance
<1>4. CASE Daemon
  BY <1>4 DEF Daemon, CommandAccepted, CommandRejected, TurnStarted, TurnSteered,
     TurnCompleted, TurnEndsUnheard, LateCompletion, Asks, DaemonStops, DaemonDies,
     Disturbance
<1>5. CASE Run
  BY <1>5 DEF Run, EnvironmentAttaches, ProvisionSucceeds, ProvisionFails,
     StopSettled, StopFails, SweepArchived, Disturbance
<1>6. CASE Host
  BY <1>6 DEF Host, HostDisconnects, Crash, CommandUndelivered, GraceExpires,
     InteractionGraceExpires, HostReturns, Disturbance
<1> QED BY <1>1, <1>2, <1>3, <1>4, <1>5, <1>6 DEF Next

\* What is left of the budget only falls.
LEMMA SpentStep == HistoryInv /\ [Next]_vars => HistoryInv'
PROOF
<1> SUFFICES ASSUME HistoryInv, [Next]_vars
             PROVE  HistoryInv'
  OBVIOUS
<1>1. TypeOK' /\ left \in [Disturbance -> Nat]
  BY TypeStep DEF HistoryInv, TypeOK
<1>2. ASSUME NEW d \in Disturbance, Spend(d)
      PROVE  SpentInv'
  <2>1. ASSUME NEW x \in Disturbance
        PROVE  left'[x] = left[x] \/ left'[x] = left[x] - 1
    BY <1>1, <1>2, <2>1 DEF Spend
  <2> QED BY <1>1, <2>1, BudgetNatural DEF HistoryInv, SpentInv
<1>3. CASE left' = left
  BY <1>1, <1>3 DEF HistoryInv, SpentInv
<1> QED BY <1>1, <1>2, <1>3, LeftStep DEF HistoryInv

LEMMA History == Spec => []HistoryInv
PROOF
<1>1. Init => HistoryInv
  BY InitialTypes, BudgetNatural DEF Init, HistoryInv, SpentInv
<1> QED BY <1>1, SpentStep, PTL DEF Spec

\* A history spared these disturbances was spared them a step ago, and that
\* step is none of them.
LEMMA SparedBefore ==
  ASSUME HistoryInv, [Next]_vars, NEW ds \in SUBSET Disturbance, Spared(ds)'
  PROVE  Spared(ds) /\ \A d \in ds : ~Spend(d)
PROOF
<1>1. left \in [Disturbance -> Nat] /\ \A d \in ds : left'[d] = Budget[d]
  BY DEF HistoryInv, TypeOK, Spared
<1>2. ASSUME NEW x \in Disturbance, Spend(x)
      PROVE  x \notin ds /\ \A d \in ds : left[d] = Budget[d]
  <2>1. /\ \A d \in Disturbance \ {x} : left'[d] = left[d]
        /\ left'[x] = left[x] - 1 /\ left[x] <= Budget[x]
    BY <1>1, <1>2 DEF Spend, HistoryInv, SpentInv
  <2> QED BY <1>1, <2>1, BudgetNatural
<1>3. CASE left' = left
  <2>1. \A d \in ds : ~Spend(d)
    BY <1>1, <1>3, BudgetNatural DEF Spend
  <2> QED BY <1>1, <1>3, <2>1 DEF Spared
<1> QED BY <1>2, <1>3, LeftStep DEF Spared
-----------------------------------------------------------------------------
(* The second turn.  A thread that has run before and was never archived is  *)
(* never provisioned again, so all its turns are asked for by a start; and    *)
(* while one of them runs the thread is active, stopping or in error.         *)

\* Whatever the attempt finds, it is not the thread's first dispatch.
NotFirst(j) == j.pc # "admit" /\ (j.pc = "check" => ~First(j.snap))

TurnFacts ==
  /\ status \notin {"pending", "starting"} /\ setup = "session" /\ archived = FALSE
  /\ \A w \in Workers : NotFirst(job[w])
  /\ turn = "live" => status # "idle"

TurnInv == HistoryInv /\ (Spared({"archive"}) => TurnFacts)

LEMMA NeverFirst ==
  ASSUME TypeOK, TurnFacts, [Next]_vars
  PROVE  \A w \in Workers : NotFirst(job[w])'
PROOF
<1>0. job \in [Workers -> Job] /\ \A w \in Workers : NotFirst(job[w])
  BY DEF TypeOK, TurnFacts
<1>1. NotFirst(NoJob) /\ \A rest : NotFirst(Walk(rest))
  BY DEF NotFirst, Walk, NoJob
<1>2. /\ ~First(Now)
      /\ \A kind, S, m, mode, rest : NotFirst(Attempt(kind, S, m, mode, rest))
  <2>1. ~First(Now)
    BY DEF First, Now, TurnFacts
  <2>2. ASSUME NEW kind, NEW S, NEW m, NEW mode, NEW rest
        PROVE  /\ Attempt(kind, S, m, mode, rest).pc # "admit"
               /\ Attempt(kind, S, m, mode, rest).snap = Now
    BY DEF Attempt, FirstStep
  <2> QED BY <2>1, <2>2 DEF NotFirst
<1>3. ASSUME NEW w \in Workers, NEW j, NotFirst(j), job' = [job EXCEPT ![w] = j]
      PROVE  \A v \in Workers : NotFirst(job[v])'
  BY <1>0, <1>3 DEF NotFirst, First
<1>4. ASSUME UNCHANGED job
      PROVE  \A v \in Workers : NotFirst(job[v])'
  BY <1>0, <1>4 DEF NotFirst, First
<1>5. ASSUME NEW w \in Workers, EndAttempt(w)
      PROVE  \A v \in Workers : NotFirst(job[v])'
  BY <1>1, <1>3, <1>5 DEF EndAttempt
<1>6. ASSUME NEW w \in Workers, Reattempt(w)
      PROVE  \A v \in Workers : NotFirst(job[v])'
  <2>1. CASE job[w].retried
    BY <1>5, <1>6, <2>1 DEF Reattempt, GiveUp
  <2>2. CASE ~job[w].retried
    <3> DEFINE old == job[w]
               j == [old EXCEPT !.snap = Now, !.retried = TRUE, !.pc = "check"]
    <3>1. job' = [job EXCEPT ![w] = j]
      BY <1>0, <1>6, <2>2 DEF Reattempt
    <3>2. j.snap = Now
      BY <1>0 DEF Job
    <3>3. j.pc = "check"
      BY <1>0 DEF Job
    <3> HIDE DEF j
    <3> QED BY <1>2, <1>3, <3>1, <3>2, <3>3 DEF NotFirst
  <2> QED BY <2>1, <2>2
<1>7. ASSUME NEW w \in Workers, CheckPasses(w)
      PROVE  \A v \in Workers : NotFirst(job[v])'
  <2> DEFINE j == [job[w] EXCEPT !.pc = "send"]
  <2>1. ~First(job[w].snap)
    BY <1>0, <1>7 DEF CheckPasses, Checking, NotFirst
  <2>2. job' = [job EXCEPT ![w] = j]
    BY <1>0, <1>7, <2>1 DEF CheckPasses
  <2>3. NotFirst(j)
    BY <1>0 DEF NotFirst, Job
  <2> HIDE DEF j
  <2> QED BY <1>3, <2>2, <2>3
<1>8. CASE User
  BY <1>2, <1>3, <1>4, <1>8
  DEF User, UserSends, UserQueues, UserDeletes, UserGroups, UserSendsNow, UserStops,
      UserArchives, UserUnarchives, Answered
<1>9. CASE Dispatch
  <2>1. ASSUME NEW w \in Workers,
               \/ CheckWaits(w) \/ CheckArchived(w) \/ FastSend(w) \/ SendStart(w)
               \/ SendJoin(w) \/ Admit(w) \/ CommitFails(w) \/ Disturb(w)
        PROVE  \A v \in Workers : NotFirst(job[v])'
    BY <1>5, <2>1
    DEF CheckWaits, CheckArchived, FastSend, SendStart, SendJoin, Admit, CommitFails,
        Disturb, PluginHolds, AttemptFails, QueueOn, GiveUp, Deliver
  <2>2. ASSUME NEW w \in Workers, CheckMoved(w) \/ CommitMoved(w)
        PROVE  \A v \in Workers : NotFirst(job[v])'
    BY <1>6, <2>2 DEF CheckMoved, CommitMoved
  <2>3. ASSUME NEW w \in Workers, WalkOn(w)
        PROVE  \A v \in Workers : NotFirst(job[v])'
    BY <1>1, <1>2, <1>3, <2>3 DEF WalkOn
  <2>4. ASSUME NEW w \in Workers, Drain(w) \/ \E wake \in Walks : StartWalk(w, wake)
        PROVE  \A v \in Workers : NotFirst(job[v])'
    BY <1>1, <1>2, <1>3, <1>4, <2>4 DEF Drain, StartWalk
  <2>5. CASE ~\E w \in Workers : Drain(w) \/ Advance(w) \/ Disturb(w)
                                 \/ \E wake \in Walks : StartWalk(w, wake)
    BY <1>4, <1>9, <2>5
    DEF Dispatch, DrainJoins, InteractionSettled, PluginRechecks, Sweep
  <2> QED BY <1>7, <2>1, <2>2, <2>3, <2>4, <2>5 DEF Advance
<1>10. ASSUME NEW delivered \in BOOLEAN, Crash(delivered)
       PROVE  \A v \in Workers : NotFirst(job[v])'
  BY <1>1, <1>10 DEF Crash, NotFirst, First
<1>11. CASE Daemon \/ Run \/ Host
  BY <1>4, <1>10, <1>11, OthersHold DEF held
<1>12. CASE UNCHANGED vars
  BY <1>4, <1>12 DEF vars
<1> QED BY <1>8, <1>9, <1>11, <1>12 DEF Next

\* What the step does to the thread's run.
RunFacts ==
  /\ status \notin {"pending", "starting"} /\ setup = "session" /\ archived = FALSE
  /\ turn = "live" => status # "idle"

LEMMA RunStep ==
  ASSUME TypeOK, TurnFacts, [Next]_vars, ~Spend("archive")
  PROVE  RunFacts'
PROOF
<1>0. /\ RunFacts /\ status \in {"idle", "active", "stopping", "error"}
      /\ turn \in Turn /\ \A w \in Workers : job[w].pc # "admit"
  BY DEF TurnFacts, RunFacts, NotFirst, TypeOK, ThreadTypeOK, ThreadStatus
<1>1. ASSUME UNCHANGED <<status, setup, archived, turn>>
      PROVE  RunFacts'
  BY <1>0, <1>1 DEF RunFacts
\* The events of a thread that is not provisioned lead out of "starting", and
\* only the end of a turn and the end of a stop lead to "idle".
<1>2. /\ \A event \in LifecycleEvent \ {"run.preparing"} :
           After(status, event, archived) \notin {"pending", "starting"}
      /\ \A event \in {"run.started", "run.failed", "stop.requested"} :
           After(status, event, archived) = "idle" => status = "idle"
      /\ After(status, "run.started", FALSE) # "idle"
  BY <1>0 DEF After, Applies, Superseded, Sources, Target, LifecycleEvent
<1>3. ASSUME StopThread(FALSE), UNCHANGED <<setup, archived>>
      PROVE  RunFacts'
  <2>1. CASE StopRun(FALSE)
    BY <1>0, <1>2, <1>3, <2>1
    DEF StopRun, RequestStop, RunFacts, LifecycleEvent
  <2>2. ASSUME NEW settled \in BOOLEAN, StopPreStart(settled)
        PROVE  RunFacts'
    BY <1>0, <1>3, <2>2 DEF StopPreStart, RunFacts
  <2> QED BY <1>3, <2>1, <2>2 DEF StopThread
<1>4. ASSUME NEW ended, NEW how \in {"completed", "failed", "interrupted"},
             HearCompletion(ended, how), UNCHANGED <<setup, archived>>
      PROVE  RunFacts'
  BY <1>0, <1>2, <1>4 DEF HearCompletion, Outcome, RunFacts, LifecycleEvent
<1>5. ASSUME NEW S, status' \in AfterFailing(S), UNCHANGED <<setup, archived, turn>>
      PROVE  RunFacts'
  BY <1>0, <1>2, <1>5, FailureFails DEF RunFacts, LifecycleEvent
<1>6. CASE User
  <2>1. CASE UserStops
    BY <1>3, <2>1 DEF UserStops
  <2>2. CASE ~UserStops
    BY <1>0, <1>1, <1>6, <2>2
    DEF User, UserSends, UserQueues, UserDeletes, UserGroups, UserSendsNow,
        UserArchives, UserUnarchives, Answered, threadVars, RunFacts
  <2> QED BY <2>1, <2>2
<1>7. CASE Dispatch
  <2>1. ASSUME NEW w \in Workers, FastSend(w) \/ SendStart(w)
        PROVE  RunFacts'
    BY <1>0, <2>1 DEF FastSend, SendStart, RequestStart, RunFacts, Target
  <2>2. ASSUME NEW w \in Workers, SendJoin(w)
        PROVE  RunFacts'
    BY <1>1, <2>2 DEF SendJoin
  <2>3. ASSUME NEW w \in Workers, Admit(w)
        PROVE  FALSE
    BY <1>0, <2>3 DEF Admit
  <2>4. CASE ~\E w \in Workers : FastSend(w) \/ SendStart(w) \/ SendJoin(w) \/ Admit(w)
    BY <1>1, <1>7, <2>4
    DEF Dispatch, Advance, Disturb, Drain, StartWalk, DrainJoins,
        InteractionSettled, PluginRechecks, Sweep, WalkOn, CheckWaits,
        CheckPasses, CheckMoved, CheckArchived, CommitMoved, CommitFails,
        PluginHolds, AttemptFails, threadVars
  <2> QED BY <2>1, <2>2, <2>3, <2>4
<1>8. CASE Daemon
  <2>1. CASE CommandRejected
    BY <1>1, <1>5, <2>1 DEF CommandRejected
  <2>2. CASE CommandAccepted
    BY <1>0, <1>2, <2>2 DEF CommandAccepted, RunFacts, LifecycleEvent
  <2>3. CASE TurnStarted
    BY <1>0, <1>2, <2>3 DEF TurnStarted, RunFacts, LifecycleEvent
  <2>4. ASSUME NEW how \in {"completed", "failed", "interrupted"}, TurnCompleted(how)
        PROVE  RunFacts'
    BY <1>4, <2>4 DEF TurnCompleted
  <2>5. CASE LateCompletion
    BY <1>4, <2>5 DEF LateCompletion
  <2>6. CASE TurnSteered \/ TurnEndsUnheard \/ Asks \/ DaemonStops \/ DaemonDies
    BY <1>1, <2>6 DEF TurnSteered, TurnEndsUnheard, Asks, DaemonStops, DaemonDies,
       threadVars
  <2> QED BY <1>8, <2>1, <2>2, <2>3, <2>4, <2>5, <2>6 DEF Daemon
<1>9. CASE Run
  <2>1. CASE ProvisionFails
    BY <1>0, <1>2, <2>1 DEF ProvisionFails, RunFacts, LifecycleEvent
  <2>2. CASE StopSettled
    BY <1>0, <2>2 DEF StopSettled, Finalize, RunFacts
  <2>3. CASE EnvironmentAttaches \/ SweepArchived
    BY <1>0, <2>3 DEF EnvironmentAttaches, SweepArchived, RunFacts
  <2>4. CASE ProvisionSucceeds \/ StopFails
    BY <1>1, <2>4 DEF ProvisionSucceeds, StopFails, threadVars
  <2> QED BY <1>9, <2>1, <2>2, <2>3, <2>4 DEF Run
<1>10. CASE Host
  <2>1. ASSUME NEW delivered \in BOOLEAN, HostDisconnects(delivered)
        PROVE  RunFacts'
    BY <1>5, <2>1 DEF HostDisconnects
  <2>2. ASSUME NEW i \in DOMAIN lane, CommandUndelivered(i)
        PROVE  RunFacts'
    BY <1>5, <2>2 DEF CommandUndelivered
  <2>3. ASSUME NEW delivered \in BOOLEAN, Crash(delivered)
        PROVE  RunFacts'
    BY <1>1, <2>3 DEF Crash, threadVars
  <2>4. CASE GraceExpires
    BY <1>0, <2>4 DEF GraceExpires, InterruptActive, RunFacts
  <2>5. CASE InteractionGraceExpires
    BY <1>1, <2>5 DEF InteractionGraceExpires
  <2>6. CASE HostReturns
    <3>1. Reconcile(running # "none" /\ setup # "none") /\ UNCHANGED <<setup, archived>>
      BY <2>6 DEF HostReturns
    <3> QED BY <1>0, <1>2, <3>1
        DEF Reconcile, RequestStop, Finalize, InterruptActive, RunFacts, LifecycleEvent
  <2> QED BY <1>10, <2>1, <2>2, <2>3, <2>4, <2>5, <2>6 DEF Host
<1>11. CASE UNCHANGED vars
  BY <1>1, <1>11 DEF vars, threadVars
<1> QED BY <1>6, <1>7, <1>8, <1>9, <1>10, <1>11 DEF Next

LEMMA TurnStep == TurnInv /\ [Next]_vars => TurnInv'
PROOF
<1> SUFFICES ASSUME TurnInv, [Next]_vars
             PROVE  TurnInv'
  OBVIOUS
<1>1. HistoryInv /\ HistoryInv' /\ TypeOK
  BY SpentStep DEF TurnInv, HistoryInv
<1>2. ASSUME Spared({"archive"})'
      PROVE  TurnFacts'
  <2>1. Spared({"archive"}) /\ ~Spend("archive")
    BY <1>1, <1>2, SparedBefore DEF Disturbance
  <2>2. TurnFacts
    BY <2>1 DEF TurnInv
  <2> QED BY <1>1, <2>1, <2>2, RunStep, NeverFirst DEF RunFacts, TurnFacts
<1> QED BY <1>1, <1>2 DEF TurnInv

\* A sequence with one more element.
LEMMA OneMore ==
  ASSUME NEW S, NEW s \in Seq(S), NEW x \in S, NEW t, t = Append(s, x)
  PROVE  /\ t \in Seq(S) /\ Len(s) \in Nat /\ Len(t) = Len(s) + 1
         /\ DOMAIN s = 1..Len(s) /\ DOMAIN t = 1..(Len(s) + 1) /\ t[Len(s) + 1] = x
         /\ \A y \in S \ {x} : t # Append(s, y)
PROOF
<1>1. \A y \in S : Append(s, y)[Len(s) + 1] = y
  OBVIOUS
<1> QED BY <1>1

\* It is none of the sequences that are as long or shorter.
LEMMA Longer ==
  ASSUME NEW S, NEW s \in Seq(S), NEW t \in Seq(S), Len(t) = Len(s) + 1
  PROVE  /\ t # s /\ t # <<>>
         /\ s # <<>> => t # Tail(s)
         /\ \A i \in 1..Len(s) : t # SubSeq(s, 1, i - 1) \o SubSeq(s, i + 1, Len(s))
PROOF
<1>1. t # s /\ t # <<>>
  OBVIOUS
<1>2. s # <<>> => t # Tail(s)
  <2>1. s # <<>> => Len(Tail(s)) = Len(s) - 1
    OBVIOUS
  <2>2. Len(s) \in Nat /\ Len(s) - 1 # Len(t)
    OBVIOUS
  <2> QED BY <2>1, <2>2
<1>3. ASSUME NEW i \in 1..Len(s)
      PROVE  t # SubSeq(s, 1, i - 1) \o SubSeq(s, i + 1, Len(s))
  <2> DEFINE a == SubSeq(s, 1, i - 1)
             b == SubSeq(s, i + 1, Len(s))
  <2>1. a \in Seq(S) /\ Len(a) = i - 1
    <3>1. \A k \in 1..(i - 1) : s[k] \in S
      BY ElementOfSeq
    <3> QED BY <3>1, SubSeqProperties
  <2>2. b \in Seq(S) /\ Len(b) = Len(s) - i
    <3>1. \A k \in (i + 1)..Len(s) : s[k] \in S
      BY ElementOfSeq
    <3> QED BY <3>1, SubSeqProperties
  <2> HIDE DEF a, b
  <2>3. Len(a \o b) = Len(s) - 1
    <3>1. Len(a \o b) = Len(a) + Len(b)
      BY <2>1, <2>2, ConcatProperties
    <3>2. Len(s) \in Nat
      OBVIOUS
    <3> QED BY <2>1, <2>2, <3>1, <3>2
  <2>4. Len(s) - 1 # Len(t)
    OBVIOUS
  <2>5. t # a \o b
    BY <2>3, <2>4
  <2> QED BY <2>5 DEF a, b
<1> QED BY <1>1, <1>2, <1>3

\* Only a start asks the daemon for a turn: every other step shortens the lane,
\* leaves it, or appends a command of another kind.
LEMMA StartsSubmit ==
  ASSUME TypeOK, [Next]_vars, lane' = Append(lane, "submit")
  PROVE  status \in {"idle", "starting", "error"}
PROOF
<1>0. lane \in Seq(Command) /\ "submit" \in Command
  BY DEF TypeOK, HostTypeOK, Command
<1>a. /\ lane' \in Seq(Command) /\ Len(lane') = Len(lane) + 1 /\ Len(lane) \in Nat
      /\ DOMAIN lane = 1..Len(lane)
      /\ DOMAIN lane' = 1..(Len(lane) + 1) /\ lane'[Len(lane) + 1] = "submit"
      /\ \A c \in Command \ {"submit"} : lane' # Append(lane, c)
  BY <1>0, OneMore
<1>1. /\ lane' # lane /\ lane' # <<>>
      /\ lane # <<>> => lane' # Tail(lane)
      /\ \A c \in Command \ {"submit"} : lane' # Append(lane, c)
  BY <1>0, <1>a, Longer
<1>2. \A i \in DOMAIN lane : lane' # LaneWithout(i)
  BY <1>0, <1>a, Longer DEF LaneWithout
<1>3. \A delivered \in BOOLEAN : lane' # Strays(delivered)
  <2> SUFFICES ASSUME NEW delivered \in BOOLEAN, lane' = Strays(delivered)
               PROVE  FALSE
    OBVIOUS
  <2> DEFINE n == Cardinality({i \in DOMAIN lane : lane[i] # "stop"})
  <2>1. lane' = [i \in 1..n |-> "stray"]
    BY <1>1 DEF Strays
  <2> HIDE DEF n
  <2>2. Len(lane) + 1 \in DOMAIN lane' /\ lane'[Len(lane) + 1] = "submit"
    BY <1>a
  <2> QED BY <2>1, <2>2
<1>4. ASSUME RequestStop(FALSE) \/ RequestStop(TRUE) \/ RequestStop(archived)
      PROVE  FALSE
  BY <1>1, <1>4 DEF RequestStop, Command
<1>5. ASSUME NEW gone \in BOOLEAN, StopThread(gone)
      PROVE  FALSE
  BY <1>1, <1>4, <1>5 DEF StopThread, StopRun, StopPreStart, Command
<1>6. CASE User
  BY <1>1, <1>5, <1>6
  DEF User, UserSends, UserQueues, UserDeletes, UserGroups, UserSendsNow, UserStops,
      UserArchives, UserUnarchives, Answered, hostVars
<1>7. CASE Dispatch
  <2>1. ASSUME NEW w \in Workers, FastSend(w) \/ SendStart(w)
        PROVE  status \in {"idle", "starting", "error"}
    BY <2>1 DEF FastSend, SendStart, Starts, Applies, Sources
  <2>2. CASE ~\E w \in Workers : FastSend(w) \/ SendStart(w)
    BY <1>1, <1>7, <2>2
    DEF Dispatch, Advance, Disturb, Drain, StartWalk, DrainJoins,
        InteractionSettled, PluginRechecks, Sweep, WalkOn, CheckWaits,
        CheckPasses, CheckMoved, CheckArchived, SendJoin, Admit, CommitMoved,
        CommitFails, PluginHolds, AttemptFails, hostVars, Command
  <2> QED BY <2>1, <2>2
<1>8. CASE Daemon
  BY <1>1, <1>8
  DEF Daemon, CommandAccepted, CommandRejected, TurnStarted, TurnSteered,
      TurnCompleted, TurnEndsUnheard, LateCompletion, Asks, DaemonStops, DaemonDies,
      AtHead, hostVars
<1>9. CASE Run
  BY <1>1, <1>2, <1>5, <1>9
  DEF Run, EnvironmentAttaches, ProvisionSucceeds, ProvisionFails, StopSettled,
      StopFails, SweepArchived, hostVars, Command
<1>10. CASE Host
  BY <1>1, <1>2, <1>3, <1>4, <1>10
  DEF Host, HostDisconnects, Crash, CommandUndelivered, GraceExpires,
      InteractionGraceExpires, HostReturns, Reconcile, hostVars
<1>11. CASE UNCHANGED vars
  BY <1>1, <1>11 DEF vars, hostVars
<1> QED BY <1>6, <1>7, <1>8, <1>9, <1>10, <1>11 DEF Next

\* NoCompetingTurn: on a thread that has run before, and until it is archived,
\* no start asks for a turn while one runs, though an attempt decides to start
\* long before its transaction, and turns start and end without asking anyone.
THEOREM TurnsNeverCompete ==
  ASSUME Started
  PROVE  Spec => NoCompetingTurn
PROOF
<1>1. Init => TurnInv
  <2> SUFFICES ASSUME Init
               PROVE  TurnInv
    OBVIOUS
  <2>1. HistoryInv
    BY InitialTypes, BudgetNatural DEF Init, HistoryInv, SpentInv
  <2>2. \A w \in Workers : NotFirst(job[w])
    BY DEF Init, NoJob, NotFirst
  <2>3. TurnFacts
    BY <2>2 DEF Init, FirstStatus, TurnFacts
  <2> QED BY <2>1, <2>3 DEF TurnInv
<1>2. TurnInv /\ [Next]_vars =>
        [Spared({"archive"}) /\ lane' = Append(lane, "submit") /\ status # "error"
           => turn # "live"]_vars
  BY StartsSubmit DEF TurnInv, TurnFacts, HistoryInv
<1> QED BY <1>1, <1>2, TurnStep, PTL DEF Spec, NoCompetingTurn
=============================================================================
