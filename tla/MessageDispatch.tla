-------------------------- MODULE MessageDispatch --------------------------
(***************************************************************************)
(* How the messages of one thread are dispatched: the queue (MessageQueue), *)
(* the thread's run (ThreadLifecycle) and the server's dispatch attempts.   *)
(*                                                                          *)
(* The server is one process.  Code between two awaits is one step here,    *)
(* and so is a database transaction; a dispatch attempt reads the thread,   *)
(* awaits hooks, hosts and providers, and only then commits, so each of its *)
(* awaits is a place where any other step may come first.                   *)
(***************************************************************************)
EXTENDS MessageQueue, ThreadLifecycle, Sequences

CONSTANTS Hooks,    \* whether a plugin has a message-dispatch hook
          Started,  \* whether the thread has run before
          Budget    \* how often each disturbance may happen

Disturbance == {"now", "delete", "group", "stop", "ask", "host", "archive",
                "crash", "fault", "hold"}

ASSUME HooksBoolean == Hooks \in BOOLEAN
ASSUME StartedBoolean == Started \in BOOLEAN
ASSUME BudgetNatural == Budget \in [Disturbance -> Nat]

VARIABLES
  status, archived, \* columns of the thread
  setup,        \* "none", an environment "attached", then a provider "session"
  provisioning, \* the thread's environment is being provisioned
  turn,         \* the turn the event log says is open
  mark,         \* what the log's last interruption means for the queue
  asking,       \* an interaction of the turn waits for the user
  hostUp,       \* the host's daemon is connected
  lane,         \* the commands the daemon has yet to run for the thread
  running,      \* the turn the daemon runs, or has "accepted"
  done,         \* a turn that ended there, unknown to the server yet
  stopAck,      \* the daemon's answer to a stop is on its way
  wakes,        \* deferred queue-dispatch work, lost with the process
  job,          \* what each worker is doing
  sent,         \* history: how often each message was put in a turn request
  left          \* what is left of Budget

threadVars == <<status, archived, setup, provisioning, turn, mark, asking>>
hostVars == <<hostUp, lane, running, done, stopAck>>
vars == <<queueVars, threadVars, hostVars, wakes, job, sent, left>>

\* A "ghost" turn started after a stop that its request preceded: the log
\* has it, the thread's status ignores it.
Turn == {"none", "live", "ghost"}

\* The provider has been asked to run an "accepted" turn, but no turn/started
\* has come of it.
Running == Turn \union {"accepted"}

\* "start" is a thread.start, "submit" a turn.submit that begins a turn and
\* "join" one for the running turn; of a "stray" the server expects no answer.
Command == {"start", "submit", "join", "stop", "stray"}

\* "stopped": a manual stop is the last thing of note in the log; "asked": a
\* turn was requested since, but has not started; "lost": the last
\* interruption was the host's; "clear": none of these.
Mark == {"clear", "stopped", "asked", "lost"}

Wake == {"ready", "turn-started", "workspace-ready", "host-connected",
         "interaction-settled", "plugin-recheck"}

Snapshot == [status : ThreadStatus, archived : BOOLEAN, env : BOOLEAN]

Job == [pc : {"idle", "walk", "fast", "check", "send", "admit"},
        kind : {"none", "inline", "drain", "auto", "now"},
        rows : SUBSET Msgs,           \* what the attempt would send
        cur : Msgs \union {None},     \* the row a failure is recorded on
        snap : Snapshot,              \* the thread as the attempt read it
        home : BOOLEAN,               \* the first snapshot's env
        mode : {"auto", "queue"},     \* "queue" is queue-if-active
        pausable : BOOLEAN,           \* respectManualStopPause
        retried : BOOLEAN,
        todo : SUBSET Msgs]           \* the rest of an automatic walk

ThreadTypeOK ==
  /\ status \in ThreadStatus /\ archived \in BOOLEAN
  /\ setup \in {"none", "attached", "session"}
  /\ provisioning \in BOOLEAN
  /\ turn \in Turn /\ mark \in Mark /\ asking \in BOOLEAN

HostTypeOK ==
  /\ hostUp \in BOOLEAN /\ lane \in Seq(Command)
  /\ running \in Running /\ done \in Turn /\ stopAck \in BOOLEAN

TypeOK ==
  /\ QueueTypeOK /\ ThreadTypeOK /\ HostTypeOK
  /\ wakes \subseteq Wake
  /\ job \in [Workers -> Job]
  /\ sent \in [Msgs -> Nat]
  /\ left \in [Disturbance -> Nat]

\* The status a thread is created with, before anything is read from it.
FirstStatus == IF Started THEN "idle" ELSE "pending"

NoSnapshot == [status |-> "pending", archived |-> FALSE, env |-> FALSE]

NoJob == [pc |-> "idle", kind |-> "none", rows |-> {}, cur |-> None,
          snap |-> NoSnapshot, home |-> FALSE, mode |-> "auto",
          pausable |-> FALSE, retried |-> FALSE, todo |-> {}]

Init ==
  /\ QueueInit
  /\ status = FirstStatus
  /\ archived = FALSE
  /\ setup = IF Started THEN "session" ELSE "none"
  /\ provisioning = FALSE
  /\ turn = "none" /\ mark = "clear" /\ asking = FALSE
  /\ hostUp = TRUE /\ lane = <<>> /\ running = "none" /\ done = "none"
  /\ stopAck = FALSE
  /\ wakes = {}
  /\ job = [w \in Workers |-> NoJob]
  /\ sent = [m \in Msgs |-> 0]
  /\ left = Budget

Spend(d) == left[d] > 0 /\ left' = [left EXCEPT ![d] = @ - 1]
-----------------------------------------------------------------------------
(* Reading the thread. *)

\* isThreadQueueAutoSendPaused
Paused == mark \in {"stopped", "asked"}

Now == [status |-> status, archived |-> archived, env |-> setup # "none"]

\* Whether an attempt that read this snapshot is the thread's first dispatch:
\* its message goes with the provisioning, not after it.
First(snap) ==
  \/ snap.status = "pending"
  \/ snap.status \in {"idle", "error"} /\ ~snap.env

\* createAutomaticQueuedMessageGroupEligibility
WaitCleared(m) ==
  CASE wait[m] \in {"none", "plugin"} -> TRUE
    [] wait[m] \in {"thread-busy", "stopping"} -> status \in {"idle", "pending"}
    [] wait[m] = "turn-starting" ->
         status = "idle" \/ (status = "active" /\ turn # "none")
    [] wait[m] = "host-offline" -> setup # "none" /\ hostUp
    [] wait[m] \in {"provisioning", "interaction"} -> FALSE

Claimable(S) ==
  /\ AutoClaimAllowed(S, Paused)
  /\ \A m \in S : WaitCleared(m)

\* What the idle drain may claim, and the group it takes.
Drainable(S) ==
  /\ Claimable(S)
  /\ \E m \in S : wait[m] \in IdleDrainableWait

\* listIdleThreadsWithQueuedMessages
IdleWithWork ==
  /\ status \in {"idle", "pending"} /\ ~archived
  /\ \E m \in WaitingOn(IdleDrainableWait) : Paused => ~Ordinary(m)

\* The commands but the one at i.
LaneWithout(i) == SubSeq(lane, 1, i - 1) \o SubSeq(lane, i + 1, Len(lane))

InLane(commands) == \E i \in DOMAIN lane : lane[i] \in commands

AtHead(commands) == hostUp /\ lane # <<>> /\ Head(lane) \in commands

\* hasLiveThreadRuntime
LiveRuntime ==
  \/ status = "active"
  \/ InLane({"start"})
  \/ status = "stopping" /\ turn # "none"

\* Mutant of AfterAsking: nobody is told that the interaction is over.
SilentAnswer == {}

\* An interaction that ends, however it ends, asks for a dispatch.
AfterAsking == IF asking THEN {"interaction-settled"} ELSE {}

\* Appending a turn request, or a root turn start, to the log.
MarkRequested ==
  CASE mark = "stopped" -> "asked" [] mark = "lost" -> "clear" [] OTHER -> mark
-----------------------------------------------------------------------------
(* Attempts: how one begins, ends without a send, and reads again. *)

Idle(w) == job[w].pc = "idle"

\* sendClaimedQueuedMessageForIdleProviderThread is tried first for rows.
FirstStep(kind) ==
  IF kind # "inline" /\ ~Hooks /\ status = "idle" /\ setup = "session"
  THEN "fast" ELSE "check"

Attempt(kind, S, m, mode, rest) ==
  [pc |-> FirstStep(kind), kind |-> kind, rows |-> S, cur |-> m, snap |-> Now,
   home |-> setup # "none", mode |-> mode,
   pausable |-> kind \in {"drain", "auto"} /\ \E n \in S : Ordinary(n),
   retried |-> FALSE, todo |-> rest]

Walk(rest) == [NoJob EXCEPT !.pc = "walk", !.kind = "auto", !.todo = rest]

EndAttempt(w) ==
  job' = [job EXCEPT ![w] =
            IF job[w].kind = "auto" THEN Walk(job[w].todo) ELSE NoJob]

\* Which failures the row is made to carry: a drain keeps quiet about a lost
\* claim, an automatic attempt does not; nobody records a pause or a timeout.
Recorded(w, why) ==
  \/ why = "error" /\ job[w].kind \in {"drain", "auto"}
  \/ why = "claim-lost" /\ job[w].kind = "auto"

\* Mutant of GiveUp: a failure nobody records keeps its claims.
GiveUpKeepingClaims(w, why) ==
  LET j == job[w] IN
  /\ EndAttempt(w)
  /\ IF j.kind = "inline" THEN Settle(j.cur, "refused")
     ELSE IF ~Recorded(w, why) THEN UNCHANGED queueVars
     ELSE IF j.home /\ ~hostUp THEN ReleaseOffline(j.rows, w, j.cur)
     ELSE ReleaseFailed(j.rows, w, j.cur)

\* Mutant of GiveUp: the author of an inline send is told nothing.
GiveUpSilently(w, why) ==
  LET j == job[w] IN
  /\ EndAttempt(w)
  /\ IF j.kind = "inline" THEN UNCHANGED queueVars
     ELSE IF ~Recorded(w, why) THEN Release(j.rows, w)
     ELSE IF j.home /\ ~hostUp THEN ReleaseOffline(j.rows, w, j.cur)
     ELSE ReleaseFailed(j.rows, w, j.cur)

\* The attempt throws: its claims are released, and recordQueuedMessage-
\* DrainFailure says on the row what happened.  An inline send tells its user.
GiveUp(w, why) ==
  LET j == job[w] IN
  /\ EndAttempt(w)
  /\ IF j.kind = "inline" THEN Settle(j.cur, "refused")
     ELSE IF ~Recorded(w, why) THEN Release(j.rows, w)
     ELSE IF j.home /\ ~hostUp THEN ReleaseOffline(j.rows, w, j.cur)
     ELSE ReleaseFailed(j.rows, w, j.cur)

\* recordQueuedMessageWait
QueueOn(w, reason) ==
  LET j == job[w] IN
  /\ EndAttempt(w)
  /\ IF j.kind = "inline" THEN Create(j.cur, reason)
     ELSE Requeue(j.rows, w, reason)

\* reattemptDispatchForThreadChange: once, then the attempt is an error.
Reattempt(w) ==
  IF job[w].retried THEN GiveUp(w, "error")
  ELSE /\ job' = [job EXCEPT ![w].snap = Now, ![w].retried = TRUE,
                             ![w].pc = "check"]
       /\ UNCHANGED queueVars

\* Mutant of Deliver: the rows that were sent are given back, not deleted.
DeliverKeepingRows(w) ==
  LET j == job[w] IN
  /\ EndAttempt(w)
  /\ IF j.kind = "inline" THEN Settle(j.cur, "sent") ELSE Release(j.rows, w)
  /\ sent' = [m \in Msgs |-> IF m \in j.rows THEN sent[m] + 1 ELSE sent[m]]

\* Consuming the claimed rows with the turn request, in one transaction.
Deliver(w) ==
  LET j == job[w] IN
  /\ EndAttempt(w)
  /\ IF j.kind = "inline" THEN Settle(j.cur, "sent") ELSE Remove(j.rows, "sent")
  /\ sent' = [m \in Msgs |-> IF m \in j.rows THEN sent[m] + 1 ELSE sent[m]]
-----------------------------------------------------------------------------
(* What the user does with messages. *)

\* A send: the request's handler is the worker of its message until it is
\* sent, queued or refused.
UserSends(w, m, mode) ==
  /\ place[m] = "new" /\ Idle(w) /\ ~archived
  /\ Settle(m, "inline")
  /\ job' = [job EXCEPT ![w] = Attempt("inline", {m}, m, mode, {})]
  /\ UNCHANGED <<threadVars, hostVars, wakes, sent, left>>

\* An explicit "queue this".
UserQueues(m) ==
  /\ place[m] = "new" /\ ~archived
  /\ Create(m, IF status = "stopping" THEN "stopping" ELSE "thread-busy")
  /\ wakes' = IF status = "idle" /\ setup = "session"
              THEN wakes \union {"ready"} ELSE wakes
  /\ UNCHANGED <<threadVars, hostVars, job, sent, left>>

\* Deleting a row does not ask whether a worker holds it.
UserDeletes(m) ==
  /\ Row(m) /\ Spend("delete")
  /\ Remove({m}, "deleted")
  /\ UNCHANGED <<threadVars, hostVars, wakes, job, sent>>

UserGroups(m) ==
  /\ Live(m) /\ ~archived /\ Spend("group")
  /\ GroupUpTo(m)
  /\ UNCHANGED <<threadVars, hostVars, wakes, job, sent>>

\* "Send now" claims the group the row leads, or the row alone.
UserSendsNow(w, m) ==
  LET S == IF Lead(GroupOf(m)) = m THEN GroupOf(m) ELSE {m}
      cut == IF Lead(GroupOf(m)) = m THEN {}
             ELSE {m} \union {k \in Msgs : JoinsTo(k, m)}
  IN  /\ Idle(w) /\ Live(m) /\ ~archived /\ ~asking /\ Spend("now")
      /\ Claim(S, w, cut)
      /\ job' = [job EXCEPT ![w] = Attempt("now", S, m, "auto", {})]
      /\ UNCHANGED <<threadVars, hostVars, wakes, sent>>
-----------------------------------------------------------------------------
(* The drains. *)

\* Mutant of Draining: drains do not join the one that runs.
NeverDraining == FALSE

\* Only one idle drain runs at a time: a wake that finds one joins it.
Draining == \E w \in Workers : job[w].kind = "drain"

Drain(w) ==
  /\ "ready" \in wakes /\ ~Draining /\ Idle(w)
  /\ wakes' = wakes \ {"ready"}
  /\ LET ready == {S \in Groups : Drainable(S)}
         first == CHOOSE S \in ready :
                    \A T \in ready : key[Lead(S)] <= key[Lead(T)]
     IN  IF archived \/ status = "stopping" \/ ready = {}
         THEN UNCHANGED <<queueVars, job>>
         ELSE /\ Claim(first, w, {})
              /\ job' = [job EXCEPT ![w] =
                           Attempt("drain", first, Lead(first), "auto", {})]
  /\ UNCHANGED <<threadVars, hostVars, sent, left>>

DrainJoins ==
  /\ "ready" \in wakes /\ Draining
  /\ wakes' = wakes \ {"ready"}
  /\ UNCHANGED <<queueVars, threadVars, hostVars, job, sent, left>>

\* Mutant of WalkKinds: the turn's start leaves the provisioning waits alone.
WalkKindsOfTurn(wake) ==
  CASE wake = "turn-started"    -> {"turn-starting"}
    [] wake = "workspace-ready" -> {"provisioning"}
    [] wake = "host-connected"  -> {"host-offline"}
    [] wake = "plugin-recheck"  -> {"plugin"}

\* The wakes that attempt some waiting rows one after the other, by their
\* order; the provisioning waits among them are cleared on the way.
WalkKinds(wake) ==
  CASE wake = "turn-started"    -> {"turn-starting", "provisioning"}
    [] wake = "workspace-ready" -> {"provisioning"}
    [] wake = "host-connected"  -> {"host-offline"}
    [] wake = "plugin-recheck"  -> {"plugin"}

Dropped(wake) ==
  \/ wake = "workspace-ready" /\ status = "starting"
  \/ wake = "host-connected" /\ (archived \/ setup = "none")

StartWalk(w, wake) ==
  LET rest == IF Dropped(wake) THEN {} ELSE WaitingOn(WalkKinds(wake))
  IN  /\ wake \in wakes \ {"ready", "interaction-settled"} /\ Idle(w)
      /\ wakes' = wakes \ {wake}
      /\ IF "provisioning" \in WalkKinds(wake) /\ ~Dropped(wake)
         THEN ClearWaits("provisioning") ELSE UNCHANGED queueVars
      /\ job' = IF rest = {} THEN job ELSE [job EXCEPT ![w] = Walk(rest)]
      /\ UNCHANGED <<threadVars, hostVars, sent, left>>

\* attemptAutomaticQueuedMessage, for the next row of the walk: claimed with
\* its group if the group may go, left alone otherwise.
WalkOn(w) ==
  LET todo == job[w].todo
      m == Lead(todo)
      rest == todo \ {m}
  IN  /\ job[w].pc = "walk"
      /\ IF todo = {}
         THEN /\ job' = [job EXCEPT ![w] = NoJob]
              /\ UNCHANGED queueVars
         ELSE IF Live(m) /\ Claimable(GroupOf(m))
         THEN /\ Claim(GroupOf(m), w, {})
              /\ job' = [job EXCEPT ![w] =
                           Attempt("auto", GroupOf(m), m, "auto", rest)]
         ELSE /\ job' = [job EXCEPT ![w] = Walk(rest)]
              /\ UNCHANGED queueVars
      /\ UNCHANGED <<threadVars, hostVars, wakes, sent, left>>

\* Mutant of InteractionSettled: the drain is woken, the waits stay.
SettledKeepingWaits ==
  /\ "interaction-settled" \in wakes
  /\ wakes' = (wakes \ {"interaction-settled"}) \union
              (IF asking \/ WaitingOn({"interaction"}) = {} THEN {} ELSE {"ready"})
  /\ UNCHANGED <<queueVars, threadVars, hostVars, job, sent, left>>

\* runInteractionSettledDispatch: a null wait and an idle drain.
InteractionSettled ==
  /\ "interaction-settled" \in wakes
  /\ wakes' = (wakes \ {"interaction-settled"}) \union
              (IF asking \/ WaitingOn({"interaction"}) = {} THEN {} ELSE {"ready"})
  /\ IF asking THEN UNCHANGED queueVars ELSE ClearWaits("interaction")
  /\ UNCHANGED <<threadVars, hostVars, job, sent, left>>

PluginRechecks ==
  /\ Hooks /\ WaitingOn({"plugin"}) # {}
  /\ wakes' = wakes \union {"plugin-recheck"}
  /\ UNCHANGED <<queueVars, threadVars, hostVars, job, sent, left>>

\* Mutant of Sweep: only an idle thread with work has its claims released.
SweepWithWork(stale) ==
  /\ IF stale /\ IdleWithWork THEN ReleaseOrphans ELSE UNCHANGED queueVars
  /\ wakes' = IF IdleWithWork THEN wakes \union {"ready"} ELSE wakes
  /\ UNCHANGED <<threadVars, hostVars, job, sent, left>>

\* The periodic idle recovery.  It releases the claims of dead workers once
\* they are five minutes old, and drains the thread if that could help.
Sweep(stale) ==
  /\ IF stale THEN ReleaseOrphans ELSE UNCHANGED queueVars
  /\ wakes' = IF IdleWithWork THEN wakes \union {"ready"} ELSE wakes
  /\ UNCHANGED <<threadVars, hostVars, job, sent, left>>
-----------------------------------------------------------------------------
(* The dispatch checkpoint: runDispatchAttempt after its first awaits. *)

\* Mutant of EarlyWait: the wait is written with the status's name.
EarlyWaitByStatus(j) ==
  CASE j.snap.status \in {"stopping", "active"} -> j.snap.status
    [] j.snap.env /\ ~hostUp -> "host-offline"
    [] OTHER -> "none"

\* The waits the attempt's own snapshot decides ...
EarlyWait(j) ==
  CASE j.snap.status = "stopping" -> "stopping"
    [] j.snap.status = "active" /\ j.mode = "queue" -> "thread-busy"
    [] j.snap.env /\ ~hostUp -> "host-offline"
    [] OTHER -> "none"

\* ... and those decided on the thread as it is by then.
LateWait(j) ==
  CASE status = "active" /\ turn = "none" -> "turn-starting"
    [] ~First(j.snap) /\ status = "starting" -> "provisioning"
    [] asking -> "interaction"
    [] OTHER -> "none"

Moved(j) == status # j.snap.status \/ archived # j.snap.archived

Checking(w) == job[w].pc = "check" /\ ~job[w].snap.archived

CheckWaits(w) ==
  LET j == job[w] IN
  /\ Checking(w)
  /\ \/ EarlyWait(j) # "none" /\ QueueOn(w, EarlyWait(j))
     \/ EarlyWait(j) = "none" /\ ~Moved(j) /\ LateWait(j) # "none"
        /\ QueueOn(w, LateWait(j))
  /\ UNCHANGED <<threadVars, hostVars, wakes, sent, left>>

CheckPasses(w) ==
  LET j == job[w] IN
  /\ Checking(w)
  /\ EarlyWait(j) = "none" /\ ~Moved(j) /\ LateWait(j) = "none"
  /\ job' = [job EXCEPT ![w].pc = IF First(j.snap) THEN "admit" ELSE "send"]
  /\ UNCHANGED <<queueVars, threadVars, hostVars, wakes, sent, left>>

CheckMoved(w) ==
  /\ Checking(w) /\ EarlyWait(job[w]) = "none" /\ Moved(job[w])
  /\ Reattempt(w)
  /\ UNCHANGED <<threadVars, hostVars, wakes, sent, left>>

\* ensureThreadIsWritable
CheckArchived(w) ==
  /\ job[w].pc = "check" /\ job[w].snap.archived
  /\ GiveUp(w, "error")
  /\ UNCHANGED <<threadVars, hostVars, wakes, sent, left>>

\* A plugin's hook holds the message back; "Send now" runs no hooks.
PluginHolds(w) ==
  /\ Hooks /\ Checking(w) /\ job[w].kind # "now" /\ Spend("hold")
  /\ QueueOn(w, "plugin")
  /\ UNCHANGED <<threadVars, hostVars, wakes, sent>>

\* Any await of an attempt may throw, or its host command time out.
AttemptFails(w, why) ==
  /\ job[w].pc \in {"fast", "check", "send", "admit"} /\ Spend("fault")
  /\ GiveUp(w, why)
  /\ UNCHANGED <<threadVars, hostVars, wakes, sent>>
-----------------------------------------------------------------------------
(* The transactions that send. *)

\* Mutant of PauseStops: the pause is not looked at again.
NeverPaused(w) == FALSE

PauseStops(w) == job[w].pausable /\ Paused

\* Mutant of ClaimLost: the rows are taken to be still claimed.
NeverLost(w) == FALSE

ClaimLost(w) == job[w].kind # "inline" /\ ~Owned(job[w].rows, w)

MayCommit(w) == ~PauseStops(w) /\ ~ClaimLost(w)

Starts == Applies(status, "run.started", archived)

\* A turn is requested of the daemon and the thread runs; one that has not
\* got a provider session yet, as its first run failed, is started anew.
RequestStart ==
  /\ status' = Target("run.started")
  /\ lane' = Append(lane, IF setup = "session" THEN "submit" ELSE "start")
  /\ mark' = MarkRequested
  /\ UNCHANGED <<archived, setup, provisioning, turn, asking, hostUp, running,
                 done, stopAck>>

\* The idle drain's short way to the daemon, past the checkpoint.
FastSend(w) ==
  /\ job[w].pc = "fast" /\ MayCommit(w) /\ Starts
  /\ Deliver(w) /\ RequestStart
  /\ UNCHANGED <<wakes, left>>

SendStart(w) ==
  /\ job[w].pc = "send" /\ status = job[w].snap.status /\ status # "active"
  /\ MayCommit(w) /\ Starts
  /\ Deliver(w) /\ RequestStart
  /\ UNCHANGED <<wakes, left>>

\* Input for the running turn: a request is appended, no run starts.
SendJoin(w) ==
  /\ job[w].pc = "send" /\ status = job[w].snap.status /\ status = "active"
  /\ MayCommit(w)
  /\ Deliver(w)
  /\ lane' = Append(lane, "join")
  /\ mark' = MarkRequested
  /\ UNCHANGED <<status, archived, setup, provisioning, turn, asking, hostUp,
                 running, done, stopAck, wakes, left>>

\* admitPendingThread: the first message goes with the provisioning.
Admit(w) ==
  /\ job[w].pc = "admit" /\ MayCommit(w)
  /\ Applies(status, "run.preparing", archived)
  /\ Deliver(w)
  /\ status' = Target("run.preparing")
  /\ provisioning' = TRUE
  /\ mark' = MarkRequested
  /\ UNCHANGED <<archived, setup, turn, asking, hostVars, wakes, left>>

\* The transaction sees another thread than the attempt read.
CommitMoved(w) ==
  /\ \/ job[w].pc = "send" /\ status # job[w].snap.status
     \/ /\ job[w].pc = "admit" /\ MayCommit(w)
        /\ ~Applies(status, "run.preparing", archived)
  /\ Reattempt(w)
  /\ UNCHANGED <<threadVars, hostVars, wakes, sent, left>>

\* The transaction is rolled back: the queue was paused, a row is gone, or
\* the thread may not start a run.
CommitFails(w) ==
  /\ \/ job[w].pc \in {"fast", "admit"}
     \/ job[w].pc = "send" /\ status = job[w].snap.status
  /\ \/ PauseStops(w) /\ GiveUp(w, "paused")
     \/ ~PauseStops(w) /\ ClaimLost(w) /\ GiveUp(w, "claim-lost")
     \/ MayCommit(w) /\ job[w].pc = "fast" /\ ~Starts /\ GiveUp(w, "claim-lost")
     \/ /\ MayCommit(w) /\ job[w].pc = "send" /\ status # "active" /\ ~Starts
        /\ GiveUp(w, "error")
  /\ UNCHANGED <<threadVars, hostVars, wakes, sent, left>>
-----------------------------------------------------------------------------
(* The run, as the daemon and the provisioning report it. *)

\* The thread gets its environment before that is ready ...
EnvironmentAttaches ==
  /\ provisioning /\ status = "starting" /\ setup = "none"
  /\ setup' = "attached"
  /\ UNCHANGED <<queueVars, status, archived, provisioning, turn, mark, asking,
                 hostVars, wakes, job, sent, left>>

\* ... and once it is, the start command goes out.
ProvisionSucceeds ==
  /\ provisioning /\ status = "starting" /\ setup # "none" /\ hostUp
  /\ provisioning' = FALSE
  /\ lane' = Append(lane, "start")
  /\ wakes' = wakes \union {"workspace-ready"}
  /\ UNCHANGED <<queueVars, status, archived, setup, turn, mark, asking, hostUp,
                 running, done, stopAck, job, sent, left>>

\* failThreadProvisioning: the waits on it end before the run fails.  It may
\* fail on its own, because the host left, or because the sweep finds that the
\* start command was lost.
ProvisionFails ==
  /\ IF provisioning
     THEN IF hostUp THEN Spend("fault") ELSE left' = left
     ELSE status = "starting" /\ ~InLane({"start"}) /\ left' = left
  /\ ClearWaits("provisioning")
  /\ provisioning' = FALSE
  /\ status' = After(status, "run.failed", archived)
  /\ UNCHANGED <<archived, setup, turn, mark, asking, hostVars, wakes, job, sent>>

\* Mutant of CommandAccepted: a start is never stale.
AcceptedAnyway ==
  /\ AtHead({"start", "submit", "join", "stray"})
  /\ running = "none" /\ done = "none"
  /\ lane' = Tail(lane)
  /\ running' = "accepted"
  /\ status' = IF Head(lane) = "start"
               THEN After(status, "run.started", archived) ELSE status
  /\ UNCHANGED <<queueVars, archived, setup, provisioning, turn, mark, asking,
                 hostUp, done, stopAck, wakes, job, sent, left>>

\* The daemon asks the provider for a turn; input for a turn that is over by
\* now asks for one, too.  The result of a thread.start comes ahead of the turn
\* and is stale if the thread was interrupted after the request.
CommandAccepted ==
  /\ AtHead({"start", "submit", "join", "stray"})
  /\ running = "none" /\ done = "none"
  /\ lane' = Tail(lane)
  /\ running' = "accepted"
  /\ status' = IF Head(lane) = "start" /\ mark \in {"clear", "asked"}
               THEN After(status, "run.started", archived) ELSE status
  /\ UNCHANGED <<queueVars, archived, setup, provisioning, turn, mark, asking,
                 hostUp, done, stopAck, wakes, job, sent, left>>

\* The statuses the thread may have once these commands have failed: the run
\* fails with them.  Input for a turn that has completed meanwhile fails without
\* harm, and which turn a join was for is not tracked.
AfterFailing(commands) ==
  {After(status, "run.failed", archived) : c \in commands \ {"stop", "stray"}}
    \union IF commands \subseteq {"join", "stop", "stray"} THEN {status} ELSE {}

\* A command is answered with an error.  A turn that competes with the running
\* one is refused without harm, too.
CommandRejected ==
  LET competes == Head(lane) # "join" /\ running # "none"
  IN  /\ AtHead({"start", "submit", "join"})
      /\ IF competes THEN left' = left ELSE Spend("fault")
      /\ lane' = Tail(lane)
      /\ IF competes /\ turn # "none" THEN status' = status
         ELSE status' \in AfterFailing({Head(lane)})
      /\ UNCHANGED <<queueVars, archived, setup, provisioning, turn, mark,
                     asking, hostUp, running, done, stopAck, wakes, job, sent>>

\* turn/started: ignored by the status if a stop came between the request
\* and the turn (hasThreadStopBeforeTurnStarted).
TurnStarted ==
  /\ hostUp /\ running = "accepted"
  /\ setup' = "session"
  /\ IF mark \in {"stopped", "lost"}
     THEN /\ turn' = "ghost"
          /\ UNCHANGED <<status, mark, wakes>>
     ELSE /\ turn' = "live"
          /\ mark' = "clear"
          /\ status' = After(status, "run.started", archived)
          /\ wakes' = wakes \union {"turn-started"}
  /\ running' = turn'
  /\ UNCHANGED <<queueVars, archived, provisioning, asking, hostUp, lane, done,
                 stopAck, job, sent, left>>

\* Input is accepted into the running turn, once that has started.
TurnSteered ==
  /\ AtHead({"join", "stray"}) /\ running \in {"live", "ghost"}
  /\ lane' = Tail(lane)
  /\ UNCHANGED <<queueVars, threadVars, hostUp, running, done, stopAck, wakes,
                 job, sent, left>>

\* turn/completed, and the lifecycle event of each outcome: whatever turn the
\* log has open is over, and the event goes to the thread as it is by then.
Outcome == [completed |-> "run.succeeded", failed |-> "run.failed",
            interrupted |-> "stop.settled"]

HearCompletion(ended, how) ==
  LET heard == ended = "live" \/ how = "interrupted"
      next == IF heard THEN After(status, Outcome[how], archived) ELSE status
  IN  /\ turn' = "none"
      /\ status' = next
      /\ wakes' = IF /\ heard /\ how = "completed"
                     /\ Applies(status, Outcome[how], archived)
                  THEN wakes \union {"ready"} ELSE wakes

TurnCompleted(how) ==
  /\ hostUp /\ running \in {"live", "ghost"} /\ ~asking
  /\ how = "interrupted" => AtHead({"stop"})
  /\ IF how = "failed" THEN Spend("fault") ELSE left' = left
  /\ running' = "none"
  /\ HearCompletion(running, how)
  /\ UNCHANGED <<queueVars, archived, setup, provisioning, mark, asking, hostUp,
                 lane, done, stopAck, job, sent>>

\* A turn ends while the server cannot hear of it; the daemon keeps the event
\* and posts it once the connection is back.
TurnEndsUnheard ==
  /\ ~hostUp /\ running \in {"live", "ghost"} /\ done = "none" /\ ~asking
  /\ done' = running /\ running' = "none"
  /\ UNCHANGED <<queueVars, threadVars, hostUp, lane, stopAck, wakes, job, sent,
                 left>>

LateCompletion ==
  /\ hostUp /\ done # "none"
  /\ done' = "none"
  /\ HearCompletion(done, "completed")
  /\ UNCHANGED <<queueVars, archived, setup, provisioning, mark, asking, hostUp,
                 lane, running, stopAck, job, sent, left>>

\* The provider asks the user something, and is answered.
Asks ==
  /\ hostUp /\ running = "live" /\ turn = "live" /\ status = "active" /\ ~asking
  /\ Spend("ask")
  /\ asking' = TRUE
  /\ UNCHANGED <<queueVars, status, archived, setup, provisioning, turn, mark,
                 hostVars, wakes, job, sent>>

Answered ==
  /\ asking /\ asking' = FALSE
  /\ wakes' = wakes \union AfterAsking
  /\ UNCHANGED <<queueVars, status, archived, setup, provisioning, turn, mark,
                 hostVars, job, sent, left>>
-----------------------------------------------------------------------------
(* Stopping and archiving. *)

StopInFlight == InLane({"stop"}) \/ stopAck

\* requestThreadStop: the stop is recorded if the thread runs, and sent to the
\* daemon for a stopping or an archived thread.
RequestStop(gone) ==
  LET next == After(status, "stop.requested", gone)
  IN  /\ status' = next
      /\ mark' = IF Applies(status, "stop.requested", gone) THEN "stopped"
                 ELSE mark
      /\ lane' = IF (next = "stopping" \/ gone) /\ ~StopInFlight
                 THEN Append(lane, "stop") ELSE lane

\* A run the daemon has.
StopRun(gone) ==
  /\ LiveRuntime /\ setup # "none"
  /\ RequestStop(gone)
  /\ UNCHANGED <<queueVars, provisioning, turn, asking, wakes>>

\* A run that has not reached the daemon is stopped and settled at once, or
\* waits for the host to cancel the provisioning.
StopPreStart(settled) ==
  /\ ~LiveRuntime /\ status \in {"starting", "stopping"}
  /\ settled \/ (provisioning /\ setup # "none" /\ ~StopInFlight)
  /\ ClearWaits("provisioning")
  /\ provisioning' = FALSE
  /\ mark' = IF status = "stopping" THEN mark ELSE "stopped"
  /\ IF settled
     THEN /\ status' = "idle" /\ turn' = "none" /\ asking' = FALSE
          /\ wakes' = wakes \union AfterAsking
          /\ UNCHANGED lane
     ELSE /\ status' = "stopping"
          /\ lane' = Append(lane, "stop")
          /\ UNCHANGED <<turn, asking, wakes>>

StopThread(gone) ==
  StopRun(gone) \/ \E settled \in BOOLEAN : StopPreStart(settled)

UserStops ==
  /\ Spend("stop") /\ ~archived
  /\ StopThread(FALSE)
  /\ UNCHANGED <<archived, setup, hostUp, running, done, stopAck, job, sent>>

\* Archiving stops the thread in the same breath; a thread whose environment
\* is not attached yet cannot be archived while it starts or stops.
UserArchives ==
  /\ Spend("archive") /\ ~archived
  /\ ~(setup = "none" /\ status \in {"starting", "stopping"})
  /\ archived' = TRUE
  /\ IF LiveRuntime \/ status \in {"starting", "stopping"} THEN StopThread(TRUE)
     ELSE UNCHANGED <<queueVars, status, provisioning, turn, mark, asking,
                      lane, wakes>>
  /\ UNCHANGED <<setup, hostUp, running, done, stopAck, job, sent>>

UserUnarchives ==
  /\ archived /\ archived' = FALSE
  /\ UNCHANGED <<queueVars, status, setup, provisioning, turn, mark, asking,
                 hostVars, wakes, job, sent, left>>

\* The periodic sweep stops archived threads that have not stopped yet.
SweepArchived ==
  /\ archived /\ StopThread(TRUE)
  /\ UNCHANGED <<archived, setup, hostUp, running, done, stopAck, job, sent, left>>

\* Mutant of Finalize: the log keeps the turn open.
FinalizeKeepingTurn ==
  /\ turn' = turn
  /\ status' = IF status \in {"active", "stopping", "starting"} THEN "idle"
               ELSE status
  /\ asking' = FALSE

\* finalizeStoppedThread, whatever the thread has done since it was stopped:
\* the turn of an active or stopping thread is closed, interactions end.
Finalize ==
  /\ turn' = IF status \in {"active", "stopping"} THEN "none" ELSE turn
  /\ status' = IF status \in {"active", "stopping", "starting"} THEN "idle"
               ELSE status
  /\ asking' = FALSE

\* The daemon stops the thread's turn, if it has one, and answers.  It waits for
\* a turn that has not started.
DaemonStops ==
  /\ AtHead({"stop"}) /\ running # "accepted"
  /\ lane' = Tail(lane)
  /\ running' = "none"
  /\ stopAck' = TRUE
  /\ UNCHANGED <<queueVars, threadVars, hostUp, done, wakes, job, sent, left>>

StopSettled ==
  /\ stopAck /\ hostUp
  /\ stopAck' = FALSE
  /\ Finalize
  /\ wakes' = wakes \union AfterAsking \union {"ready"}
  /\ UNCHANGED <<queueVars, archived, setup, provisioning, mark, hostUp, lane,
                 running, done, job, sent, left>>

\* The stop command fails: the thread stays as it is until another stop or
\* the host's next session settles it.
StopFails ==
  /\ Spend("fault")
  /\ \/ stopAck /\ stopAck' = FALSE /\ UNCHANGED lane
     \/ \E i \in DOMAIN lane :
          lane[i] = "stop" /\ lane' = LaneWithout(i) /\ UNCHANGED stopAck
  /\ UNCHANGED <<queueVars, threadVars, hostUp, running, done, wakes, job, sent>>
-----------------------------------------------------------------------------
(* The host's connection, and the server's own life. *)

\* The commands whose answers the server has given up on: the daemon has them,
\* or never got them.
Strays(delivered) ==
  LET heard == {i \in DOMAIN lane : lane[i] # "stop"}
  IN  IF delivered THEN [i \in 1..Cardinality(heard) |-> "stray"] ELSE <<>>

\* Every command in flight fails with the connection; what the daemon does
\* goes on.
HostDisconnects(delivered) ==
  /\ hostUp /\ Spend("host")
  /\ hostUp' = FALSE /\ stopAck' = FALSE
  /\ lane' = Strays(delivered)
  /\ status' \in AfterFailing({lane[i] : i \in DOMAIN lane})
  /\ UNCHANGED <<queueVars, archived, setup, provisioning, turn, mark, asking,
                 running, done, wakes, job, sent>>

\* A command for a host that is away fails once it is tried, unless the host is
\* back by then.
CommandUndelivered(i) ==
  /\ ~hostUp /\ lane[i] # "stray"
  /\ lane' = LaneWithout(i)
  /\ status' \in AfterFailing({lane[i]})
  /\ UNCHANGED <<queueVars, archived, setup, provisioning, turn, mark, asking,
                 hostUp, running, done, stopAck, wakes, job, sent, left>>

\* interruptActiveThreads
InterruptActive ==
  /\ status = "active"
  /\ turn' = "none"
  /\ status' = "error"
  /\ mark' = "lost"
  /\ asking' = FALSE

\* The disconnected host's grace is over: its active threads are interrupted.
GraceExpires ==
  /\ ~hostUp
  /\ InterruptActive
  /\ wakes' = wakes \union AfterAsking
  /\ UNCHANGED <<queueVars, archived, setup, provisioning, hostVars, job, sent,
                 left>>

\* A shorter grace ends the interactions nobody can answer any more.
InteractionGraceExpires ==
  /\ ~hostUp /\ asking
  /\ asking' = FALSE
  /\ wakes' = wakes \union AfterAsking
  /\ UNCHANGED <<queueVars, status, archived, setup, provisioning, turn, mark,
                 hostVars, job, sent, left>>

\* Mutant of Reconcile: a stopping thread the daemon does not run stays so.
ReconcileRunning(reported) ==
  LET stops == \/ status = "stopping"
               \/ archived /\ (reported \/ status \in {"active", "starting"})
      revives == \/ status = "error"
                 \/ status \in {"starting", "idle"} /\ mark # "lost"
  IN  \/ /\ stops /\ reported
         /\ RequestStop(archived)
         /\ UNCHANGED <<turn, asking, provisioning>>
      \/ /\ ~stops /\ reported /\ revives
         /\ status' = After(status, "run.started", archived)
         /\ provisioning' = FALSE
         /\ UNCHANGED <<turn, mark, asking, lane>>
      \/ /\ ~stops /\ ~reported
         /\ InterruptActive
         /\ UNCHANGED <<lane, provisioning>>
      \/ /\ IF stops THEN ~reported
            ELSE IF reported THEN ~revives ELSE status # "active"
         /\ asking' = (asking /\ reported)
         /\ UNCHANGED <<status, turn, mark, lane, provisioning>>

\* reconcileDaemonReportedThreads: what the daemon says it runs against what
\* the thread's row says.
Reconcile(reported) ==
  LET stops == \/ status = "stopping"
               \/ archived /\ (reported \/ status \in {"active", "starting"})
      revives == \/ status = "error"
                 \/ status \in {"starting", "idle"} /\ mark # "lost"
  IN  \/ /\ stops /\ reported
         /\ RequestStop(archived)
         /\ UNCHANGED <<turn, asking, provisioning>>
      \/ /\ stops /\ ~reported
         /\ Finalize
         /\ UNCHANGED <<mark, lane, provisioning>>
      \/ /\ ~stops /\ reported /\ revives
         /\ status' = After(status, "run.started", archived)
         /\ provisioning' = FALSE
         /\ UNCHANGED <<turn, mark, asking, lane>>
      \/ /\ ~stops /\ ~reported
         /\ InterruptActive
         /\ UNCHANGED <<lane, provisioning>>
      \/ /\ ~stops
         /\ IF reported THEN ~revives ELSE status # "active"
         /\ asking' = (asking /\ reported)
         /\ UNCHANGED <<status, turn, mark, lane, provisioning>>

\* Mutant of HostReturns: the rows that waited for the host are not walked.
HostReturnsQuietly ==
  /\ ~hostUp /\ hostUp' = TRUE
  /\ Reconcile(running # "none" /\ setup # "none")
  /\ wakes' = wakes \union (IF asking' THEN {} ELSE AfterAsking) \union
              (IF status = "stopping" /\ status' = "idle" THEN {"ready"} ELSE {})
  /\ UNCHANGED <<queueVars, archived, setup, running, done, stopAck, job, sent,
                 left>>

\* The daemon's next session.
HostReturns ==
  /\ ~hostUp /\ hostUp' = TRUE
  /\ Reconcile(running # "none" /\ setup # "none")
  /\ wakes' = wakes \union {"host-connected"} \union
              (IF asking' THEN {} ELSE AfterAsking) \union
              (IF status = "stopping" /\ status' = "idle" THEN {"ready"} ELSE {})
  /\ UNCHANGED <<queueVars, archived, setup, running, done, stopAck, job, sent,
                 left>>

\* The daemon dies while it is away: what it had is gone, and its next session
\* is another instance's.
DaemonDies ==
  /\ ~hostUp /\ (running # "none" \/ done # "none" \/ lane # <<>>)
  /\ running' = "none" /\ done' = "none" /\ lane' = <<>>
  /\ UNCHANGED <<queueVars, threadVars, hostUp, stopAck, wakes, job, sent, left>>

\* The server dies.  The database stays; claims, wakes, requests in flight
\* and the daemon's connection do not.
Crash(delivered) ==
  /\ Spend("crash")
  /\ Abandon
  /\ job' = [w \in Workers |-> NoJob]
  /\ wakes' = {}
  /\ hostUp' = FALSE /\ stopAck' = FALSE
  /\ lane' = Strays(delivered)
  /\ UNCHANGED <<threadVars, running, done, sent>>
-----------------------------------------------------------------------------
User ==
  \/ \E w \in Workers, m \in Msgs, mode \in {"auto", "queue"} :
       UserSends(w, m, mode)
  \/ \E m \in Msgs : UserQueues(m) \/ UserDeletes(m) \/ UserGroups(m)
  \/ \E w \in Workers, m \in Msgs : UserSendsNow(w, m)
  \/ UserStops \/ UserArchives \/ UserUnarchives \/ Answered

Walks == {"turn-started", "workspace-ready", "host-connected", "plugin-recheck"}

\* A step of the attempt itself, short of a failure it cannot choose.
Advance(w) ==
  \/ WalkOn(w)
  \/ CheckWaits(w) \/ CheckPasses(w) \/ CheckMoved(w) \/ CheckArchived(w)
  \/ FastSend(w) \/ SendStart(w) \/ SendJoin(w) \/ Admit(w)
  \/ CommitMoved(w) \/ CommitFails(w)

Disturb(w) ==
  \/ PluginHolds(w)
  \/ \E why \in {"error", "timeout"} : AttemptFails(w, why)

Dispatch ==
  \/ \E w \in Workers : Drain(w) \/ Advance(w) \/ Disturb(w)
  \/ \E w \in Workers, wake \in Walks : StartWalk(w, wake)
  \/ DrainJoins \/ InteractionSettled \/ PluginRechecks
  \/ \E stale \in BOOLEAN : Sweep(stale)

Daemon ==
  \/ CommandAccepted \/ CommandRejected \/ TurnStarted \/ TurnSteered
  \/ \E how \in {"completed", "failed", "interrupted"} : TurnCompleted(how)
  \/ TurnEndsUnheard \/ LateCompletion \/ Asks \/ DaemonStops
  \/ DaemonDies

Run ==
  \/ EnvironmentAttaches \/ ProvisionSucceeds \/ ProvisionFails
  \/ StopSettled \/ StopFails \/ SweepArchived

Host ==
  \/ \E delivered \in BOOLEAN : HostDisconnects(delivered) \/ Crash(delivered)
  \/ \E i \in DOMAIN lane : CommandUndelivered(i)
  \/ GraceExpires \/ InteractionGraceExpires \/ HostReturns

Next == User \/ Dispatch \/ Daemon \/ Run \/ Host

Spec == Init /\ [][Next]_vars

\* The daemon takes the thread's commands in order.
HandleCommand ==
  CommandAccepted \/ CommandRejected \/ TurnSteered \/ DaemonStops

\* An attempt's awaits return, deferred work runs, the sweeps come round, the
\* daemon works through its commands, turns end, provisioning comes to an end
\* and the daemon reconnects.  No user, plugin or grace timer has to act.
Fairness ==
  /\ \A w \in Workers : WF_vars(Advance(w))
  /\ WF_vars(\E w \in Workers : Drain(w))
  /\ \A wake \in Walks : WF_vars(\E w \in Workers : StartWalk(w, wake))
  /\ WF_vars(DrainJoins) /\ WF_vars(InteractionSettled) /\ WF_vars(Sweep(TRUE))
  /\ WF_vars(HandleCommand) /\ WF_vars(TurnStarted)
  /\ WF_vars(TurnCompleted("completed")) /\ WF_vars(LateCompletion)
  /\ WF_vars(EnvironmentAttaches) /\ WF_vars(ProvisionSucceeds \/ ProvisionFails)
  /\ WF_vars(StopSettled) /\ WF_vars(HostReturns)

FairSpec == Spec /\ Fairness
=============================================================================
