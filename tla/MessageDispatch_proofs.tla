----------------------- MODULE MessageDispatch_proofs -----------------------
(***************************************************************************)
(* Theorems about MessageDispatch, for any messages, any workers, any      *)
(* budget and whether or not the thread has run before.                    *)
(*                                                                         *)
(* First come the operations of MessageQueue: the types they keep, and     *)
(* what becomes of the place and of the claim of each row. Then come the   *)
(* types: one lemma per operator the actions are built from, then one step *)
(* per action.                                                             *)
(***************************************************************************)
EXTENDS DispatchProperties, WellFoundedInduction, FiniteSetTheorems,
        SequenceTheorems, TLAPS

\* Every set of numbers that is not empty has a least one.
LEMMA NatMinimum ==
  ASSUME NEW T \in SUBSET Nat, T # {}
  PROVE  \E x \in T : \A y \in T : x <= y
PROOF
<1> DEFINE R == {ss \in Nat \X Nat : ss[1] < ss[2]}
<1>1. IsWellFoundedOn(R, Nat)
  BY NatLessThanWellFounded, Zenon DEF OpToRel
<1>2. \E x \in T : \A y \in T : ~(<<y, x>> \in R)
  <2> HIDE DEF R
  <2> QED BY <1>1, WFMin
<1>3. \A x, y \in Nat : ~(<<y, x>> \in R) => x <= y
  OBVIOUS
<1> QED BY <1>2, <1>3

\* The row a group is led by is one of its rows: the claims of drains and
\* walks name an existing row (lead of partitionQueuedMessageGroups).
LEMMA LeadIsMember ==
  ASSUME QueueTypeOK, NEW S \in SUBSET Msgs, S # {}
  PROVE  Lead(S) \in S
PROOF
<1> DEFINE K == {key[m] : m \in S}
<1>1. K \in SUBSET Nat /\ K # {}
  BY DEF QueueTypeOK
<1>2. PICK k \in K : \A y \in K : k <= y
  <2> HIDE DEF K
  <2> QED BY <1>1, NatMinimum
<1>3. \E m \in S : \A n \in S : key[m] <= key[n]
  BY <1>2
<1> QED BY <1>3 DEF Lead

\* A live row is in its own group, and a group is made of live rows.
LEMMA GroupIsLive ==
  ASSUME QueueTypeOK, NEW m \in Msgs, Live(m)
  PROVE  /\ m \in GroupOf(m)
         /\ \A n \in GroupOf(m) : n \in Msgs /\ Live(n)
PROOF
<1>1. \A k \in LiveRows : ~(key[m] <= key[k] /\ key[k] < key[m])
  BY DEF QueueTypeOK, LiveRows
<1> QED BY <1>1 DEF GroupOf, Linked, LiveRows
-----------------------------------------------------------------------------
(* Each operation keeps the types. *)

LEMMA InitTypes == QueueInit => QueueTypeOK
PROOF BY DEF QueueInit, QueueTypeOK, Place, WaitKind

LEMMA CreateTypes ==
  ASSUME QueueTypeOK, NEW m, NEW reason \in WaitKind, Create(m, reason)
  PROVE  QueueTypeOK'
PROOF
<1>1. place' \in [Msgs -> Place] /\ wait' \in [Msgs -> WaitKind]
  BY DEF QueueTypeOK, Create, Place
<1>2. created' \in Nat /\ key' \in [Msgs -> Nat]
  <2>1. created + 1 \in Nat
    BY DEF QueueTypeOK
  <2> QED BY <2>1 DEF QueueTypeOK, Create
<1> QED BY <1>1, <1>2 DEF QueueTypeOK, Create

LEMMA ClaimTypes ==
  ASSUME QueueTypeOK, NEW S, NEW w \in Workers, NEW cut, Claim(S, w, cut)
  PROVE  QueueTypeOK'
PROOF BY DEF QueueTypeOK, Claim

LEMMA UnclaimedTypes ==
  ASSUME QueueTypeOK, NEW S, NEW w
  PROVE  Unclaimed(S, w) \in [Msgs -> Workers \union {None, Orphan}]
PROOF BY DEF QueueTypeOK, Unclaimed

LEMMA ReleaseTypes ==
  ASSUME QueueTypeOK, NEW S, NEW w, Release(S, w)
  PROVE  QueueTypeOK'
PROOF BY UnclaimedTypes DEF QueueTypeOK, Release

LEMMA ReleaseFailedTypes ==
  ASSUME QueueTypeOK, NEW S, NEW w, NEW m, ReleaseFailed(S, w, m)
  PROVE  QueueTypeOK'
PROOF
<1>1. failed' \in [Msgs -> BOOLEAN]
  <2>1. m \in Msgs =>
          (failed[m] \/ (Row(m) /\ Unclaimed(S, w)[m] = None)) \in BOOLEAN
    BY DEF QueueTypeOK
  <2> QED BY <2>1 DEF QueueTypeOK, ReleaseFailed
<1> QED BY <1>1, UnclaimedTypes DEF QueueTypeOK, ReleaseFailed

LEMMA ReleaseOfflineTypes ==
  ASSUME QueueTypeOK, NEW S, NEW w, NEW m, ReleaseOffline(S, w, m)
  PROVE  QueueTypeOK'
PROOF BY UnclaimedTypes DEF QueueTypeOK, ReleaseOffline, WaitKind

LEMMA RequeueTypes ==
  ASSUME QueueTypeOK, NEW S, NEW w, NEW reason \in WaitKind, Requeue(S, w, reason)
  PROVE  QueueTypeOK'
PROOF
<1>1. failed' \in [Msgs -> BOOLEAN]
  BY DEF QueueTypeOK, Requeue
<1> QED BY <1>1, UnclaimedTypes DEF QueueTypeOK, Requeue

LEMMA RemoveTypes ==
  ASSUME QueueTypeOK, NEW S, NEW where \in Place, Remove(S, where)
  PROVE  QueueTypeOK'
PROOF
<1>1. edge' \in [Msgs -> BOOLEAN]
  BY DEF QueueTypeOK, Remove, EdgesWithout
<1>2. failed' \in [Msgs -> BOOLEAN]
  BY DEF QueueTypeOK, Remove
<1> QED BY <1>1, <1>2 DEF QueueTypeOK, Remove, WaitKind

LEMMA SettleTypes ==
  ASSUME QueueTypeOK, NEW m, NEW where \in Place, Settle(m, where)
  PROVE  QueueTypeOK'
PROOF BY DEF QueueTypeOK, Settle

LEMMA ClearWaitsTypes ==
  ASSUME QueueTypeOK, NEW kind, ClearWaits(kind)
  PROVE  QueueTypeOK'
PROOF BY DEF QueueTypeOK, ClearWaits, WaitKind

LEMMA GroupUpToTypes ==
  ASSUME QueueTypeOK, NEW m \in Msgs, GroupUpTo(m)
  PROVE  QueueTypeOK'
PROOF
<1>1. \A n \in Msgs : (IF n \in LiveRows THEN key[n] < key[m] ELSE edge[n]) \in BOOLEAN
  <2> TAKE n \in Msgs
  <2>1. (key[n] < key[m]) \in BOOLEAN
    BY DEF QueueTypeOK
  <2> QED BY <2>1, Zenon DEF QueueTypeOK
<1> QED BY <1>1, Zenon DEF QueueTypeOK, GroupUpTo

LEMMA ReleaseOrphansTypes ==
  ASSUME QueueTypeOK, ReleaseOrphans
  PROVE  QueueTypeOK'
PROOF BY DEF QueueTypeOK, ReleaseOrphans

LEMMA AbandonTypes ==
  ASSUME QueueTypeOK, Abandon
  PROVE  QueueTypeOK'
PROOF BY DEF QueueTypeOK, Abandon, Place

LEMMA UnchangedTypes ==
  ASSUME QueueTypeOK, UNCHANGED queueVars
  PROVE  QueueTypeOK'
PROOF BY DEF QueueTypeOK, queueVars

-----------------------------------------------------------------------------

USE BudgetNatural, StartedBoolean

\* The table leads from statuses to statuses.
LEMMA LifecycleTypes ==
  /\ \A event \in LifecycleEvent : Target(event) \in ThreadStatus
  /\ \A s \in ThreadStatus, event \in LifecycleEvent, a \in BOOLEAN :
       After(s, event, a) \in ThreadStatus
PROOF BY DEF Target, After, LifecycleEvent, ThreadStatus

\* A failing command fails the run or leaves the thread alone.
LEMMA FailureFails ==
  \A S, s : s \in AfterFailing(S) =>
    s = status \/ s = After(status, "run.failed", archived)
PROOF BY DEF AfterFailing

LEMMA SpendTypes ==
  ASSUME TypeOK, NEW d \in Disturbance, Spend(d)
  PROVE  left' \in [Disturbance -> Nat]
PROOF
<1>1. left[d] - 1 \in Nat
  BY DEF TypeOK, Spend
<1> QED BY <1>1 DEF TypeOK, Spend

\* What the server and the daemon do to the lane keeps it a sequence of
\* commands.
LEMMA LaneTypes ==
  ASSUME TypeOK
  PROVE  /\ \A c \in Command : Append(lane, c) \in Seq(Command)
         /\ lane # <<>> => Tail(lane) \in Seq(Command)
         /\ \A i \in DOMAIN lane : LaneWithout(i) \in Seq(Command)
         /\ \A delivered \in BOOLEAN : Strays(delivered) \in Seq(Command)
PROOF
<1>0. lane \in Seq(Command) /\ Len(lane) \in Nat /\ DOMAIN lane = 1..Len(lane)
  BY DEF TypeOK, HostTypeOK
<1>1. \A c \in Command : Append(lane, c) \in Seq(Command)
  BY <1>0
<1>2. lane # <<>> => Tail(lane) \in Seq(Command)
  BY <1>0
<1>3. ASSUME NEW i \in DOMAIN lane
      PROVE  LaneWithout(i) \in Seq(Command)
  <2>1. SubSeq(lane, 1, i - 1) \in Seq(Command)
    <3>1. \A k \in 1..(i - 1) : lane[k] \in Command
      BY <1>0, <1>3, ElementOfSeq
    <3> QED BY <1>0, <1>3, <3>1, SubSeqProperties
  <2>2. SubSeq(lane, i + 1, Len(lane)) \in Seq(Command)
    <3>1. \A k \in (i + 1)..Len(lane) : lane[k] \in Command
      BY <1>0, <1>3, ElementOfSeq
    <3> QED BY <1>0, <1>3, <3>1, SubSeqProperties
  <2> QED BY <2>1, <2>2, ConcatProperties DEF LaneWithout
<1>4. ASSUME NEW delivered \in BOOLEAN
      PROVE  Strays(delivered) \in Seq(Command)
  <2> DEFINE heard == {i \in DOMAIN lane : lane[i] # "stop"}
             n == Cardinality(heard)
  <2>1. IsFiniteSet(DOMAIN lane)
    BY <1>0, FS_Interval
  <2>2. n \in Nat
    BY <2>1, FS_Subset, FS_CardinalityType
  <2>3. [i \in 1..n |-> "stray"] \in Seq(Command)
    <3> HIDE DEF n
    <3> QED BY <2>2, IsASeq DEF Command
  <2>4. <<>> \in Seq(Command)
    OBVIOUS
  <2> QED BY <2>3, <2>4 DEF Strays
<1> QED BY <1>1, <1>2, <1>3, <1>4

LEMMA MarkTypes == TypeOK => MarkRequested \in Mark
PROOF BY DEF TypeOK, ThreadTypeOK, MarkRequested, Mark

LEMMA WakeTypes ==
  /\ AfterAsking \subseteq Wake
  /\ \A wake \in Walks : wake \in Wake
PROOF BY DEF AfterAsking, Wake, Walks
-----------------------------------------------------------------------------
(* What workers hold. *)

LEMMA NoJobTypes == NoJob \in Job
PROOF BY DEF NoJob, Job, NoSnapshot, Snapshot, ThreadStatus

\* The group a drain takes is one of those that may go, the first
\* of them, and has a row to lead it.
LEMMA FirstDrainable ==
  ASSUME TypeOK, NEW ready, ready = {S \in Groups : Drainable(S)}, ready # {}
  PROVE  LET first == CHOOSE S \in ready :
                        \A T \in ready : key[Lead(S)] <= key[Lead(T)]
         IN  /\ first \in ready /\ first \in SUBSET Msgs
             /\ Lead(first) \in first /\ Lead(first) \in Msgs
             /\ \A m \in first : Live(m)
             /\ \A T \in ready : key[Lead(first)] <= key[Lead(T)]
PROOF
<1> DEFINE first == CHOOSE S \in ready :
                      \A T \in ready : key[Lead(S)] <= key[Lead(T)]
           K == {key[Lead(S)] : S \in ready}
<1>0. QueueTypeOK
  BY DEF TypeOK
<1>1. ASSUME NEW S \in ready
      PROVE  /\ S \in SUBSET Msgs /\ S # {}
             /\ Lead(S) \in S /\ key[Lead(S)] \in Nat
             /\ \A m \in S : Live(m)
  <2>1. PICK m \in LiveRows : S = GroupOf(m)
    BY DEF Groups
  <2>2. m \in S /\ \A n \in S : n \in Msgs /\ Live(n)
    BY <1>0, <2>1, GroupIsLive DEF LiveRows
  <2> QED BY <1>0, <2>2, LeadIsMember DEF QueueTypeOK
<1>2. K \in SUBSET Nat /\ K # {}
  BY <1>1
<1>3. PICK k \in K : \A y \in K : k <= y
  <2> HIDE DEF K
  <2> QED BY <1>2, NatMinimum
<1>4. \E S \in ready : \A T \in ready : key[Lead(S)] <= key[Lead(T)]
  BY <1>3
<1>5. first \in ready /\ \A T \in ready : key[Lead(first)] <= key[Lead(T)]
  BY <1>4
<1> QED
  <2> HIDE DEF first
  <2> QED BY <1>1, <1>5 DEF first

LEMMA NowTypes == TypeOK => Now \in Snapshot
PROOF BY DEF TypeOK, ThreadTypeOK, Now, Snapshot

LEMMA WalkTypes ==
  ASSUME NEW rest \in SUBSET Msgs
  PROVE  Walk(rest) \in Job
PROOF BY NoJobTypes DEF Walk, Job

LEMMA AttemptTypes ==
  ASSUME TypeOK, NEW kind \in {"inline", "drain", "auto", "now"},
         NEW S \in SUBSET Msgs, NEW m \in Msgs, NEW mode \in {"auto", "queue"},
         NEW rest \in SUBSET Msgs
  PROVE  Attempt(kind, S, m, mode, rest) \in Job
PROOF
<1>1. FirstStep(kind) \in {"fast", "check"}
  BY DEF FirstStep
<1> QED BY <1>1, NowTypes DEF Attempt, Job

LEMMA JobTypes ==
  ASSUME TypeOK, NEW w \in Workers, NEW j \in Job
  PROVE  [job EXCEPT ![w] = j] \in [Workers -> Job]
PROOF BY DEF TypeOK

LEMMA EndAttemptTypes ==
  ASSUME TypeOK, NEW w \in Workers, EndAttempt(w)
  PROVE  job' \in [Workers -> Job]
PROOF
<1>1. job[w] \in Job /\ job[w].todo \in SUBSET Msgs
  BY DEF TypeOK, Job
<1>2. Walk(job[w].todo) \in Job
  BY <1>1, WalkTypes
<1> QED BY <1>2, NoJobTypes, JobTypes DEF EndAttempt

LEMMA GiveUpTypes ==
  ASSUME TypeOK, NEW w \in Workers, NEW why, GiveUp(w, why)
  PROVE  QueueTypeOK' /\ job' \in [Workers -> Job]
PROOF
<1>0. QueueTypeOK /\ EndAttempt(w)
  BY DEF TypeOK, GiveUp
<1>1. job' \in [Workers -> Job]
  BY <1>0, EndAttemptTypes
<1>2. job[w].kind = "inline" => QueueTypeOK'
  BY <1>0, SettleTypes DEF GiveUp, Place
<1>3. job[w].kind # "inline" => QueueTypeOK'
  BY <1>0, ReleaseTypes, ReleaseOfflineTypes, ReleaseFailedTypes DEF GiveUp
<1> QED BY <1>1, <1>2, <1>3

LEMMA QueueOnTypes ==
  ASSUME TypeOK, NEW w \in Workers, NEW reason \in WaitKind, QueueOn(w, reason)
  PROVE  QueueTypeOK' /\ job' \in [Workers -> Job]
PROOF
<1>0. QueueTypeOK /\ EndAttempt(w)
  BY DEF TypeOK, QueueOn
<1>1. job[w].kind = "inline" => QueueTypeOK'
  BY <1>0, CreateTypes DEF QueueOn
<1>2. job[w].kind # "inline" => QueueTypeOK'
  BY <1>0, RequeueTypes DEF QueueOn
<1> QED BY <1>0, <1>1, <1>2, EndAttemptTypes

\* What reading the thread again does to an attempt.
LEMMA RereadTypes ==
  ASSUME NEW j \in Job, NEW snap \in Snapshot,
         NEW k, k = [j EXCEPT !.snap = snap, !.retried = TRUE, !.pc = "check"]
  PROVE  /\ k \in Job /\ k.pc = "check"
         /\ k.rows = j.rows /\ k.cur = j.cur /\ k.kind = j.kind
PROOF BY DEF Job

LEMMA ReattemptTypes ==
  ASSUME TypeOK, NEW w \in Workers, Reattempt(w)
  PROVE  QueueTypeOK' /\ job' \in [Workers -> Job]
PROOF
<1>1. CASE job[w].retried
  BY <1>1, GiveUpTypes DEF Reattempt
<1>2. CASE ~job[w].retried
  <2>1. job' = [job EXCEPT ![w] = [job[w] EXCEPT !.snap = Now, !.retried = TRUE,
                                                !.pc = "check"]]
    BY <1>2 DEF Reattempt, TypeOK
  <2>2. [job[w] EXCEPT !.snap = Now, !.retried = TRUE, !.pc = "check"] \in Job
    BY NowTypes, RereadTypes DEF TypeOK
  <2>3. QueueTypeOK'
    BY <1>2, UnchangedTypes DEF Reattempt, TypeOK
  <2> QED BY <2>1, <2>2, <2>3, JobTypes
<1> QED BY <1>1, <1>2

LEMMA DeliverTypes ==
  ASSUME TypeOK, NEW w \in Workers, Deliver(w)
  PROVE  QueueTypeOK' /\ job' \in [Workers -> Job] /\ sent' \in [Msgs -> Nat]
PROOF
<1>0. QueueTypeOK /\ EndAttempt(w) /\ "sent" \in Place
  BY DEF TypeOK, Deliver, Place
<1>1. job[w].kind = "inline" => QueueTypeOK'
  BY <1>0, SettleTypes DEF Deliver
<1>2. job[w].kind # "inline" => QueueTypeOK'
  BY <1>0, RemoveTypes DEF Deliver
<1>3. sent' \in [Msgs -> Nat]
  BY DEF Deliver, TypeOK
<1> QED BY <1>0, <1>1, <1>2, <1>3, EndAttemptTypes
-----------------------------------------------------------------------------
(* What stops and interruptions do to the thread. *)

LEMMA RequestStopTypes ==
  ASSUME TypeOK, NEW gone \in BOOLEAN, RequestStop(gone)
  PROVE  status' \in ThreadStatus /\ mark' \in Mark /\ lane' \in Seq(Command)
PROOF
<1>1. After(status, "stop.requested", gone) \in ThreadStatus
  BY LifecycleTypes DEF TypeOK, ThreadTypeOK, LifecycleEvent
<1>2. mark' \in Mark
  BY DEF RequestStop, TypeOK, ThreadTypeOK, Mark
<1>3. lane' \in Seq(Command)
  BY LaneTypes DEF RequestStop, TypeOK, HostTypeOK, Command
<1> QED BY <1>1, <1>2, <1>3 DEF RequestStop

LEMMA StopThreadTypes ==
  ASSUME TypeOK, NEW gone \in BOOLEAN, StopThread(gone)
  PROVE  /\ QueueTypeOK'
         /\ status' \in ThreadStatus /\ provisioning' \in BOOLEAN
         /\ turn' \in Turn /\ mark' \in Mark /\ asking' \in BOOLEAN
         /\ lane' \in Seq(Command) /\ wakes' \subseteq Wake
PROOF
<1>1. CASE StopRun(gone)
  BY <1>1, RequestStopTypes, UnchangedTypes DEF StopRun, TypeOK, ThreadTypeOK
<1>2. ASSUME NEW settled \in BOOLEAN, StopPreStart(settled)
      PROVE  /\ QueueTypeOK'
             /\ status' \in ThreadStatus /\ provisioning' \in BOOLEAN
             /\ turn' \in Turn /\ mark' \in Mark /\ asking' \in BOOLEAN
             /\ lane' \in Seq(Command) /\ wakes' \subseteq Wake
  <2>1. QueueTypeOK'
    BY <1>2, ClearWaitsTypes DEF StopPreStart, TypeOK
  <2>2. Append(lane, "stop") \in Seq(Command)
    BY LaneTypes DEF Command
  <2>3. mark' \in Mark
    BY <1>2 DEF StopPreStart, Mark, TypeOK, ThreadTypeOK
  <2> QED BY <1>2, <2>1, <2>2, <2>3, WakeTypes
      DEF StopPreStart, TypeOK, ThreadTypeOK, HostTypeOK, ThreadStatus, Turn
<1> QED BY <1>1, <1>2 DEF StopThread

LEMMA FinalizeTypes ==
  ASSUME TypeOK, Finalize
  PROVE  status' \in ThreadStatus /\ turn' \in Turn /\ asking' \in BOOLEAN
PROOF BY DEF Finalize, TypeOK, ThreadTypeOK, ThreadStatus, Turn

LEMMA InterruptTypes ==
  ASSUME TypeOK, InterruptActive
  PROVE  /\ status' \in ThreadStatus /\ turn' \in Turn /\ mark' \in Mark
         /\ asking' \in BOOLEAN
PROOF BY DEF InterruptActive, ThreadStatus, Turn, Mark

LEMMA CompletionTypes ==
  ASSUME TypeOK, NEW ended, NEW how \in {"completed", "failed", "interrupted"},
         HearCompletion(ended, how)
  PROVE  status' \in ThreadStatus /\ turn' \in Turn /\ wakes' \subseteq Wake
PROOF
<1>1. Outcome[how] \in LifecycleEvent
  BY DEF Outcome, LifecycleEvent
<1>2. After(status, Outcome[how], archived) \in ThreadStatus
  BY <1>1, LifecycleTypes DEF TypeOK, ThreadTypeOK
<1> QED BY <1>2 DEF HearCompletion, TypeOK, ThreadTypeOK, Turn, Wake

LEMMA ReconcileTypes ==
  ASSUME TypeOK, NEW reported \in BOOLEAN, Reconcile(reported)
  PROVE  /\ status' \in ThreadStatus /\ provisioning' \in BOOLEAN
         /\ turn' \in Turn /\ mark' \in Mark /\ asking' \in BOOLEAN
         /\ lane' \in Seq(Command)
PROOF
<1>1. After(status, "run.started", archived) \in ThreadStatus
  BY LifecycleTypes DEF TypeOK, ThreadTypeOK, LifecycleEvent
<1>2. ThreadTypeOK /\ HostTypeOK /\ archived \in BOOLEAN
  BY DEF TypeOK, ThreadTypeOK
<1>3. (asking /\ reported) \in BOOLEAN
  OBVIOUS
<1> QED BY <1>1, <1>2, <1>3, RequestStopTypes, FinalizeTypes, InterruptTypes
    DEF Reconcile, ThreadTypeOK, HostTypeOK
-----------------------------------------------------------------------------
(* One step per action keeps the types. *)

LEMMA KeptTypes ==
  ASSUME TypeOK
  PROVE  /\ UNCHANGED queueVars => QueueTypeOK'
         /\ UNCHANGED threadVars => ThreadTypeOK'
         /\ UNCHANGED hostVars => HostTypeOK'
PROOF BY UnchangedTypes
      DEF TypeOK, ThreadTypeOK, HostTypeOK, threadVars, hostVars

LEMMA UserTypes ==
  ASSUME TypeOK, User
  PROVE  TypeOK'
PROOF
<1>0. QueueTypeOK /\ "stop" \in Disturbance /\ "archive" \in Disturbance
      /\ "delete" \in Disturbance /\ "group" \in Disturbance
      /\ "now" \in Disturbance
  BY DEF TypeOK, Disturbance
<1>1. ASSUME NEW w \in Workers, NEW m \in Msgs, NEW mode \in {"auto", "queue"},
             UserSends(w, m, mode)
      PROVE  TypeOK'
  <2>1. QueueTypeOK'
    BY <1>0, <1>1, SettleTypes DEF UserSends, Place
  <2>2. job' \in [Workers -> Job]
    <3>1. Attempt("inline", {m}, m, mode, {}) \in Job
      BY AttemptTypes
    <3> QED BY <1>1, <3>1, JobTypes DEF UserSends
  <2> QED BY <1>1, <2>1, <2>2, KeptTypes DEF UserSends, TypeOK
<1>2. ASSUME NEW m \in Msgs, UserQueues(m)
      PROVE  TypeOK'
  <2>1. QueueTypeOK'
    BY <1>0, <1>2, CreateTypes DEF UserQueues, WaitKind
  <2> QED BY <1>2, <2>1, KeptTypes DEF UserQueues, TypeOK, Wake
<1>3. ASSUME NEW m \in Msgs, UserDeletes(m)
      PROVE  TypeOK'
  <2>1. QueueTypeOK'
    BY <1>0, <1>3, RemoveTypes DEF UserDeletes, Place
  <2> QED BY <1>0, <1>3, <2>1, KeptTypes, SpendTypes DEF UserDeletes, TypeOK
<1>4. ASSUME NEW m \in Msgs, UserGroups(m)
      PROVE  TypeOK'
  <2>1. QueueTypeOK'
    BY <1>0, <1>4, GroupUpToTypes DEF UserGroups
  <2> QED BY <1>0, <1>4, <2>1, KeptTypes, SpendTypes DEF UserGroups, TypeOK
<1>5. ASSUME NEW w \in Workers, NEW m \in Msgs, UserSendsNow(w, m)
      PROVE  TypeOK'
  <2> DEFINE S == IF Lead(GroupOf(m)) = m THEN GroupOf(m) ELSE {m}
             cut == IF Lead(GroupOf(m)) = m THEN {}
                    ELSE {m} \union {k \in Msgs : JoinsTo(k, m)}
  <2>1. S \in SUBSET Msgs
    BY DEF GroupOf, LiveRows
  <2>2. Claim(S, w, cut) /\ job' = [job EXCEPT ![w] = Attempt("now", S, m, "auto", {})]
    BY <1>5 DEF UserSendsNow
  <2> HIDE DEF S, cut
  <2>3. QueueTypeOK'
    BY <1>0, <2>2, ClaimTypes
  <2>4. job' \in [Workers -> Job]
    <3>1. Attempt("now", S, m, "auto", {}) \in Job
      BY <2>1, AttemptTypes
    <3> QED BY <2>2, <3>1, JobTypes
  <2> QED BY <1>0, <1>5, <2>3, <2>4, KeptTypes, SpendTypes DEF UserSendsNow, TypeOK
<1>6. ASSUME UserStops
      PROVE  TypeOK'
  BY <1>0, <1>6, StopThreadTypes, SpendTypes
  DEF UserStops, TypeOK, ThreadTypeOK, HostTypeOK
<1>7. ASSUME UserArchives
      PROVE  TypeOK'
  <2>1. /\ QueueTypeOK'
        /\ status' \in ThreadStatus /\ provisioning' \in BOOLEAN
        /\ turn' \in Turn /\ mark' \in Mark /\ asking' \in BOOLEAN
        /\ lane' \in Seq(Command) /\ wakes' \subseteq Wake
    BY <1>7, StopThreadTypes, UnchangedTypes
    DEF UserArchives, TypeOK, ThreadTypeOK, HostTypeOK
  <2> QED BY <1>0, <1>7, <2>1, SpendTypes
      DEF UserArchives, TypeOK, ThreadTypeOK, HostTypeOK
<1>8. ASSUME UserUnarchives
      PROVE  TypeOK'
  BY <1>8, KeptTypes DEF UserUnarchives, TypeOK, ThreadTypeOK
<1>9. ASSUME Answered
      PROVE  TypeOK'
  BY <1>9, KeptTypes, WakeTypes DEF Answered, TypeOK, ThreadTypeOK
<1> QED BY <1>1, <1>2, <1>3, <1>4, <1>5, <1>6, <1>7, <1>8, <1>9 DEF User

LEMMA DrainTypes ==
  ASSUME TypeOK, NEW w \in Workers, Drain(w)
  PROVE  TypeOK'
PROOF
<1> DEFINE ready == {S \in Groups : Drainable(S)}
           first == CHOOSE S \in ready :
                      \A T \in ready : key[Lead(S)] <= key[Lead(T)]
<1>1. CASE archived \/ status = "stopping" \/ ready = {}
  <2>1. UNCHANGED <<queueVars, job>>
    BY <1>1 DEF Drain
  <2> QED BY <2>1, KeptTypes DEF Drain, TypeOK
<1>2. CASE ~(archived \/ status = "stopping" \/ ready = {})
  <2>1. /\ Claim(first, w, {})
        /\ job' = [job EXCEPT ![w] =
                      Attempt("drain", first, Lead(first), "auto", {})]
    BY <1>2 DEF Drain
  <2>2. first \in ready /\ first \in SUBSET Msgs /\ Lead(first) \in Msgs
    BY <1>2, FirstDrainable
  <2> HIDE DEF first
  <2>3. QueueTypeOK'
    BY <2>1, ClaimTypes DEF TypeOK
  <2>4. job' \in [Workers -> Job]
    <3>1. Attempt("drain", first, Lead(first), "auto", {}) \in Job
      BY <2>2, AttemptTypes
    <3> QED BY <2>1, <3>1, JobTypes
  <2> QED BY <2>3, <2>4, KeptTypes DEF Drain, TypeOK
<1> QED BY <1>1, <1>2

LEMMA StartWalkTypes ==
  ASSUME TypeOK, NEW w \in Workers, NEW wake \in Walks, StartWalk(w, wake)
  PROVE  TypeOK'
PROOF
<1> DEFINE rest == IF Dropped(wake) THEN {} ELSE WaitingOn(WalkKinds(wake))
<1>1. QueueTypeOK'
  BY ClearWaitsTypes, UnchangedTypes DEF StartWalk, TypeOK
<1>2. job' \in [Workers -> Job]
  <2>1. rest \in SUBSET Msgs
    BY DEF WaitingOn, LiveRows
  <2>2. job' = IF rest = {} THEN job ELSE [job EXCEPT ![w] = Walk(rest)]
    BY DEF StartWalk
  <2> HIDE DEF rest
  <2> QED BY <2>1, <2>2, WalkTypes, JobTypes DEF TypeOK
<1> QED BY <1>1, <1>2, KeptTypes DEF StartWalk, TypeOK

LEMMA WalkOnTypes ==
  ASSUME TypeOK, NEW w \in Workers, WalkOn(w)
  PROVE  TypeOK'
PROOF
<1> DEFINE todo == job[w].todo
           m == Lead(todo)
           rest == todo \ {m}
<1>0. todo \in SUBSET Msgs /\ rest \in SUBSET Msgs /\ QueueTypeOK
  BY DEF TypeOK, Job
<1>1. CASE todo = {}
  BY <1>1, NoJobTypes, JobTypes, KeptTypes DEF WalkOn, TypeOK
<1>2. CASE todo # {} /\ Live(m) /\ Claimable(GroupOf(m))
  <2>1. /\ Claim(GroupOf(m), w, {})
        /\ job' = [job EXCEPT ![w] = Attempt("auto", GroupOf(m), m, "auto", rest)]
    BY <1>2 DEF WalkOn
  <2>2. m \in Msgs /\ GroupOf(m) \in SUBSET Msgs
    BY <1>0, <1>2, LeadIsMember DEF GroupOf, LiveRows
  <2>3. QueueTypeOK'
    BY <1>0, <2>1, ClaimTypes
  <2>4. job' \in [Workers -> Job]
    <3>1. Attempt("auto", GroupOf(m), m, "auto", rest) \in Job
      BY <1>0, <2>2, AttemptTypes
    <3> QED BY <2>1, <3>1, JobTypes
  <2> QED BY <2>3, <2>4, KeptTypes DEF WalkOn, TypeOK
<1>3. CASE todo # {} /\ ~(Live(m) /\ Claimable(GroupOf(m)))
  <2>1. job' = [job EXCEPT ![w] = Walk(rest)] /\ UNCHANGED queueVars
    BY <1>3 DEF WalkOn
  <2> QED BY <1>0, <2>1, WalkTypes, JobTypes, KeptTypes DEF WalkOn, TypeOK
<1> QED BY <1>1, <1>2, <1>3

LEMMA WaitTypes ==
  \A j : EarlyWait(j) \in WaitKind /\ LateWait(j) \in WaitKind
PROOF BY DEF EarlyWait, LateWait, WaitKind

\* A worker at the checkpoint, or at its commit.
LEMMA AdvanceTypes ==
  ASSUME TypeOK, NEW w \in Workers, Advance(w)
  PROVE  TypeOK'
PROOF
<1>1. CASE WalkOn(w)
  BY <1>1, WalkOnTypes
<1>2. CASE CheckWaits(w)
  BY <1>2, WaitTypes, QueueOnTypes, KeptTypes DEF CheckWaits, TypeOK
<1>3. CASE CheckPasses(w)
  <2> DEFINE pc == IF First(job[w].snap) THEN "admit" ELSE "send"
  <2>1. [job[w] EXCEPT !.pc = pc] \in Job
    BY DEF TypeOK, Job
  <2>2. job' = [job EXCEPT ![w] = [job[w] EXCEPT !.pc = pc]]
    BY <1>3 DEF CheckPasses, TypeOK
  <2> HIDE DEF pc
  <2> QED BY <1>3, <2>1, <2>2, JobTypes, KeptTypes DEF CheckPasses, TypeOK
<1>4. CASE CheckMoved(w)
  BY <1>4, ReattemptTypes, KeptTypes DEF CheckMoved, TypeOK
<1>5. CASE CheckArchived(w)
  BY <1>5, GiveUpTypes, KeptTypes DEF CheckArchived, TypeOK
<1>6. ASSUME Deliver(w), RequestStart, UNCHANGED <<wakes, left>>
      PROVE  TypeOK'
  <2>1. ThreadTypeOK'
    BY <1>6, LifecycleTypes, MarkTypes
    DEF RequestStart, TypeOK, ThreadTypeOK, LifecycleEvent
  <2>2. HostTypeOK'
    BY <1>6, LaneTypes DEF RequestStart, TypeOK, HostTypeOK, Command
  <2> QED BY <1>6, <2>1, <2>2, DeliverTypes DEF TypeOK
<1>7. CASE FastSend(w)
  BY <1>6, <1>7 DEF FastSend
<1>8. CASE SendStart(w)
  BY <1>6, <1>8 DEF SendStart
<1>9. CASE SendJoin(w)
  <2>1. ThreadTypeOK'
    BY <1>9, MarkTypes DEF SendJoin, TypeOK, ThreadTypeOK
  <2>2. HostTypeOK'
    BY <1>9, LaneTypes DEF SendJoin, TypeOK, HostTypeOK, Command
  <2> QED BY <1>9, <2>1, <2>2, DeliverTypes DEF SendJoin, TypeOK
<1>10. CASE Admit(w)
  <2>1. ThreadTypeOK'
    BY <1>10, LifecycleTypes, MarkTypes
    DEF Admit, TypeOK, ThreadTypeOK, LifecycleEvent
  <2> QED BY <1>10, <2>1, DeliverTypes, KeptTypes DEF Admit, TypeOK
<1>11. CASE CommitMoved(w)
  BY <1>11, ReattemptTypes, KeptTypes DEF CommitMoved, TypeOK
<1>12. CASE CommitFails(w)
  <2>1. PICK why \in {"paused", "claim-lost", "error"} : GiveUp(w, why)
    BY <1>12 DEF CommitFails
  <2> QED BY <1>12, <2>1, GiveUpTypes, KeptTypes DEF CommitFails, TypeOK
<1> QED BY <1>1, <1>2, <1>3, <1>4, <1>5, <1>7, <1>8, <1>9, <1>10, <1>11, <1>12
    DEF Advance

LEMMA DispatchTypes ==
  ASSUME TypeOK, Dispatch
  PROVE  TypeOK'
PROOF
<1>0. "hold" \in Disturbance /\ "fault" \in Disturbance
  BY DEF Disturbance
<1>1. ASSUME NEW w \in Workers, PluginHolds(w)
      PROVE  TypeOK'
  BY <1>0, <1>1, QueueOnTypes, SpendTypes, KeptTypes
  DEF PluginHolds, TypeOK, WaitKind
<1>2. ASSUME NEW w \in Workers, NEW why, AttemptFails(w, why)
      PROVE  TypeOK'
  BY <1>0, <1>2, GiveUpTypes, SpendTypes, KeptTypes DEF AttemptFails, TypeOK
<1>3. CASE DrainJoins
  BY <1>3, KeptTypes DEF DrainJoins, TypeOK
<1>4. CASE InteractionSettled
  BY <1>4, ClearWaitsTypes, KeptTypes DEF InteractionSettled, TypeOK, Wake
<1>5. CASE PluginRechecks
  BY <1>5, KeptTypes DEF PluginRechecks, TypeOK, Wake
<1>6. ASSUME NEW stale \in BOOLEAN, Sweep(stale)
      PROVE  TypeOK'
  BY <1>6, ReleaseOrphansTypes, KeptTypes DEF Sweep, TypeOK, Wake
<1> QED
  BY <1>1, <1>2, <1>3, <1>4, <1>5, <1>6, DrainTypes, AdvanceTypes, StartWalkTypes
  DEF Dispatch, Disturb

LEMMA DaemonTypes ==
  ASSUME TypeOK, Daemon
  PROVE  TypeOK'
PROOF
<1>0. /\ "ask" \in Disturbance /\ "fault" \in Disturbance
      /\ \A e \in {"run.started", "run.failed"} :
           After(status, e, archived) \in ThreadStatus
      /\ \A c : AtHead(c) => Tail(lane) \in Seq(Command)
  BY LifecycleTypes, LaneTypes
  DEF Disturbance, LifecycleEvent, AtHead, TypeOK, ThreadTypeOK
<1>1. CASE CommandAccepted
  BY <1>0, <1>1, KeptTypes
  DEF CommandAccepted, TypeOK, ThreadTypeOK, HostTypeOK, Running
<1>2. CASE CommandRejected
  <2>1. left' \in [Disturbance -> Nat]
    BY <1>0, <1>2, SpendTypes DEF CommandRejected, TypeOK
  <2>2. status' \in ThreadStatus
    BY <1>0, <1>2, FailureFails DEF CommandRejected, TypeOK, ThreadTypeOK
  <2> QED BY <1>0, <1>2, <2>1, <2>2, KeptTypes
      DEF CommandRejected, TypeOK, ThreadTypeOK, HostTypeOK
<1>3. CASE TurnStarted
  <2>1. turn' \in {"live", "ghost"} /\ running' = turn'
    BY <1>3 DEF TurnStarted
  <2>2. ThreadTypeOK' /\ wakes' \subseteq Wake
    BY <1>0, <1>3, <2>1 DEF TurnStarted, TypeOK, ThreadTypeOK, Turn, Mark, Wake
  <2> QED BY <1>3, <2>1, <2>2, KeptTypes
      DEF TurnStarted, TypeOK, HostTypeOK, Running, Turn
<1>4. CASE TurnSteered
  BY <1>0, <1>4, KeptTypes DEF TurnSteered, TypeOK, HostTypeOK
<1>5. ASSUME NEW how \in {"completed", "failed", "interrupted"}, TurnCompleted(how)
      PROVE  TypeOK'
  <2>1. left' \in [Disturbance -> Nat]
    BY <1>0, <1>5, SpendTypes DEF TurnCompleted, TypeOK
  <2>2. status' \in ThreadStatus /\ turn' \in Turn /\ wakes' \subseteq Wake
    BY <1>5, CompletionTypes DEF TurnCompleted
  <2> QED BY <1>5, <2>1, <2>2, KeptTypes
      DEF TurnCompleted, TypeOK, ThreadTypeOK, HostTypeOK, Running, Turn
<1>6. CASE TurnEndsUnheard
  BY <1>6, KeptTypes DEF TurnEndsUnheard, TypeOK, HostTypeOK, Running, Turn
<1>7. CASE LateCompletion
  <2>1. status' \in ThreadStatus /\ turn' \in Turn /\ wakes' \subseteq Wake
    BY <1>7, CompletionTypes DEF LateCompletion
  <2> QED BY <1>7, <2>1, KeptTypes
      DEF LateCompletion, TypeOK, ThreadTypeOK, HostTypeOK, Turn
<1>8. CASE Asks
  BY <1>0, <1>8, SpendTypes, KeptTypes DEF Asks, TypeOK, ThreadTypeOK
<1>9. CASE DaemonStops
  BY <1>0, <1>9, KeptTypes DEF DaemonStops, TypeOK, HostTypeOK, Running, Turn
<1>10. CASE DaemonDies
  BY <1>10, KeptTypes DEF DaemonDies, TypeOK, HostTypeOK, Running, Turn
<1> QED BY <1>1, <1>2, <1>3, <1>4, <1>5, <1>6, <1>7, <1>8, <1>9, <1>10 DEF Daemon

LEMMA RunTypes ==
  ASSUME TypeOK, Run
  PROVE  TypeOK'
PROOF
<1>0. /\ "fault" \in Disturbance
      /\ After(status, "run.failed", archived) \in ThreadStatus
  BY LifecycleTypes DEF Disturbance, LifecycleEvent, TypeOK, ThreadTypeOK
<1>1. CASE EnvironmentAttaches
  BY <1>1, KeptTypes DEF EnvironmentAttaches, TypeOK, ThreadTypeOK
<1>2. CASE ProvisionSucceeds
  BY <1>2, LaneTypes, KeptTypes
  DEF ProvisionSucceeds, TypeOK, ThreadTypeOK, HostTypeOK, Command, Wake
<1>3. CASE ProvisionFails
  <2>1. left' \in [Disturbance -> Nat]
    BY <1>0, <1>3, SpendTypes DEF ProvisionFails, TypeOK
  <2> QED BY <1>0, <1>3, <2>1, ClearWaitsTypes, KeptTypes
      DEF ProvisionFails, TypeOK, ThreadTypeOK
<1>4. CASE StopSettled
  BY <1>4, FinalizeTypes, WakeTypes, KeptTypes
  DEF StopSettled, TypeOK, ThreadTypeOK, HostTypeOK, Wake
<1>5. CASE StopFails
  BY <1>0, <1>5, SpendTypes, LaneTypes, KeptTypes
  DEF StopFails, TypeOK, HostTypeOK
<1>6. CASE SweepArchived
  BY <1>6, StopThreadTypes DEF SweepArchived, TypeOK, ThreadTypeOK, HostTypeOK
<1> QED BY <1>1, <1>2, <1>3, <1>4, <1>5, <1>6 DEF Run

LEMMA HostTypes ==
  ASSUME TypeOK, Host
  PROVE  TypeOK'
PROOF
<1>0. /\ "host" \in Disturbance /\ "crash" \in Disturbance
      /\ After(status, "run.failed", archived) \in ThreadStatus
  BY LifecycleTypes DEF Disturbance, LifecycleEvent, TypeOK, ThreadTypeOK
<1>1. ASSUME NEW delivered \in BOOLEAN, HostDisconnects(delivered)
      PROVE  TypeOK'
  <2>1. status' \in ThreadStatus
    BY <1>0, <1>1, FailureFails DEF HostDisconnects, TypeOK, ThreadTypeOK
  <2> QED BY <1>0, <1>1, <2>1, SpendTypes, LaneTypes, KeptTypes
      DEF HostDisconnects, TypeOK, ThreadTypeOK, HostTypeOK
<1>2. ASSUME NEW delivered \in BOOLEAN, Crash(delivered)
      PROVE  TypeOK'
  <2>1. job' \in [Workers -> Job]
    BY <1>2, NoJobTypes DEF Crash
  <2> QED BY <1>0, <1>2, <2>1, SpendTypes, LaneTypes, AbandonTypes, KeptTypes
      DEF Crash, TypeOK, HostTypeOK
<1>3. ASSUME NEW i \in DOMAIN lane, CommandUndelivered(i)
      PROVE  TypeOK'
  <2>1. status' \in ThreadStatus
    BY <1>0, <1>3, FailureFails DEF CommandUndelivered, TypeOK, ThreadTypeOK
  <2> QED BY <1>0, <1>3, <2>1, LaneTypes, KeptTypes
      DEF CommandUndelivered, TypeOK, ThreadTypeOK, HostTypeOK
<1>4. CASE GraceExpires
  BY <1>4, InterruptTypes, WakeTypes, KeptTypes
  DEF GraceExpires, TypeOK, ThreadTypeOK
<1>5. CASE InteractionGraceExpires
  BY <1>5, WakeTypes, KeptTypes DEF InteractionGraceExpires, TypeOK, ThreadTypeOK
<1>6. CASE HostReturns
  <2>1. Reconcile(running # "none" /\ setup # "none") /\ UNCHANGED queueVars
    BY <1>6 DEF HostReturns
  <2>2. /\ status' \in ThreadStatus /\ provisioning' \in BOOLEAN
        /\ turn' \in Turn /\ mark' \in Mark /\ asking' \in BOOLEAN
        /\ lane' \in Seq(Command)
    BY <2>1, ReconcileTypes
  <2>3. wakes' \subseteq Wake
    BY <1>6, WakeTypes DEF HostReturns, TypeOK, Wake
  <2> QED BY <1>6, <2>2, <2>3, KeptTypes
      DEF HostReturns, TypeOK, ThreadTypeOK, HostTypeOK
<1> QED BY <1>1, <1>2, <1>3, <1>4, <1>5, <1>6 DEF Host

LEMMA InitialTypes == Init => TypeOK
PROOF
<1> SUFFICES ASSUME Init
             PROVE  TypeOK
  OBVIOUS
<1>1. QueueTypeOK
  BY InitTypes DEF Init
<1>2. ThreadTypeOK
  BY DEF Init, FirstStatus, ThreadTypeOK, ThreadStatus, Turn, Mark
<1>3. HostTypeOK
  <2>1. lane \in Seq(Command)
    BY EmptySeq DEF Init
  <2> QED BY <2>1 DEF Init, HostTypeOK, Turn, Running
<1>4. job \in [Workers -> Job]
  BY NoJobTypes DEF Init
<1> QED BY <1>1, <1>2, <1>3, <1>4 DEF Init, TypeOK

LEMMA TypeStep == TypeOK /\ [Next]_vars => TypeOK'
PROOF
<1> SUFFICES ASSUME TypeOK, [Next]_vars
             PROVE  TypeOK'
  OBVIOUS
<1>1. CASE UNCHANGED vars
  BY <1>1, KeptTypes DEF vars, TypeOK
<1>2. CASE Next
  BY <1>2, UserTypes, DispatchTypes, DaemonTypes, RunTypes, HostTypes DEF Next
<1> QED BY <1>1, <1>2

\* Every variable of the dispatch keeps its type (TypeOK): no row ever carries
\* a wait, a token or a place, and no worker a job, the code has no name for.
THEOREM TypesHold == Spec => []TypeOK
PROOF BY InitialTypes, TypeStep, PTL DEF Spec
=============================================================================
