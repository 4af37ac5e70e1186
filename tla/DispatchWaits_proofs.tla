------------------------ MODULE DispatchWaits_proofs ------------------------
(***************************************************************************)
(* The rows that wait for an event: whatever ends an interaction wakes the *)
(* rows that wait for it, and the walk that a host's return starts passes  *)
(* over none of the rows that wait for the host.                           *)
(*                                                                         *)
(* A wake is spent on the rows that are live then, so both invariants also *)
(* say who may hold a row that waits: nobody for an interaction, and for a *)
(* host only an attempt that will change its wait, or fail it, when it     *)
(* gives it back.                                                          *)
(*                                                                         *)
(* Then the rows that wait for the turn: they go in the order they were    *)
(* queued in.                                                              *)
(***************************************************************************)
EXTENDS DispatchRun_proofs

WaitsForUser(m) == Row(m) /\ wait[m] = "interaction" /\ ~failed[m]

InteractionFacts ==
  \A m \in Msgs :
    /\ token[m] # Orphan
    /\ WaitsForUser(m) =>
         token[m] = None /\ (asking \/ "interaction-settled" \in wakes)

InteractionInv ==
  /\ HoldingInv /\ HistoryInv
  /\ Spared({"crash", "now"}) => InteractionFacts

\* A step by which no row begins to wait for an interaction, and none that does
\* is claimed, and by which no interaction ends unnoticed.
NoneParked ==
  \A m \in Msgs :
    /\ token'[m] # Orphan
    /\ WaitsForUser(m)' => WaitsForUser(m) /\ token'[m] = None

StillHeard ==
  asking \/ "interaction-settled" \in wakes =>
    asking' \/ "interaction-settled" \in wakes'

LEMMA UnparkedKeeps ==
  ASSUME InteractionFacts, NoneParked, StillHeard
  PROVE  InteractionFacts'
PROOF BY DEF InteractionFacts, NoneParked, StillHeard

LEMMA SameRows ==
  ASSUME InteractionFacts, UNCHANGED queueVars
  PROVE  NoneParked
PROOF BY DEF InteractionFacts, NoneParked, WaitsForUser, Row, queueVars

LEMMA ClearUnparks ==
  ASSUME TypeOK, InteractionFacts, NEW kind, ClearWaits(kind)
  PROVE  NoneParked
PROOF
<1>1. \A m \in Msgs : wait'[m] = wait[m] \/ wait'[m] = "none"
  BY DEF ClearWaits, TypeOK, QueueTypeOK
<1> QED BY <1>1 DEF InteractionFacts, NoneParked, WaitsForUser, Row, ClearWaits

LEMMA GiveUpUnparks ==
  ASSUME HoldingInv, InteractionFacts, NEW w \in Workers, Working(w), NEW why,
         GiveUp(w, why)
  PROVE  NoneParked
PROOF
<1>0. QueueTypeOK /\ \A m \in Msgs : token[m] # Orphan
  BY DEF HoldingInv, TypeOK, InteractionFacts
<1>1. CASE job[w].kind = "inline"
  BY <1>0, <1>1, InlineAlone
  DEF GiveUp, Settle, QueueTypeOK, InteractionFacts, NoneParked, WaitsForUser, Row
<1>2. CASE job[w].kind # "inline"
  <2>1. /\ place' = place
        /\ \A m \in Msgs :
             /\ token'[m] = token[m] \/ token'[m] = None
             /\ wait'[m] = wait[m] \/ wait'[m] = "host-offline"
             /\ ~failed'[m] => ~failed[m] \/ wait'[m] = "host-offline"
    BY <1>0, <1>2
    DEF GiveUp, Release, ReleaseOffline, ReleaseFailed, Unclaimed, QueueTypeOK
  <2> QED BY <1>0, <2>1, TokensDistinct
      DEF InteractionFacts, NoneParked, WaitsForUser, Row
<1> QED BY <1>1, <1>2

\* A row that waits for an interaction from now on is nobody's.
LEMMA QueueOnParks ==
  ASSUME HoldingInv, InteractionFacts, NEW w \in Workers, Working(w), NEW reason,
         QueueOn(w, reason)
  PROVE  \A m \in Msgs :
           /\ token'[m] # Orphan
           /\ WaitsForUser(m)' =>
                token'[m] = None /\ (WaitsForUser(m) \/ reason = "interaction")
PROOF
<1>0. QueueTypeOK /\ \A m \in Msgs : token[m] # Orphan
  BY DEF HoldingInv, TypeOK, InteractionFacts
<1>1. CASE job[w].kind = "inline"
  <2> DEFINE c == job[w].cur
  <2>1. c \in Msgs /\ token[c] = None
    BY <1>0, <1>1, InlineAlone DEF HoldingInv, ClaimsHaveOwners, Row, QueueTypeOK
  <2> QED BY <1>0, <1>1, <2>1
      DEF QueueOn, Create, QueueTypeOK, InteractionFacts, WaitsForUser, Row
<1>2. CASE job[w].kind # "inline"
  <2> DEFINE back == {m \in job[w].rows : Row(m) /\ token[m] = w}
  <2>1. /\ place' = place
        /\ \A m \in Msgs :
             /\ token'[m] = token[m] \/ token'[m] = None
             /\ m \in back => token'[m] = None /\ wait'[m] = reason
             /\ m \notin back => wait'[m] = wait[m] /\ failed'[m] = failed[m]
    BY <1>0, <1>2 DEF QueueOn, Requeue, Unclaimed, QueueTypeOK
  <2> HIDE DEF back
  <2> QED BY <1>0, <2>1, TokensDistinct DEF InteractionFacts, WaitsForUser, Row
<1> QED BY <1>1, <1>2

LEMMA DeliverUnparks ==
  ASSUME HoldingInv, InteractionFacts, NEW w \in Workers, Working(w), Deliver(w)
  PROVE  NoneParked
PROOF
<1>0. QueueTypeOK /\ \A m \in Msgs : token[m] # Orphan
  BY DEF HoldingInv, TypeOK, InteractionFacts
<1>1. CASE job[w].kind = "inline"
  <2>1. /\ UNCHANGED <<token, wait, failed>>
        /\ \A m \in Msgs : place'[m] = "queue" => place[m] = "queue"
    BY <1>0, <1>1, InlineAlone DEF Deliver, Settle, QueueTypeOK
  <2> QED BY <1>0, <2>1 DEF InteractionFacts, NoneParked, WaitsForUser, Row
<1>2. CASE job[w].kind # "inline"
  <2>1. \A m \in Msgs :
          /\ token'[m] = token[m] \/ token'[m] = None
          /\ place'[m] = "queue" =>
               /\ place[m] = "queue" /\ token'[m] = token[m]
               /\ wait'[m] = wait[m] /\ failed'[m] = failed[m]
    BY <1>0, <1>2 DEF Deliver, Remove, QueueTypeOK
  <2> QED BY <1>0, <2>1, TokensDistinct
      DEF InteractionFacts, NoneParked, WaitsForUser, Row
<1> QED BY <1>1, <1>2

\* What may go by itself does not wait for an interaction.
LEMMA ClaimUnparks ==
  ASSUME TypeOK, InteractionFacts, NEW S \in SUBSET Msgs, Claimable(S),
         NEW w \in Workers, NEW cut, Claim(S, w, cut)
  PROVE  NoneParked
PROOF
<1>1. \A m \in S : wait[m] # "interaction"
  BY DEF Claimable, WaitCleared
<1> QED BY <1>1, TokensDistinct
    DEF Claim, InteractionFacts, NoneParked, WaitsForUser, Row
-----------------------------------------------------------------------------
(* The steps.  An interaction ends in a step that says so. *)

LEMMA UserUnparks ==
  ASSUME HoldingInv, InteractionFacts, User, ~Spend("now")
  PROVE  NoneParked /\ StillHeard
PROOF
<1>0. TypeOK /\ QueueTypeOK
  BY DEF HoldingInv, TypeOK
<1>1. ASSUME NEW w \in Workers, NEW m \in Msgs, NEW mode, UserSends(w, m, mode)
      PROVE  NoneParked /\ StillHeard
  BY <1>0, <1>1 DEF UserSends, Settle, QueueTypeOK, InteractionFacts, NoneParked,
     StillHeard, WaitsForUser, Row, threadVars
<1>2. ASSUME NEW m \in Msgs, UserQueues(m)
      PROVE  NoneParked /\ StillHeard
  BY <1>0, <1>2 DEF UserQueues, Create, QueueTypeOK, InteractionFacts, NoneParked,
     StillHeard, WaitsForUser, Row, threadVars
<1>3. ASSUME NEW m \in Msgs, UserDeletes(m)
      PROVE  NoneParked /\ StillHeard
  BY <1>3, TokensDistinct DEF UserDeletes, Remove, InteractionFacts, NoneParked,
     StillHeard, WaitsForUser, Row, threadVars
<1>4. ASSUME NEW m \in Msgs, UserGroups(m)
      PROVE  NoneParked /\ StillHeard
  BY <1>4 DEF UserGroups, GroupUpTo, InteractionFacts, NoneParked, StillHeard,
     WaitsForUser, Row, threadVars
<1>5. ASSUME NEW w \in Workers, NEW m \in Msgs, UserSendsNow(w, m)
      PROVE  FALSE
  BY <1>5 DEF UserSendsNow
<1>6. ASSUME NEW gone \in BOOLEAN, StopThread(gone)
      PROVE  NoneParked /\ StillHeard
  <2>1. NoneParked
    BY <1>0, <1>6, ClearUnparks, SameRows DEF StopThread, StopRun, StopPreStart
  <2>2. StillHeard
    BY <1>6 DEF StopThread, StopRun, StopPreStart, AfterAsking, StillHeard
  <2> QED BY <2>1, <2>2
<1>7. CASE UserStops \/ UserArchives \/ UserUnarchives \/ Answered
  <2>1. CASE UserStops
    BY <1>6, <2>1 DEF UserStops
  <2>2. CASE UserArchives
    BY <1>6, <2>2, SameRows DEF UserArchives, StillHeard
  <2>3. CASE UserUnarchives \/ Answered
    BY <2>3, SameRows DEF UserUnarchives, Answered, AfterAsking, StillHeard
  <2> QED BY <1>7, <2>1, <2>2, <2>3
<1> QED BY <1>1, <1>2, <1>3, <1>4, <1>5, <1>7 DEF User

LEMMA AdvanceWaits ==
  ASSUME HoldingInv, InteractionFacts, NEW w \in Workers, Advance(w) \/ Disturb(w)
  PROVE  InteractionFacts'
PROOF
<1>0. /\ TypeOK
      /\ job[w].pc \in {"fast", "check", "send", "admit"} => Working(w)
  BY DEF HoldingInv, Working
<1>1. StillHeard /\ UNCHANGED asking
  <2>1. UNCHANGED <<asking, wakes>>
    BY DEF Advance, Disturb, WalkOn, CheckWaits, CheckPasses, CheckMoved,
       CheckArchived, FastSend, SendStart, SendJoin, Admit, CommitMoved, CommitFails,
       PluginHolds, AttemptFails, RequestStart, threadVars
  <2> QED BY <2>1 DEF StillHeard
<1>2. ASSUME NEW why, GiveUp(w, why), Working(w)
      PROVE  InteractionFacts'
  BY <1>1, <1>2, GiveUpUnparks, UnparkedKeeps
<1>3. ASSUME Reattempt(w), Working(w)
      PROVE  InteractionFacts'
  BY <1>1, <1>2, <1>3, SameRows, UnparkedKeeps DEF Reattempt
<1>4. ASSUME NEW reason, QueueOn(w, reason), Working(w),
             reason = "interaction" => asking
      PROVE  InteractionFacts'
  <2>1. \A m \in Msgs :
           /\ token'[m] # Orphan
           /\ WaitsForUser(m)' =>
                token'[m] = None /\ (WaitsForUser(m) \/ reason = "interaction")
    BY <1>4, QueueOnParks
  <2> QED BY <1>1, <1>4, <2>1 DEF InteractionFacts, StillHeard
<1>5. CASE WalkOn(w)
  <2> DEFINE m == Lead(job[w].todo)
  <2>1. CASE Claimable(GroupOf(m)) /\ Claim(GroupOf(m), w, {})
    <3>1. GroupOf(m) \in SUBSET Msgs
      BY DEF GroupOf, LiveRows
    <3> QED BY <1>0, <1>1, <2>1, <3>1, ClaimUnparks, UnparkedKeeps
  <2>2. CASE UNCHANGED queueVars
    BY <1>1, <2>2, SameRows, UnparkedKeeps
  <2> QED BY <1>5, <2>1, <2>2 DEF WalkOn
<1>6. CASE CheckWaits(w)
  <2>1. EarlyWait(job[w]) # "interaction"
    BY DEF EarlyWait
  <2>2. LateWait(job[w]) = "interaction" => asking
    BY DEF LateWait
  <2> QED BY <1>0, <1>4, <1>6, <2>1, <2>2 DEF CheckWaits, Checking
<1>7. CASE PluginHolds(w)
  BY <1>0, <1>4, <1>7 DEF PluginHolds, Checking
<1>8. CASE CheckPasses(w)
  BY <1>1, <1>8, SameRows, UnparkedKeeps DEF CheckPasses
<1>9. CASE CheckMoved(w) \/ CommitMoved(w)
  BY <1>0, <1>3, <1>9 DEF CheckMoved, CommitMoved, Checking
<1>10. ASSUME CheckArchived(w) \/ CommitFails(w) \/ \E why : AttemptFails(w, why)
       PROVE  InteractionFacts'
  <2>1. PICK why : GiveUp(w, why)
    BY <1>10 DEF CheckArchived, CommitFails, AttemptFails
  <2>2. Working(w)
    BY <1>0, <1>10 DEF CheckArchived, CommitFails, AttemptFails
  <2> QED BY <1>2, <2>1, <2>2
<1>11. CASE FastSend(w) \/ SendStart(w) \/ SendJoin(w) \/ Admit(w)
  BY <1>0, <1>1, <1>11, DeliverUnparks, UnparkedKeeps
  DEF FastSend, SendStart, SendJoin, Admit
<1> QED BY <1>5, <1>6, <1>7, <1>8, <1>9, <1>10, <1>11 DEF Advance, Disturb

LEMMA DispatchWaits ==
  ASSUME HoldingInv, InteractionFacts, Dispatch
  PROVE  InteractionFacts'
PROOF
<1>0. TypeOK
  BY DEF HoldingInv
<1>1. ASSUME NEW w \in Workers, Drain(w)
      PROVE  InteractionFacts'
  <2> DEFINE ready == {S \in Groups : Drainable(S)}
             first == CHOOSE S \in ready :
                        \A T \in ready : key[Lead(S)] <= key[Lead(T)]
  <2>1. StillHeard
    BY <1>1 DEF Drain, StillHeard, threadVars
  <2>2. CASE archived \/ status = "stopping" \/ ready = {}
    BY <1>1, <2>1, <2>2, SameRows, UnparkedKeeps DEF Drain
  <2>3. CASE ~(archived \/ status = "stopping" \/ ready = {})
    <3>1. Claim(first, w, {})
      BY <1>1, <2>3 DEF Drain
    <3>2. first \in ready /\ first \in SUBSET Msgs
      BY <1>0, <2>3, FirstDrainable
    <3> HIDE DEF first
    <3>3. Claimable(first)
      BY <3>2 DEF Drainable
    <3> QED BY <1>0, <2>1, <3>1, <3>2, <3>3, ClaimUnparks, UnparkedKeeps
  <2> QED BY <2>2, <2>3
<1>2. ASSUME NEW w \in Workers, NEW wake \in Walks, StartWalk(w, wake)
      PROVE  InteractionFacts'
  BY <1>0, <1>2, ClearUnparks, SameRows, UnparkedKeeps
  DEF StartWalk, StillHeard, threadVars, Walks
<1>3. CASE DrainJoins \/ PluginRechecks
  BY <1>3, SameRows, UnparkedKeeps DEF DrainJoins, PluginRechecks, StillHeard, threadVars
<1>4. CASE InteractionSettled
  <2>1. CASE asking
    BY <1>4, <2>1, SameRows, UnparkedKeeps DEF InteractionSettled, StillHeard, threadVars
  <2>2. CASE ~asking
    <3>1. \A m \in Msgs : ~WaitsForUser(m)'
      BY <1>4, <2>2
      DEF InteractionSettled, ClearWaits, WaitingOn, LiveRows, Live, InteractionFacts,
          WaitsForUser, Row
    <3> QED BY <1>4, <2>2, <3>1 DEF InteractionSettled, ClearWaits, InteractionFacts
  <2> QED BY <2>1, <2>2
<1>5. ASSUME NEW stale \in BOOLEAN, Sweep(stale)
      PROVE  InteractionFacts'
  <2>1. StillHeard
    BY <1>5 DEF Sweep, StillHeard, threadVars
  <2>2. NoneParked
    BY <1>5, TokensDistinct
    DEF Sweep, ReleaseOrphans, InteractionFacts, NoneParked, WaitsForUser, Row, queueVars
  <2> QED BY <2>1, <2>2, UnparkedKeeps
<1> QED BY <1>1, <1>2, <1>3, <1>4, <1>5, AdvanceWaits DEF Dispatch

\* Stops, interruptions and grace timers leave the rows alone, and report the
\* interaction they end.
LEMMA RunUnparks ==
  ASSUME HoldingInv, InteractionFacts, Daemon \/ Run \/ Host, ~Spend("crash")
  PROVE  NoneParked /\ StillHeard
PROOF
<1>0. TypeOK
  BY DEF HoldingInv
<1>1. ASSUME NEW ended, NEW how, HearCompletion(ended, how), UNCHANGED asking
      PROVE  StillHeard
  BY <1>1 DEF HearCompletion, StillHeard
<1>2. ASSUME NEW gone \in BOOLEAN, StopThread(gone)
      PROVE  NoneParked /\ StillHeard
  <2>1. NoneParked
    BY <1>0, <1>2, ClearUnparks, SameRows DEF StopThread, StopRun, StopPreStart
  <2>2. StillHeard
    BY <1>2 DEF StopThread, StopRun, StopPreStart, AfterAsking, StillHeard
  <2> QED BY <2>1, <2>2
<1>3. CASE Daemon
  <2>1. NoneParked
    BY <1>3, SameRows
    DEF Daemon, CommandAccepted, CommandRejected, TurnStarted, TurnSteered,
        TurnCompleted, TurnEndsUnheard, LateCompletion, Asks, DaemonStops, DaemonDies
  <2>2. StillHeard
    BY <1>1, <1>3
    DEF Daemon, CommandAccepted, CommandRejected, TurnStarted, TurnSteered,
        TurnCompleted, TurnEndsUnheard, LateCompletion, Asks, DaemonStops, DaemonDies,
        StillHeard, threadVars
  <2> QED BY <2>1, <2>2
<1>4. CASE Run
  <2>1. CASE SweepArchived
    BY <1>2, <2>1 DEF SweepArchived
  <2>2. CASE ProvisionFails
    BY <1>0, <2>2, ClearUnparks DEF ProvisionFails, StillHeard
  <2>3. CASE StopSettled
    BY <2>3, SameRows DEF StopSettled, AfterAsking, StillHeard
  <2>4. CASE EnvironmentAttaches \/ ProvisionSucceeds \/ StopFails
    BY <2>4, SameRows
    DEF EnvironmentAttaches, ProvisionSucceeds, StopFails, StillHeard, threadVars
  <2> QED BY <1>4, <2>1, <2>2, <2>3, <2>4 DEF Run
<1>5. CASE Host
  <2>1. NoneParked
    BY <1>5, SameRows
    DEF Host, HostDisconnects, Crash, CommandUndelivered, GraceExpires,
        InteractionGraceExpires, HostReturns
  <2>2. CASE HostReturns
    BY <2>1, <2>2 DEF HostReturns, AfterAsking, StillHeard
  <2>3. CASE GraceExpires \/ InteractionGraceExpires
    BY <2>1, <2>3 DEF GraceExpires, InteractionGraceExpires, AfterAsking, StillHeard
  <2>4. ASSUME NEW delivered \in BOOLEAN, HostDisconnects(delivered)
        PROVE  StillHeard
    BY <2>4 DEF HostDisconnects, StillHeard
  <2>5. ASSUME NEW i \in DOMAIN lane, CommandUndelivered(i)
        PROVE  StillHeard
    BY <2>5 DEF CommandUndelivered, StillHeard
  <2>6. ASSUME NEW delivered \in BOOLEAN, Crash(delivered)
        PROVE  FALSE
    BY <2>6 DEF Crash
  <2> QED BY <1>5, <2>1, <2>2, <2>3, <2>4, <2>5, <2>6 DEF Host
<1> QED BY <1>3, <1>4, <1>5

LEMMA InteractionStep == InteractionInv /\ [Next]_vars => InteractionInv'
PROOF
<1> SUFFICES ASSUME InteractionInv, [Next]_vars
             PROVE  InteractionInv'
  OBVIOUS
<1>1. HoldingInv /\ HoldingInv' /\ HistoryInv /\ HistoryInv'
  BY HoldingStep, SpentStep DEF InteractionInv
<1>2. ASSUME Spared({"crash", "now"})'
      PROVE  InteractionFacts'
  <2>1. Spared({"crash", "now"}) /\ ~Spend("crash") /\ ~Spend("now")
    BY <1>1, <1>2, SparedBefore DEF Disturbance
  <2>2. InteractionFacts
    BY <2>1 DEF InteractionInv
  <2>3. CASE UNCHANGED vars
    BY <2>2, <2>3, SameRows, UnparkedKeeps DEF vars, threadVars, StillHeard
  <2>4. CASE Next
    BY <1>1, <2>1, <2>2, <2>4, UserUnparks, DispatchWaits, RunUnparks, UnparkedKeeps
    DEF Next
  <2> QED BY <2>3, <2>4
<1> QED BY <1>1, <1>2 DEF InteractionInv

\* InteractionWakes: as long as the server lives and nobody sends by hand, a row
\* waits for an interaction only while one is open or its end is being handled.
THEOREM InteractionsWake == Spec => []InteractionWakes
PROOF
<1>1. Init => InteractionInv
  <2> SUFFICES ASSUME Init
               PROVE  InteractionInv
    OBVIOUS
  <2>1. HistoryInv
    BY InitialTypes, BudgetNatural DEF Init, HistoryInv, SpentInv
  <2>2. InteractionFacts
    BY TokensDistinct DEF Init, QueueInit, InteractionFacts, WaitsForUser, Row
  <2> QED BY <2>1, <2>2, HoldingInit DEF InteractionInv
<1>2. InteractionInv => InteractionWakes
  BY DEF InteractionInv, InteractionWakes, InteractionFacts, WaitsForUser, Parked, Live
<1> QED BY <1>1, <1>2, InteractionStep, PTL DEF Spec
-----------------------------------------------------------------------------
(* The order of the rows: no two have one key, for a key is taken anew for   *)
(* each row and leaves with it.                                              *)

KeysInv ==
  \A m \in Msgs : Row(m) =>
    key[m] <= created /\ \A n \in Msgs \ {m} : Row(n) => key[n] # key[m]

\* The queue has the rows it had, or some of them.
NoNewRows ==
  /\ created' = created
  /\ \A m \in Msgs : Row(m)' => Row(m) /\ key'[m] = key[m]

LEMMA NoNewRowsKeeps ==
  ASSUME KeysInv, NoNewRows
  PROVE  KeysInv'
PROOF BY DEF KeysInv, NoNewRows

LEMMA CreateKeeps ==
  ASSUME QueueTypeOK, KeysInv, NEW m \in Msgs, ~Row(m), NEW reason, Create(m, reason)
  PROVE  KeysInv'
PROOF
<1>1. /\ created \in Nat /\ created' = created + 1
      /\ key'[m] = created + 1 /\ \A n \in Msgs \ {m} : key'[n] = key[n]
      /\ \A n \in Msgs \ {m} : Row(n)' <=> Row(n)
      /\ key \in [Msgs -> Nat]
  BY DEF Create, QueueTypeOK, Row
<1>2. \A n \in Msgs \ {m} : Row(n)' => key'[n] <= created
  BY <1>1 DEF KeysInv
<1>3. ASSUME NEW n \in Msgs, Row(n)', NEW k \in Msgs \ {n}, Row(k)'
      PROVE  key'[k] # key'[n]
  BY <1>1, <1>2, <1>3 DEF KeysInv
<1>4. \A n \in Msgs : Row(n)' => key'[n] <= created'
  BY <1>1, <1>2
<1> QED BY <1>3, <1>4 DEF KeysInv

LEMMA AttemptKeys ==
  ASSUME HoldingInv, KeysInv, NEW w \in Workers, Working(w)
  PROVE  /\ \A why : GiveUp(w, why) => KeysInv'
         /\ \A reason : QueueOn(w, reason) => KeysInv'
         /\ Reattempt(w) => KeysInv'
         /\ Deliver(w) => KeysInv'
PROOF
<1>0. QueueTypeOK
  BY DEF HoldingInv, TypeOK
<1>1. ASSUME NEW why, GiveUp(w, why)
      PROVE  KeysInv'
  <2>1. CASE job[w].kind = "inline"
    <3>1. NoNewRows
      BY <1>0, <1>1, <2>1, InlineAlone DEF GiveUp, Settle, NoNewRows, Row, QueueTypeOK
    <3> QED BY <3>1, NoNewRowsKeeps
  <2>2. CASE job[w].kind # "inline"
    <3>1. NoNewRows
      BY <1>1, <2>2 DEF GiveUp, Release, ReleaseOffline, ReleaseFailed, NoNewRows, Row
    <3> QED BY <3>1, NoNewRowsKeeps
  <2> QED BY <2>1, <2>2
<1>2. ASSUME NEW reason, QueueOn(w, reason)
      PROVE  KeysInv'
  <2>1. CASE job[w].kind = "inline"
    <3>1. job[w].cur \in Msgs /\ ~Row(job[w].cur) /\ Create(job[w].cur, reason)
      BY <1>2, <2>1, InlineAlone DEF QueueOn, Row
    <3> QED BY <1>0, <3>1, CreateKeeps
  <2>2. CASE job[w].kind # "inline"
    <3>1. NoNewRows
      BY <1>2, <2>2 DEF QueueOn, Requeue, NoNewRows, Row
    <3> QED BY <3>1, NoNewRowsKeeps
  <2> QED BY <2>1, <2>2
<1>3. ASSUME Reattempt(w)
      PROVE  KeysInv'
  <2>1. UNCHANGED queueVars => NoNewRows
    BY DEF queueVars, NoNewRows, Row
  <2> QED BY <1>1, <1>3, <2>1, NoNewRowsKeeps DEF Reattempt
<1>4. ASSUME Deliver(w)
      PROVE  KeysInv'
  <2>1. CASE job[w].kind = "inline"
    <3>1. NoNewRows
      BY <1>0, <1>4, <2>1, InlineAlone DEF Deliver, Settle, NoNewRows, Row, QueueTypeOK
    <3> QED BY <3>1, NoNewRowsKeeps
  <2>2. CASE job[w].kind # "inline"
    <3>1. NoNewRows
      BY <1>4, <2>2 DEF Deliver, Remove, NoNewRows, Row
    <3> QED BY <3>1, NoNewRowsKeeps
  <2> QED BY <2>1, <2>2
<1> QED BY <1>1, <1>2, <1>3, <1>4

LEMMA KeysStep == HoldingInv /\ KeysInv /\ [Next]_vars => KeysInv'
PROOF
<1> SUFFICES ASSUME HoldingInv, KeysInv, [Next]_vars
             PROVE  KeysInv'
  OBVIOUS
<1>0. QueueTypeOK
  BY DEF HoldingInv, TypeOK
<1>1. /\ UNCHANGED queueVars => NoNewRows
      /\ \A kind : ClearWaits(kind) => NoNewRows
      /\ \A S, w, cut : Claim(S, w, cut) => NoNewRows
      /\ ReleaseOrphans => NoNewRows
  BY DEF queueVars, ClearWaits, Claim, ReleaseOrphans, NoNewRows, Row
<1>2. ASSUME NEW w \in Workers, NEW m \in Msgs, NEW mode, UserSends(w, m, mode)
      PROVE  NoNewRows
  BY <1>0, <1>2 DEF UserSends, Settle, NoNewRows, Row, QueueTypeOK
<1>3. ASSUME NEW m \in Msgs, UserQueues(m)
      PROVE  KeysInv'
  <2>1. ~Row(m) /\ \E reason : Create(m, reason)
    BY <1>3 DEF UserQueues, Row
  <2> QED BY <1>0, <2>1, CreateKeeps
<1>4. ASSUME NEW m \in Msgs, UserDeletes(m) \/ UserGroups(m)
      PROVE  NoNewRows
  BY <1>4 DEF UserDeletes, UserGroups, Remove, GroupUpTo, NoNewRows, Row
<1>5. ASSUME NEW gone, StopThread(gone)
      PROVE  NoNewRows
  BY <1>1, <1>5 DEF StopThread, StopRun, StopPreStart
<1>6. CASE User
  <2>1. CASE UserStops \/ UserArchives \/ UserUnarchives \/ Answered
    BY <1>1, <1>5, <2>1, NoNewRowsKeeps
    DEF UserStops, UserArchives, UserUnarchives, Answered
  <2>2. CASE \E w \in Workers, m \in Msgs : UserSendsNow(w, m)
    BY <1>1, <2>2, NoNewRowsKeeps DEF UserSendsNow
  <2> QED BY <1>2, <1>3, <1>4, <1>6, <2>1, <2>2, NoNewRowsKeeps DEF User
<1>7. CASE Dispatch
  <2>1. ASSUME NEW w \in Workers, Advance(w) \/ Disturb(w), ~WalkOn(w), ~CheckPasses(w)
        PROVE  KeysInv'
    <3>1. Working(w)
      BY <2>1
      DEF Advance, Disturb, CheckWaits, CheckMoved, CheckArchived, FastSend, SendStart,
          SendJoin, Admit, CommitMoved, CommitFails, PluginHolds, AttemptFails,
          Checking, Working
    <3>2. \/ \E why : GiveUp(w, why)
          \/ \E reason : QueueOn(w, reason)
          \/ Reattempt(w) \/ Deliver(w)
      BY <2>1
      DEF Advance, Disturb, CheckWaits, CheckMoved, CheckArchived, FastSend, SendStart,
          SendJoin, Admit, CommitMoved, CommitFails, PluginHolds, AttemptFails
    <3> QED BY <3>1, <3>2, AttemptKeys
  <2>2. ASSUME NEW w \in Workers,
               WalkOn(w) \/ CheckPasses(w) \/ Drain(w) \/ \E wake \in Walks : StartWalk(w, wake)
        PROVE  NoNewRows
    BY <1>1, <2>2 DEF WalkOn, CheckPasses, Drain, StartWalk
  <2>3. CASE DrainJoins \/ InteractionSettled \/ PluginRechecks
             \/ \E stale \in BOOLEAN : Sweep(stale)
    BY <1>1, <2>3, NoNewRowsKeeps DEF DrainJoins, InteractionSettled, PluginRechecks, Sweep
  <2> QED BY <1>7, <2>1, <2>2, <2>3, NoNewRowsKeeps DEF Dispatch
<1>8. CASE Daemon \/ Run \/ (Host /\ ~\E delivered \in BOOLEAN : Crash(delivered))
  <2>1. NoNewRows
    BY <1>1, <1>5, <1>8
    DEF Daemon, CommandAccepted, CommandRejected, TurnStarted, TurnSteered,
        TurnCompleted, TurnEndsUnheard, LateCompletion, Asks, DaemonStops, DaemonDies,
        Run, EnvironmentAttaches, ProvisionSucceeds, ProvisionFails, StopSettled,
        StopFails, SweepArchived, Host, HostDisconnects, CommandUndelivered,
        GraceExpires, InteractionGraceExpires, HostReturns
  <2> QED BY <2>1, NoNewRowsKeeps
<1>9. ASSUME NEW delivered \in BOOLEAN, Crash(delivered)
      PROVE  NoNewRows
  BY <1>0, <1>9 DEF Crash, Abandon, NoNewRows, Row, QueueTypeOK
<1>10. CASE UNCHANGED vars
  BY <1>1, <1>10, NoNewRowsKeeps DEF vars
<1> QED BY <1>6, <1>7, <1>8, <1>9, <1>10, NoNewRowsKeeps DEF Next
-----------------------------------------------------------------------------
(* Waiting for the host.  Where nothing is grouped the walk of a returned     *)
(* host takes its rows one by one, and each may go: the attempt that holds    *)
(* one is a walk's, heeds no pause for it, and if it gives the row back says  *)
(* that it failed, or that the host is away again.                            *)

WaitsForHost(m) == Row(m) /\ wait[m] = "host-offline"

HeldByWalk(m) ==
  LET j == job[token[m]] IN j.kind = "auto" /\ j.cur = m /\ j.pausable = FALSE

Expected(m) ==
  \/ ~hostUp \/ "host-connected" \in wakes
  \/ \E w \in Workers : m \in job[w].todo

\* An attempt that read of an environment is right for good, and only walks
\* have rows ahead of them.
JobFits(w) ==
  /\ job[w].home \/ job[w].snap.env => setup # "none"
  /\ job[w].kind # "auto" \/ job[w].pc = "idle" => job[w].todo = {}

RowFits(m) ==
  /\ token[m] # Orphan /\ edge[m] = FALSE
  /\ WaitsForHost(m) =>
       /\ setup # "none"
       /\ token[m] \in Workers => HeldByWalk(m)
       /\ Live(m) /\ ~failed[m] => Expected(m)

HostFacts ==
  /\ archived = FALSE
  /\ \A w \in Workers : JobFits(w)
  /\ \A m \in Msgs : RowFits(m)

HostInv ==
  /\ NotedInv /\ HistoryInv /\ KeysInv
  /\ Spared({"crash", "now", "fault", "archive", "group"}) => HostFacts

\* Without edges every group is one row.
LEMMA GroupsAreRows ==
  ASSUME QueueTypeOK, KeysInv, \A k \in Msgs : edge[k] = FALSE, NEW m \in Msgs, Live(m)
  PROVE  GroupOf(m) = {m}
PROOF
<1>1. \A k \in Msgs : edge[k] = FALSE /\ key[k] \in Nat
  BY DEF QueueTypeOK
<1>2. ASSUME NEW n \in GroupOf(m), n # m
      PROVE  FALSE
  <2>1. n \in LiveRows /\ m \in LiveRows /\ Linked(m, n) /\ Linked(n, m)
    BY <1>2 DEF GroupOf, LiveRows
  <2>2. n \in Msgs /\ ~(key[m] < key[n]) /\ ~(key[n] < key[m])
    BY <1>1, <2>1 DEF Linked, LiveRows
  <2>3. key[m] # key[n]
    BY <1>2, <2>1, <2>2 DEF KeysInv, LiveRows, Live
  <2> QED BY <1>1, <2>2, <2>3
<1> QED BY <1>2, GroupIsLive

\* What a step may do to a row that waits for the host: leave it, its claim and
\* its attempt alone, or give it back, failed or to wait for a host that is away.
RowKept(m) ==
  /\ token'[m] # Orphan /\ edge'[m] = FALSE
  /\ WaitsForHost(m)' =>
       \/ token'[m] = None /\ setup' # "none" /\ (failed'[m] \/ ~hostUp')
       \/ /\ WaitsForHost(m) /\ token'[m] = token[m] /\ (failed[m] => failed'[m])
          /\ token[m] \in Workers =>
               /\ job'[token[m]].kind = job[token[m]].kind
               /\ job'[token[m]].cur = job[token[m]].cur
               /\ job'[token[m]].pausable = job[token[m]].pausable

HostKept ==
  /\ archived' = FALSE
  /\ setup # "none" => setup' # "none"
  /\ "host-connected" \in wakes => "host-connected" \in wakes'
  /\ hostUp' => hostUp \/ "host-connected" \in wakes'
  /\ \A w \in Workers : job[w].todo \subseteq job'[w].todo

LEMMA HostKeeps ==
  ASSUME HostFacts, HostKept, \A w \in Workers : JobFits(w)', \A m \in Msgs : RowKept(m)
  PROVE  HostFacts'
PROOF
<1>1. \A m \in Msgs : Expected(m) => Expected(m)'
  BY DEF HostKept, Expected
<1>2. ASSUME NEW m \in Msgs, WaitsForHost(m)'
      PROVE  /\ setup' # "none"
             /\ token'[m] \in Workers => HeldByWalk(m)'
             /\ Live(m)' /\ ~failed'[m] => Expected(m)'
  <2>1. CASE token'[m] = None /\ setup' # "none" /\ (failed'[m] \/ ~hostUp')
    BY <2>1, TokensDistinct DEF Expected
  <2>2. CASE /\ WaitsForHost(m) /\ token'[m] = token[m] /\ (failed[m] => failed'[m])
             /\ token[m] \in Workers =>
                  /\ job'[token[m]].kind = job[token[m]].kind
                  /\ job'[token[m]].cur = job[token[m]].cur
                  /\ job'[token[m]].pausable = job[token[m]].pausable
    BY <1>1, <2>2
    DEF HostFacts, RowFits, HostKept, HeldByWalk, Live, WaitsForHost
  <2> QED BY <1>2, <2>1, <2>2 DEF RowKept
<1>3. \A m \in Msgs : token'[m] # Orphan /\ edge'[m] = FALSE
  BY DEF RowKept
<1>4. \A m \in Msgs : RowFits(m)'
  BY <1>2, <1>3 DEF RowFits
<1> QED BY <1>4 DEF HostFacts, HostKept

\* A step that changes no row and no attempt.
LEMMA SameHostRows ==
  ASSUME HostFacts, UNCHANGED <<queueVars, job>>
  PROVE  \A m \in Msgs : RowKept(m)
PROOF BY DEF HostFacts, RowFits, RowKept, WaitsForHost, Row, queueVars

LEMMA ClearHostRows ==
  ASSUME TypeOK, HostFacts, NEW kind, ClearWaits(kind), UNCHANGED job
  PROVE  \A m \in Msgs : RowKept(m)
PROOF
<1>1. \A m \in Msgs : wait'[m] = wait[m] \/ wait'[m] = "none"
  BY DEF ClearWaits, TypeOK, QueueTypeOK
<1> QED BY <1>1 DEF HostFacts, RowFits, RowKept, WaitsForHost, Row, ClearWaits

LEMMA SameJobs ==
  ASSUME HostFacts, UNCHANGED job, setup # "none" => setup' # "none"
  PROVE  /\ \A w \in Workers : JobFits(w)'
         /\ \A w \in Workers : job[w].todo \subseteq job'[w].todo
PROOF BY DEF HostFacts, JobFits

-----------------------------------------------------------------------------
(* The steps of an attempt.  What it held when it ended, it holds no more.    *)

LEMMA EndFits ==
  ASSUME TypeOK, HostFacts, NEW w \in Workers, EndAttempt(w), UNCHANGED setup
  PROVE  \A v \in Workers :
           /\ JobFits(v)' /\ job'[v].todo = job[v].todo
           /\ v # w => job'[v] = job[v]
PROOF
<1>1. /\ \A v \in Workers \ {w} : job'[v] = job[v]
      /\ job'[w] = IF job[w].kind = "auto" THEN Walk(job[w].todo) ELSE NoJob
  BY DEF EndAttempt, TypeOK
<1>2. JobFits(w) /\ \A v \in Workers : JobFits(v)
  BY DEF HostFacts
<1>3. JobFits(w)' /\ job'[w].todo = job[w].todo
  <2>1. CASE job[w].kind = "auto"
    <3>1. /\ job'[w].home = FALSE /\ job'[w].snap.env = FALSE
          /\ job'[w].kind = "auto" /\ job'[w].pc = "walk"
          /\ job'[w].todo = job[w].todo
      BY <1>1, <2>1 DEF Walk, NoJob, NoSnapshot
    <3> QED BY <3>1 DEF JobFits
  <2>2. CASE job[w].kind # "auto"
    <3>1. /\ job'[w].home = FALSE /\ job'[w].snap.env = FALSE
          /\ job'[w].todo = {}
      BY <1>1, <2>2 DEF NoJob, NoSnapshot
    <3>2. job[w].todo = {}
      BY <1>2, <2>2 DEF JobFits
    <3> QED BY <3>1, <3>2 DEF JobFits
  <2> QED BY <2>1, <2>2
<1>4. \A v \in Workers \ {w} : JobFits(v)'
  BY <1>1, <1>2 DEF JobFits
<1> QED BY <1>1, <1>3, <1>4

\* An attempt ends: every row that waits for the host was given back in order,
\* or is not the attempt's.
RowReturned(w, m) ==
  /\ token'[m] # Orphan /\ edge'[m] = FALSE
  /\ WaitsForHost(m)' =>
       \/ token'[m] = None /\ setup # "none" /\ (failed'[m] \/ ~hostUp)
       \/ /\ WaitsForHost(m) /\ token'[m] = token[m] /\ token[m] # w
          /\ failed[m] => failed'[m]

LEMMA EndHost ==
  ASSUME TypeOK, HostFacts, NEW w \in Workers, EndAttempt(w),
         UNCHANGED <<setup, archived, wakes, hostUp>>,
         \A m \in Msgs : RowReturned(w, m)
  PROVE  HostFacts'
PROOF
<1>1. \A v \in Workers :
        /\ JobFits(v)' /\ job'[v].todo = job[v].todo
        /\ v # w => job'[v] = job[v]
  BY EndFits
<1>2. HostKept
  BY <1>1 DEF HostKept, HostFacts
<1>3. ASSUME NEW m \in Msgs
      PROVE  RowKept(m)
  BY <1>1, <1>3 DEF RowReturned, RowKept
<1> QED BY <1>1, <1>2, <1>3, HostKeeps

LEMMA InlineHost ==
  ASSUME HoldingInv, HostFacts, NEW w \in Workers, Working(w), job[w].kind = "inline",
         NEW where \in {"refused", "sent"}, Settle(job[w].cur, where)
  PROVE  \A m \in Msgs : RowReturned(w, m)
PROOF
<1>1. /\ UNCHANGED <<wait, failed, token, edge>>
      /\ \A m \in Msgs : place'[m] = "queue" => place[m] = "queue"
  BY InlineAlone DEF Settle, HoldingInv, TypeOK, QueueTypeOK
<1>2. \A m \in Msgs : token[m] # w /\ token[m] # Orphan /\ edge[m] = FALSE
  BY DEF HoldingInv, ClaimsHaveOwners, HostFacts, RowFits
<1> QED BY <1>1, <1>2 DEF RowReturned, WaitsForHost, Row

\* Whatever an automatic attempt gives up for, short of a pause or a timeout, is
\* recorded on the row it answers for.
LEMMA GiveUpReturns ==
  ASSUME HoldingInv, HostFacts, NEW w \in Workers, Working(w),
         NEW why \in {"paused", "claim-lost", "error"}, why = "paused" => PauseStops(w),
         GiveUp(w, why)
  PROVE  \A m \in Msgs : RowReturned(w, m)
PROOF
<1>0. /\ QueueTypeOK
      /\ \A m \in Msgs : token[m] # Orphan /\ edge[m] = FALSE
      /\ \A m \in Msgs : token[m] = w => m \in job[w].rows
  BY DEF HoldingInv, TypeOK, ClaimsHaveOwners, HostFacts, RowFits
<1>1. CASE job[w].kind = "inline"
  BY <1>1, InlineHost DEF GiveUp
<1>2. CASE job[w].kind # "inline"
  <2>1. /\ place' = place /\ edge' = edge /\ token' = Unclaimed(job[w].rows, w)
    BY <1>2 DEF GiveUp, Release, ReleaseOffline, ReleaseFailed
  <2>2. ASSUME NEW m \in Msgs
        PROVE  token'[m] = IF token[m] = w THEN None ELSE token[m]
    BY <1>0, <2>1, <2>2 DEF Unclaimed
  <2>3. ASSUME NEW m \in Msgs, WaitsForHost(m), token[m] = w
        PROVE  Recorded(w, why) /\ job[w].cur = m
    <3>1. HeldByWalk(m)
      BY <2>3 DEF HostFacts, RowFits
    <3>2. why # "paused"
      BY <2>3, <3>1 DEF HeldByWalk, PauseStops
    <3> QED BY <2>3, <3>1, <3>2 DEF HeldByWalk, Recorded
  <2>4. CASE ~Recorded(w, why)
    <3>1. UNCHANGED <<wait, failed>>
      BY <1>2, <2>4 DEF GiveUp, Release
    <3> QED BY <1>0, <2>1, <2>2, <2>3, <2>4, <3>1, TokensDistinct
        DEF RowReturned, WaitsForHost, Row
  <2>5. CASE Recorded(w, why) /\ job[w].home /\ ~hostUp
    <3>1. /\ setup # "none"
          /\ ReleaseOffline(job[w].rows, w, job[w].cur)
      BY <1>2, <2>5 DEF GiveUp, HostFacts, JobFits
    <3>2. ASSUME NEW m \in Msgs
          PROVE  \/ wait'[m] = wait[m] /\ failed'[m] = failed[m]
                    /\ ~(m = job[w].cur /\ Row(m) /\ token'[m] = None)
                 \/ token'[m] = None
      BY <1>0, <2>1, <3>1 DEF ReleaseOffline, QueueTypeOK
    <3> QED BY <1>0, <2>1, <2>2, <2>3, <2>5, <3>1, <3>2, TokensDistinct
        DEF RowReturned, WaitsForHost, Row
  <2>6. CASE Recorded(w, why) /\ ~(job[w].home /\ ~hostUp)
    <3>1. ReleaseFailed(job[w].rows, w, job[w].cur)
      BY <1>2, <2>6 DEF GiveUp
    <3>2. wait' = wait /\ \A m \in Msgs :
            /\ failed[m] => failed'[m]
            /\ m = job[w].cur /\ Row(m) /\ token'[m] = None => failed'[m]
      BY <1>0, <2>1, <3>1 DEF ReleaseFailed, QueueTypeOK
    <3>3. \A m \in Msgs : WaitsForHost(m) => setup # "none"
      BY DEF HostFacts, RowFits
    <3> QED BY <1>0, <2>1, <2>2, <2>3, <3>2, <3>3, TokensDistinct
        DEF RowReturned, WaitsForHost, Row
  <2> QED BY <2>4, <2>5, <2>6
<1> QED BY <1>1, <1>2

LEMMA QueueOnReturns ==
  ASSUME HoldingInv, HostFacts, NEW w \in Workers, Working(w), NEW reason,
         reason = "host-offline" => ~hostUp /\ setup # "none", QueueOn(w, reason)
  PROVE  \A m \in Msgs : RowReturned(w, m)
PROOF
<1>0. /\ QueueTypeOK
      /\ \A m \in Msgs : token[m] # Orphan /\ edge[m] = FALSE
      /\ \A m \in Msgs : token[m] = w =>
           m \in job[w].rows /\ job[w].kind # "inline" /\ Row(m)
  BY DEF HoldingInv, TypeOK, ClaimsHaveOwners, HostFacts, RowFits
<1>1. CASE job[w].kind = "inline"
  <2> DEFINE c == job[w].cur
  <2>1. c \in Msgs /\ token[c] = None
    BY <1>0, <1>1, InlineAlone DEF HoldingInv, ClaimsHaveOwners, Row, QueueTypeOK
  <2>2. /\ UNCHANGED <<token, edge, failed>>
        /\ wait'[c] = reason
        /\ \A m \in Msgs \ {c} : wait'[m] = wait[m] /\ place'[m] = place[m]
    BY <1>0, <1>1, <2>1 DEF QueueOn, Create, QueueTypeOK
  <2> QED BY <1>0, <1>1, <2>1, <2>2 DEF RowReturned, WaitsForHost, Row
<1>2. CASE job[w].kind # "inline"
  <2>1. /\ UNCHANGED <<place, edge>>
        /\ \A m \in Msgs :
             /\ token[m] = w => token'[m] = None /\ wait'[m] = reason
             /\ token[m] # w => /\ token'[m] = token[m] /\ wait'[m] = wait[m]
                                /\ failed'[m] = failed[m]
    BY <1>0, <1>2 DEF QueueOn, Requeue, Unclaimed, QueueTypeOK
  <2> QED BY <1>0, <2>1, TokensDistinct DEF RowReturned, WaitsForHost, Row
<1> QED BY <1>1, <1>2

LEMMA DeliverReturns ==
  ASSUME HoldingInv, HostFacts, NEW w \in Workers, Working(w), Deliver(w)
  PROVE  \A m \in Msgs : RowReturned(w, m)
PROOF
<1>0. /\ QueueTypeOK
      /\ \A m \in Msgs : token[m] # Orphan /\ edge[m] = FALSE
      /\ \A m \in Msgs : token[m] = w => m \in job[w].rows
  BY DEF HoldingInv, TypeOK, ClaimsHaveOwners, HostFacts, RowFits
<1>1. CASE job[w].kind = "inline"
  BY <1>1, InlineHost DEF Deliver
<1>2. CASE job[w].kind # "inline"
  <2>1. Remove(job[w].rows, "sent")
    BY <1>2 DEF Deliver
  <2>2. \A m \in Msgs :
          /\ m \in job[w].rows => token'[m] = None /\ place'[m] = "sent"
          /\ m \notin job[w].rows =>
               /\ token'[m] = token[m] /\ place'[m] = place[m]
               /\ wait'[m] = wait[m] /\ failed'[m] = failed[m]
    BY <1>0, <2>1 DEF Remove, QueueTypeOK
  <2>3. \A m \in Msgs : edge'[m] = FALSE
    BY <1>0, <2>1 DEF Remove, EdgesWithout
  <2> QED BY <1>0, <2>2, <2>3, TokensDistinct DEF RowReturned, WaitsForHost, Row
<1> QED BY <1>1, <1>2

\* An attempt that reads the thread again, or goes on to its commit.
LEMMA ProceedHost ==
  ASSUME TypeOK, HostFacts, NEW w \in Workers, Working(w),
         UNCHANGED <<queueVars, setup, archived, wakes, hostUp>>,
         \A v \in Workers :
           /\ job'[v].kind = job[v].kind /\ job'[v].cur = job[v].cur
           /\ job'[v].pausable = job[v].pausable /\ job'[v].todo = job[v].todo
           /\ job'[v].home = job[v].home
           /\ job'[v].pc = "idle" => job[v].pc = "idle"
           /\ job'[v].snap.env => job[v].snap.env \/ setup # "none"
  PROVE  HostFacts'
PROOF
<1>1. HostKept
  BY DEF HostKept, HostFacts
<1>2. \A v \in Workers : JobFits(v)'
  BY DEF HostFacts, JobFits
<1>3. ASSUME NEW m \in Msgs
      PROVE  RowKept(m)
  BY <1>3 DEF HostFacts, RowFits, RowKept, WaitsForHost, Row, queueVars
<1> QED BY <1>1, <1>2, <1>3, HostKeeps

LEMMA ReattemptHost ==
  ASSUME HoldingInv, HostFacts, NEW w \in Workers, Working(w), Reattempt(w),
         UNCHANGED <<setup, archived, wakes, hostUp>>
  PROVE  HostFacts'
PROOF
<1>0. TypeOK /\ job \in [Workers -> Job]
  BY DEF HoldingInv, TypeOK
<1>1. CASE job[w].retried
  <2>1. GiveUp(w, "error")
    BY <1>1 DEF Reattempt
  <2>2. \A m \in Msgs : RowReturned(w, m)
    BY <2>1, GiveUpReturns
  <2> QED BY <1>0, <2>1, <2>2, EndHost DEF GiveUp
<1>2. CASE ~job[w].retried
  <2> DEFINE read == [job[w] EXCEPT !.snap = Now, !.retried = TRUE, !.pc = "check"]
  <2>1. job' = [job EXCEPT ![w] = read] /\ UNCHANGED queueVars
    BY <1>0, <1>2 DEF Reattempt
  <2>2. /\ read.kind = job[w].kind /\ read.cur = job[w].cur
        /\ read.pausable = job[w].pausable /\ read.todo = job[w].todo
        /\ read.home = job[w].home /\ read.pc = "check"
        /\ read.snap = Now
    BY <1>0 DEF Job
  <2> HIDE DEF read
  <2>3. Now.env => setup # "none"
    BY DEF Now
  <2>4. job'[w] = read /\ \A v \in Workers \ {w} : job'[v] = job[v]
    BY <1>0, <2>1
  <2>5. \A v \in Workers :
           /\ job'[v].kind = job[v].kind /\ job'[v].cur = job[v].cur
           /\ job'[v].pausable = job[v].pausable /\ job'[v].todo = job[v].todo
           /\ job'[v].home = job[v].home
           /\ job'[v].pc = "idle" => job[v].pc = "idle"
           /\ job'[v].snap.env => job[v].snap.env \/ setup # "none"
    BY <2>2, <2>3, <2>4
  <2> QED BY <1>0, <2>1, <2>5, ProceedHost
<1> QED BY <1>1, <1>2

\* The walk's next row is claimed alone, or left to those it still waits for.
LEMMA WalkHost ==
  ASSUME HoldingInv, KeysInv, HostFacts, NEW w \in Workers, WalkOn(w)
  PROVE  HostFacts'
PROOF
<1>0. /\ QueueTypeOK /\ job \in [Workers -> Job]
      /\ ~Working(w) /\ \A n \in Msgs : token[n] # w
      /\ UNCHANGED <<setup, archived, wakes, hostUp>>
      /\ archived' = FALSE /\ \A n \in Msgs : edge[n] = FALSE
  BY DEF RowFits, WalkOn, Working, HoldingInv, TypeOK, ClaimsHaveOwners, HostFacts,
     threadVars, hostVars
<1>1. \A v \in Workers \ {w} : job'[v] = job[v]
  BY <1>0 DEF WalkOn
<1>2. \A v \in Workers \ {w} : JobFits(v)'
  BY <1>0, <1>1 DEF HostFacts, JobFits
<1>3. CASE job[w].todo = {}
  <2>1. job'[w] = NoJob /\ UNCHANGED queueVars
    BY <1>0, <1>3 DEF WalkOn
  <2>2. JobFits(w)'
    BY <2>1 DEF JobFits, NoJob, NoSnapshot
  <2>3. HostKept
    BY <1>0, <1>1, <1>3, <2>1 DEF HostKept
  <2>4. \A n \in Msgs : RowKept(n)
    BY <1>0, <1>1, <2>1 DEF HostFacts, RowFits, RowKept, WaitsForHost, Row, queueVars
  <2> QED BY <1>2, <2>2, <2>3, <2>4, HostKeeps
<1>4. CASE job[w].todo # {}
  <2>0. PICK m \in Msgs : m = Lead(job[w].todo) /\ m \in job[w].todo
    <3>1. job[w].todo \in SUBSET Msgs
      BY <1>0 DEF Job
    <3>2. Lead(job[w].todo) \in job[w].todo
      BY <1>0, <1>4, <3>1, LeadIsMember
    <3> QED BY <3>1, <3>2
  <2>1. CASE Live(m) /\ Claimable(GroupOf(m))
    <3>1. GroupOf(m) = {m}
      BY <1>0, <2>0, <2>1, GroupsAreRows
    <3>2. /\ Claim({m}, w, {})
          /\ job' = [job EXCEPT ![w] = Attempt("auto", {m}, m, "auto", job[w].todo \ {m})]
      BY <1>4, <2>0, <2>1, <3>1 DEF WalkOn
    <3>3. /\ job'[w].kind = "auto" /\ job'[w].cur = m
          /\ job'[w].todo = job[w].todo \ {m}
          /\ job'[w].home => setup # "none"
          /\ job'[w].snap.env => setup # "none"
          /\ ~Ordinary(m) => job'[w].pausable = FALSE
          /\ job'[w].pc # "idle"
      <4>1. job'[w] = Attempt("auto", {m}, m, "auto", job[w].todo \ {m})
        BY <1>0, <3>2
      <4>2. FirstStep("auto") # "idle"
        BY DEF FirstStep
      <4>3. /\ job'[w].kind = "auto" /\ job'[w].cur = m /\ job'[w].pc # "idle"
            /\ job'[w].todo = job[w].todo \ {m}
        BY <4>1, <4>2 DEF Attempt
      <4>4. (job'[w].home => setup # "none") /\ (job'[w].snap.env => setup # "none")
        <5>1. job'[w].home = (setup # "none") /\ job'[w].snap = Now
          BY <4>1 DEF Attempt
        <5>2. Now.env = (setup # "none")
          BY DEF Now
        <5> QED BY <5>1, <5>2
      <4>5. ASSUME ~Ordinary(m)
            PROVE  job'[w].pausable = FALSE
        <5>1. job'[w].pausable
                = ("auto" \in {"drain", "auto"} /\ \E n \in {m} : Ordinary(n))
          BY <4>1 DEF Attempt
        <5>2. ~\E n \in {m} : Ordinary(n)
          BY <4>5
        <5> QED BY <5>1, <5>2
      <4> QED BY <4>3, <4>4, <4>5
    <3>4. JobFits(w)'
      BY <1>0, <3>3 DEF JobFits
    <3>5. /\ UNCHANGED <<place, wait, failed>> /\ token'[m] = w
          /\ \A n \in Msgs \ {m} : token'[n] = token[n]
          /\ \A n \in Msgs : edge'[n] = FALSE
      BY <2>0, <3>2 DEF Claim, HostFacts, RowFits
    <3>6. RowFits(m)'
      <4>1. WaitsForHost(m)' => setup' # "none" /\ HeldByWalk(m)'
        BY <1>0, <2>0, <3>3, <3>5
        DEF WaitsForHost, Row, HeldByWalk, Ordinary, OrdinaryWait, HostFacts, RowFits
      <4> QED BY <2>0, <3>5, <4>1, TokensDistinct DEF RowFits, Live
    <3>7. ASSUME NEW n \in Msgs \ {m}
          PROVE  RowFits(n)'
      <4>1. Expected(n) => Expected(n)'
        BY <1>0, <1>1, <3>3, <3>7 DEF Expected
      <4>2. HeldByWalk(n) /\ token[n] \in Workers => HeldByWalk(n)'
        BY <1>0, <1>1, <3>5, <3>7 DEF HeldByWalk
      <4> QED BY <1>0, <3>5, <3>7, <4>1, <4>2
          DEF HostFacts, RowFits, WaitsForHost, Live, Row
    <3> QED BY <1>0, <1>2, <3>4, <3>6, <3>7 DEF HostFacts
  <2>2. CASE ~(Live(m) /\ Claimable(GroupOf(m)))
    <3>1. job' = [job EXCEPT ![w] = Walk(job[w].todo \ {m})] /\ UNCHANGED queueVars
      BY <1>4, <2>0, <2>2 DEF WalkOn
    <3>2. job'[w].todo = job[w].todo \ {m} /\ job'[w].kind = "auto" /\ job'[w].pc = "walk"
          /\ job'[w].home = FALSE /\ job'[w].snap.env = FALSE
      BY <1>0, <3>1 DEF Walk, NoJob, NoSnapshot
    <3>3. JobFits(w)'
      BY <3>2 DEF JobFits
    <3>4. ASSUME NEW n \in Msgs, WaitsForHost(n), Live(n), ~failed[n], Expected(n)
          PROVE  Expected(n)'
      <4>1. CASE n # m
        BY <1>0, <1>1, <3>2, <3>4, <4>1 DEF Expected
      <4>2. CASE n = m
        <5>1. GroupOf(m) = {m} /\ ~Claimable({m})
          BY <1>0, <2>0, <2>2, <3>4, <4>2, GroupsAreRows
        <5>2. ~hostUp
          BY <3>4, <4>2, <5>1
          DEF Claimable, AutoClaimAllowed, WaitCleared, Ordinary, OrdinaryWait,
              WaitsForHost, HostFacts, RowFits
        <5> QED BY <1>0, <5>2 DEF Expected
      <4> QED BY <4>1, <4>2
    <3>5. ASSUME NEW n \in Msgs
          PROVE  RowFits(n)'
      <4>1. HeldByWalk(n) /\ token[n] \in Workers => HeldByWalk(n)'
        BY <1>0, <1>1, <3>1, <3>5 DEF HeldByWalk, queueVars
      <4> QED BY <1>0, <3>1, <3>4, <3>5, <4>1
          DEF HostFacts, RowFits, WaitsForHost, Live, Row, queueVars
    <3> QED BY <1>0, <1>2, <3>3, <3>5 DEF HostFacts
  <2> QED BY <2>1, <2>2
<1> QED BY <1>3, <1>4

LEMMA AdvanceHost ==
  ASSUME HoldingInv, KeysInv, HostFacts, NEW w \in Workers, Advance(w) \/ Disturb(w),
         ~Spend("fault")
  PROVE  HostFacts'
PROOF
<1>0. /\ TypeOK /\ job \in [Workers -> Job] /\ JobFits(w)
      /\ job[w].pc \in {"fast", "check", "send", "admit"} => Working(w)
  BY DEF HoldingInv, TypeOK, Working, HostFacts
<1>1. UNCHANGED <<setup, archived, wakes, hostUp>>
  BY DEF Advance, Disturb, WalkOn, CheckWaits, CheckPasses, CheckMoved, CheckArchived,
     FastSend, SendStart, SendJoin, Admit, CommitMoved, CommitFails, PluginHolds,
     AttemptFails, RequestStart, threadVars, hostVars
<1>2. ASSUME NEW why \in {"paused", "claim-lost", "error"}, GiveUp(w, why), Working(w),
             why = "paused" => PauseStops(w)
      PROVE  HostFacts'
  <2>1. \A m \in Msgs : RowReturned(w, m)
    BY <1>0, <1>2, GiveUpReturns
  <2> QED BY <1>0, <1>1, <1>2, <2>1, EndHost DEF GiveUp
<1>3. ASSUME NEW reason, QueueOn(w, reason), Working(w),
             reason = "host-offline" => ~hostUp /\ setup # "none"
      PROVE  HostFacts'
  <2>1. \A m \in Msgs : RowReturned(w, m)
    BY <1>0, <1>3, QueueOnReturns
  <2> QED BY <1>0, <1>1, <1>3, <2>1, EndHost DEF QueueOn
<1>4. CASE WalkOn(w)
  BY <1>4, WalkHost
<1>5. CASE CheckWaits(w)
  <2>1. EarlyWait(job[w]) = "host-offline" => ~hostUp /\ setup # "none"
    BY <1>0 DEF EarlyWait, JobFits
  <2>2. LateWait(job[w]) # "host-offline"
    BY DEF LateWait
  <2> QED BY <1>0, <1>3, <1>5, <2>1, <2>2 DEF CheckWaits, Checking
<1>6. CASE PluginHolds(w)
  BY <1>0, <1>3, <1>6 DEF PluginHolds, Checking
<1>7. CASE CheckPasses(w)
  <2> DEFINE pc == IF First(job[w].snap) THEN "admit" ELSE "send"
  <2>1. job' = [job EXCEPT ![w] = [job[w] EXCEPT !.pc = pc]] /\ pc # "idle"
    BY <1>0, <1>7 DEF CheckPasses
  <2> HIDE DEF pc
  <2>2. Working(w)
    BY <1>0, <1>7 DEF CheckPasses, Checking
  <2>3. \A v \in Workers :
           /\ job'[v].kind = job[v].kind /\ job'[v].cur = job[v].cur
           /\ job'[v].pausable = job[v].pausable /\ job'[v].todo = job[v].todo
           /\ job'[v].home = job[v].home
           /\ job'[v].pc = "idle" => job[v].pc = "idle"
           /\ job'[v].snap = job[v].snap
    BY <1>0, <2>1 DEF Job
  <2> QED BY <1>0, <1>1, <1>7, <2>2, <2>3, ProceedHost DEF CheckPasses
<1>8. CASE CheckMoved(w) \/ CommitMoved(w)
  BY <1>0, <1>1, <1>8, ReattemptHost DEF CheckMoved, CommitMoved, Checking
<1>9. CASE CheckArchived(w) \/ CommitFails(w)
  <2>1. PICK why \in {"paused", "claim-lost", "error"} :
          GiveUp(w, why) /\ (why = "paused" => PauseStops(w))
    BY <1>9 DEF CheckArchived, CommitFails
  <2>2. Working(w)
    BY <1>0, <1>9 DEF CheckArchived, CommitFails
  <2> QED BY <1>2, <2>1, <2>2
<1>10. ASSUME NEW why, AttemptFails(w, why)
       PROVE  FALSE
  BY <1>10 DEF AttemptFails
<1>11. CASE FastSend(w) \/ SendStart(w) \/ SendJoin(w) \/ Admit(w)
  <2>1. Deliver(w) /\ Working(w)
    BY <1>0, <1>11 DEF FastSend, SendStart, SendJoin, Admit
  <2>2. \A m \in Msgs : RowReturned(w, m)
    BY <2>1, DeliverReturns
  <2> QED BY <1>0, <1>1, <2>1, <2>2, EndHost DEF Deliver
<1> QED BY <1>4, <1>5, <1>6, <1>7, <1>8, <1>9, <1>10, <1>11 DEF Advance, Disturb
-----------------------------------------------------------------------------
(* The other steps.                                                           *)

LEMMA UserHost ==
  ASSUME HoldingInv, HostFacts, User, ~Spend("now"), ~Spend("archive"), ~Spend("group")
  PROVE  HostFacts'
PROOF
<1>0. /\ TypeOK /\ QueueTypeOK /\ job \in [Workers -> Job] /\ archived = FALSE
      /\ \A m \in Msgs : token[m] # Orphan /\ edge[m] = FALSE
  BY DEF HoldingInv, TypeOK, HostFacts, RowFits
<1>1. ASSUME NEW w \in Workers, NEW m \in Msgs, NEW mode, UserSends(w, m, mode)
      PROVE  HostFacts'
  <2>1. /\ job[w].todo = {} /\ \A n \in Msgs : token[n] # w
        /\ \A v \in Workers \ {w} : job'[v] = job[v]
        /\ job'[w] = Attempt("inline", {m}, m, mode, {})
        /\ UNCHANGED <<archived, setup, wakes, hostUp>>
    BY <1>0, <1>1
    DEF UserSends, Idle, HostFacts, JobFits, HoldingInv, ClaimsHaveOwners, Working,
        threadVars, hostVars
  <2>2. JobFits(w)'
    <3>1. /\ job'[w].home = (setup # "none") /\ job'[w].snap = Now
          /\ job'[w].todo = {}
      BY <2>1 DEF Attempt
    <3>2. Now.env = (setup # "none")
      BY DEF Now
    <3> QED BY <2>1, <3>1, <3>2 DEF JobFits
  <2>3. \A v \in Workers : JobFits(v)'
    BY <2>1, <2>2 DEF HostFacts, JobFits
  <2>4. HostKept
    BY <1>0, <2>1 DEF HostKept
  <2>5. ASSUME NEW n \in Msgs
        PROVE  RowKept(n)
    <3>1. /\ UNCHANGED <<wait, failed, token, edge>>
          /\ place'[n] = "queue" => place[n] = "queue"
      BY <1>0, <1>1 DEF UserSends, Settle, QueueTypeOK
    <3> QED BY <1>0, <2>1, <3>1 DEF RowKept, WaitsForHost, Row
  <2> QED BY <2>3, <2>4, <2>5, HostKeeps
\* A step that leaves the attempts and the host alone keeps it with the rows.
<1>2. ASSUME UNCHANGED <<job, setup, archived, hostUp>>, wakes \subseteq wakes',
             \A m \in Msgs : RowKept(m)
      PROVE  HostFacts'
  <2>1. HostKept
    BY <1>0, <1>2 DEF HostKept
  <2>2. \A v \in Workers : JobFits(v)'
    BY <1>2, SameJobs
  <2> QED BY <1>2, <2>1, <2>2, HostKeeps
<1>3. ASSUME NEW m \in Msgs, UserQueues(m)
      PROVE  HostFacts'
  <2>1. /\ UNCHANGED <<job, setup, archived, hostUp>> /\ wakes \subseteq wakes'
    BY <1>3 DEF UserQueues, threadVars, hostVars
  <2>2. ASSUME NEW n \in Msgs
        PROVE  RowKept(n)
    <3>1. /\ UNCHANGED <<failed, token, edge>> /\ wait'[m] # "host-offline"
          /\ n # m => place'[n] = place[n] /\ wait'[n] = wait[n]
      BY <1>0, <1>3 DEF UserQueues, Create, QueueTypeOK
    <3> QED BY <1>0, <2>1, <3>1 DEF RowKept, WaitsForHost, Row
  <2> QED BY <1>2, <2>1, <2>2
<1>4. ASSUME NEW m \in Msgs, UserDeletes(m)
      PROVE  HostFacts'
  <2>1. /\ UNCHANGED <<job, setup, archived, hostUp>> /\ wakes \subseteq wakes'
    BY <1>4 DEF UserDeletes, threadVars, hostVars
  <2>2. ASSUME NEW n \in Msgs
        PROVE  RowKept(n)
    <3>1. /\ n = m => place'[n] = "deleted" /\ token'[n] = None
          /\ n # m => /\ place'[n] = place[n] /\ wait'[n] = wait[n]
                      /\ token'[n] = token[n] /\ (failed[n] => failed'[n])
          /\ edge'[n] = FALSE
      BY <1>0, <1>4 DEF UserDeletes, Remove, EdgesWithout
    <3> QED BY <1>0, <2>1, <3>1, TokensDistinct DEF RowKept, WaitsForHost, Row
  <2> QED BY <1>2, <2>1, <2>2
<1>5. ASSUME NEW m \in Msgs, NEW w \in Workers,
             UserGroups(m) \/ UserSendsNow(w, m) \/ UserArchives \/ UserUnarchives
      PROVE  FALSE
  BY <1>0, <1>5 DEF UserGroups, UserSendsNow, UserArchives, UserUnarchives
<1>6. CASE UserStops
  <2>1. /\ UNCHANGED <<job, setup, archived, hostUp>> /\ wakes \subseteq wakes'
        /\ UNCHANGED queueVars \/ ClearWaits("provisioning")
    BY <1>6 DEF UserStops, StopThread, StopRun, StopPreStart
  <2> QED BY <1>0, <1>2, <2>1, SameHostRows, ClearHostRows
<1>7. CASE Answered
  BY <1>2, <1>7, SameHostRows DEF Answered, hostVars
<1>8. ASSUME NEW m \in Msgs, UserGroups(m)
      PROVE  FALSE
  BY <1>8 DEF UserGroups
<1>9. ASSUME UserArchives \/ UserUnarchives
      PROVE  FALSE
  BY <1>0, <1>9 DEF UserArchives, UserUnarchives
<1> QED BY <1>1, <1>3, <1>4, <1>5, <1>6, <1>7, <1>8, <1>9 DEF User

\* The walk of a returned host takes all its rows; no other takes one of them.
LEMMA StartWalkHost ==
  ASSUME HoldingInv, HostFacts, NEW w \in Workers, NEW wake \in Walks, StartWalk(w, wake)
  PROVE  HostFacts'
PROOF
<1> DEFINE rest == IF Dropped(wake) THEN {} ELSE WaitingOn(WalkKinds(wake))
<1>0. /\ TypeOK /\ job \in [Workers -> Job] /\ archived = FALSE
      /\ \A m \in Msgs : token[m] # w /\ token[m] # Orphan /\ edge[m] = FALSE
      /\ job[w].todo = {}
      /\ UNCHANGED <<archived, setup, hostUp>>
      /\ \A v \in Workers : JobFits(v)
  BY DEF HoldingInv, TypeOK, HostFacts, RowFits, StartWalk, Idle, JobFits,
     ClaimsHaveOwners, Working, threadVars, hostVars
<1>1. /\ \A v \in Workers \ {w} : job'[v] = job[v]
      /\ job'[w] = IF rest = {} THEN job[w] ELSE Walk(rest)
  BY <1>0 DEF StartWalk
<1>2. job'[w].todo = rest
  BY <1>0, <1>1 DEF Walk
<1> HIDE DEF rest
<1>3. \A v \in Workers : JobFits(v)'
  <2>1. JobFits(w)'
    <3>1. CASE rest = {}
      BY <1>0, <1>1, <3>1 DEF JobFits
    <3>2. CASE rest # {}
      <4>1. /\ job'[w].home = FALSE /\ job'[w].snap.env = FALSE
            /\ job'[w].kind = "auto" /\ job'[w].pc = "walk"
        BY <1>1, <3>2 DEF Walk, NoJob, NoSnapshot
      <4> QED BY <4>1 DEF JobFits
    <3> QED BY <3>1, <3>2
  <2> QED BY <1>0, <1>1, <2>1 DEF JobFits
<1>4. CASE wake # "host-connected"
  <2>1. \A v \in Workers : job[v].todo \subseteq job'[v].todo
    BY <1>0, <1>1
  <2>2. HostKept
    BY <1>0, <1>4, <2>1 DEF HostKept, StartWalk
  <2>3. ASSUME NEW m \in Msgs
        PROVE  RowKept(m)
    <3>1. /\ UNCHANGED <<place, token, edge, failed>>
          /\ wait'[m] = wait[m] \/ wait'[m] = "none"
      BY <1>0 DEF StartWalk, ClearWaits, queueVars, TypeOK, QueueTypeOK
    <3> QED BY <1>0, <1>1, <3>1 DEF RowKept, WaitsForHost, Row
  <2> QED BY <1>3, <2>2, <2>3, HostKeeps
<1>5. CASE wake = "host-connected"
  <2>1. UNCHANGED queueVars
    BY <1>5 DEF StartWalk, WalkKinds
  <2>2. ASSUME NEW m \in Msgs
        PROVE  RowFits(m)'
    <3>1. WaitsForHost(m)' /\ Live(m)' /\ ~failed'[m] => m \in rest
      BY <1>0, <1>5, <2>1, <2>2
      DEF rest, Dropped, WalkKinds, WaitingOn, LiveRows, Live, WaitsForHost, Row,
          HostFacts, RowFits, queueVars
    <3>2. HeldByWalk(m) /\ token[m] \in Workers => HeldByWalk(m)'
      BY <1>0, <1>1, <2>1, <2>2 DEF HeldByWalk, queueVars
    <3> QED BY <1>0, <1>2, <2>1, <3>1, <3>2
        DEF HostFacts, RowFits, WaitsForHost, Row, Expected, queueVars
  <2> QED BY <1>0, <1>3, <2>2 DEF HostFacts
<1> QED BY <1>4, <1>5

LEMMA DispatchHost ==
  ASSUME HoldingInv, KeysInv, HostFacts, Dispatch, ~Spend("fault")
  PROVE  HostFacts'
PROOF
<1>0. /\ TypeOK /\ QueueTypeOK /\ job \in [Workers -> Job] /\ archived = FALSE
      /\ \A m \in Msgs : token[m] # Orphan /\ edge[m] = FALSE
  BY DEF HoldingInv, TypeOK, HostFacts, RowFits
<1>1. ASSUME NEW w \in Workers, Drain(w)
      PROVE  HostFacts'
  <2> DEFINE ready == {S \in Groups : Drainable(S)}
             first == CHOOSE S \in ready :
                        \A T \in ready : key[Lead(S)] <= key[Lead(T)]
  <2>0. /\ job[w].todo = {} /\ \A m \in Msgs : token[m] # w
        /\ UNCHANGED <<archived, setup, hostUp>>
        /\ wakes' = wakes \ {"ready"}
    BY <1>1 DEF Drain, Idle, HostFacts, JobFits, HoldingInv, ClaimsHaveOwners, Working,
       threadVars, hostVars
  <2>1. CASE archived \/ status = "stopping" \/ ready = {}
    <3>1. UNCHANGED <<queueVars, job>>
      BY <1>1, <2>1 DEF Drain
    <3>2. HostKept
      BY <1>0, <2>0, <3>1 DEF HostKept
    <3> QED BY <2>0, <3>1, <3>2, SameHostRows, SameJobs, HostKeeps
  <2>2. CASE ~(archived \/ status = "stopping" \/ ready = {})
    <3>1. /\ Claim(first, w, {})
          /\ job' = [job EXCEPT ![w] = Attempt("drain", first, Lead(first), "auto", {})]
      BY <1>1, <2>2 DEF Drain
    <3>2. first \in ready
      BY <1>0, <2>2, FirstDrainable
    <3>3. PICK S : S = first
      OBVIOUS
    <3> HIDE DEF first
    <3>4. \A m \in S : wait[m] # "host-offline"
      <4>1. PICK m \in Msgs : S = GroupOf(m) /\ GroupOf(m) = {m}
        BY <1>0, <3>2, <3>3, GroupsAreRows DEF Groups, LiveRows
      <4>2. \E n \in S : wait[n] \in IdleDrainableWait
        BY <3>2, <3>3 DEF Drainable
      <4> QED BY <4>1, <4>2 DEF IdleDrainableWait, OrdinaryWait
    <3>5. /\ \A v \in Workers \ {w} : job'[v] = job[v]
          /\ job'[w] = Attempt("drain", S, Lead(S), "auto", {})
      BY <1>0, <3>1, <3>3
    <3>6. JobFits(w)'
      <4>1. /\ job'[w].home = (setup # "none") /\ job'[w].snap = Now
            /\ job'[w].todo = {}
        BY <3>5 DEF Attempt
      <4>2. Now.env = (setup # "none")
        BY DEF Now
      <4> QED BY <2>0, <4>1, <4>2 DEF JobFits
    <3>7. \A v \in Workers : JobFits(v)'
      BY <2>0, <3>5, <3>6 DEF HostFacts, JobFits
    <3>8. \A v \in Workers : job[v].todo \subseteq job'[v].todo
      BY <2>0, <3>5
    <3>9. HostKept
      BY <1>0, <2>0, <3>8 DEF HostKept
    <3>10. ASSUME NEW m \in Msgs
           PROVE  RowKept(m)
      <4>1. /\ UNCHANGED <<place, wait, failed>> /\ edge'[m] = FALSE
            /\ token'[m] = IF m \in S THEN w ELSE token[m]
        BY <1>0, <3>1, <3>3 DEF Claim
      <4> QED BY <1>0, <2>0, <3>4, <3>5, <4>1, TokensDistinct DEF RowKept, WaitsForHost, Row
    <3> QED BY <3>7, <3>9, <3>10, HostKeeps
  <2> QED BY <2>1, <2>2
<1>2. CASE DrainJoins \/ InteractionSettled \/ PluginRechecks
           \/ \E stale \in BOOLEAN : Sweep(stale)
  <2>1. /\ UNCHANGED <<job, archived, setup, hostUp>>
        /\ "host-connected" \in wakes => "host-connected" \in wakes'
    BY <1>2 DEF DrainJoins, InteractionSettled, PluginRechecks, Sweep, threadVars, hostVars
  <2>2. HostKept
    BY <1>0, <2>1 DEF HostKept
  <2>3. \A m \in Msgs : RowKept(m)
    <3>1. ASSUME ReleaseOrphans, NEW m \in Msgs
          PROVE  RowKept(m)
      <4>1. UNCHANGED <<place, wait, failed, edge>> /\ token'[m] = token[m]
        BY <1>0, <3>1 DEF ReleaseOrphans
      <4> QED BY <1>0, <2>1, <4>1 DEF RowKept, WaitsForHost, Row
    <3>2. \/ UNCHANGED queueVars \/ ClearWaits("interaction") \/ ReleaseOrphans
      BY <1>2 DEF DrainJoins, InteractionSettled, PluginRechecks, Sweep
    <3> QED BY <1>0, <2>1, <3>1, <3>2, SameHostRows, ClearHostRows
  <2> QED BY <2>1, <2>2, <2>3, SameJobs, HostKeeps
<1> QED BY <1>1, <1>2, AdvanceHost, StartWalkHost DEF Dispatch

LEMMA RunHost ==
  ASSUME HoldingInv, HostFacts, Daemon \/ Run \/ Host, ~Spend("crash")
  PROVE  HostFacts'
PROOF
<1>0. TypeOK /\ archived = FALSE
  BY DEF HoldingInv, HostFacts
<1>1. ASSUME NEW delivered \in BOOLEAN, Crash(delivered)
      PROVE  FALSE
  BY <1>1 DEF Crash
<1>2. UNCHANGED job
  BY <1>1, OthersHold DEF held
<1>3. ASSUME UNCHANGED queueVars \/ ClearWaits("provisioning"),
             UNCHANGED archived, setup # "none" => setup' # "none",
             wakes \subseteq wakes', hostUp' => hostUp \/ "host-connected" \in wakes'
      PROVE  HostFacts'
  <2>1. HostKept
    BY <1>0, <1>2, <1>3 DEF HostKept
  <2>2. \A m \in Msgs : RowKept(m)
    BY <1>0, <1>2, <1>3, SameHostRows, ClearHostRows
  <2> QED BY <1>2, <1>3, <2>1, <2>2, SameJobs, HostKeeps
<1>4. CASE Daemon
  BY <1>3, <1>4
  DEF Daemon, CommandAccepted, CommandRejected, TurnStarted, TurnSteered, TurnCompleted,
      HearCompletion, TurnEndsUnheard, LateCompletion, Asks, DaemonStops, DaemonDies,
      threadVars, hostVars
<1>5. CASE Run
  BY <1>0, <1>3, <1>5
  DEF Run, EnvironmentAttaches, ProvisionSucceeds, ProvisionFails, StopSettled,
      StopFails, SweepArchived, threadVars, hostVars
<1>6. CASE Host
  BY <1>1, <1>3, <1>6
  DEF Host, HostDisconnects, CommandUndelivered, GraceExpires,
      InteractionGraceExpires, HostReturns, threadVars, hostVars
<1> QED BY <1>4, <1>5, <1>6

LEMMA HostStep == HostInv /\ [Next]_vars => HostInv'
PROOF
<1> SUFFICES ASSUME HostInv, [Next]_vars
             PROVE  HostInv'
  OBVIOUS
<1>1. NotedInv' /\ HistoryInv' /\ KeysInv' /\ HoldingInv /\ HistoryInv /\ KeysInv
  BY NotedStep, SpentStep, KeysStep DEF HostInv, NotedInv
<1> DEFINE ds == {"crash", "now", "fault", "archive", "group"}
<1>2. ASSUME Spared(ds)'
      PROVE  HostFacts'
  <2>1. Spared(ds) /\ \A d \in ds : ~Spend(d)
    BY <1>1, <1>2, SparedBefore DEF Disturbance
  <2>2. HostFacts
    BY <2>1 DEF HostInv
  <2>3. CASE UNCHANGED vars
    <3>1. UNCHANGED <<queueVars, job, setup, archived, wakes, hostUp>>
      BY <2>3 DEF vars, threadVars, hostVars
    <3>2. HostKept
      BY <2>2, <3>1 DEF HostKept, HostFacts
    <3> QED BY <2>2, <3>1, <3>2, SameHostRows, SameJobs, HostKeeps
  <2>4. CASE Next
    BY <1>1, <2>1, <2>2, <2>4, UserHost, DispatchHost, RunHost DEF Next
  <2> QED BY <2>3, <2>4
<1> QED BY <1>1, <1>2 DEF HostInv

\* HostWakes: unless the server died, a failure went unrecorded, or the user
\* interfered with the row or archived its thread, a row waits for a host only
\* while that is away, or until the walk its return starts has come to the row.
THEOREM HostsWake == Spec => []HostWakes
PROOF
<1>1. Init => HostInv
  <2> SUFFICES ASSUME Init
               PROVE  HostInv
    OBVIOUS
  <2>1. NotedInv /\ HistoryInv
    BY NotedInit, InitialTypes, BudgetNatural DEF Init, HistoryInv, SpentInv
  <2>2. \A m \in Msgs : ~Row(m) /\ token[m] = None /\ edge[m] = FALSE
    BY DEF Init, QueueInit, Row
  <2>3. \A w \in Workers : JobFits(w)
    <3>1. \A w \in Workers : job[w] = NoJob
      BY DEF Init
    <3> QED BY <3>1 DEF NoJob, NoSnapshot, JobFits
  <2>4. KeysInv /\ HostFacts
    BY <2>2, <2>3, TokensDistinct DEF Init, KeysInv, HostFacts, RowFits, WaitsForHost
  <2> QED BY <2>1, <2>4 DEF HostInv
<1>2. HostInv => HostWakes
  BY DEF HostInv, HostWakes, HostFacts, RowFits, Expected, WaitsForHost, Parked, Live
<1> QED BY <1>1, <1>2, HostStep, PTL DEF Spec
-----------------------------------------------------------------------------
(* First in, first out.  A row is plain from the day it is made, under a key  *)
(* above all others, or never: so a drain, which takes the first row that may *)
(* go while nobody else holds a plain one, holds the oldest of them for as    *)
(* long as it holds it.                                                       *)

Fresh(m) == place[m] \in {"new", "inline"}

Busy(m) == Row(m) /\ wait[m] = "thread-busy"

OrderRow(m) ==
  /\ token[m] # Orphan /\ edge[m] = FALSE
  /\ Busy(m) /\ token[m] \in Workers =>
       /\ job[token[m]].kind = "drain"
       /\ \A n \in Msgs : Plain(n) => key[m] <= key[n]

\* Only the request of a message queues it to wait for the turn, and the rows
\* ahead of a walk are rows that wait for something else.
OrderJob(w) ==
  /\ job[w].kind # "now"
  /\ job[w].mode = "queue" => job[w].kind = "inline"
  /\ \A m \in job[w].todo : ~Fresh(m) /\ ~Busy(m)

OrderFacts ==
  /\ \A m \in Msgs : OrderRow(m)
  /\ \A w \in Workers : OrderJob(w)

OrderInv ==
  /\ HoldingInv /\ HistoryInv /\ KeysInv
  /\ Spared({"crash", "now", "group"}) => OrderFacts

\* What a step that claims no busy row may do to a row, and to an attempt.
RowOrder(m) ==
  /\ token'[m] # Orphan /\ edge'[m] = FALSE
  /\ Fresh(m)' => Fresh(m)
  /\ Busy(m)' =>
       \/ Fresh(m) /\ token'[m] = None /\ key'[m] > created
       \/ /\ Busy(m) /\ key'[m] = key[m] /\ (failed[m] => failed'[m])
          /\ token'[m] = token[m] \/ token'[m] = None

JobOrder(w) ==
  /\ \/ job'[w].kind = job[w].kind \/ ~Working(w)' \/ ~Working(w)
  /\ job'[w].kind # "now"
  /\ job'[w].mode = "queue" => job'[w].kind = "inline"
  /\ \A m \in job'[w].todo : ~Fresh(m) /\ ~Busy(m)

LEMMA OrderKeeps ==
  ASSUME HoldingInv, HoldingInv', KeysInv, OrderFacts,
         \A m \in Msgs : RowOrder(m), \A w \in Workers : JobOrder(w)
  PROVE  OrderFacts'
PROOF
<1>0. /\ key \in [Msgs -> Nat] /\ key' \in [Msgs -> Nat] /\ created \in Nat
      /\ job' \in [Workers -> Job]
  BY DEF HoldingInv, TypeOK, QueueTypeOK
<1>1. ASSUME NEW w \in Workers
      PROVE  OrderJob(w)'
  <2>1. \A m \in job'[w].todo : m \in Msgs
    BY <1>0 DEF Job
  <2>2. \A m \in job'[w].todo : ~Fresh(m)' /\ ~Busy(m)'
    BY <2>1 DEF JobOrder, RowOrder
  <2> QED BY <2>2 DEF JobOrder, OrderJob
<1>2. ASSUME NEW m \in Msgs, Busy(m)', token'[m] \in Workers
      PROVE  /\ job'[token'[m]].kind = "drain"
             /\ \A n \in Msgs : Plain(n)' => key'[m] <= key'[n]
  <2>1. Busy(m) /\ key'[m] = key[m] /\ token'[m] = token[m]
    BY <1>2, TokensDistinct DEF RowOrder
  <2>2. Working(token[m]) /\ Working(token[m])'
    BY <1>2, <2>1 DEF HoldingInv, ClaimsHaveOwners
  <2>3. job'[token[m]].kind = job[token[m]].kind
    BY <1>2, <2>1, <2>2 DEF JobOrder
  <2>4. ASSUME NEW n \in Msgs, Plain(n)'
        PROVE  key'[m] <= key'[n]
    <3>1. Busy(n)' /\ ~failed'[n]
      BY <2>4 DEF Plain, Busy, Row
    <3>2. CASE Fresh(n) /\ key'[n] > created
      <4>1. key[m] <= created
        BY <2>1 DEF KeysInv, Busy
      <4> QED BY <1>0, <2>1, <3>2, <4>1
    <3>3. CASE Busy(n) /\ key'[n] = key[n] /\ (failed[n] => failed'[n])
      BY <1>2, <2>1, <3>1, <3>3 DEF Plain, Busy, OrderFacts, OrderRow
    <3> QED BY <3>1, <3>2, <3>3 DEF RowOrder
  <2> QED BY <1>2, <2>1, <2>3, <2>4 DEF OrderFacts, OrderRow
<1>3. \A m \in Msgs : OrderRow(m)'
  BY <1>2 DEF RowOrder, OrderRow
<1> QED BY <1>1, <1>3 DEF OrderFacts

LEMMA SameOrder ==
  ASSUME TypeOK, OrderFacts
  PROVE  /\ UNCHANGED queueVars => \A m \in Msgs : RowOrder(m)
         /\ \A kind : ClearWaits(kind) => \A m \in Msgs : RowOrder(m)
         /\ \A w \in Workers : job'[w] = job[w] => JobOrder(w)
PROOF
<1>1. UNCHANGED queueVars => \A m \in Msgs : RowOrder(m)
  BY DEF OrderFacts, OrderRow, RowOrder, Fresh, Busy, Row, queueVars
<1>2. ASSUME NEW kind, ClearWaits(kind), NEW m \in Msgs
      PROVE  RowOrder(m)
  <2>1. wait'[m] = wait[m] \/ wait'[m] = "none"
    BY <1>2 DEF ClearWaits
  <2> QED BY <1>2, <2>1 DEF ClearWaits, OrderFacts, OrderRow, RowOrder, Fresh, Busy, Row
<1>3. \A w \in Workers : job'[w] = job[w] => JobOrder(w)
  BY DEF OrderFacts, OrderJob, JobOrder
<1> QED BY <1>1, <1>2, <1>3

LEMMA EndOrder ==
  ASSUME TypeOK, OrderFacts, NEW w \in Workers, EndAttempt(w)
  PROVE  \A v \in Workers : JobOrder(v)
PROOF
<1>1. /\ ~Working(w)' /\ \A v \in Workers \ {w} : job'[v] = job[v]
      /\ job'[w].kind \in {"auto", "none"} /\ job'[w].mode = "auto"
      /\ job'[w].todo \subseteq job[w].todo
  BY EndAttemptFacts DEF EndAttempt, Walk, NoJob, TypeOK
<1>2. JobOrder(w)
  BY <1>1 DEF OrderFacts, OrderJob, JobOrder
<1> QED BY <1>1, <1>2, SameOrder

LEMMA InlineOrder ==
  ASSUME HoldingInv, OrderFacts, NEW w \in Workers, Working(w), job[w].kind = "inline",
         NEW where \in {"refused", "sent"}, Settle(job[w].cur, where)
  PROVE  \A m \in Msgs : RowOrder(m)
PROOF
<1>1. /\ UNCHANGED <<wait, failed, token, key, edge>>
      /\ \A m \in Msgs : place'[m] = place[m] \/ place'[m] \in {"refused", "sent"}
  BY InlineAlone DEF Settle, HoldingInv, TypeOK, QueueTypeOK
<1> QED BY <1>1 DEF OrderFacts, OrderRow, RowOrder, Fresh, Busy, Row

LEMMA GiveUpOrder ==
  ASSUME HoldingInv, OrderFacts, NEW w \in Workers, Working(w), NEW why, GiveUp(w, why)
  PROVE  \A m \in Msgs : RowOrder(m)
PROOF
<1>0. QueueTypeOK
  BY DEF HoldingInv, TypeOK
<1>1. CASE job[w].kind = "inline"
  BY <1>1, InlineOrder DEF GiveUp
<1>2. CASE job[w].kind # "inline"
  <2>1. /\ UNCHANGED <<place, key, edge>>
        /\ \A m \in Msgs :
             /\ token'[m] = token[m] \/ token'[m] = None
             /\ \/ wait'[m] = wait[m] /\ (failed[m] => failed'[m])
                \/ wait'[m] = "host-offline"
    BY <1>0, <1>2
    DEF GiveUp, Release, ReleaseOffline, ReleaseFailed, Unclaimed, QueueTypeOK
  <2> QED BY <2>1, TokensDistinct DEF OrderFacts, OrderRow, RowOrder, Fresh, Busy, Row
<1> QED BY <1>1, <1>2

LEMMA CreateOrder ==
  ASSUME HoldingInv, OrderFacts, NEW c \in Msgs, Fresh(c), NEW reason, Create(c, reason)
  PROVE  \A m \in Msgs : RowOrder(m)
PROOF
<1>0. QueueTypeOK /\ token[c] = None
  BY DEF HoldingInv, TypeOK, QueueTypeOK, ClaimsHaveOwners, OrderFacts, OrderRow, Fresh, Row
<1>1. /\ UNCHANGED <<failed, token, edge>>
      /\ place'[c] = "queue" /\ key'[c] > created
      /\ \A m \in Msgs \ {c} : /\ place'[m] = place[m] /\ wait'[m] = wait[m]
                               /\ key'[m] = key[m]
  BY <1>0 DEF Create, QueueTypeOK
<1> QED BY <1>0, <1>1 DEF OrderFacts, OrderRow, RowOrder, Fresh, Busy, Row

LEMMA QueueOnOrder ==
  ASSUME HoldingInv, OrderFacts, NEW w \in Workers, Working(w), NEW reason,
         reason = "thread-busy" => job[w].kind = "inline", QueueOn(w, reason)
  PROVE  \A m \in Msgs : RowOrder(m)
PROOF
<1>0. QueueTypeOK
  BY DEF HoldingInv, TypeOK
<1>1. CASE job[w].kind = "inline"
  BY <1>1, InlineAlone, CreateOrder DEF QueueOn, Fresh
<1>2. CASE job[w].kind # "inline"
  <2>1. /\ UNCHANGED <<place, key, edge>>
        /\ \A m \in Msgs :
             /\ token'[m] = token[m] \/ token'[m] = None
             /\ \/ wait'[m] = wait[m] /\ failed'[m] = failed[m]
                \/ wait'[m] = reason
    BY <1>0, <1>2 DEF QueueOn, Requeue, Unclaimed, QueueTypeOK
  <2> QED BY <1>2, <2>1, TokensDistinct
      DEF OrderFacts, OrderRow, RowOrder, Fresh, Busy, Row
<1> QED BY <1>1, <1>2

LEMMA RemoveOrder ==
  ASSUME QueueTypeOK, OrderFacts, NEW S \in SUBSET Msgs, NEW where \in {"sent", "deleted"},
         Remove(S, where)
  PROVE  \A m \in Msgs : RowOrder(m)
PROOF
<1>1. \A m \in Msgs :
        /\ edge'[m] = FALSE
        /\ m \in S => token'[m] = None /\ place'[m] = where
        /\ m \notin S => /\ token'[m] = token[m] /\ place'[m] = place[m]
                        /\ wait'[m] = wait[m] /\ key'[m] = key[m]
                        /\ failed'[m] = failed[m]
  BY DEF Remove, EdgesWithout, OrderFacts, OrderRow, QueueTypeOK
<1>2. ASSUME NEW m \in S
      PROVE  RowOrder(m)
  BY <1>1, <1>2, TokensDistinct DEF RowOrder, Fresh, Busy, Row
<1>3. ASSUME NEW m \in Msgs \ S
      PROVE  RowOrder(m)
  BY <1>1, <1>3 DEF OrderFacts, OrderRow, RowOrder, Fresh, Busy, Row
<1> QED BY <1>2, <1>3

LEMMA DeliverOrder ==
  ASSUME HoldingInv, OrderFacts, NEW w \in Workers, Working(w), Deliver(w)
  PROVE  \A m \in Msgs : RowOrder(m)
PROOF
<1>0. QueueTypeOK
  BY DEF HoldingInv, TypeOK
<1>1. CASE job[w].kind = "inline"
  BY <1>1, InlineOrder DEF Deliver
<1>2. CASE job[w].kind # "inline"
  BY <1>0, <1>2, RemoveOrder DEF Deliver, HoldingInv, TypeOK, Job
<1> QED BY <1>1, <1>2

LEMMA ReattemptOrder ==
  ASSUME HoldingInv, OrderFacts, NEW w \in Workers, Working(w), Reattempt(w)
  PROVE  (\A m \in Msgs : RowOrder(m)) /\ (\A v \in Workers : JobOrder(v))
PROOF
<1>0. TypeOK /\ job \in [Workers -> Job]
  BY DEF HoldingInv, TypeOK
<1>1. CASE job[w].retried
  BY <1>0, <1>1, GiveUpOrder, EndOrder DEF Reattempt, GiveUp
<1>2. CASE ~job[w].retried
  <2>1. /\ UNCHANGED queueVars /\ \A v \in Workers \ {w} : job'[v] = job[v]
        /\ job'[w].kind = job[w].kind /\ job'[w].mode = job[w].mode
        /\ job'[w].todo = job[w].todo
    BY <1>0, <1>2 DEF Reattempt, Job
  <2>2. JobOrder(w)
    BY <2>1 DEF OrderFacts, OrderJob, JobOrder
  <2> QED BY <1>0, <2>1, <2>2, SameOrder
<1> QED BY <1>1, <1>2

\* A worker that held nothing takes on a job that sends nothing by hand.
LEMMA BeginOrder ==
  ASSUME TypeOK, OrderFacts, NEW w \in Workers, ~Working(w), NEW j,
         job' = [job EXCEPT ![w] = j], j.kind # "now",
         j.mode = "queue" => j.kind = "inline",
         \A m \in j.todo : ~Fresh(m) /\ ~Busy(m)
  PROVE  \A v \in Workers : JobOrder(v)
PROOF
<1>1. job'[w] = j /\ \A v \in Workers \ {w} : job'[v] = job[v]
  BY DEF TypeOK
<1>2. JobOrder(w)
  BY <1>1 DEF JobOrder
<1> QED BY <1>1, <1>2, SameOrder

\* What is claimed waits for something else than the turn.
LEMMA ClaimOrder ==
  ASSUME OrderFacts, NEW S \in SUBSET Msgs, \A m \in S : ~Busy(m),
         NEW w \in Workers, NEW cut, Claim(S, w, cut)
  PROVE  \A m \in Msgs : RowOrder(m)
PROOF
<1>1. /\ UNCHANGED <<place, wait, failed, key>>
      /\ \A m \in Msgs : /\ edge'[m] = FALSE
                         /\ token'[m] = IF m \in S THEN w ELSE token[m]
  BY DEF Claim, OrderFacts, OrderRow
<1> QED BY <1>1, TokensDistinct DEF OrderFacts, OrderRow, RowOrder, Fresh, Busy, Row

LEMMA WalkOrder ==
  ASSUME HoldingInv, KeysInv, OrderFacts, NEW w \in Workers, WalkOn(w)
  PROVE  (\A m \in Msgs : RowOrder(m)) /\ (\A v \in Workers : JobOrder(v))
PROOF
<1>0. /\ TypeOK /\ QueueTypeOK /\ ~Working(w) /\ job[w].todo \in SUBSET Msgs
      /\ \A m \in job[w].todo : ~Fresh(m) /\ ~Busy(m)
      /\ \A m \in Msgs : edge[m] = FALSE
  BY DEF WalkOn, Working, HoldingInv, TypeOK, Job, OrderFacts, OrderRow, OrderJob
<1>1. CASE job[w].todo = {}
  <2>1. job' = [job EXCEPT ![w] = NoJob] /\ UNCHANGED queueVars
    BY <1>1 DEF WalkOn
  <2>2. NoJob.kind = "none" /\ NoJob.mode = "auto" /\ NoJob.todo = {}
    BY DEF NoJob
  <2> QED BY <1>0, <2>1, <2>2, BeginOrder, SameOrder
<1>2. CASE job[w].todo # {}
  <2>0. PICK m \in Msgs : m = Lead(job[w].todo) /\ m \in job[w].todo
    BY <1>0, <1>2, LeadIsMember
  <2> DEFINE rest == job[w].todo \ {m}
  <2>1. CASE Live(m) /\ Claimable(GroupOf(m))
    <3> DEFINE j == Attempt("auto", {m}, m, "auto", rest)
    <3>1. GroupOf(m) = {m}
      BY <1>0, <2>0, <2>1, GroupsAreRows
    <3>2. Claim({m}, w, {}) /\ job' = [job EXCEPT ![w] = j]
      BY <1>2, <2>0, <2>1, <3>1 DEF WalkOn
    <3>3. j.kind = "auto" /\ j.mode = "auto" /\ j.todo = rest
      BY DEF Attempt
    <3> HIDE DEF j
    <3>4. \A v \in Workers : JobOrder(v)
      BY <1>0, <3>2, <3>3, BeginOrder
    <3>5. \A n \in Msgs : RowOrder(n)
      BY <1>0, <2>0, <3>2, ClaimOrder
    <3> QED BY <3>4, <3>5
  <2>2. CASE ~(Live(m) /\ Claimable(GroupOf(m)))
    <3>1. job' = [job EXCEPT ![w] = Walk(rest)] /\ UNCHANGED queueVars
      BY <1>2, <2>0, <2>2 DEF WalkOn
    <3>2. /\ Walk(rest).kind = "auto" /\ Walk(rest).mode = "auto"
          /\ Walk(rest).todo = rest
      BY DEF Walk, NoJob
    <3> QED BY <1>0, <3>1, <3>2, BeginOrder, SameOrder
  <2> QED BY <2>1, <2>2
<1> QED BY <1>1, <1>2

LEMMA AdvanceOrder ==
  ASSUME HoldingInv, KeysInv, OrderFacts, NEW w \in Workers, Advance(w) \/ Disturb(w)
  PROVE  (\A m \in Msgs : RowOrder(m)) /\ (\A v \in Workers : JobOrder(v))
PROOF
<1>0. /\ TypeOK
      /\ job[w].mode = "queue" => job[w].kind = "inline"
      /\ job[w].pc \in {"fast", "check", "send", "admit"} => Working(w)
  BY DEF HoldingInv, Working, OrderFacts, OrderJob
<1>1. ASSUME NEW reason, QueueOn(w, reason), Working(w),
             reason = "thread-busy" => job[w].mode = "queue"
      PROVE  (\A m \in Msgs : RowOrder(m)) /\ (\A v \in Workers : JobOrder(v))
  BY <1>0, <1>1, QueueOnOrder, EndOrder DEF QueueOn
<1>2. CASE CheckWaits(w) \/ PluginHolds(w)
  <2>1. EarlyWait(job[w]) = "thread-busy" => job[w].mode = "queue"
    BY DEF EarlyWait
  <2>2. LateWait(job[w]) # "thread-busy"
    BY DEF LateWait
  <2> QED BY <1>0, <1>1, <1>2, <2>1, <2>2 DEF CheckWaits, PluginHolds, Checking
<1>3. CASE CheckPasses(w)
  <2>1. /\ UNCHANGED queueVars /\ \A v \in Workers \ {w} : job'[v] = job[v]
        /\ job'[w].kind = job[w].kind /\ job'[w].mode = job[w].mode
        /\ job'[w].todo = job[w].todo
    BY <1>0, <1>3 DEF CheckPasses, TypeOK, Job
  <2>2. JobOrder(w)
    BY <2>1 DEF OrderFacts, OrderJob, JobOrder
  <2> QED BY <1>0, <2>1, <2>2, SameOrder
<1>4. CASE CheckMoved(w) \/ CommitMoved(w)
  BY <1>0, <1>4, ReattemptOrder DEF CheckMoved, CommitMoved, Checking
<1>5. ASSUME CheckArchived(w) \/ CommitFails(w) \/ \E why : AttemptFails(w, why)
      PROVE  (\A m \in Msgs : RowOrder(m)) /\ (\A v \in Workers : JobOrder(v))
  <2>1. PICK why : GiveUp(w, why)
    BY <1>5 DEF CheckArchived, CommitFails, AttemptFails
  <2>2. Working(w)
    BY <1>0, <1>5 DEF CheckArchived, CommitFails, AttemptFails
  <2> QED BY <1>0, <2>1, <2>2, GiveUpOrder, EndOrder DEF GiveUp
<1>6. CASE FastSend(w) \/ SendStart(w) \/ SendJoin(w) \/ Admit(w)
  <2>1. Deliver(w) /\ Working(w)
    BY <1>0, <1>6 DEF FastSend, SendStart, SendJoin, Admit
  <2> QED BY <1>0, <2>1, DeliverOrder, EndOrder DEF Deliver
<1> QED BY <1>2, <1>3, <1>4, <1>5, <1>6, WalkOrder DEF Advance, Disturb

LEMMA UserOrder ==
  ASSUME HoldingInv, OrderFacts, User, ~Spend("now"), ~Spend("group")
  PROVE  (\A m \in Msgs : RowOrder(m)) /\ (\A v \in Workers : JobOrder(v))
PROOF
<1>0. TypeOK /\ QueueTypeOK
  BY DEF HoldingInv, TypeOK
<1>1. ASSUME NEW w \in Workers, NEW m \in Msgs, NEW mode, UserSends(w, m, mode)
      PROVE  (\A n \in Msgs : RowOrder(n)) /\ (\A v \in Workers : JobOrder(v))
  <2> DEFINE j == Attempt("inline", {m}, m, mode, {})
  <2>1. ~Working(w) /\ Settle(m, "inline") /\ Fresh(m) /\ job' = [job EXCEPT ![w] = j]
    BY <1>1 DEF UserSends, Idle, Working, Fresh
  <2>2. j.kind = "inline" /\ j.todo = {}
    BY DEF Attempt
  <2> HIDE DEF j
  <2>3. \A v \in Workers : JobOrder(v)
    BY <1>0, <2>1, <2>2, BeginOrder
  <2>4. /\ UNCHANGED <<wait, failed, token, key, edge>>
        /\ place'[m] = "inline" /\ \A n \in Msgs \ {m} : place'[n] = place[n]
    BY <1>0, <2>1 DEF Settle, QueueTypeOK
  <2>5. \A n \in Msgs : RowOrder(n)
    BY <2>1, <2>4 DEF OrderFacts, OrderRow, RowOrder, Fresh, Busy, Row
  <2> QED BY <2>3, <2>5
<1>2. ASSUME NEW m \in Msgs, UserQueues(m)
      PROVE  (\A n \in Msgs : RowOrder(n)) /\ UNCHANGED job
  BY <1>2, CreateOrder DEF UserQueues, Fresh
<1>3. ASSUME NEW m \in Msgs, UserDeletes(m)
      PROVE  (\A n \in Msgs : RowOrder(n)) /\ UNCHANGED job
  BY <1>0, <1>3, RemoveOrder DEF UserDeletes
<1>4. ASSUME NEW m \in Msgs, NEW w \in Workers, UserGroups(m) \/ UserSendsNow(w, m)
      PROVE  FALSE
  BY <1>4 DEF UserGroups, UserSendsNow
<1>5. CASE UserStops \/ UserArchives \/ UserUnarchives \/ Answered
  <2>1. UNCHANGED job /\ (UNCHANGED queueVars \/ ClearWaits("provisioning"))
    BY <1>5
    DEF UserStops, UserArchives, UserUnarchives, Answered, StopThread, StopRun, StopPreStart
  <2> QED BY <1>0, <2>1, SameOrder
<1>6. UNCHANGED job => \A v \in Workers : JobOrder(v)
  BY <1>0, SameOrder
<1>7. ASSUME NEW m \in Msgs, UserGroups(m)
      PROVE  FALSE
  BY <1>7 DEF UserGroups
<1> QED BY <1>1, <1>2, <1>3, <1>4, <1>5, <1>6, <1>7 DEF User

LEMMA StartWalkOrder ==
  ASSUME HoldingInv, OrderFacts, NEW w \in Workers, NEW wake \in Walks, StartWalk(w, wake)
  PROVE  (\A m \in Msgs : RowOrder(m)) /\ (\A v \in Workers : JobOrder(v))
PROOF
<1> DEFINE rest == IF Dropped(wake) THEN {} ELSE WaitingOn(WalkKinds(wake))
<1>0. TypeOK /\ ~Working(w)
  BY DEF HoldingInv, StartWalk, Idle, Working
<1>1. \A m \in Msgs : RowOrder(m)
  BY <1>0, SameOrder DEF StartWalk
<1>2. \A m \in rest : ~Fresh(m) /\ ~Busy(m)
  <2>1. "thread-busy" \notin WalkKinds(wake)
    BY DEF WalkKinds, Walks
  <2> QED BY <2>1 DEF WaitingOn, LiveRows, Live, Row, Fresh, Busy
<1>3. UNCHANGED job \/ job' = [job EXCEPT ![w] = Walk(rest)]
  BY DEF StartWalk
<1>4. Walk(rest).kind = "auto" /\ Walk(rest).mode = "auto" /\ Walk(rest).todo = rest
  BY DEF Walk, NoJob
<1> HIDE DEF rest
<1>5. \A v \in Workers : JobOrder(v)
  BY <1>0, <1>2, <1>3, <1>4, BeginOrder, SameOrder
<1> QED BY <1>1, <1>5

\* A drain that finds no other holds the oldest of the plain rows, if it holds
\* one: what may keep an older one from going keeps this one, too.
LEMMA DrainOrder ==
  ASSUME HoldingInv, KeysInv, OrderFacts, NEW w \in Workers, Drain(w)
  PROVE  OrderFacts'
PROOF
<1> DEFINE ready == {S \in Groups : Drainable(S)}
           first == CHOOSE S \in ready :
                      \A T \in ready : key[Lead(S)] <= key[Lead(T)]
<1>0. /\ TypeOK /\ QueueTypeOK /\ job \in [Workers -> Job] /\ ~Working(w)
      /\ \A m \in Msgs : token[m] # Orphan /\ edge[m] = FALSE
  BY DEF HoldingInv, TypeOK, Drain, Idle, Working, OrderFacts, OrderRow
<1>1. CASE archived \/ status = "stopping" \/ ready = {}
  BY <1>1 DEF Drain, OrderFacts, OrderRow, OrderJob, Plain, Fresh, Busy, Row, queueVars
<1>2. CASE ~(archived \/ status = "stopping" \/ ready = {})
  <2>1. /\ Claim(first, w, {})
        /\ job' = [job EXCEPT ![w] = Attempt("drain", first, Lead(first), "auto", {})]
        /\ ~Draining
    BY <1>2 DEF Drain
  <2>2. first \in ready /\ \A T \in ready : key[Lead(first)] <= key[Lead(T)]
    BY <1>0, <1>2, FirstDrainable
  <2>3. PICK S : S = first
    OBVIOUS
  <2> HIDE DEF first
  <2>4. PICK m \in Msgs : S = {m} /\ Live(m)
    <3>1. PICK k \in LiveRows : S = GroupOf(k)
      BY <2>2, <2>3 DEF Groups
    <3> QED BY <1>0, <3>1, GroupsAreRows DEF LiveRows
  <2>5. Lead({m}) = m
    BY <1>0, LeadIsMember
  <2>6. ASSUME Busy(m), NEW n \in Msgs, Plain(n)
        PROVE  key[m] <= key[n]
    <3>1. Live(n)
      BY <1>0, <2>1, <2>6 DEF OrderFacts, OrderRow, Draining, Plain, Busy, Live, QueueTypeOK
    <3>2. GroupOf(n) = {n} /\ GroupOf(n) \in Groups
      BY <1>0, <3>1, GroupsAreRows DEF Groups, LiveRows
    <3>3. Drainable({n})
      <4>1. ~Paused /\ status \in {"idle", "pending"}
        BY <2>2, <2>3, <2>4, <2>6
        DEF Drainable, Claimable, AutoClaimAllowed, WaitCleared, Ordinary, OrdinaryWait,
            Busy
      <4> QED BY <2>6, <4>1
          DEF Drainable, Claimable, AutoClaimAllowed, WaitCleared, Plain,
              IdleDrainableWait, OrdinaryWait
    <3>4. Lead({n}) = n
      BY <1>0, LeadIsMember
    <3> QED BY <2>2, <2>3, <2>4, <2>5, <3>2, <3>3, <3>4
  <2>7. /\ \A v \in Workers \ {w} : job'[v] = job[v]
        /\ job'[w].kind = "drain" /\ job'[w].mode = "auto" /\ job'[w].todo = {}
    <3>1. job'[w] = Attempt("drain", S, Lead(S), "auto", {})
      BY <1>0, <2>1, <2>3
    <3> QED BY <1>0, <2>1, <3>1 DEF Attempt
  <2>8. /\ UNCHANGED <<place, wait, failed, key>>
        /\ token'[m] = w /\ \A n \in Msgs \ {m} : token'[n] = token[n]
        /\ \A n \in Msgs : edge'[n] = FALSE
    BY <1>0, <2>1, <2>3, <2>4 DEF Claim
  <2>9. ASSUME NEW n \in Msgs
        PROVE  (Plain(n)' <=> Plain(n)) /\ (Busy(n)' <=> Busy(n)) /\ (Fresh(n)' <=> Fresh(n))
    BY <2>8 DEF Plain, Busy, Fresh, Row
  <2>10. OrderRow(m)'
    BY <2>6, <2>7, <2>8, <2>9, TokensDistinct DEF OrderRow
  <2>11. ASSUME NEW n \in Msgs \ {m}
         PROVE  OrderRow(n)'
    <3>1. token[n] # w
      BY <1>0 DEF HoldingInv, ClaimsHaveOwners
    <3> QED BY <1>0, <2>7, <2>8, <2>9, <3>1 DEF OrderFacts, OrderRow
  <2>12. ASSUME NEW v \in Workers
         PROVE  OrderJob(v)'
    <3>1. job[v].todo \in SUBSET Msgs
      BY <1>0 DEF Job
    <3> QED BY <2>7, <2>9, <3>1 DEF OrderFacts, OrderJob
  <2> QED BY <2>10, <2>11, <2>12 DEF OrderFacts
<1> QED BY <1>1, <1>2

LEMMA OrderStep == OrderInv /\ [Next]_vars => OrderInv'
PROOF
<1> SUFFICES ASSUME OrderInv, [Next]_vars
             PROVE  OrderInv'
  OBVIOUS
<1>1. /\ HoldingInv /\ HistoryInv /\ KeysInv /\ HoldingInv' /\ HistoryInv' /\ KeysInv'
      /\ TypeOK
  BY HoldingStep, SpentStep, KeysStep DEF OrderInv, HoldingInv
<1> DEFINE ds == {"crash", "now", "group"}
<1>2. ASSUME Spared(ds)'
      PROVE  OrderFacts'
  <2>1. Spared(ds) /\ \A d \in ds : ~Spend(d)
    BY <1>1, <1>2, SparedBefore DEF Disturbance
  <2>2. OrderFacts
    BY <2>1 DEF OrderInv
  <2>3. CASE UNCHANGED vars
    BY <1>1, <2>2, <2>3, SameOrder, OrderKeeps DEF vars
  <2>4. CASE User
    BY <1>1, <2>1, <2>2, <2>4, UserOrder, OrderKeeps
  <2>5. CASE Dispatch
    <3>1. ASSUME NEW w \in Workers, NEW wake \in Walks, StartWalk(w, wake)
          PROVE  OrderFacts'
      BY <1>1, <2>2, <3>1, StartWalkOrder, OrderKeeps
    <3>2. ASSUME NEW w \in Workers, Advance(w) \/ Disturb(w)
          PROVE  OrderFacts'
      BY <1>1, <2>2, <3>2, AdvanceOrder, OrderKeeps
    <3>3. CASE DrainJoins \/ InteractionSettled \/ PluginRechecks
               \/ \E stale \in BOOLEAN : Sweep(stale)
      <4>1. ReleaseOrphans => UNCHANGED queueVars
        <5>1. ASSUME ReleaseOrphans
              PROVE  token' = token
          BY <1>1, <2>2, <5>1 DEF ReleaseOrphans, OrderFacts, OrderRow, TypeOK, QueueTypeOK
        <5> QED BY <5>1 DEF ReleaseOrphans, queueVars
      <4>2. UNCHANGED job /\ (UNCHANGED queueVars \/ ClearWaits("interaction"))
        BY <3>3, <4>1 DEF DrainJoins, InteractionSettled, PluginRechecks, Sweep
      <4> QED BY <1>1, <2>2, <4>2, SameOrder, OrderKeeps
    <3>4. ASSUME NEW w \in Workers, Drain(w)
          PROVE  OrderFacts'
      BY <1>1, <2>2, <3>4, DrainOrder
    <3> QED BY <2>5, <3>1, <3>2, <3>3, <3>4 DEF Dispatch
  <2>6. CASE Daemon \/ Run \/ Host
    <3>1. ASSUME NEW delivered \in BOOLEAN, Crash(delivered)
          PROVE  FALSE
      BY <2>1, <3>1 DEF Crash
    <3>2. UNCHANGED job
      BY <2>6, <3>1, OthersHold DEF held
    <3>3. UNCHANGED queueVars \/ ClearWaits("provisioning")
      BY <2>6, <3>1
      DEF Daemon, CommandAccepted, CommandRejected, TurnStarted, TurnSteered,
          TurnCompleted, TurnEndsUnheard, LateCompletion, Asks, DaemonStops, DaemonDies,
          Run, EnvironmentAttaches, ProvisionSucceeds, ProvisionFails, StopSettled,
          StopFails, SweepArchived, StopThread, StopRun, StopPreStart,
          Host, HostDisconnects, CommandUndelivered, GraceExpires,
          InteractionGraceExpires, HostReturns
    <3> QED BY <1>1, <2>2, <3>2, <3>3, SameOrder, OrderKeeps
  <2> QED BY <2>3, <2>4, <2>5, <2>6 DEF Next
<1> QED BY <1>1, <1>2 DEF OrderInv

\* Only its owner sends a row, and the owner of a plain one is a drain that
\* holds the oldest.
LEMMA SendsOldest ==
  ASSUME OrderInv, [Next]_vars, NEW m \in Msgs, NEW n \in Msgs,
         Spared({"crash", "now", "group"}), Plain(m), Plain(n), key[n] < key[m]
  PROVE  place'[m] # "sent"
PROOF
<1> SUFFICES ASSUME place'[m] = "sent"
             PROVE  FALSE
  OBVIOUS
<1>1. token[m] \in Workers /\ key[m] \in Nat /\ key[n] \in Nat
  BY SentByOwner DEF OrderInv, HoldingInv, TypeOK, QueueTypeOK, Plain
<1>2. key[m] <= key[n]
  BY <1>1 DEF OrderInv, OrderFacts, OrderRow, Plain, Busy
<1> QED BY <1>1, <1>2

\* FirstInFirstOut: while the server lives and the user neither groups rows nor
\* sends them by hand, a plain row is sent only when no older one is queued,
\* however many attempts failed, were stopped or lost a race before.
THEOREM OldestGoesFirst == Spec => FirstInFirstOut
PROOF
<1>1. Init => OrderInv
  <2> SUFFICES ASSUME Init
               PROVE  OrderInv
    OBVIOUS
  <2>1. HoldingInv /\ HistoryInv
    BY HoldingInit, InitialTypes, BudgetNatural DEF Init, HistoryInv, SpentInv
  <2>2. \A m \in Msgs : ~Row(m) /\ token[m] = None /\ edge[m] = FALSE
    BY DEF Init, QueueInit, Row
  <2>3. \A w \in Workers : OrderJob(w)
    <3>1. \A w \in Workers : job[w] = NoJob
      BY DEF Init
    <3> QED BY <3>1 DEF NoJob, OrderJob
  <2>4. KeysInv /\ OrderFacts
    BY <2>2, <2>3, TokensDistinct DEF KeysInv, OrderFacts, OrderRow, Busy
  <2> QED BY <2>1, <2>4 DEF OrderInv
<1>2. OrderInv /\ [Next]_vars =>
        [\A m, n \in Msgs :
           Spared({"crash", "now", "group"}) /\ Plain(m) /\ Plain(n) /\ key[n] < key[m]
           => place'[m] # "sent"]_vars
  BY SendsOldest
<1> QED BY <1>1, <1>2, OrderStep, PTL DEF Spec, FirstInFirstOut
=============================================================================
