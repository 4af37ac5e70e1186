------------------------ MODULE DispatchClaims_proofs ------------------------
(***************************************************************************)
(* Who holds which message.  However the workers race for rows, groups and *)
(* the thread, each message is in a turn request once if it was sent and   *)
(* never otherwise; claims belong to attempts under way; an author's       *)
(* message without a row is in one request's hands; and the dispatch       *)
(* implements MessageLedger.                                               *)
(*                                                                         *)
(* None of these is inductive alone: a message is delivered once because   *)
(* the attempt that delivers it holds its row, or the message itself, and  *)
(* what an attempt holds is what ClaimsHaveOwners, JobsCoherent and        *)
(* InlineHeld say of every step before.                                    *)
(***************************************************************************)
EXTENDS MessageDispatch_proofs

\* What a worker holds fits what it is doing: the row it answers for is one of
\* its rows, and an inline attempt has its one message in its own hands.
JobsCoherent ==
  \A w \in Workers :
    /\ Working(w) => job[w].kind # "none" /\ job[w].cur \in job[w].rows
    /\ Working(w) /\ job[w].kind = "inline" =>
         /\ job[w].rows = {job[w].cur}
         /\ place[job[w].cur] = "inline"
    /\ ~Working(w) => job[w].rows = {} /\ job[w].kind # "inline"

HoldingInv ==
  TypeOK /\ JobsCoherent /\ SentOnce /\ ClaimsHaveOwners /\ InlineHeld

\* All the invariant speaks of.
held == <<place, token, sent, job>>

LEMMA HeldUnchanged ==
  ASSUME HoldingInv, TypeOK', UNCHANGED held
  PROVE  HoldingInv'
PROOF BY DEF HoldingInv, held, JobsCoherent, SentOnce, ClaimsHaveOwners,
             InlineHeld, Working, Row

\* An idle worker, or one between the rows of a walk, claims live rows.
LEMMA ClaimKeeps ==
  ASSUME HoldingInv, TypeOK', NEW w \in Workers, ~Working(w),
         NEW S \in SUBSET Msgs, \A m \in S : Live(m),
         NEW j \in Job, j.rows = S, j.cur \in S,
         j.kind \in {"drain", "auto", "now"}, j.pc \in {"fast", "check"},
         NEW cut, Claim(S, w, cut),
         job' = [job EXCEPT ![w] = j], UNCHANGED sent
  PROVE  HoldingInv'
PROOF
<1>0. /\ place' = place /\ job \in [Workers -> Job]
      /\ token' = [m \in Msgs |-> IF m \in S THEN w ELSE token[m]]
      /\ job'[w] = j /\ \A v \in Workers \ {w} : job'[v] = job[v]
  BY DEF Claim, HoldingInv, TypeOK
<1>1. Working(w)' /\ \A v \in Workers \ {w} : Working(v)' <=> Working(v)
  BY <1>0 DEF Working
<1>2. JobsCoherent'
  BY <1>0, <1>1 DEF HoldingInv, JobsCoherent
<1>3. SentOnce'
  BY <1>0 DEF HoldingInv, SentOnce
<1>4. ClaimsHaveOwners'
  BY <1>0, <1>1 DEF HoldingInv, ClaimsHaveOwners, Live, Row
<1>5. InlineHeld'
  BY <1>0, <1>1 DEF HoldingInv, InlineHeld
<1> QED BY <1>2, <1>3, <1>4, <1>5 DEF HoldingInv

\* A worker that holds nothing starts, goes on with or ends a walk.
LEMMA WalkKeeps ==
  ASSUME HoldingInv, TypeOK', NEW w \in Workers, ~Working(w),
         NEW j \in Job, j.rows = {}, j.kind # "inline", j.pc \in {"idle", "walk"},
         job' = [job EXCEPT ![w] = j], UNCHANGED <<place, token, sent>>
  PROVE  HoldingInv'
PROOF
<1>0. /\ job \in [Workers -> Job]
      /\ job'[w] = j /\ \A v \in Workers \ {w} : job'[v] = job[v]
  BY DEF HoldingInv, TypeOK
<1>1. ~Working(w)' /\ \A v \in Workers \ {w} : Working(v)' <=> Working(v)
  BY <1>0 DEF Working
<1>2. JobsCoherent'
  BY <1>0, <1>1 DEF HoldingInv, JobsCoherent
<1>3. SentOnce'
  BY DEF HoldingInv, SentOnce
<1>4. ClaimsHaveOwners'
  BY <1>0, <1>1 DEF HoldingInv, ClaimsHaveOwners, Row
<1>5. InlineHeld'
  BY <1>0, <1>1 DEF HoldingInv, InlineHeld
<1> QED BY <1>2, <1>3, <1>4, <1>5 DEF HoldingInv

\* An attempt goes on with what it holds.
LEMMA ProceedKeeps ==
  ASSUME HoldingInv, TypeOK', NEW w \in Workers, Working(w),
         NEW j \in Job, j.rows = job[w].rows, j.cur = job[w].cur,
         j.kind = job[w].kind, j.pc \in {"check", "send", "admit"},
         job' = [job EXCEPT ![w] = j], UNCHANGED <<place, token, sent>>
  PROVE  HoldingInv'
PROOF
<1>0. /\ job \in [Workers -> Job]
      /\ job'[w] = j /\ \A v \in Workers \ {w} : job'[v] = job[v]
  BY DEF HoldingInv, TypeOK
<1>1. \A v \in Workers : Working(v)' <=> Working(v)
  BY <1>0 DEF Working
<1>2. \A v \in Workers : /\ job'[v].rows = job[v].rows /\ job'[v].cur = job[v].cur
                         /\ job'[v].kind = job[v].kind
  BY <1>0
<1>3. JobsCoherent' /\ SentOnce'
  BY <1>1, <1>2 DEF HoldingInv, JobsCoherent, SentOnce
<1>4. ClaimsHaveOwners'
  BY <1>1, <1>2 DEF HoldingInv, ClaimsHaveOwners, Row
<1>5. InlineHeld'
  BY <1>1, <1>2 DEF HoldingInv, InlineHeld
<1> QED BY <1>3, <1>4, <1>5 DEF HoldingInv

\* A worker whose attempt ended holds nothing; the others are not touched.
LEMMA EndAttemptFacts ==
  ASSUME TypeOK, NEW w \in Workers, EndAttempt(w)
  PROVE  /\ job'[w].rows = {} /\ job'[w].kind # "inline" /\ ~Working(w)'
         /\ \A v \in Workers \ {w} : job'[v] = job[v] /\ (Working(v)' <=> Working(v))
PROOF BY DEF EndAttempt, Walk, NoJob, Working, TypeOK

\* An attempt that holds rows ends without a send: its claims are released.
LEMMA ReleaseKeeps ==
  ASSUME HoldingInv, TypeOK', NEW w \in Workers, Working(w),
         job[w].kind # "inline", EndAttempt(w),
         token' = Unclaimed(job[w].rows, w), UNCHANGED <<place, sent>>
  PROVE  HoldingInv'
PROOF
<1>0. TypeOK
  BY DEF HoldingInv
<1>1. \A m \in Msgs : /\ token'[m] # w \/ w = None
                      /\ token'[m] = token[m] \/ token'[m] = None
  BY <1>0 DEF Unclaimed, TypeOK, QueueTypeOK, HoldingInv, ClaimsHaveOwners
<1>2. JobsCoherent'
  BY <1>0, EndAttemptFacts DEF HoldingInv, JobsCoherent
<1>3. SentOnce'
  BY DEF HoldingInv, SentOnce
<1>4. ClaimsHaveOwners'
  BY <1>0, <1>1, EndAttemptFacts, TokensDistinct DEF HoldingInv, ClaimsHaveOwners, Row
<1>5. InlineHeld'
  BY <1>0, EndAttemptFacts DEF HoldingInv, InlineHeld
<1> QED BY <1>2, <1>3, <1>4, <1>5 DEF HoldingInv

\* No other request holds the message of an inline attempt.
LEMMA InlineAlone ==
  ASSUME HoldingInv, NEW w \in Workers, Working(w), job[w].kind = "inline"
  PROVE  /\ job[w].cur \in Msgs /\ job[w].rows = {job[w].cur}
         /\ place[job[w].cur] = "inline"
         /\ \A v \in Workers \ {w} :
              Working(v) /\ job[v].kind = "inline" => job[v].cur # job[w].cur
PROOF
<1>1. /\ job[w].rows = {job[w].cur} /\ place[job[w].cur] = "inline"
      /\ job[w].rows \in SUBSET Msgs
  BY DEF HoldingInv, JobsCoherent, TypeOK, Job
<1>2. ASSUME NEW v \in Workers \ {w}, Working(v), job[v].kind = "inline",
             job[v].cur = job[w].cur
      PROVE  FALSE
  <2>1. job[v].rows = {job[w].cur}
    BY <1>2 DEF HoldingInv, JobsCoherent
  <2> QED BY <1>1, <1>2, <2>1 DEF HoldingInv, InlineHeld
<1> QED BY <1>1, <1>2

\* An inline attempt ends: its message was refused, queued or sent.
LEMMA InlineEndKeeps ==
  ASSUME HoldingInv, TypeOK', NEW w \in Workers, Working(w),
         job[w].kind = "inline", EndAttempt(w),
         NEW where \in {"refused", "queue", "sent"},
         place' = [place EXCEPT ![job[w].cur] = where], UNCHANGED token,
         \A m \in Msgs : sent'[m] = IF m = job[w].cur /\ where = "sent"
                                    THEN sent[m] + 1 ELSE sent[m]
  PROVE  HoldingInv'
PROOF
<1> DEFINE c == job[w].cur
<1>0. TypeOK /\ c \in Msgs /\ place[c] = "inline" /\ job[w].rows = {c}
  BY InlineAlone DEF HoldingInv
<1>1. place'[c] = where /\ \A m \in Msgs \ {c} : place'[m] = place[m]
  BY <1>0 DEF TypeOK, QueueTypeOK
<1>2. JobsCoherent'
  <2>1. ASSUME NEW v \in Workers, Working(v)', job'[v].kind = "inline"
        PROVE  v # w /\ Working(v) /\ job[v].kind = "inline" /\ job[v].cur # c
    BY <1>0, <2>1, EndAttemptFacts, InlineAlone
  <2>2. ASSUME NEW v \in Workers, Working(v)', job'[v].kind = "inline"
        PROVE  /\ job'[v].rows = {job'[v].cur}
               /\ place'[job'[v].cur] = "inline"
    <3>1. job[v].cur \in Msgs /\ job'[v] = job[v]
      BY <1>0, <2>1, <2>2, InlineAlone, EndAttemptFacts
    <3> QED BY <1>1, <2>1, <2>2, <3>1 DEF HoldingInv, JobsCoherent
  <2> QED BY <1>0, <2>2, EndAttemptFacts DEF HoldingInv, JobsCoherent
<1>3. SentOnce'
  BY <1>0, <1>1 DEF HoldingInv, SentOnce, TypeOK
<1>4. ClaimsHaveOwners'
  BY <1>0, <1>1, EndAttemptFacts DEF HoldingInv, ClaimsHaveOwners, Row
<1>5. InlineHeld'
  <2> SUFFICES ASSUME NEW m \in Msgs, place'[m] = "inline"
               PROVE  \E v \in Workers :
                        /\ Working(v)' /\ job'[v].kind = "inline"
                        /\ job'[v].rows = {m}
                        /\ \A u \in Workers \ {v} :
                             ~(job'[u].kind = "inline" /\ m \in job'[u].rows)
    BY DEF InlineHeld
  <2>1. m # c /\ place[m] = "inline"
    BY <1>1
  <2>2. PICK v \in Workers :
          /\ Working(v) /\ job[v].kind = "inline" /\ job[v].rows = {m}
          /\ \A u \in Workers \ {v} : ~(job[u].kind = "inline" /\ m \in job[u].rows)
    BY <2>1 DEF HoldingInv, InlineHeld
  <2>3. v # w
    BY <1>0, <2>1, <2>2
  <2> QED BY <1>0, <2>2, <2>3, EndAttemptFacts
<1> QED BY <1>2, <1>3, <1>4, <1>5 DEF HoldingInv

\* An attempt gives up, or its rows or message wait on.
LEMMA GiveUpKeeps ==
  ASSUME HoldingInv, TypeOK', NEW w \in Workers, Working(w), NEW why,
         GiveUp(w, why), UNCHANGED sent
  PROVE  HoldingInv'
PROOF
<1>1. CASE job[w].kind = "inline"
  BY <1>1, InlineEndKeeps DEF GiveUp, Settle
<1>2. CASE job[w].kind # "inline"
  BY <1>2, ReleaseKeeps DEF GiveUp, Release, ReleaseOffline, ReleaseFailed
<1> QED BY <1>1, <1>2

LEMMA QueueOnKeeps ==
  ASSUME HoldingInv, TypeOK', NEW w \in Workers, Working(w), NEW reason,
         QueueOn(w, reason), UNCHANGED sent
  PROVE  HoldingInv'
PROOF
<1>1. CASE job[w].kind = "inline"
  BY <1>1, InlineEndKeeps DEF QueueOn, Create
<1>2. CASE job[w].kind # "inline"
  BY <1>2, ReleaseKeeps DEF QueueOn, Requeue
<1> QED BY <1>1, <1>2

LEMMA ReattemptKeeps ==
  ASSUME HoldingInv, TypeOK', NEW w \in Workers, Working(w), Reattempt(w),
         UNCHANGED sent
  PROVE  HoldingInv'
PROOF
<1>1. CASE job[w].retried
  BY <1>1, GiveUpKeeps DEF Reattempt
<1>2. CASE ~job[w].retried
  <2> DEFINE j == [job[w] EXCEPT !.snap = Now, !.retried = TRUE, !.pc = "check"]
  <2>1. job' = [job EXCEPT ![w] = j] /\ UNCHANGED queueVars
    BY <1>2 DEF Reattempt, HoldingInv, TypeOK
  <2>2. /\ j \in Job /\ j.rows = job[w].rows /\ j.cur = job[w].cur
        /\ j.kind = job[w].kind /\ j.pc = "check"
    <3>1. job[w] \in Job /\ Now \in Snapshot
      BY NowTypes DEF HoldingInv, TypeOK
    <3> DEFINE old == job[w]
               snap == Now
    <3>2. j = [old EXCEPT !.snap = snap, !.retried = TRUE, !.pc = "check"]
      OBVIOUS
    <3>3. old \in Job /\ snap \in Snapshot
      BY <3>1
    <3> HIDE DEF j, old, snap
    <3>4. /\ j \in Job /\ j.rows = old.rows /\ j.cur = old.cur
          /\ j.kind = old.kind /\ j.pc = "check"
      BY <3>2, <3>3, RereadTypes
    <3> QED BY <3>4 DEF old
  <2> HIDE DEF j
  <2> QED BY <2>1, <2>2, ProceedKeeps DEF queueVars
<1> QED BY <1>1, <1>2

\* An attempt sends what it holds.
LEMMA DeliverKeeps ==
  ASSUME HoldingInv, TypeOK', NEW w \in Workers, Working(w), MayCommit(w), Deliver(w)
  PROVE  HoldingInv'
PROOF
<1>0. TypeOK /\ EndAttempt(w)
  BY DEF HoldingInv, Deliver
<1>1. CASE job[w].kind = "inline"
  BY <1>1, InlineAlone, InlineEndKeeps DEF Deliver, Settle, HoldingInv, TypeOK
<1>2. CASE job[w].kind # "inline"
  <2> DEFINE S == job[w].rows
  <2>1. \A m \in S : m \in Msgs /\ Row(m) /\ token[m] = w
    BY <1>2 DEF MayCommit, ClaimLost, Owned, HoldingInv, TypeOK, Job
  <2>2. \A m \in Msgs : /\ place'[m] = (IF m \in S THEN "sent" ELSE place[m])
                        /\ token'[m] = (IF m \in S THEN None ELSE token[m])
                        /\ sent'[m] = (IF m \in S THEN sent[m] + 1 ELSE sent[m])
    BY <1>2 DEF Deliver, Remove
  <2>3. \A m \in Msgs : token[m] = w => m \in S
    BY DEF HoldingInv, ClaimsHaveOwners
  <2> HIDE DEF S
  <2>4. JobsCoherent'
    <3>1. \A v \in Workers : Working(v)' => Working(v) /\ job'[v] = job[v]
      BY <1>0, EndAttemptFacts
    <3>2. ASSUME NEW v \in Workers, Working(v)', job'[v].kind = "inline"
          PROVE  /\ job'[v].rows = {job'[v].cur}
                 /\ place'[job'[v].cur] = "inline"
      <4>1. /\ job[v].rows = {job[v].cur} /\ job[v].cur \in Msgs
            /\ place[job[v].cur] = "inline" /\ job'[v] = job[v]
        BY <3>1, <3>2, InlineAlone
      <4> QED BY <2>1, <2>2, <4>1 DEF Row
    <3> QED BY <1>0, <3>1, <3>2, EndAttemptFacts DEF HoldingInv, JobsCoherent
  <2>5. SentOnce'
    BY <2>1, <2>2 DEF HoldingInv, SentOnce, Row, TypeOK
  <2>6. ClaimsHaveOwners'
    BY <1>0, <2>2, <2>3, EndAttemptFacts, TokensDistinct
    DEF HoldingInv, ClaimsHaveOwners, Row
  <2>7. InlineHeld'
    BY <1>0, <1>2, <2>1, <2>2, EndAttemptFacts DEF HoldingInv, InlineHeld, Row
  <2> QED BY <2>4, <2>5, <2>6, <2>7 DEF HoldingInv
<1> QED BY <1>1, <1>2
-----------------------------------------------------------------------------
(* The steps of Next, sorted by what they do to what is held. *)

LEMMA UserHolds ==
  ASSUME HoldingInv, TypeOK', User
  PROVE  HoldingInv'
PROOF
<1>0. TypeOK
  BY DEF HoldingInv
<1>1. ASSUME NEW w \in Workers, NEW m \in Msgs, NEW mode \in {"auto", "queue"},
             UserSends(w, m, mode)
      PROVE  HoldingInv'
  <2> DEFINE j == Attempt("inline", {m}, m, mode, {})
  <2>1. /\ job' = [job EXCEPT ![w] = j] /\ UNCHANGED <<token, sent>>
        /\ place[m] = "new" /\ ~Working(w)
        /\ place' = [place EXCEPT ![m] = "inline"]
    BY <1>1 DEF UserSends, Settle, Idle, Working
  <2>2. /\ j.rows = {m} /\ j.cur = m /\ j.kind = "inline"
        /\ j.pc \in {"fast", "check"}
    BY DEF Attempt, FirstStep
  <2> HIDE DEF j
  <2>3. /\ job'[w] = j /\ \A v \in Workers \ {w} : job'[v] = job[v]
        /\ place'[m] = "inline" /\ \A n \in Msgs \ {m} : place'[n] = place[n]
    BY <1>0, <2>1 DEF TypeOK, QueueTypeOK
  <2>4. Working(w)' /\ \A v \in Workers \ {w} : Working(v)' <=> Working(v)
    BY <2>2, <2>3 DEF Working
  <2>5. \A v \in Workers : job[v].kind = "inline" =>
           Working(v) /\ job[v].rows = {job[v].cur} /\ place[job[v].cur] = "inline"
    BY DEF HoldingInv, JobsCoherent
  <2>6. JobsCoherent'
    <3>1. ASSUME NEW v \in Workers \ {w}, Working(v)', job'[v].kind = "inline"
          PROVE  job'[v].rows = {job'[v].cur} /\ place'[job'[v].cur] = "inline"
      <4>1. job[v].cur \in Msgs
        BY <1>0, <2>3, <2>4, <3>1, InlineAlone
      <4> QED BY <2>1, <2>3, <2>5, <3>1, <4>1
    <3> QED BY <2>2, <2>3, <2>4, <3>1 DEF HoldingInv, JobsCoherent
  <2>7. SentOnce'
    BY <2>1, <2>3 DEF HoldingInv, SentOnce
  <2>8. ClaimsHaveOwners'
    BY <2>1, <2>2, <2>3, <2>4 DEF HoldingInv, ClaimsHaveOwners, Row
  <2>9. InlineHeld'
    <3> SUFFICES ASSUME NEW n \in Msgs, place'[n] = "inline"
                 PROVE  \E v \in Workers :
                          /\ Working(v)' /\ job'[v].kind = "inline"
                          /\ job'[v].rows = {n}
                          /\ \A u \in Workers \ {v} :
                               ~(job'[u].kind = "inline" /\ n \in job'[u].rows)
      BY DEF InlineHeld
    <3>1. CASE n = m
      BY <2>1, <2>2, <2>3, <2>4, <2>5, <3>1
    <3>2. CASE n # m
      <4>1. PICK v \in Workers :
              /\ Working(v) /\ job[v].kind = "inline" /\ job[v].rows = {n}
              /\ \A u \in Workers \ {v} :
                   ~(job[u].kind = "inline" /\ n \in job[u].rows)
        BY <2>3, <3>2 DEF HoldingInv, InlineHeld
      <4> QED BY <2>1, <2>2, <2>3, <2>4, <3>2, <4>1
    <3> QED BY <3>1, <3>2
  <2> QED BY <2>6, <2>7, <2>8, <2>9 DEF HoldingInv
<1>2. ASSUME NEW m \in Msgs, UserQueues(m)
      PROVE  HoldingInv'
  <2>1. /\ place[m] = "new" /\ place' = [place EXCEPT ![m] = "queue"]
        /\ UNCHANGED <<token, sent, job>>
    BY <1>2 DEF UserQueues, Create
  <2>2. place'[m] = "queue" /\ \A n \in Msgs \ {m} : place'[n] = place[n]
    BY <1>0, <2>1 DEF TypeOK, QueueTypeOK
  <2>3. \A w \in Workers : Working(w)' <=> Working(w)
    BY <2>1 DEF Working
  <2>4. \A w \in Workers : Working(w) /\ job[w].kind = "inline" => job[w].cur \in Msgs
    BY InlineAlone
  <2>5. JobsCoherent'
    BY <2>1, <2>2, <2>3, <2>4 DEF HoldingInv, JobsCoherent
  <2>6. SentOnce' /\ ClaimsHaveOwners'
    BY <2>1, <2>2, <2>3 DEF HoldingInv, SentOnce, ClaimsHaveOwners, Row
  <2>7. InlineHeld'
    BY <2>1, <2>2, <2>3 DEF HoldingInv, InlineHeld
  <2> QED BY <2>5, <2>6, <2>7 DEF HoldingInv
<1>3. ASSUME NEW m \in Msgs, UserDeletes(m)
      PROVE  HoldingInv'
  <2>1. Row(m) /\ UNCHANGED <<sent, job>>
    BY <1>3 DEF UserDeletes
  <2>2. \A n \in Msgs :
           /\ place'[n] = (IF n = m THEN "deleted" ELSE place[n])
           /\ token'[n] = (IF n = m THEN None ELSE token[n])
    BY <1>3 DEF UserDeletes, Remove
  <2>3. \A w \in Workers : Working(w)' <=> Working(w)
    BY <2>1 DEF Working
  <2>4. \A w \in Workers : Working(w) /\ job[w].kind = "inline" => job[w].cur \in Msgs
    BY InlineAlone
  <2>5. JobsCoherent'
    BY <2>1, <2>2, <2>3, <2>4 DEF HoldingInv, JobsCoherent, Row
  <2>6. SentOnce' /\ ClaimsHaveOwners'
    BY <2>1, <2>2, <2>3, TokensDistinct DEF HoldingInv, SentOnce, ClaimsHaveOwners, Row
  <2>7. InlineHeld'
    BY <2>1, <2>2, <2>3 DEF HoldingInv, InlineHeld, Row
  <2> QED BY <2>5, <2>6, <2>7 DEF HoldingInv
<1>4. ASSUME NEW w \in Workers, NEW m \in Msgs, UserSendsNow(w, m)
      PROVE  HoldingInv'
  <2> DEFINE S == IF Lead(GroupOf(m)) = m THEN GroupOf(m) ELSE {m}
             cut == IF Lead(GroupOf(m)) = m THEN {}
                    ELSE {m} \union {k \in Msgs : JoinsTo(k, m)}
             j == Attempt("now", S, m, "auto", {})
  <2>1. /\ Claim(S, w, cut) /\ job' = [job EXCEPT ![w] = j] /\ UNCHANGED sent
        /\ ~Working(w) /\ Live(m)
    BY <1>4 DEF UserSendsNow, Idle, Working
  <2>2. /\ S \in SUBSET Msgs /\ m \in S /\ \A n \in S : Live(n)
    BY <1>0, <2>1, GroupIsLive DEF TypeOK
  <2>3. /\ j \in Job /\ j.rows = S /\ j.cur = m /\ j.kind = "now"
        /\ j.pc \in {"fast", "check"}
    <3> HIDE DEF S
    <3> QED BY <1>0, <2>2, AttemptTypes DEF Attempt, FirstStep
  <2> HIDE DEF S, cut, j
  <2> QED BY <2>1, <2>2, <2>3, ClaimKeeps
<1>5. ASSUME NEW m \in Msgs, UserGroups(m)
      PROVE  UNCHANGED held
  BY <1>5 DEF UserGroups, GroupUpTo, held
<1>6. ASSUME UserStops \/ UserArchives \/ UserUnarchives \/ Answered
      PROVE  UNCHANGED held
  BY <1>6 DEF UserStops, UserArchives, UserUnarchives, Answered, StopThread,
              StopRun, StopPreStart, ClearWaits, queueVars, held
<1> QED BY <1>1, <1>2, <1>3, <1>4, <1>5, <1>6, HeldUnchanged DEF User

LEMMA AdvanceHolds ==
  ASSUME HoldingInv, TypeOK', NEW w \in Workers, Advance(w)
  PROVE  HoldingInv'
PROOF
<1>0. TypeOK
  BY DEF HoldingInv
<1>1. CASE WalkOn(w)
  <2> DEFINE todo == job[w].todo
             m == Lead(todo)
             rest == todo \ {m}
  <2>0. /\ todo \in SUBSET Msgs /\ rest \in SUBSET Msgs /\ ~Working(w)
        /\ UNCHANGED sent
    BY <1>0, <1>1 DEF WalkOn, Working, TypeOK, Job
  <2>1. CASE todo = {}
    BY <1>1, <2>0, <2>1, NoJobTypes, WalkKeeps DEF WalkOn, NoJob, queueVars
  <2>2. CASE todo # {} /\ Live(m) /\ Claimable(GroupOf(m))
    <3> DEFINE j == Attempt("auto", GroupOf(m), m, "auto", rest)
    <3>1. Claim(GroupOf(m), w, {}) /\ job' = [job EXCEPT ![w] = j]
      BY <1>1, <2>2 DEF WalkOn
    <3>2. m \in Msgs
      BY <1>0, <2>0, <2>2, LeadIsMember DEF TypeOK
    <3>3. /\ GroupOf(m) \in SUBSET Msgs /\ m \in GroupOf(m)
          /\ \A n \in GroupOf(m) : Live(n)
      BY <1>0, <2>2, <3>2, GroupIsLive DEF TypeOK
    <3>4. /\ j \in Job /\ j.rows = GroupOf(m) /\ j.cur = m /\ j.kind = "auto"
          /\ j.pc \in {"fast", "check"}
      <4> HIDE DEF m, rest
      <4> QED BY <1>0, <2>0, <3>2, <3>3, AttemptTypes DEF Attempt, FirstStep
    <3> HIDE DEF j
    <3> QED BY <2>0, <3>1, <3>3, <3>4, ClaimKeeps
  <2>3. CASE todo # {} /\ ~(Live(m) /\ Claimable(GroupOf(m)))
    <3>1. job' = [job EXCEPT ![w] = Walk(rest)] /\ UNCHANGED queueVars
      BY <1>1, <2>3 DEF WalkOn
    <3>2. /\ Walk(rest).rows = {} /\ Walk(rest).kind # "inline"
          /\ Walk(rest).pc = "walk"
      BY DEF Walk, NoJob
    <3> HIDE DEF rest
    <3> QED BY <2>0, <3>1, <3>2, WalkTypes, WalkKeeps DEF queueVars
  <2> QED BY <2>1, <2>2, <2>3
<1>2. CASE CheckWaits(w)
  BY <1>2, QueueOnKeeps DEF CheckWaits, Checking, Working
<1>3. CASE CheckPasses(w)
  <2> DEFINE pc == IF First(job[w].snap) THEN "admit" ELSE "send"
             j == [job[w] EXCEPT !.pc = pc]
  <2>1. /\ j \in Job /\ j.rows = job[w].rows /\ j.cur = job[w].cur
        /\ j.kind = job[w].kind /\ j.pc \in {"send", "admit"}
    <3>1. job[w] \in Job /\ pc \in {"send", "admit"}
      BY <1>0 DEF TypeOK
    <3> HIDE DEF pc
    <3> QED BY <3>1 DEF Job
  <2>2. job' = [job EXCEPT ![w] = j]
    BY <1>0, <1>3 DEF CheckPasses, TypeOK
  <2> HIDE DEF j
  <2> QED BY <1>3, <2>1, <2>2, ProceedKeeps DEF CheckPasses, Checking, Working, queueVars
<1>4. CASE CheckMoved(w)
  BY <1>4, ReattemptKeeps DEF CheckMoved, Checking, Working
<1>5. CASE CheckArchived(w)
  BY <1>5, GiveUpKeeps DEF CheckArchived, Working
<1>6. CASE FastSend(w) \/ SendStart(w) \/ SendJoin(w) \/ Admit(w)
  BY <1>6, DeliverKeeps DEF FastSend, SendStart, SendJoin, Admit, Working
<1>7. CASE CommitMoved(w)
  BY <1>7, ReattemptKeeps DEF CommitMoved, Working
<1>8. CASE CommitFails(w)
  <2>1. PICK why \in {"paused", "claim-lost", "error"} : GiveUp(w, why)
    BY <1>8 DEF CommitFails
  <2> QED BY <1>8, <2>1, GiveUpKeeps DEF CommitFails, Working
<1> QED BY <1>1, <1>2, <1>3, <1>4, <1>5, <1>6, <1>7, <1>8 DEF Advance

LEMMA DispatchHolds ==
  ASSUME HoldingInv, TypeOK', Dispatch
  PROVE  HoldingInv'
PROOF
<1>0. TypeOK
  BY DEF HoldingInv
<1>1. ASSUME NEW w \in Workers, Drain(w)
      PROVE  HoldingInv'
  <2> DEFINE ready == {S \in Groups : Drainable(S)}
             first == CHOOSE S \in ready :
                        \A T \in ready : key[Lead(S)] <= key[Lead(T)]
             j == Attempt("drain", first, Lead(first), "auto", {})
  <2>1. CASE archived \/ status = "stopping" \/ ready = {}
    BY <1>1, <2>1, HeldUnchanged DEF Drain, queueVars, held
  <2>2. CASE ~(archived \/ status = "stopping" \/ ready = {})
    <3>1. Claim(first, w, {}) /\ job' = [job EXCEPT ![w] = j] /\ UNCHANGED sent
      BY <1>1, <2>2 DEF Drain
    <3>2. /\ first \in SUBSET Msgs /\ Lead(first) \in first /\ Lead(first) \in Msgs
          /\ \A m \in first : Live(m)
      BY <1>0, <2>2, FirstDrainable
    <3>3. ~Working(w)
      BY <1>1 DEF Drain, Idle, Working
    <3> HIDE DEF first
    <3>4. /\ j \in Job /\ j.rows = first /\ j.cur = Lead(first) /\ j.kind = "drain"
          /\ j.pc \in {"fast", "check"}
      BY <1>0, <3>2, AttemptTypes DEF Attempt, FirstStep
    <3> HIDE DEF j
    <3> QED BY <3>1, <3>2, <3>3, <3>4, ClaimKeeps
  <2> QED BY <2>1, <2>2
<1>2. ASSUME NEW w \in Workers, PluginHolds(w)
      PROVE  HoldingInv'
  BY <1>2, QueueOnKeeps DEF PluginHolds, Checking, Working
<1>3. ASSUME NEW w \in Workers, NEW why, AttemptFails(w, why)
      PROVE  HoldingInv'
  BY <1>3, GiveUpKeeps DEF AttemptFails, Working
<1>4. ASSUME NEW w \in Workers, NEW wake \in Walks, StartWalk(w, wake)
      PROVE  HoldingInv'
  <2> DEFINE rest == IF Dropped(wake) THEN {} ELSE WaitingOn(WalkKinds(wake))
  <2>1. /\ UNCHANGED <<place, token, sent>> /\ ~Working(w)
        /\ job' = IF rest = {} THEN job ELSE [job EXCEPT ![w] = Walk(rest)]
    BY <1>4 DEF StartWalk, ClearWaits, queueVars, Idle, Working
  <2>2. rest \in SUBSET Msgs
    BY DEF WaitingOn, LiveRows
  <2>3. /\ Walk(rest).rows = {} /\ Walk(rest).kind # "inline"
        /\ Walk(rest).pc = "walk"
    BY DEF Walk, NoJob
  <2> HIDE DEF rest
  <2>4. CASE rest = {}
    BY <2>1, <2>4, HeldUnchanged DEF held
  <2>5. CASE rest # {}
    BY <2>1, <2>2, <2>3, <2>5, WalkTypes, WalkKeeps
  <2> QED BY <2>4, <2>5
<1>5. CASE DrainJoins \/ InteractionSettled \/ PluginRechecks
  BY <1>5, HeldUnchanged
  DEF DrainJoins, InteractionSettled, PluginRechecks, ClearWaits, queueVars, held
<1>6. ASSUME NEW stale \in BOOLEAN, Sweep(stale)
      PROVE  HoldingInv'
  <2>1. /\ UNCHANGED <<place, sent, job>>
        /\ \A m \in Msgs : token'[m] = token[m] \/ token'[m] = None
    BY <1>6 DEF Sweep, ReleaseOrphans, queueVars
  <2>2. \A w \in Workers : Working(w)' <=> Working(w)
    BY <2>1 DEF Working
  <2>3. JobsCoherent' /\ SentOnce' /\ InlineHeld'
    BY <2>1, <2>2 DEF HoldingInv, JobsCoherent, SentOnce, InlineHeld
  <2>4. ClaimsHaveOwners'
    BY <2>1, <2>2, TokensDistinct DEF HoldingInv, ClaimsHaveOwners, Row
  <2> QED BY <2>3, <2>4 DEF HoldingInv
<1> QED BY <1>1, <1>2, <1>3, <1>4, <1>5, <1>6, AdvanceHolds DEF Dispatch, Disturb

LEMMA OthersHold ==
  ASSUME Daemon \/ Run \/ (Host /\ ~\E delivered \in BOOLEAN : Crash(delivered))
  PROVE  UNCHANGED held
PROOF
<1>1. CASE Daemon
  BY <1>1 DEF Daemon, CommandAccepted, CommandRejected, TurnStarted, TurnSteered,
     TurnCompleted, TurnEndsUnheard, LateCompletion, Asks, DaemonStops, DaemonDies,
     queueVars, held
<1>2. CASE Run
  BY <1>2 DEF Run, EnvironmentAttaches, ProvisionSucceeds, ProvisionFails,
     StopSettled, StopFails, SweepArchived, StopThread, StopRun, StopPreStart,
     ClearWaits, queueVars, held
<1>3. CASE Host /\ ~\E delivered \in BOOLEAN : Crash(delivered)
  BY <1>3 DEF Host, HostDisconnects, CommandUndelivered, GraceExpires,
     InteractionGraceExpires, HostReturns, queueVars, held
<1> QED BY <1>1, <1>2, <1>3

LEMMA CrashHolds ==
  ASSUME HoldingInv, TypeOK', NEW delivered \in BOOLEAN, Crash(delivered)
  PROVE  HoldingInv'
PROOF
<1>0. TypeOK
  BY DEF HoldingInv
<1>1. /\ \A w \in Workers : job'[w] = NoJob
      /\ UNCHANGED sent
      /\ \A m \in Msgs :
           /\ token'[m] \notin Workers
           /\ place'[m] = IF place[m] = "inline" THEN "refused" ELSE place[m]
  BY <1>0, TokensDistinct DEF Crash, Abandon, TypeOK, QueueTypeOK
<1>2. \A w \in Workers : ~Working(w)' /\ job'[w].rows = {} /\ job'[w].kind = "none"
  BY <1>1 DEF NoJob, Working
<1>3. JobsCoherent' /\ ClaimsHaveOwners' /\ InlineHeld'
  BY <1>1, <1>2 DEF JobsCoherent, ClaimsHaveOwners, InlineHeld
<1>4. SentOnce'
  BY <1>1 DEF HoldingInv, SentOnce
<1> QED BY <1>3, <1>4 DEF HoldingInv

LEMMA HoldingInit == Init => HoldingInv
PROOF
<1> SUFFICES ASSUME Init
             PROVE  HoldingInv
  OBVIOUS
<1>1. \A w \in Workers : job[w] = NoJob
  BY DEF Init
<1>2. /\ \A m \in Msgs : place[m] = "new" /\ token[m] = None /\ sent[m] = 0
      /\ \A w \in Workers : ~Working(w) /\ job[w].rows = {} /\ job[w].kind = "none"
  BY <1>1 DEF Init, QueueInit, NoJob, Working
<1> QED BY <1>2, InitialTypes, TokensDistinct
    DEF HoldingInv, JobsCoherent, SentOnce, ClaimsHaveOwners, InlineHeld

LEMMA HoldingStep == HoldingInv /\ [Next]_vars => HoldingInv'
PROOF
<1> SUFFICES ASSUME HoldingInv, [Next]_vars
             PROVE  HoldingInv'
  OBVIOUS
<1>0. TypeOK'
  BY TypeStep DEF HoldingInv
<1>1. CASE UNCHANGED vars
  BY <1>0, <1>1, HeldUnchanged DEF vars, queueVars, held
<1>2. CASE Next
  BY <1>0, <1>2, UserHolds, DispatchHolds, OthersHold, CrashHolds, HeldUnchanged
  DEF Next
<1> QED BY <1>1, <1>2

LEMMA Holding == Spec => []HoldingInv
PROOF BY HoldingInit, HoldingStep, PTL DEF Spec

\* SentOnce: a message is put in a turn request once if it was sent, and never
\* otherwise, with any number of drains, walks, requests and crashes.
THEOREM SentExactlyOnce == Spec => []SentOnce
PROOF
<1>1. HoldingInv => SentOnce
  BY DEF HoldingInv
<1> QED BY <1>1, Holding, PTL

\* ClaimsHaveOwners: no claim of the running process leaks.
THEOREM ClaimsNeverLeak == Spec => []ClaimsHaveOwners
PROOF
<1>1. HoldingInv => ClaimsHaveOwners
  BY DEF HoldingInv
<1> QED BY <1>1, Holding, PTL

\* InlineHeld: a message without a row is in exactly one request's hands.
THEOREM InlineMessagesHeld == Spec => []InlineHeld
PROOF
<1>1. HoldingInv => InlineHeld
  BY DEF HoldingInv
<1> QED BY <1>1, Holding, PTL

-----------------------------------------------------------------------------
(* MessageDispatch implements MessageLedger: each of its steps is a step of   *)
(* the ledger or leaves the ledger alone.                                     *)

LEMMA LedgerInit == Init => Ledger!Init
PROOF BY DEF Init, QueueInit, Ledger!Init

\* An attempt that ends unsent refuses or queues its message, or leaves its
\* rows in the queue.
LEMMA GiveUpInLedger ==
  ASSUME HoldingInv, NEW w \in Workers, Working(w), NEW why, GiveUp(w, why),
         UNCHANGED sent
  PROVE  [Ledger!Next]_(Ledger!vars)
PROOF
<1>1. CASE job[w].kind = "inline"
  <2> DEFINE c == job[w].cur
  <2>1. c \in Msgs /\ place[c] = "inline" /\ place' = [place EXCEPT ![c] = "refused"]
    BY <1>1, InlineAlone DEF GiveUp, Settle
  <2>2. Ledger!Refuse({c})
    BY <2>1 DEF Ledger!Refuse, Ledger!Move, HoldingInv, TypeOK, QueueTypeOK
  <2> QED BY <2>1, <2>2 DEF Ledger!Next
<1>2. CASE job[w].kind # "inline"
  BY <1>2 DEF GiveUp, Release, ReleaseOffline, ReleaseFailed, Ledger!vars
<1> QED BY <1>1, <1>2

LEMMA QueueOnInLedger ==
  ASSUME HoldingInv, NEW w \in Workers, Working(w), NEW reason,
         QueueOn(w, reason), UNCHANGED sent
  PROVE  [Ledger!Next]_(Ledger!vars)
PROOF
<1>1. CASE job[w].kind = "inline"
  <2> DEFINE c == job[w].cur
  <2>1. c \in Msgs /\ place[c] = "inline" /\ place' = [place EXCEPT ![c] = "queue"]
    BY <1>1, InlineAlone DEF QueueOn, Create
  <2>2. Ledger!Accept(c)
    BY <2>1 DEF Ledger!Accept, Ledger!Move, HoldingInv, TypeOK, QueueTypeOK
  <2> QED BY <2>1, <2>2 DEF Ledger!Next
<1>2. CASE job[w].kind # "inline"
  BY <1>2 DEF QueueOn, Requeue, Ledger!vars
<1> QED BY <1>1, <1>2

LEMMA ReattemptInLedger ==
  ASSUME HoldingInv, NEW w \in Workers, Working(w), Reattempt(w), UNCHANGED sent
  PROVE  [Ledger!Next]_(Ledger!vars)
PROOF BY GiveUpInLedger DEF Reattempt, queueVars, Ledger!vars

LEMMA DeliverInLedger ==
  ASSUME HoldingInv, NEW w \in Workers, Working(w), MayCommit(w), Deliver(w)
  PROVE  [Ledger!Next]_(Ledger!vars)
PROOF
<1> DEFINE S == job[w].rows
<1>1. S \in SUBSET Msgs /\ S # {}
  BY DEF HoldingInv, JobsCoherent, TypeOK, Job
<1>2. \A m \in S : place[m] \in {"inline", "queue"}
  BY <1>1, InlineAlone DEF MayCommit, ClaimLost, Owned, Row
<1>3. place' = [m \in Msgs |-> IF m \in S THEN "sent" ELSE place[m]]
  <2>1. CASE job[w].kind = "inline"
    BY <2>1, InlineAlone DEF Deliver, Settle, HoldingInv, TypeOK, QueueTypeOK
  <2>2. CASE job[w].kind # "inline"
    BY <2>2 DEF Deliver, Remove
  <2> QED BY <2>1, <2>2
<1>4. sent' = [m \in Msgs |-> IF m \in S THEN sent[m] + 1 ELSE sent[m]]
  BY DEF Deliver
<1> HIDE DEF S
<1>5. Ledger!Deliver(S)
  BY <1>1, <1>2, <1>3, <1>4 DEF Ledger!Deliver, Ledger!Move
<1> QED BY <1>1, <1>5 DEF Ledger!Next

LEMMA UserInLedger ==
  ASSUME HoldingInv, User
  PROVE  [Ledger!Next]_(Ledger!vars)
PROOF
<1>0. place \in [Msgs -> Place]
  BY DEF HoldingInv, TypeOK, QueueTypeOK
<1>1. ASSUME NEW w \in Workers, NEW m \in Msgs, NEW mode, UserSends(w, m, mode)
      PROVE  Ledger!Submit(m)
  BY <1>0, <1>1 DEF UserSends, Settle, Ledger!Submit, Ledger!Move
<1>2. ASSUME NEW m \in Msgs, UserQueues(m)
      PROVE  Ledger!Accept(m)
  BY <1>0, <1>2 DEF UserQueues, Create, Ledger!Accept, Ledger!Move
<1>3. ASSUME NEW m \in Msgs, UserDeletes(m)
      PROVE  Ledger!Delete(m)
  BY <1>0, <1>3 DEF UserDeletes, Remove, Row, Ledger!Delete, Ledger!Move
<1>4. ASSUME \/ \E m \in Msgs : UserGroups(m)
             \/ \E w \in Workers, m \in Msgs : UserSendsNow(w, m)
             \/ UserStops \/ UserArchives \/ UserUnarchives \/ Answered
      PROVE  UNCHANGED Ledger!vars
  BY <1>4 DEF UserGroups, GroupUpTo, UserSendsNow, Claim, UserStops, UserArchives,
     UserUnarchives, Answered, StopThread, StopRun, StopPreStart, ClearWaits,
     queueVars, Ledger!vars
<1> QED BY <1>1, <1>2, <1>3, <1>4 DEF User, Ledger!Next

LEMMA DispatchInLedger ==
  ASSUME HoldingInv, Dispatch
  PROVE  [Ledger!Next]_(Ledger!vars)
PROOF
<1>1. ASSUME NEW w \in Workers, WalkOn(w) \/ CheckPasses(w) \/ Drain(w)
      PROVE  UNCHANGED Ledger!vars
  BY <1>1 DEF WalkOn, CheckPasses, Drain, Claim, queueVars, Ledger!vars
<1>2. ASSUME NEW w \in Workers, CheckWaits(w) \/ PluginHolds(w)
      PROVE  [Ledger!Next]_(Ledger!vars)
  BY <1>2, QueueOnInLedger DEF CheckWaits, PluginHolds, Checking, Working
<1>3. ASSUME NEW w \in Workers, CheckMoved(w) \/ CommitMoved(w)
      PROVE  [Ledger!Next]_(Ledger!vars)
  BY <1>3, ReattemptInLedger DEF CheckMoved, CommitMoved, Checking, Working
<1>4. ASSUME NEW w \in Workers, CheckArchived(w)
      PROVE  [Ledger!Next]_(Ledger!vars)
  BY <1>4, GiveUpInLedger DEF CheckArchived, Working
<1>5. ASSUME NEW w \in Workers, NEW why, AttemptFails(w, why)
      PROVE  [Ledger!Next]_(Ledger!vars)
  BY <1>5, GiveUpInLedger DEF AttemptFails, Working
<1>6. ASSUME NEW w \in Workers, CommitFails(w)
      PROVE  [Ledger!Next]_(Ledger!vars)
  <2>1. PICK why \in {"paused", "claim-lost", "error"} : GiveUp(w, why)
    BY <1>6 DEF CommitFails
  <2> QED BY <1>6, <2>1, GiveUpInLedger DEF CommitFails, Working
<1>7. ASSUME NEW w \in Workers,
             FastSend(w) \/ SendStart(w) \/ SendJoin(w) \/ Admit(w)
      PROVE  [Ledger!Next]_(Ledger!vars)
  BY <1>7, DeliverInLedger DEF FastSend, SendStart, SendJoin, Admit, Working
<1>8. ASSUME NEW w \in Workers, NEW wake \in Walks, StartWalk(w, wake)
      PROVE  UNCHANGED Ledger!vars
  BY <1>8 DEF StartWalk, ClearWaits, queueVars, Ledger!vars
<1>9. ASSUME DrainJoins \/ InteractionSettled \/ PluginRechecks
      PROVE  UNCHANGED Ledger!vars
  BY <1>9 DEF DrainJoins, InteractionSettled, PluginRechecks, ClearWaits, queueVars,
     Ledger!vars
<1>10. ASSUME NEW stale \in BOOLEAN, Sweep(stale)
       PROVE  UNCHANGED Ledger!vars
  BY <1>10 DEF Sweep, ReleaseOrphans, queueVars, Ledger!vars
<1> QED BY <1>1, <1>2, <1>3, <1>4, <1>5, <1>6, <1>7, <1>8, <1>9, <1>10
    DEF Dispatch, Advance, Disturb

\* The server's death refuses the messages no row was created for.
LEMMA CrashInLedger ==
  ASSUME HoldingInv, NEW delivered \in BOOLEAN, Crash(delivered)
  PROVE  [Ledger!Next]_(Ledger!vars)
PROOF
<1> DEFINE S == {m \in Msgs : place[m] = "inline"}
<1>1. place' = [m \in Msgs |-> IF m \in S THEN "refused" ELSE place[m]]
      /\ UNCHANGED sent
  BY DEF Crash, Abandon
<1>2. CASE S = {}
  BY <1>1, <1>2 DEF HoldingInv, TypeOK, QueueTypeOK, Ledger!vars
<1>3. CASE S # {}
  BY <1>1, <1>3 DEF Ledger!Next, Ledger!Refuse, Ledger!Move
<1> QED BY <1>2, <1>3

LEMMA LedgerStep == HoldingInv /\ [Next]_vars => [Ledger!Next]_(Ledger!vars)
PROOF
<1> SUFFICES ASSUME HoldingInv, [Next]_vars
             PROVE  [Ledger!Next]_(Ledger!vars)
  OBVIOUS
<1>1. CASE UNCHANGED vars
  BY <1>1 DEF vars, queueVars, Ledger!vars
<1>2. UNCHANGED held => UNCHANGED Ledger!vars
  BY DEF held, Ledger!vars
<1>3. CASE Next
  BY <1>2, <1>3, UserInLedger, DispatchInLedger, OthersHold, CrashInLedger DEF Next
<1> QED BY <1>1, <1>3

\* Promise: the dispatch of a thread's messages, with all its races, failures
\* and crashes, implements MessageLedger.  A message is delivered at most once;
\* once queued it leaves the queue only delivered or deleted by its user; a
\* group is delivered as one; and no outcome is ever revised.
THEOREM DispatchKeepsPromise == Spec => Promise
PROOF
<1>1. Init /\ HoldingInv => Ledger!Init
  BY LedgerInit
<1> QED BY <1>1, HoldingInit, LedgerStep, Holding, PTL DEF Spec, Promise, Ledger!Spec
=============================================================================
