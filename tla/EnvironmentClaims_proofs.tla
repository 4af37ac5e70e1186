---------------------- MODULE EnvironmentClaims_proofs ----------------------
(***************************************************************************)
(* Who owns a row, who has claimed a path, which row stands for a workspace *)
(* and which attempt a creation belongs to: invariants of EnvironmentEngine *)
(* for any values of its constants.  At the end, from these: what was made  *)
(* is on a row that some removal will find.                                 *)
(*                                                                          *)
(* Most steps only let go of what a row has (QuietRow); four of them take   *)
(* something, and look at the other rows before they do.                    *)
(***************************************************************************)
EXTENDS EnvironmentEngine_proofs

\* Why OldAttemptsAreDead holds: what runs on a row fits the state of the row.
\* A creation runs on a row that is still being created and that nobody
\* removed; a removal at its provider runs on a row that was given up; and only
\* a setup is ever cancelled.
FitsRow(row, o) ==
  /\ o.kind = "create" =>
       /\ row.status = "creating"
       /\ o.attempt = row.attempt
       /\ o.owner = row.owner
  /\ row.status = "creating" => row.td # "removed"
  /\ o.kind = "remove" /\ o.pc = "busy" =>
       row.status \in {"error", "destroyed"} /\ row.td = "running"
  /\ o.cancel = "asked" => o.kind = "attach"

OperationsFitRows == \A e \in Envs : FitsRow(env[e], op[e])

\* A row takes nothing: its owner, claim and path stay or go, and it does not
\* come back from the dead.
QuietRow(old, new) ==
  /\ new.owner \in {old.owner, None}
  /\ new.claim \in {old.claim, None}
  /\ new.path \in {old.path, None}
  /\ old.status = "destroyed" => new.status = "destroyed"
  /\ old.td = "removed" => new.td = "removed"

\* A step that is quiet on every row and keeps the operations fitting.
QuietAndFitting ==
  \A e \in Envs : QuietRow(env[e], env'[e]) /\ FitsRow(env'[e], op'[e])

RowsApart == OneOwner /\ ClaimsAreExclusive /\ OneRowPerPath

ClaimsInv == TypeOK /\ OperationsFitRows /\ RowsApart

LEMMA QuietKeepsApart ==
  ASSUME RowsApart, \A e \in Envs : QuietRow(env[e], env'[e])
  PROVE  RowsApart'
PROOF
<1>1. OneOwner'
  BY DEF RowsApart, OneOwner, QuietRow
<1>2. ClaimsAreExclusive'
  BY DEF RowsApart, ClaimsAreExclusive, QuietRow
<1>3. OneRowPerPath'
  BY DEF RowsApart, OneRowPerPath, QuietRow
<1> QED BY <1>1, <1>2, <1>3 DEF RowsApart

\* Nothing happens to the rows and the operations.
LEMMA SameIsQuiet ==
  ASSUME OperationsFitRows, UNCHANGED env, UNCHANGED op
  PROVE  QuietAndFitting
PROOF BY DEF OperationsFitRows, QuietAndFitting, QuietRow

\* One row and its operation change.
LEMMA OneRowIsQuiet ==
  ASSUME TypeOK, OperationsFitRows, NEW e \in Envs, NEW row, NEW o,
         env' = [env EXCEPT ![e] = row], op' = [op EXCEPT ![e] = o],
         QuietRow(env[e], row), FitsRow(row, o)
  PROVE  QuietAndFitting
PROOF BY DEF TypeOK, OperationsFitRows, QuietAndFitting, QuietRow

\* A preparation is cancelled.
LEMMA CancellingIsQuiet ==
  ASSUME TypeOK, OperationsFitRows, NEW t \in Threads,
         env' = MarkCancelled(env, t), op' = AbortCreation(env, op, t)
  PROVE  QuietAndFitting
PROOF
<1>1. env \in [Envs -> EnvRow] /\ op \in [Envs -> Operation]
  BY DEF TypeOK
<1>2. \A e \in Envs : QuietRow(env[e], env'[e])
  BY <1>1, MarkCancelledFacts DEF QuietRow
<1>3. \A e \in Envs : FitsRow(env'[e], op'[e])
  BY <1>1, MarkCancelledFacts, AbortCreationFacts DEF OperationsFitRows, FitsRow
<1> QED BY <1>2, <1>3 DEF QuietAndFitting

LEMMA RequestIsQuiet ==
  ASSUME TypeOK, OperationsFitRows, NEW t \in Threads, Request(t)
  PROVE  QuietAndFitting
PROOF
<1>0. env \in [Envs -> EnvRow] /\ op \in [Envs -> Operation]
  BY DEF TypeOK
<1>1. CASE (\E e \in Envs : CreateIn(t, e)) \/ StartFirst(t)
           \/ StartTurnInPlace(t) \/ StartReprovisioning(t)
  BY <1>1, SameIsQuiet DEF CreateIn, StartFirst, StartTurnInPlace, StartReprovisioning
<1>2. CASE Restart(t)
  BY <1>2, CancellingIsQuiet DEF Restart
<1>3. CASE Stop(t)
  <2>1. \A e \in Envs : QuietRow(env[e], env'[e])
    BY <1>0, <1>3, MarkCancelledFacts DEF Stop, QuietRow
  <2>2. ASSUME NEW e \in Envs PROVE FitsRow(env'[e], op'[e])
    <3> DEFINE o == IF Abandons(t) THEN AbortCreation(env, op, t)[e] ELSE op[e]
    <3>1. FitsRow(env'[e], o)
      BY <1>0, <1>3, MarkCancelledFacts, AbortCreationFacts
         DEF Stop, OperationsFitRows, FitsRow
    <3>2. o.kind = op[e].kind
      BY <1>0, AbortCreationFacts
    <3>3. op'[e] = o \/ (op'[e] = CancelAsked(o) /\ op[e].kind \in {"none", "attach"})
      BY <1>0, <1>3 DEF Stop, Cancellable
    <3>4. o \in Operation
      BY <1>0, AbortCreationFacts
    <3>5. o.kind \in {"none", "attach"} =>
            /\ CancelAsked(o).kind = "attach"
      BY <3>4 DEF CancelAsked, OpAt, NoOp, Operation
    <3> HIDE DEF o
    <3> QED BY <3>1, <3>2, <3>3, <3>5 DEF FitsRow
  <2> QED BY <2>1, <2>2 DEF QuietAndFitting
<1>4. CASE Archive(t)
  BY <1>4, CancellingIsQuiet DEF Archive
<1>5. CASE Unarchive(t)
  <2>1. ASSUME NEW e \in Envs
        PROVE  LET new == RefreshedRetirement(e, TRUE) IN
               /\ QuietRow(env[e], new)
               /\ \A o : FitsRow(env[e], o) => FitsRow(new, o)
    <3>1. \/ RefreshedRetirement(e, TRUE) = env[e]
          \/ RefreshedRetirement(e, TRUE) = [env[e] EXCEPT !.retire = "none"]
      BY DEF RefreshedRetirement
    <3> QED BY <1>0, <3>1 DEF QuietRow, FitsRow, EnvRow
  <2>2. ASSUME NEW e \in Envs PROVE QuietRow(env[e], env'[e]) /\ FitsRow(env'[e], op'[e])
    <3>1. env'[e] = env[e] \/ env'[e] = RefreshedRetirement(e, TRUE)
      BY <1>5 DEF Unarchive
    <3>2. QuietRow(env[e], env[e]) /\ FitsRow(env[e], op[e]) /\ op'[e] = op[e]
      BY <1>5 DEF Unarchive, QuietRow, OperationsFitRows
    <3> QED BY <1>0, <2>1, <3>1, <3>2
  <2> QED BY <2>2 DEF QuietAndFitting
<1> QED BY <1>1, <1>2, <1>3, <1>4, <1>5 DEF Request

\* All a thread does on the way to its turn, save the reservation of a row.
LEMMA PlacementIsQuiet ==
  ASSUME TypeOK, OperationsFitRows, NEW t \in Threads, Placement(t),
         ~\E e \in Envs : Reserve(t, e)
  PROVE  QuietAndFitting
PROOF
<1>0. /\ env \in [Envs -> EnvRow] /\ op \in [Envs -> Operation]
      /\ Wanted(t) \in Envs \union {None}
  BY WantedTypes DEF TypeOK
<1>1. CASE Reject(t) \/ AttachLater(t) \/ StartFails(t) \/ StartTurn(t)
  BY <1>1, SameIsQuiet DEF Reject, AttachLater, StartFails, StartTurn
<1>2. ASSUME NEW e \in Envs, NEW row \in EnvRow, row.status # "creating"
      PROVE  /\ QuietRow(row, Released(row, t))
             /\ Released(row, t).status = row.status
             /\ Released(row, t).td = row.td
  BY <1>2 DEF Released, QuietRow, EnvRow
<1>3. CASE Attach(t)
  <2> DEFINE e == Wanted(t)
             row == Reopened(env[e])
  <2>1. e \in Envs /\ env[e].status \in {"provisioning", "ready", "error"}
        /\ ~Removing(env[e])
    BY <1>0, <1>3 DEF Attach, MayAttach, Advancing
  <2>2. /\ row.status \in {"provisioning", "ready"}
        /\ row.td = env[e].td
        /\ QuietRow(env[e], row)
    BY <1>0, <2>1 DEF Reopened, QuietRow, EnvRow
  <2>3. /\ Released(row, t).status = row.status
        /\ Released(row, t).td = row.td
        /\ QuietRow(row, Released(row, t))
    BY <1>0, <2>1 DEF Released, Reopened, QuietRow, EnvRow
  <2>4. env' = [env EXCEPT ![e] = Released(row, t)] /\ op' = [op EXCEPT ![e] = op[e]]
    BY <1>0, <1>3, <2>1 DEF Attach
  <2>5. FitsRow(env[e], op[e])
    BY <2>1 DEF OperationsFitRows
  <2>6. FitsRow(Released(row, t), op[e])
    BY <2>1, <2>2, <2>3, <2>5 DEF FitsRow, Removing
  <2>7. QuietRow(env[e], Released(row, t))
    BY <2>2, <2>3 DEF QuietRow
  <2> HIDE DEF row, e
  <2> QED BY <2>1, <2>4, <2>6, <2>7, OneRowIsQuiet
<1>4. CASE AttachNow(t)
  <2> DEFINE e == thr[t].adv
  <2>1. e \in Envs
    BY <1>4 DEF AttachNow, TypeOK, ThreadRow
  <2>2. CASE env' = env
    BY <1>4, <2>2, SameIsQuiet DEF AttachNow
  <2>3. CASE env' # env
    <3>1. /\ env[e].status \in {"provisioning", "ready"}
          /\ env' = [env EXCEPT ![e] = Released(env[e], t)]
          /\ op' = [op EXCEPT ![e] = op[e]]
      BY <1>0, <1>4, <2>1, <2>3 DEF AttachNow
    <3>2. /\ Released(env[e], t).status = env[e].status
          /\ Released(env[e], t).td = env[e].td
          /\ QuietRow(env[e], Released(env[e], t))
      BY <1>0, <1>2, <2>1, <3>1
    <3>3. FitsRow(Released(env[e], t), op[e])
      BY <2>1, <3>1, <3>2 DEF FitsRow, OperationsFitRows
    <3> QED BY <2>1, <3>1, <3>2, <3>3, OneRowIsQuiet
  <2> QED BY <2>2, <2>3
<1> QED BY <1>1, <1>3, <1>4 DEF Placement

\* What a creation does, save claiming a path and binding or adopting it.
LEMMA CreationIsQuiet ==
  ASSUME TypeOK, OperationsFitRows, NEW e \in Envs, Creation(e),
         ~\E p \in Paths : CreateClaims(e, p),
         ~CreateBinds(e),
         ~\E f \in Envs : CreateAdopts(e, f)
  PROVE  QuietAndFitting
PROOF
<1>0. /\ env \in [Envs -> EnvRow] /\ op \in [Envs -> Operation]
      /\ env[e] \in EnvRow /\ op[e] \in Operation
      /\ FitsRow(env[e], op[e]) /\ QuietRow(env[e], env[e])
      /\ env = [env EXCEPT ![e] = env[e]]
  BY DEF TypeOK, OperationsFitRows, QuietRow
<1>1. CASE StartCreate(e)
  <2>1. FitsRow(env[e], CreateOp(e, env[e]))
    BY <1>0, <1>1 DEF StartCreate, FitsRow, CreateOp, OpAt, NoOp
  <2> QED BY <1>0, <1>1, <2>1, OneRowIsQuiet DEF StartCreate
<1>2. ASSUME NEW p, op' = [op EXCEPT ![e] = [op[e] EXCEPT !.pc = "made", !.path = p]],
             env' = env, op[e].kind = "create"
      PROVE  QuietAndFitting
  <2>1. FitsRow(env[e], [op[e] EXCEPT !.pc = "made", !.path = p])
    BY <1>0, <1>2 DEF FitsRow, Operation
  <2> QED BY <1>0, <1>2, <2>1, OneRowIsQuiet
<1>3. CASE CreateMakes(e)
  BY <1>0, <1>2, <1>3 DEF CreateMakes, Asked
<1>4. ASSUME NEW p \in Paths, CreateFinds(e, p) PROVE QuietAndFitting
  BY <1>0, <1>2, <1>4 DEF CreateFinds, Asked
<1>5. ASSUME NEW row, row.status = "creating" => row.td # "removed"
      PROVE  FitsRow(row, NoOp)
  BY <1>5 DEF FitsRow, NoOp
<1>6. CASE CreateFails(e)
  <2>1. \/ env' = [env EXCEPT ![e] = env[e]]
        \/ /\ env' = [env EXCEPT ![e] = [env[e] EXCEPT !.status = "error"]]
           /\ env[e].status = "creating"
    BY <1>0, <1>6 DEF CreateFails
  <2>2. op' = [op EXCEPT ![e] = NoOp]
    BY <1>6 DEF CreateFails
  <2>3. FitsRow(env[e], NoOp) /\ FitsRow([env[e] EXCEPT !.status = "error"], NoOp)
    BY <1>0, <1>5 DEF FitsRow, EnvRow
  <2>4. env[e].status = "creating" =>
          QuietRow(env[e], [env[e] EXCEPT !.status = "error"])
    BY <1>0 DEF QuietRow, EnvRow
  <2> QED BY <1>0, <2>1, <2>2, <2>3, <2>4, OneRowIsQuiet
<1>7. CASE CreateRefused(e)
  <2> DEFINE row == [env[e] EXCEPT !.td = "removed", !.claim = None, !.path = None]
             new == IF row.status = "creating"
                    THEN [row EXCEPT !.status = "error"] ELSE row
  <2>1. \/ env' = [env EXCEPT ![e] = env[e]]
        \/ env' = [env EXCEPT ![e] = new] /\ env[e].status # "destroyed"
    BY <1>0, <1>7 DEF CreateRefused
  <2>2. op' = [op EXCEPT ![e] = NoOp]
    BY <1>7 DEF CreateRefused
  <2>3. row \in EnvRow
    BY <1>0 DEF EnvRow, Teardown
  <2>4. QuietRow(env[e], row)
    BY <1>0 DEF QuietRow, EnvRow
  <2>5. env[e].status # "destroyed" => QuietRow(env[e], new)
    BY <1>0, <2>3, <2>4 DEF QuietRow, EnvRow
  <2>6. FitsRow(env[e], NoOp)
    BY <1>0, <1>5 DEF FitsRow
  <2>7. new.status # "creating"
    BY <2>3 DEF EnvRow
  <2>8. FitsRow(new, NoOp)
    BY <1>5, <2>7
  <2> HIDE DEF new
  <2> QED BY <1>0, <2>1, <2>2, <2>5, <2>6, <2>8, OneRowIsQuiet
<1> QED BY <1>1, <1>3, <1>4, <1>6, <1>7 DEF Creation

LEMMA SetupFailureIsQuiet ==
  ASSUME TypeOK, OperationsFitRows, NEW e \in Envs, RecordSetupFailure(e)
  PROVE  /\ \A f \in Envs \ {e} : env'[f] = env[f]
         /\ QuietRow(env[e], env'[e])
         /\ env[e].status = "provisioning" => env'[e].status # "creating"
         /\ env'[e].td = env[e].td
         /\ env'[e].status = "creating" => env[e].status = "creating"
PROOF
<1>1. SetupFailureEvent(thr, e) \in EnvironmentEvent
  BY DEF SetupFailureEvent, EnvironmentEvent
<1>2. env \in [Envs -> EnvRow]
  BY DEF TypeOK
<1>3. env' = EnvApply(env, thr, e, SetupFailureEvent(thr, e))
  BY DEF RecordSetupFailure
<1> QED BY <1>1, <1>2, <1>3, EnvApplyFacts DEF QuietRow

LEMMA SetupIsQuiet ==
  ASSUME TypeOK, OperationsFitRows, NEW e \in Envs, Setup(e)
  PROVE  QuietAndFitting
PROOF
<1>0. /\ env \in [Envs -> EnvRow] /\ op \in [Envs -> Operation]
      /\ op[e] \in Operation /\ FitsRow(env[e], op[e])
      /\ \A f \in Envs : FitsRow(env[f], op[f]) /\ QuietRow(env[f], env[f])
  BY DEF TypeOK, OperationsFitRows, QuietRow
\* It suffices that the operation on the row becomes a setup, or none.
<1>1. ASSUME \A f \in Envs \ {e} : env'[f] = env[f] /\ op'[f] = op[f],
             QuietRow(env[e], env'[e]),
             env'[e].td = env[e].td,
             env'[e].status = "creating" => env[e].status = "creating",
             op'[e].kind \in {"none", "attach"},
             op'[e].cancel = "asked" => op'[e].kind = "attach"
      PROVE  QuietAndFitting
  BY <1>0, <1>1 DEF QuietAndFitting, FitsRow
<1>2. CASE SendSetup(e)
  <2>1. /\ OpAt("attach", "sent").kind = "attach"
    BY DEF OpAt, NoOp
  <2> QED BY <1>0, <1>1, <1>2, <2>1 DEF SendSetup
<1>3. CASE InterruptSetup(e)
  BY <1>0, <1>1, <1>3, SetupFailureIsQuiet DEF InterruptSetup, SetupIdle, FitsRow
<1>4. ASSUME SetupOver(e), op[e].kind = "attach"
      PROVE  /\ op'[e].kind \in {"none", "attach"}
             /\ op'[e].cancel = "asked" => op'[e].kind = "attach"
             /\ \A f \in Envs \ {e} : op'[f] = op[f]
  BY <1>0, <1>4 DEF SetupOver, NoOp, Operation
<1>5. CASE SetupSucceeds(e)
  <2>1. "provision.succeeded" \in EnvironmentEvent
    BY DEF EnvironmentEvent
  <2>2. env' = EnvApply(env, thr, e, "provision.succeeded")
    BY <1>5 DEF SetupSucceeds
  <2>3. /\ \A f \in Envs \ {e} : env'[f] = env[f]
        /\ QuietRow(env[e], env'[e])
        /\ env'[e].td = env[e].td
        /\ env'[e].status = "creating" => env[e].status = "creating"
    BY <1>0, <2>1, <2>2, EnvApplyFacts DEF QuietRow
  <2> QED BY <1>1, <1>4, <1>5, <2>3 DEF SetupSucceeds, SetupSent
<1>6. CASE SetupFails(e)
  BY <1>1, <1>4, <1>6, SetupFailureIsQuiet DEF SetupFails, SetupSent
<1>7. CASE CancelSetup(e)
  <2>1. op'[e] = CancelAsked(op[e]) /\ \A f \in Envs \ {e} : op'[f] = op[f]
    BY <1>0, <1>7 DEF CancelSetup
  <2>2. op[e].kind \in {"none", "attach"}
    BY <1>7 DEF CancelSetup, Cancellable
  <2>3. CancelAsked(op[e]).kind = "attach"
    BY <1>0, <2>2 DEF CancelAsked, OpAt, NoOp, Operation
  <2> QED BY <1>0, <1>1, <1>7, <2>1, <2>3 DEF CancelSetup
<1>8. ASSUME CancelOver(e), op[e].cancel = "asked"
      PROVE  /\ op'[e].kind \in {"none", "attach"}
             /\ op'[e].cancel = "asked" => op'[e].kind = "attach"
             /\ \A f \in Envs \ {e} : op'[f] = op[f]
  <2>1. op[e].kind = "attach"
    BY <1>0, <1>8 DEF FitsRow
  <2> QED BY <1>0, <1>8, <2>1 DEF CancelOver, NoOp, Operation
<1>9. CASE SetupCancelled(e)
  <2>1. "provision.cancelled" \in EnvironmentEvent
    BY DEF EnvironmentEvent
  <2>2. env' = EnvApply(env, thr, e, "provision.cancelled")
    BY <1>9 DEF SetupCancelled
  <2>3. /\ \A f \in Envs \ {e} : env'[f] = env[f]
        /\ QuietRow(env[e], env'[e])
        /\ env'[e].td = env[e].td
        /\ env'[e].status = "creating" => env[e].status = "creating"
    BY <1>0, <2>1, <2>2, EnvApplyFacts DEF QuietRow
  <2> QED BY <1>1, <1>8, <1>9, <2>3 DEF SetupCancelled
<1>10. CASE CancelFails(e)
  BY <1>0, <1>1, <1>8, <1>10 DEF CancelFails
<1>11. CASE HostGrace(e)
  <2>1. /\ env[e].status = "provisioning" /\ UNCHANGED op
        /\ env'[e].status # "creating" /\ env'[e].td = env[e].td
        /\ \A f \in Envs \ {e} : env'[f] = env[f]
        /\ QuietRow(env[e], env'[e])
    BY <1>11, SetupFailureIsQuiet DEF HostGrace
  <2>2. FitsRow(env'[e], op[e])
    BY <1>0, <2>1 DEF FitsRow
  <2> QED BY <1>0, <2>1, <2>2 DEF QuietAndFitting
<1> QED BY <1>2, <1>3, <1>5, <1>6, <1>7, <1>9, <1>10, <1>11 DEF Setup

\* Removals and what leads to them only let go.
LEMMA RemovalIsQuiet ==
  ASSUME TypeOK, OperationsFitRows, NEW e \in Envs, Removal(e) \/ DeleteEnv(e)
  PROVE  QuietAndFitting
PROOF
<1>0. /\ env \in [Envs -> EnvRow] /\ op \in [Envs -> Operation]
      /\ env[e] \in EnvRow /\ op[e] \in Operation
      /\ FitsRow(env[e], op[e]) /\ QuietRow(env[e], env[e])
      /\ env = [env EXCEPT ![e] = env[e]] /\ op = [op EXCEPT ![e] = op[e]]
  BY DEF TypeOK, OperationsFitRows, QuietRow
\* It suffices to know the row and the operation afterwards.
<1>1. ASSUME NEW row, NEW o,
             env' = [env EXCEPT ![e] = row], op' = [op EXCEPT ![e] = o],
             QuietRow(env[e], row), FitsRow(row, o)
      PROVE  QuietAndFitting
  BY <1>1, OneRowIsQuiet
<1>2. ASSUME NEW row, row.status = "creating" => row.td # "removed"
      PROVE  FitsRow(row, NoOp)
  BY <1>2 DEF FitsRow, NoOp
<1>3. FitsRow(env[e], NoOp)
  BY <1>0, <1>2 DEF FitsRow
<1>4. ASSUME NEW p, op[e].kind = "remove", p # "busy"
      PROVE  /\ [op[e] EXCEPT !.pc = p].kind = "remove"
             /\ [op[e] EXCEPT !.pc = p].pc = p
             /\ [op[e] EXCEPT !.pc = p].cancel # "asked"
  BY <1>0, <1>4 DEF FitsRow, Operation
<1>5. CASE Sweep(e)
  <2>1. FitsRow(env[e], OpAt("remove", "slot"))
    BY <1>0 DEF FitsRow, OpAt, NoOp
  <2>2. op[e].kind = "create" => FitsRow(env[e], [op[e] EXCEPT !.aborted = TRUE])
    BY <1>0 DEF FitsRow, Operation
  <2>3. \/ op' = [op EXCEPT ![e] = OpAt("remove", "slot")]
        \/ /\ op[e].kind = "create"
           /\ op' = [op EXCEPT ![e] = [op[e] EXCEPT !.aborted = TRUE]]
    BY <1>0, <1>5 DEF Sweep
  <2>4. env' = [env EXCEPT ![e] = env[e]]
    BY <1>0, <1>5 DEF Sweep
  <2> QED BY <1>0, <1>1, <2>1, <2>2, <2>3, <2>4
<1>6. CASE SlotSpares(e)
  <2> DEFINE freed == [env[e] EXCEPT !.owner = None, !.claim = None,
                                     !.retire = "none", !.td = "none"]
             kept  == [env[e] EXCEPT !.retire = "none"]
  <2>1. \/ env' = [env EXCEPT ![e] = env[e]]
        \/ env' = [env EXCEPT ![e] = freed] /\ env[e].td # "removed"
        \/ env' = [env EXCEPT ![e] = kept]
    BY <1>0, <1>6 DEF SlotSpares
  <2>2. /\ QuietRow(env[e], kept) /\ FitsRow(kept, NoOp)
        /\ env[e].td # "removed" => QuietRow(env[e], freed) /\ FitsRow(freed, NoOp)
    BY <1>0, <1>2, <1>3 DEF QuietRow, FitsRow, EnvRow
  <2>3. op' = [op EXCEPT ![e] = NoOp]
    BY <1>6 DEF SlotSpares
  <2> HIDE DEF freed, kept
  <2> QED BY <1>0, <1>1, <1>3, <2>1, <2>2, <2>3
<1>7. CASE SlotWaits(e)
  <2> DEFINE row == [env[e] EXCEPT !.retire =
                       IF @ = "none" /\ e \in Lasting THEN @ ELSE "waiting"]
  <2>1. env' = [env EXCEPT ![e] = row] /\ op' = [op EXCEPT ![e] = NoOp]
    BY <1>0, <1>7 DEF SlotWaits
  <2>2. QuietRow(env[e], row) /\ FitsRow(row, NoOp)
    BY <1>0, <1>2 DEF QuietRow, FitsRow, EnvRow
  <2> QED BY <1>1, <2>1, <2>2
\* A row that is given up keeps what it has until the provider answers.
<1>8. ASSUME NEW row \in EnvRow, row.td # "removed", NEW o,
             o.kind = "remove", o.cancel # "asked"
      PROVE  QuietRow(row, GivenUp(row)) /\ FitsRow(GivenUp(row), o)
  <2>1. /\ GivenUp(row).status \in {"error", "destroyed"}
        /\ GivenUp(row).td = "running"
        /\ QuietRow(row, GivenUp(row))
    BY <1>8 DEF GivenUp, QuietRow, EnvRow
  <2> QED BY <1>8, <2>1 DEF FitsRow
<1>9. op[e].kind = "remove" =>
        LET o == [op[e] EXCEPT !.pc = "busy"] IN o.kind = "remove" /\ o.cancel # "asked"
  BY <1>0 DEF FitsRow, Operation
<1>10. CASE SlotBegins(e)
  <2> DEFINE row == [env[e] EXCEPT !.retire = "due",
                       !.td = IF env[e].td = "none" THEN "running" ELSE env[e].td]
             hook == CancelledRow(env[e]) /\ env[e].path # None
  <2>1. op[e].kind = "remove" /\ env[e].td # "removed"
    BY <1>10 DEF SlotBegins, SlotRetires, InSlot
  <2>2. /\ row \in EnvRow /\ row.td # "removed" /\ row.status = env[e].status
        /\ row.owner = env[e].owner /\ row.claim = env[e].claim
        /\ row.path = env[e].path
    BY <1>0, <2>1 DEF EnvRow, Teardown
  <2>3. QuietRow(env[e], row)
    BY <2>1, <2>2 DEF QuietRow
  <2>4. CASE hook
    <3>1. env' = [env EXCEPT ![e] = row]
      BY <1>10, <2>4 DEF SlotBegins
    <3>2. op' = [op EXCEPT ![e] = [op[e] EXCEPT !.pc = "hook"]]
      BY <1>10, <2>4 DEF SlotBegins
    <3> HIDE DEF row, hook
    <3>3. FitsRow(row, [op[e] EXCEPT !.pc = "hook"])
      BY <1>4, <2>1, <2>2 DEF FitsRow
    <3> QED BY <1>1, <2>3, <3>1, <3>2, <3>3
  <2>5. CASE ~hook
    <3>1. env' = [env EXCEPT ![e] = GivenUp(row)]
      BY <1>10, <2>5 DEF SlotBegins
    <3>2. op' = [op EXCEPT ![e] = [op[e] EXCEPT !.pc = "busy"]]
      BY <1>10, <2>5 DEF SlotBegins
    <3> HIDE DEF row, hook
    <3>3. QuietRow(row, GivenUp(row))
          /\ FitsRow(GivenUp(row), [op[e] EXCEPT !.pc = "busy"])
      BY <1>8, <1>9, <2>1, <2>2
    <3>4. QuietRow(env[e], GivenUp(row))
      BY <2>1, <2>2, <3>3 DEF QuietRow
    <3> QED BY <1>1, <3>1, <3>2, <3>3, <3>4
  <2> QED BY <2>4, <2>5
<1>11. CASE HookStopped(e)
  <2>1. CASE env[e].td = "removed"
    <3>1. env' = [env EXCEPT ![e] = env[e]] /\ op' = [op EXCEPT ![e] = NoOp]
      BY <1>0, <1>11, <2>1 DEF HookStopped
    <3> QED BY <1>0, <1>1, <1>3, <3>1
  <2>2. CASE env[e].td # "removed"
    <3>1. /\ env' = [env EXCEPT ![e] = GivenUp(env[e])]
          /\ op' = [op EXCEPT ![e] = [op[e] EXCEPT !.pc = "busy"]]
          /\ op[e].kind = "remove"
      BY <1>0, <1>11, <2>2 DEF HookStopped, InHook
    <3> QED BY <1>0, <1>1, <1>8, <1>9, <2>2, <3>1
  <2> QED BY <2>1, <2>2
<1>12. CASE HookUnknown(e)
  BY <1>0, <1>1, <1>3, <1>12 DEF HookUnknown
<1>13. InRemoval(e) => env[e].status \in {"error", "destroyed"} /\ env[e].td = "running"
  BY <1>0 DEF InRemoval, FitsRow
<1>14. CASE RemoveSucceeds(e)
  <2> DEFINE row  == [env[e] EXCEPT !.td = "removed", !.claim = None, !.retire = "none"]
             rows == [env EXCEPT ![e] = row]
  <2>1. /\ row \in EnvRow /\ row.owner = env[e].owner /\ row.claim = None
        /\ row.path = env[e].path /\ row.td = "removed"
        /\ row.status = env[e].status
    BY <1>0 DEF EnvRow, Teardown
  <2>2. rows \in [Envs -> EnvRow] /\ rows[e] = row /\ \A f \in Envs \ {e} : rows[f] = env[f]
    BY <1>0, <2>1
  <2>3. "destroy.recorded" \in EnvironmentEvent
    BY DEF EnvironmentEvent
  <2>4. env' = EnvApply(rows, thr, e, "destroy.recorded")
    BY <1>14 DEF RemoveSucceeds
  <2>5. env[e].status \in {"error", "destroyed"} /\ env[e].td = "running"
    BY <1>13, <1>14 DEF RemoveSucceeds
  <2> HIDE DEF row, rows
  <2>6. /\ env' \in [Envs -> EnvRow]
        /\ \A f \in Envs \ {e} : env'[f] = env[f]
        /\ QuietRow(env[e], env'[e])
        /\ env'[e].status # "creating"
    BY <2>1, <2>2, <2>3, <2>4, <2>5, EnvApplyFacts DEF QuietRow
  <2>7. FitsRow(env'[e], NoOp)
    BY <1>2, <2>6
  <2>8. \A f \in Envs : op'[f] = IF f = e THEN NoOp ELSE op[f]
    BY <1>0, <1>14 DEF RemoveSucceeds
  <2>9. \A f \in Envs : FitsRow(env[f], op[f]) /\ QuietRow(env[f], env[f])
    BY DEF OperationsFitRows, QuietRow
  <2> QED BY <2>6, <2>7, <2>8, <2>9 DEF QuietAndFitting
<1>15. CASE RemoveFails(e)
  <2> DEFINE row == [env[e] EXCEPT !.td = "failed", !.retire = "waiting"]
  <2>1. env' = [env EXCEPT ![e] = row] /\ op' = [op EXCEPT ![e] = NoOp]
    BY <1>0, <1>15 DEF RemoveFails
  <2>2. env[e].td = "running"
    BY <1>13, <1>15 DEF RemoveFails
  <2>3. QuietRow(env[e], row) /\ FitsRow(row, NoOp)
    BY <1>0, <1>2, <2>2 DEF QuietRow, EnvRow
  <2> QED BY <1>1, <2>1, <2>3
<1>16. CASE RetireDue(e)
  <2> DEFINE row == [env[e] EXCEPT !.retire = "due"]
  <2>1. env' = [env EXCEPT ![e] = row] /\ op' = [op EXCEPT ![e] = op[e]]
    BY <1>0, <1>16 DEF RetireDue
  <2>2. QuietRow(env[e], row) /\ FitsRow(row, op[e])
    BY <1>0 DEF QuietRow, FitsRow, EnvRow
  <2> QED BY <1>1, <2>1, <2>2
<1>17. CASE DeleteEnv(e)
  <2> DEFINE row == [env[e] EXCEPT !.td = "running", !.retire = "due"]
  <2>1. env' = [env EXCEPT ![e] = row] /\ op' = [op EXCEPT ![e] = op[e]]
    BY <1>0, <1>17 DEF DeleteEnv
  <2>2. env[e].td = "none"
    BY <1>17 DEF DeleteEnv
  <2>3. QuietRow(env[e], row) /\ FitsRow(row, op[e])
    BY <1>0, <2>2 DEF QuietRow, FitsRow, EnvRow
  <2> QED BY <1>1, <2>1, <2>3
<1> QED BY <1>5, <1>6, <1>7, <1>10, <1>11, <1>12, <1>14, <1>15, <1>16, <1>17 DEF Removal

\* The server and the host come and go, threads stop again and end their turns.
LEMMA RestIsQuiet ==
  ASSUME TypeOK, OperationsFitRows,
         \/ \E t \in Threads : StopAgain(t) \/ TurnEnds(t)
         \/ HostDrops \/ HostReturns \/ Crash \/ UNCHANGED vars
  PROVE  QuietAndFitting
PROOF
<1>1. CASE UNCHANGED <<env, op>>
  BY <1>1, SameIsQuiet
<1>2. CASE UNCHANGED env /\ \A e \in Envs : op'[e] \in {op[e], NoOp}
  BY <1>2 DEF OperationsFitRows, QuietAndFitting, QuietRow, FitsRow, NoOp
<1> QED BY <1>1, <1>2 DEF StopAgain, TurnEnds, HostDrops, HostReturns, Crash, vars

-----------------------------------------------------------------------------
(* The four steps that take something. *)

\* A row is reserved: its thread has no other, and nothing of an earlier
\* attempt runs on it that could take the row for its own.
LEMMA ReserveKeeps ==
  ASSUME ClaimsInv, NEW t \in Threads, NEW e \in Envs, Reserve(t, e)
  PROVE  OperationsFitRows' /\ RowsApart'
PROOF
<1> DEFINE own  == Preparing(env, t)
           last == IF own # None THEN env[own].attempt
                   ELSE IF thr[t].env # None THEN env[thr[t].env].attempt ELSE 0
           row  == [NoRow EXCEPT !.status = "creating", !.owner = t, !.attempt = last + 1]
<1>0. /\ env \in [Envs -> EnvRow] /\ op \in [Envs -> Operation]
      /\ \A f \in Envs : FitsRow(env[f], op[f])
      /\ t # None
  BY ConstantsAssumption DEF ClaimsInv, TypeOK, OperationsFitRows
<1>1. env' = [env EXCEPT ![e] = row]
      /\ op' = IF op[e].kind = "none" THEN [op EXCEPT ![e] = CreateOp(e, row)] ELSE op
  BY DEF Reserve
<1>2. /\ row.owner = t /\ row.status = "creating" /\ row.claim = None
      /\ row.path = None /\ row.td = "none"
  BY DEF NoRow
<1>3. \A f \in Envs \ {e} : env[f].owner # t
  <2>1. CASE own = None
    BY <2>1, PreparingFinds
  <2>2. CASE own # None
    <3>1. e = own /\ env[e].owner = t
      BY <2>2, PreparingFinds DEF Reserve
    <3> QED BY <1>0, <3>1 DEF ClaimsInv, RowsApart, OneOwner
  <2> QED BY <2>1, <2>2
<1>4. op[e].kind # "create" /\ ~(op[e].kind = "remove" /\ op[e].pc = "busy")
  <2>1. CASE own = None
    BY <2>1 DEF Reserve, Forgotten, NoOp
  <2>2. CASE own # None
    <3>1. env[e].td = "removed"
      BY <2>2 DEF Reserve
    <3> QED BY <1>0, <3>1 DEF FitsRow
  <2> QED BY <2>1, <2>2
<1> HIDE DEF row, last
<1>5. /\ CreateOp(e, row).attempt = row.attempt
      /\ CreateOp(e, row).owner = row.owner
      /\ CreateOp(e, row).kind = "create"
      /\ CreateOp(e, row).cancel = "none"
  BY DEF CreateOp, OpAt, NoOp
<1>6. FitsRow(row, CreateOp(e, row)) /\ FitsRow(row, op[e])
  BY <1>0, <1>2, <1>4, <1>5 DEF FitsRow
<1>7. OperationsFitRows'
  BY <1>0, <1>1, <1>6 DEF OperationsFitRows
<1>8. \A f \in Envs : env'[f] = IF f = e THEN row ELSE env[f]
  BY <1>0, <1>1
<1>9. RowsApart'
  BY <1>0, <1>2, <1>3, <1>8
     DEF ClaimsInv, RowsApart, OneOwner, ClaimsAreExclusive, OneRowPerPath
<1> QED BY <1>7, <1>9

\* A path is claimed: nobody else has claimed it.
LEMMA CreateClaimsKeeps ==
  ASSUME ClaimsInv, NEW e \in Envs, NEW p \in Paths, CreateClaims(e, p)
  PROVE  OperationsFitRows' /\ RowsApart'
PROOF
<1> DEFINE row == [env[e] EXCEPT !.claim = p]
<1>0. /\ env \in [Envs -> EnvRow]
      /\ \A f \in Envs : FitsRow(env[f], op[f])
  BY DEF ClaimsInv, TypeOK, OperationsFitRows
<1>1. op' = op /\ \A f \in Envs : env'[f] = IF f = e THEN row ELSE env[f]
  BY <1>0 DEF CreateClaims
<1>2. /\ row.owner = env[e].owner /\ row.status = env[e].status
      /\ row.attempt = env[e].attempt /\ row.td = env[e].td
      /\ row.path = env[e].path /\ row.claim = p
  BY <1>0 DEF EnvRow
<1>3. \A f \in Envs \ {e} : env[f].claim = p => env[f].status = "destroyed"
  BY DEF CreateClaims, Claimable, PathClaimed
<1> HIDE DEF row
<1>4. OperationsFitRows'
  BY <1>0, <1>1, <1>2 DEF OperationsFitRows, FitsRow
<1>5. RowsApart'
  BY <1>1, <1>2, <1>3
     DEF ClaimsInv, RowsApart, OneOwner, ClaimsAreExclusive, OneRowPerPath
<1> QED BY <1>4, <1>5

\* What the settling of a creation leaves as it is.
LEMMA SettledFacts ==
  ASSUME NEW row \in EnvRow, NEW aborted
  PROVE  LET new == Settled(row, aborted) IN
         /\ new.owner = row.owner /\ new.claim = row.claim
         /\ new.path = row.path /\ new.td = row.td
         /\ new.status = "creating" => row.status = "creating"
         /\ new.status = "destroyed" => row.status = "destroyed"
PROOF BY DEF Settled, EnvRow

\* The workspace is bound to the row it was made for: nobody else has claimed
\* its path, and no other row stands for it.
LEMMA CreateBindsKeeps ==
  ASSUME ClaimsInv, NEW e \in Envs, CreateBinds(e)
  PROVE  OperationsFitRows' /\ RowsApart'
PROOF
<1> DEFINE p   == op[e].path
           old == [env[e] EXCEPT !.claim = p, !.path = p]
           row == Settled(old, op[e].aborted)
<1>0. /\ env \in [Envs -> EnvRow] /\ op \in [Envs -> Operation]
      /\ \A f \in Envs : FitsRow(env[f], op[f])
  BY DEF ClaimsInv, TypeOK, OperationsFitRows
<1>1. /\ \A f \in Envs : env'[f] = IF f = e THEN row ELSE env[f]
      /\ \A f \in Envs : op'[f] = IF f = e THEN NoOp ELSE op[f]
  BY <1>0 DEF CreateBinds
<1>2. /\ old \in EnvRow /\ old.owner = env[e].owner /\ old.status = env[e].status
      /\ old.td = env[e].td /\ old.claim = p /\ old.path = p
  <2>1. env[e] \in EnvRow /\ p \in Paths \union {None}
    BY <1>0 DEF Operation
  <2> HIDE DEF p
  <2> QED BY <2>1 DEF EnvRow
<1>3. /\ row.owner = env[e].owner /\ row.td = env[e].td
      /\ row.claim = p /\ row.path = p
      /\ row.status = "creating" => env[e].status = "creating"
      /\ row.status = "destroyed" => env[e].status = "destroyed"
  BY <1>2, SettledFacts
<1>4. /\ \A f \in Envs \ {e} : env[f].claim = p => env[f].status = "destroyed"
      /\ \A f \in Envs \ {e} : env[f].path # p
  BY DEF CreateBinds, MayBind, PathClaimed, AtPath
<1> HIDE DEF row, old
<1>5. FitsRow(row, NoOp)
  BY <1>0, <1>3 DEF FitsRow, NoOp
<1>6. OperationsFitRows'
  BY <1>0, <1>1, <1>5 DEF OperationsFitRows
<1>7. RowsApart'
  BY <1>1, <1>3, <1>4
     DEF ClaimsInv, RowsApart, OneOwner, ClaimsAreExclusive, OneRowPerPath
<1> QED BY <1>6, <1>7

\* The workspace has a row: the preparation moves there, with its claim, and
\* the reserved row is gone.
LEMMA CreateAdoptsKeeps ==
  ASSUME ClaimsInv, NEW e \in Envs, NEW f \in Envs, CreateAdopts(e, f)
  PROVE  OperationsFitRows' /\ RowsApart'
PROOF
<1> DEFINE p     == op[e].path
           gone  == [env[e] EXCEPT !.owner = None, !.status = "destroyed",
                                   !.td = "removed", !.claim = None, !.path = None]
           taken == [env[f] EXCEPT
                       !.owner = env[e].owner, !.attempt = env[e].attempt,
                       !.status = IF env[f].status = "ready" THEN env[f].status
                                  ELSE env[e].status,
                       !.td = env[e].td, !.retire = env[e].retire, !.claim = p]
           row   == Settled(taken, op[e].aborted)
<1>0. /\ env \in [Envs -> EnvRow] /\ op \in [Envs -> Operation]
      /\ \A g \in Envs : FitsRow(env[g], op[g])
  BY DEF ClaimsInv, TypeOK, OperationsFitRows
<1>1. /\ f # e /\ env[f].path = p /\ env[f].td = "none"
      /\ env[f].status \in {"ready", "provisioning"}
      /\ \A g \in Envs \ {e} : env[g].claim = p => env[g].status = "destroyed"
      /\ op[e].kind = "create"
  BY DEF CreateAdopts, Created, AtPath, MayAdopt, MayBind, PathClaimed
<1>2. /\ \A g \in Envs : env'[g] = IF g = e THEN gone ELSE IF g = f THEN row ELSE env[g]
      /\ \A g \in Envs : op'[g] = IF g = e THEN NoOp ELSE op[g]
  BY <1>0, <1>1 DEF CreateAdopts
<1>3. /\ gone.owner = None /\ gone.status = "destroyed" /\ gone.td = "removed"
      /\ gone.claim = None /\ gone.path = None
  BY <1>0 DEF EnvRow
<1>4. env[e].td # "removed"
  BY <1>0, <1>1 DEF FitsRow
<1>5. /\ taken \in EnvRow /\ taken.owner = env[e].owner /\ taken.td = env[e].td
      /\ taken.claim = p /\ taken.path = p
  <2>1. env[e] \in EnvRow /\ env[f] \in EnvRow /\ p \in Paths \union {None}
    BY <1>0 DEF Operation
  <2> DEFINE status == IF env[f].status = "ready" THEN env[f].status ELSE env[e].status
  <2>2. status \in EnvironmentStatus \union {"none"}
    BY <2>1 DEF EnvRow
  <2>3. taken = [env[f] EXCEPT
                   !.owner = env[e].owner, !.attempt = env[e].attempt,
                   !.status = status,
                   !.td = env[e].td, !.retire = env[e].retire, !.claim = p]
    OBVIOUS
  <2> HIDE DEF taken, p, status
  <2>4. /\ env[e].owner \in Threads \union {None} /\ env[e].attempt \in Nat
        /\ env[e].td \in Teardown /\ env[e].retire \in {"none", "waiting", "due"}
    BY <2>1 DEF EnvRow
  <2>5. taken \in EnvRow /\ taken.owner = env[e].owner /\ taken.td = env[e].td
    BY <2>1, <2>2, <2>3, <2>4 DEF EnvRow
  <2>6. taken.claim = p /\ taken.path = p
    BY <1>1, <2>1, <2>3 DEF EnvRow
  <2> QED BY <2>5, <2>6
<1> HIDE DEF taken
<1>6. /\ row.owner = env[e].owner /\ row.td = env[e].td
      /\ row.claim = p /\ row.path = p
  BY <1>5, SettledFacts
<1> HIDE DEF row, gone
<1>7. op[f].kind # "create" /\ ~(op[f].kind = "remove" /\ op[f].pc = "busy")
  BY <1>0, <1>1 DEF FitsRow
<1>8. FitsRow(row, op[f]) /\ FitsRow(gone, NoOp)
  BY <1>0, <1>3, <1>4, <1>6, <1>7 DEF FitsRow, NoOp
<1>9. OperationsFitRows'
  BY <1>0, <1>1, <1>2, <1>8 DEF OperationsFitRows
<1>10. OneOwner'
  BY <1>1, <1>2, <1>3, <1>6 DEF ClaimsInv, RowsApart, OneOwner
<1>11. ClaimsAreExclusive'
  BY <1>1, <1>2, <1>3, <1>6 DEF ClaimsInv, RowsApart, ClaimsAreExclusive
<1>12. OneRowPerPath'
  BY <1>1, <1>2, <1>3, <1>6 DEF ClaimsInv, RowsApart, OneRowPerPath
<1> QED BY <1>9, <1>10, <1>11, <1>12 DEF RowsApart

-----------------------------------------------------------------------------

LEMMA QuietKeeps ==
  ASSUME ClaimsInv, QuietAndFitting
  PROVE  OperationsFitRows' /\ RowsApart'
PROOF BY QuietKeepsApart DEF ClaimsInv, QuietAndFitting, OperationsFitRows

LEMMA ClaimsKept == ClaimsInv /\ [Next]_vars => ClaimsInv'
PROOF
<1> SUFFICES ASSUME ClaimsInv, [Next]_vars PROVE ClaimsInv'
  OBVIOUS
<1>0. TypeOK /\ OperationsFitRows
  BY DEF ClaimsInv
<1>1. TypeOK'
  BY <1>0, TypesKept
<1>2. ASSUME NEW t \in Threads, Request(t)
      PROVE  OperationsFitRows' /\ RowsApart'
  BY <1>0, <1>2, RequestIsQuiet, QuietKeeps
<1>3. ASSUME NEW t \in Threads, Placement(t)
      PROVE  OperationsFitRows' /\ RowsApart'
  <2>1. CASE \E e \in Envs : Reserve(t, e)
    BY <2>1, ReserveKeeps
  <2>2. CASE ~\E e \in Envs : Reserve(t, e)
    <3>1. QuietAndFitting
      BY <1>0, <1>3, <2>2, PlacementIsQuiet
    <3> QED BY <3>1, QuietKeeps
  <2> QED BY <2>1, <2>2
<1>4. ASSUME NEW e \in Envs, Creation(e)
      PROVE  OperationsFitRows' /\ RowsApart'
  <2>1. CASE \E p \in Paths : CreateClaims(e, p)
    BY <2>1, CreateClaimsKeeps
  <2>2. CASE CreateBinds(e)
    BY <2>2, CreateBindsKeeps
  <2>3. CASE \E f \in Envs : CreateAdopts(e, f)
    BY <2>3, CreateAdoptsKeeps
  <2>4. CASE /\ ~\E p \in Paths : CreateClaims(e, p)
             /\ ~CreateBinds(e)
             /\ ~\E f \in Envs : CreateAdopts(e, f)
    <3>1. QuietAndFitting
      BY <1>0, <1>4, <2>4, CreationIsQuiet
    <3> QED BY <3>1, QuietKeeps
  <2> QED BY <2>1, <2>2, <2>3, <2>4
<1>5. ASSUME NEW e \in Envs, Setup(e) \/ Removal(e) \/ DeleteEnv(e)
      PROVE  OperationsFitRows' /\ RowsApart'
  BY <1>0, <1>5, SetupIsQuiet, RemovalIsQuiet, QuietKeeps
<1>6. ASSUME \/ \E t \in Threads : StopAgain(t) \/ TurnEnds(t)
             \/ HostDrops \/ HostReturns \/ Crash \/ UNCHANGED vars
      PROVE  OperationsFitRows' /\ RowsApart'
  BY <1>0, <1>6, RestIsQuiet, QuietKeeps
<1>7. OperationsFitRows' /\ RowsApart'
  BY <1>2, <1>3, <1>4, <1>5, <1>6 DEF Next
<1> QED BY <1>1, <1>7 DEF ClaimsInv

LEMMA ClaimsAtInit == Init => ClaimsInv
PROOF
<1> SUFFICES ASSUME Init PROVE ClaimsInv
  OBVIOUS
<1>1. OperationsFitRows
  BY DEF Init, OperationsFitRows, FitsRow, NoRow, NoOp
<1>2. RowsApart
  BY DEF Init, RowsApart, OneOwner, ClaimsAreExclusive, OneRowPerPath, NoRow
<1> QED BY <1>1, <1>2, TypesAtInit DEF ClaimsInv

LEMMA ClaimsInvHolds == Spec => []ClaimsInv
PROOF BY ClaimsAtInit, ClaimsKept, PTL DEF Spec

\* A thread prepares at most one row, so that cancelling, retrying and
\* attaching by the first row found is enough.
THEOREM RowsHaveOneOwner == Spec => []OneOwner
PROOF
<1>1. ClaimsInv => OneOwner
  BY DEF ClaimsInv, RowsApart
<1> QED BY <1>1, ClaimsInvHolds, PTL

\* A path has one claimant, however claims, bindings, adoptions, cancellations
\* and retries of any number of threads interleave.
THEOREM ClaimsStayExclusive == Spec => []ClaimsAreExclusive
PROOF
<1>1. ClaimsInv => ClaimsAreExclusive
  BY DEF ClaimsInv, RowsApart
<1> QED BY <1>1, ClaimsInvHolds, PTL

\* A workspace has one row that may still be removed.
THEOREM WorkspacesHaveOneRow == Spec => []OneRowPerPath
PROOF
<1>1. ClaimsInv => OneRowPerPath
  BY DEF ClaimsInv, RowsApart
<1> QED BY <1>1, ClaimsInvHolds, PTL

\* A creation that runs is never an old attempt's.
THEOREM OldAttemptsStayDead == Spec => []OldAttemptsAreDead
PROOF
<1>1. ClaimsInv => OldAttemptsAreDead
  BY DEF ClaimsInv, OperationsFitRows, FitsRow, OldAttemptsAreDead
<1> QED BY <1>1, ClaimsInvHolds, PTL

-----------------------------------------------------------------------------
(* Why NothingLeaks holds.  A creation must not lose what it has made: as    *)
(* long as its row can still make something, the row keeps the claim on what *)
(* has been made before, and so an answer that can be refused, or is that of *)
(* another row, is one for which nothing was made.                           *)

Empty(e) == \A m \in made : m[1] # e

\* The row of what was made has yet to be removed.
Findable(e) == Empty(e) \/ (env[e].status # "none" /\ env[e].td # "removed")

\* What a creation may rely on: a row in creation has a path only if it was
\* cancelled, and without a claim there is nothing; if something was made, then
\* at the claimed path, where no other row is; and the answer of the provider,
\* on a host that has been there all the time, is the path that is claimed or a
\* path of another row.
Homed(e) ==
  /\ env[e].status = "creating" /\ env[e].owner # None =>
       /\ env[e].path # None => env[e].td = "running"
       /\ env[e].claim = None => Empty(e)
  /\ env[e].status = "creating" /\ env[e].claim # None /\ ~Empty(e) =>
       \A f \in Envs \ {e} : env[f].path # env[e].claim
  /\ op[e].kind = "create" => env[e].owner # None
  /\ Created(e) =>
       /\ online
       /\ op[e].path # None
       /\ env[e].claim = op[e].path \/ (env[e].claim = None /\ Empty(e))

HomesInv == spent["drop"] = 0 => \A e \in Envs : Findable(e) /\ Homed(e)

LeaksInv == ClaimsInv /\ HomesInv

\* A row and the operation on it change, and nothing of this is disturbed.
HomeKept(old, new, o, later) ==
  /\ new.owner \in {old.owner, None}
  /\ new.path \in {old.path, None}
  /\ new.td = "removed" => old.td = "removed"
  /\ new.status = "none" => old.status = "none"
  /\ new.status = "creating" =>
       /\ old.status = "creating"
       /\ \/ /\ new.claim = old.claim /\ new.owner = old.owner
             /\ old.td = "running" => new.td = "running"
          \/ new.owner = None /\ new.claim = None /\ later.kind # "create"
  /\ later.kind = "create" => o.kind = "create" \/ new.owner # None
  /\ later.kind = "create" /\ later.pc = "made" =>
       o.kind = "create" /\ o.pc = "made" /\ later.path = o.path

AtHome == \A e \in Envs : HomeKept(env[e], env'[e], op[e], op'[e])

\* The host stays, or nothing is being created.
HostStays == (online => online') \/ \A e \in Envs : op'[e].kind # "create"

LEMMA AtHomeKeeps ==
  ASSUME OperationsFitRows', AtHome, HostStays, made' \subseteq made,
         spent'["drop"] = 0 => spent["drop"] = 0, HomesInv
  PROVE  HomesInv'
PROOF
<1> SUFFICES ASSUME spent["drop"] = 0, NEW e \in Envs
             PROVE  Findable(e)' /\ Homed(e)'
  BY DEF HomesInv
<1>1. Findable(e) /\ Homed(e) /\ HomeKept(env[e], env'[e], op[e], op'[e])
  BY DEF HomesInv, AtHome
<1>2. Empty(e) => Empty(e)'
  BY DEF Empty
<1>3. Findable(e)'
  BY <1>1, <1>2 DEF Findable, HomeKept
<1>4. ASSUME env'[e].status = "creating", env'[e].owner # None
      PROVE  /\ env'[e].path # None => env'[e].td = "running"
             /\ env'[e].claim = None => Empty(e)'
  BY <1>1, <1>2, <1>4 DEF HomeKept, Homed
<1>5. ASSUME env'[e].status = "creating", env'[e].claim # None, ~Empty(e)',
             NEW f \in Envs \ {e}
      PROVE  env'[f].path # env'[e].claim
  <2>1. env'[e].claim = env[e].claim /\ env[f].path # env[e].claim
    BY <1>1, <1>2, <1>5 DEF HomeKept, Homed
  <2>2. env'[f].path \in {env[f].path, None}
    BY DEF AtHome, HomeKept
  <2> QED BY <1>5, <2>1, <2>2
<1>6. ASSUME Created(e)'
      PROVE  /\ online'
             /\ op'[e].path # None
             /\ env'[e].claim = op'[e].path \/ (env'[e].claim = None /\ Empty(e)')
  <2>1. Created(e) /\ op'[e].path = op[e].path /\ op'[e].kind = "create"
    BY <1>1, <1>6 DEF HomeKept, Created
  <2>2. env'[e].claim = env[e].claim
    BY <1>1, <2>1 DEF HomeKept, OperationsFitRows, FitsRow
  <2>3. online'
    BY <1>1, <2>1 DEF HostStays, Homed
  <2> QED BY <1>1, <1>2, <2>1, <2>2, <2>3 DEF Homed
<1>7. op'[e].kind = "create" => env'[e].owner # None
  BY <1>1 DEF HomeKept, Homed, OperationsFitRows, FitsRow
<1> QED BY <1>3, <1>4, <1>5, <1>6, <1>7 DEF Homed

\* Nothing happens to the rows and the operations, or operations end.
LEMMA SameIsAtHome ==
  ASSUME UNCHANGED env, \A e \in Envs : op'[e] \in {op[e], NoOp}
  PROVE  AtHome
PROOF BY DEF AtHome, HomeKept, NoOp

\* One row and its operation change.
LEMMA OneRowIsAtHome ==
  ASSUME TypeOK, NEW e \in Envs, NEW row, NEW o,
         env' = [env EXCEPT ![e] = row], op' = [op EXCEPT ![e] = o],
         HomeKept(env[e], row, op[e], o)
  PROVE  AtHome
PROOF
<1>1. \A f \in Envs : HomeKept(env[f], env[f], op[f], op[f])
  BY DEF HomeKept
<1> QED BY <1>1 DEF TypeOK, AtHome

\* The row only: the operation goes on.
LEMMA RowAloneIsAtHome ==
  ASSUME TypeOK, NEW e \in Envs, UNCHANGED op,
         \A f \in Envs \ {e} : env'[f] = env[f],
         HomeKept(env[e], env'[e], op[e], op[e])
  PROVE  AtHome
PROOF
<1>1. \A f \in Envs : HomeKept(env[f], env[f], op[f], op[f])
  BY DEF HomeKept
<1> QED BY <1>1 DEF AtHome

\* An event of the status machine.
LEMMA EventIsAtHome ==
  ASSUME TypeOK, NEW e \in Envs, NEW event \in EnvironmentEvent,
         env' = EnvApply(env, thr, e, event)
  PROVE  /\ \A f \in Envs \ {e} : env'[f] = env[f]
         /\ \A later : later.kind # "create" \/ later = op[e] =>
              HomeKept(env[e], env'[e], op[e], later)
PROOF
<1>0. env \in [Envs -> EnvRow]
  BY DEF TypeOK
<1>1. env'[e].status = "none" => env[e].status = "none"
  <2>1. CASE env' = env
    BY <2>1
  <2>2. CASE env' # env
    <3> DEFINE s == EnvAfter(env[e].status, event, env[e].path # None)
    <3>1. s # "none"
      BY <2>2 DEF EnvApply, EnvAfter, EnvTarget, EnvironmentEvent
    <3>2. env'[e].status = s
      BY <1>0, <2>2 DEF EnvApply, EnvRow
    <3> QED BY <3>1, <3>2
  <2> QED BY <2>1, <2>2
<1> QED BY <1>0, <1>1, EnvApplyFacts DEF HomeKept

LEMMA RequestIsAtHome ==
  ASSUME TypeOK, NEW t \in Threads, Request(t)
  PROVE  AtHome /\ HostStays /\ made' \subseteq made
PROOF
<1>0. env \in [Envs -> EnvRow] /\ op \in [Envs -> Operation]
  BY DEF TypeOK
<1>1. UNCHANGED <<made, online>>
  BY DEF Request, CreateIn, StartFirst, Restart, StartTurnInPlace,
         StartReprovisioning, Stop, Archive, Unarchive
\* A preparation is cancelled, or not.
<1>2. ASSUME NEW e \in Envs, NEW row, NEW later,
             row \in {env[e], MarkCancelled(env, t)[e]},
             \/ later.kind # "create"
             \/ later \in {op[e], AbortCreation(env, op, t)[e]}
      PROVE  HomeKept(env[e], row, op[e], later)
  <2>1. /\ row.owner = env[e].owner /\ row.claim = env[e].claim
        /\ row.path = env[e].path
        /\ \/ row.td = env[e].td
           \/ env[e].td = "none" /\ row.td = "running"
        /\ row.status \in {env[e].status, "destroyed"}
    BY <1>0, <1>2, MarkCancelledFacts
  <2>2. later.kind = "create" =>
          later.kind = op[e].kind /\ later.pc = op[e].pc /\ later.path = op[e].path
    BY <1>0, <1>2, AbortCreationFacts
  <2> QED BY <2>1, <2>2 DEF HomeKept
<1>3. CASE (\E e \in Envs : CreateIn(t, e)) \/ StartFirst(t)
           \/ StartTurnInPlace(t) \/ StartReprovisioning(t)
  <2>1. env' = env /\ op' = op
    BY <1>3 DEF CreateIn, StartFirst, StartTurnInPlace, StartReprovisioning
  <2> QED BY <1>1, <2>1, SameIsAtHome DEF HostStays
<1>4. CASE Restart(t) \/ Archive(t)
  <2>1. env' = MarkCancelled(env, t) /\ op' = AbortCreation(env, op, t)
    BY <1>4 DEF Restart, Archive
  <2> QED BY <1>1, <1>2, <2>1 DEF AtHome, HostStays
<1>5. CASE Stop(t)
  <2>1. env' = env \/ env' = MarkCancelled(env, t)
    BY <1>5 DEF Stop
  <2>2. ASSUME NEW e \in Envs
        PROVE  op'[e].kind # "create" \/ op'[e] \in {op[e], AbortCreation(env, op, t)[e]}
    <3> DEFINE o == IF Abandons(t) THEN AbortCreation(env, op, t)[e] ELSE op[e]
    <3>1. o \in Operation /\ o.kind = op[e].kind
      BY <1>0, AbortCreationFacts
    <3>2. op'[e] = o \/ (op'[e] = CancelAsked(o) /\ op[e].kind \in {"none", "attach"})
      BY <1>0, <1>5 DEF Stop, Cancellable
    <3>3. o.kind \in {"none", "attach"} => CancelAsked(o).kind = "attach"
      BY <3>1 DEF CancelAsked, OpAt, NoOp, Operation
    <3>4. o \in {op[e], AbortCreation(env, op, t)[e]}
      OBVIOUS
    <3> HIDE DEF o
    <3> QED BY <3>1, <3>2, <3>3, <3>4
  <2> QED BY <1>1, <1>2, <2>1, <2>2 DEF AtHome, HostStays
<1>6. CASE Unarchive(t)
  <2>1. ASSUME NEW e \in Envs PROVE HomeKept(env[e], env'[e], op[e], op'[e])
    <3>1. env'[e] \in {env[e], [env[e] EXCEPT !.retire = "none"]} /\ op'[e] = op[e]
      BY <1>0, <1>6 DEF Unarchive, RefreshedRetirement
    <3> QED BY <1>0, <3>1 DEF HomeKept, EnvRow
  <2> QED BY <1>1, <2>1 DEF AtHome, HostStays
<1> QED BY <1>3, <1>4, <1>5, <1>6 DEF Request

\* All a thread does on the way to its turn, save the reservation of a row.
LEMMA PlacementIsAtHome ==
  ASSUME TypeOK, NEW t \in Threads, Placement(t), ~\E e \in Envs : Reserve(t, e)
  PROVE  AtHome /\ HostStays /\ made' \subseteq made
PROOF
<1>0. /\ env \in [Envs -> EnvRow] /\ op \in [Envs -> Operation]
      /\ Wanted(t) \in Envs \union {None}
  BY WantedTypes DEF TypeOK
<1>1. UNCHANGED <<op, made, online>>
  BY DEF Placement, Reject, Attach, AttachLater, AttachNow, StartFails, StartTurn
<1>2. CASE Reject(t) \/ AttachLater(t) \/ StartFails(t) \/ StartTurn(t)
  <2>1. env' = env
    BY <1>2 DEF Reject, AttachLater, StartFails, StartTurn
  <2> QED BY <1>1, <2>1, SameIsAtHome DEF HostStays
\* A row that is attached is one whose creation is over.
<1>3. ASSUME NEW e \in Envs, env[e].status \in {"provisioning", "ready", "error"},
             env' = [env EXCEPT ![e] = Released(env[e], t)]
                \/ env' = [env EXCEPT ![e] = Released(Reopened(env[e]), t)]
      PROVE  AtHome
  <2> DEFINE row == Reopened(env[e])
  <2>1. /\ row \in EnvRow /\ row.owner = env[e].owner /\ row.path = env[e].path
        /\ row.td = env[e].td
        /\ row.status \in {"provisioning", "ready"}
    <3>1. env[e] \in EnvRow /\ env[e].attempt + 1 \in Nat
      BY <1>0 DEF EnvRow
    <3>2. CASE env[e].status = "error"
      <4>1. row = [env[e] EXCEPT !.status = "provisioning", !.attempt = env[e].attempt + 1]
        BY <3>2 DEF Reopened
      <4> QED BY <3>1, <4>1 DEF EnvRow, EnvironmentStatus
    <3>3. CASE env[e].status # "error"
      BY <1>3, <3>1, <3>3 DEF Reopened
    <3> QED BY <3>2, <3>3
  <2>2. ASSUME NEW r \in {env[e], row}, NEW new, new = Released(r, t)
        PROVE  /\ new.owner \in {env[e].owner, None} /\ new.path = env[e].path
               /\ new.td = env[e].td /\ new.status \in {"provisioning", "ready", "error"}
    BY <1>0, <1>3, <2>1, <2>2 DEF Released, EnvRow
  <2>3. ASSUME NEW r \in {env[e], row}
        PROVE  HomeKept(env[e], Released(r, t), op[e], op[e])
    BY <2>2 DEF HomeKept
  <2>4. op' = [op EXCEPT ![e] = op[e]]
    BY <1>0, <1>1
  <2> HIDE DEF row
  <2>5. PICK r \in {env[e], row} : env' = [env EXCEPT ![e] = Released(r, t)]
    BY <1>3 DEF row
  <2> QED BY <2>3, <2>4, <2>5, OneRowIsAtHome
<1>4. CASE Attach(t)
  <2>1. /\ Wanted(t) \in Envs
        /\ env[Wanted(t)].status \in {"provisioning", "ready", "error"}
        /\ env' = [env EXCEPT ![Wanted(t)] = Released(Reopened(env[Wanted(t)]), t)]
    BY <1>0, <1>4 DEF Attach, MayAttach, Advancing
  <2> QED BY <1>1, <1>3, <2>1 DEF HostStays
<1>5. CASE AttachNow(t)
  <2> DEFINE e == thr[t].adv
  <2>1. e \in Envs
    BY <1>5 DEF AttachNow, TypeOK, ThreadRow
  <2>2. CASE env' = env
    BY <1>1, <2>2, SameIsAtHome DEF HostStays
  <2>3. CASE env' # env
    <3>1. /\ env[e].status \in {"provisioning", "ready"}
          /\ env' = [env EXCEPT ![e] = Released(env[e], t)]
      BY <1>0, <1>5, <2>1, <2>3 DEF AttachNow
    <3> QED BY <1>1, <1>3, <2>1, <3>1 DEF HostStays
  <2> QED BY <2>2, <2>3
<1> QED BY <1>2, <1>4, <1>5 DEF Placement

\* The other rows, when one row and its operation change: what they claimed is
\* still at no other row.
LEMMA OthersStayHome ==
  ASSUME NEW e \in Envs, UNCHANGED online,
         \A f \in Envs \ {e} :
           /\ Findable(f) /\ Homed(f)
           /\ env'[f] = env[f] /\ op'[f] = op[f]
           /\ Empty(f) => Empty(f)'
           /\ env[f].status = "creating" /\ env[f].claim # None =>
                env'[e].path \in {env[e].path, None} \/ env'[e].path # env[f].claim
  PROVE  \A f \in Envs \ {e} : Findable(f)' /\ Homed(f)'
PROOF
<1> SUFFICES ASSUME NEW f \in Envs \ {e} PROVE Findable(f)' /\ Homed(f)'
  OBVIOUS
<1>1. Findable(f)'
  BY DEF Findable
<1>2. ASSUME env'[f].status = "creating", env'[f].claim # None, ~Empty(f)',
             NEW g \in Envs \ {f}
      PROVE  env'[g].path # env'[f].claim
  <2>1. env[g].path # env[f].claim
    BY <1>2 DEF Homed
  <2>2. CASE g = e
    BY <1>2, <2>1, <2>2
  <2>3. CASE g # e
    BY <2>1, <2>3
  <2> QED BY <2>2, <2>3
<1>3. Created(f)' = Created(f)
  BY DEF Created
<1> QED BY <1>1, <1>2, <1>3 DEF Homed

\* A row is reserved: nothing is left of an earlier preparation.
LEMMA ReserveIsHomed ==
  ASSUME LeaksInv, spent["drop"] = 0, NEW t \in Threads, NEW e \in Envs, Reserve(t, e)
  PROVE  \A f \in Envs : Findable(f)' /\ Homed(f)'
PROOF
<1> DEFINE own  == Preparing(env, t)
           last == IF own # None THEN env[own].attempt
                   ELSE IF thr[t].env # None THEN env[thr[t].env].attempt ELSE 0
           row  == [NoRow EXCEPT !.status = "creating", !.owner = t, !.attempt = last + 1]
<1>0. /\ env \in [Envs -> EnvRow] /\ op \in [Envs -> Operation]
      /\ made \subseteq Envs \X Paths
      /\ \A f \in Envs : FitsRow(env[f], op[f]) /\ Findable(f) /\ Homed(f)
      /\ t # None
  BY ConstantsAssumption DEF LeaksInv, HomesInv, ClaimsInv, TypeOK, OperationsFitRows
<1>1. /\ env' = [env EXCEPT ![e] = row]
      /\ op' = IF op[e].kind = "none" THEN [op EXCEPT ![e] = CreateOp(e, row)] ELSE op
      /\ UNCHANGED <<made, online>>
  BY DEF Reserve
<1>2. /\ row.owner = t /\ row.status = "creating" /\ row.claim = None
      /\ row.path = None /\ row.td = "none"
  BY DEF NoRow
<1> HIDE DEF row, last
<1>3. CreateOp(e, row).pc = "asked"
  BY <1>2 DEF CreateOp, OpAt, NoOp
<1>4. Empty(e) /\ op[e].kind # "create"
  <2>1. CASE own = None
    <3>1. op[e] = NoOp /\ \A p \in Paths : <<e, p>> \notin made
      BY <2>1 DEF Reserve, Forgotten
    <3>2. Empty(e)
      BY <1>0, <3>1 DEF Empty
    <3> QED BY <3>1, <3>2 DEF NoOp
  <2>2. CASE own # None
    <3>1. env[e].td = "removed"
      BY <2>2 DEF Reserve
    <3> QED BY <1>0, <3>1 DEF FitsRow, Findable
  <2> QED BY <2>1, <2>2
<1>5. Empty(e)' /\ \A f \in Envs : Empty(f) => Empty(f)'
  BY <1>1, <1>4 DEF Empty
<1>6. /\ env'[e] = row
      /\ op'[e].kind = "create" => op'[e].pc = "asked"
      /\ \A f \in Envs \ {e} : env'[f] = env[f] /\ op'[f] = op[f]
  BY <1>0, <1>1, <1>3, <1>4
<1>7. Findable(e)' /\ Homed(e)'
  BY <1>0, <1>2, <1>5, <1>6 DEF Findable, Homed, Created
<1>8. \A f \in Envs \ {e} : Findable(f)' /\ Homed(f)'
  BY <1>0, <1>1, <1>2, <1>5, <1>6, OthersStayHome
<1> QED BY <1>7, <1>8

\* A path is claimed at which no other row is, or nothing was made yet.
LEMMA CreateClaimsIsHomed ==
  ASSUME LeaksInv, spent["drop"] = 0, NEW e \in Envs, NEW p \in Paths,
         CreateClaims(e, p)
  PROVE  \A f \in Envs : Findable(f)' /\ Homed(f)'
PROOF
<1> DEFINE row == [env[e] EXCEPT !.claim = p]
<1>0. /\ env \in [Envs -> EnvRow] /\ p # None
      /\ \A f \in Envs : Findable(f) /\ Homed(f)
  BY ConstantsAssumption DEF LeaksInv, HomesInv, ClaimsInv, TypeOK
<1>1. /\ op' = op /\ \A f \in Envs : env'[f] = IF f = e THEN row ELSE env[f]
      /\ UNCHANGED <<made, online>>
      /\ op[e].kind = "create" /\ op[e].pc = "asked"
      /\ env[e].status = "creating" /\ env[e].claim = None
  BY <1>0 DEF CreateClaims, Asked, Claimable
<1>2. /\ row.owner = env[e].owner /\ row.status = env[e].status
      /\ row.td = env[e].td /\ row.path = env[e].path /\ row.claim = p
  BY <1>0 DEF EnvRow
<1> HIDE DEF row
<1>3. Empty(e)
  BY <1>0, <1>1 DEF Homed
<1>4. \A f \in Envs : Empty(f)' = Empty(f)
  BY <1>1 DEF Empty
<1>5. Findable(e)' /\ Homed(e)'
  BY <1>0, <1>1, <1>2, <1>3, <1>4 DEF Findable, Homed, Created
<1>6. \A f \in Envs \ {e} : Findable(f)' /\ Homed(f)'
  BY <1>0, <1>1, <1>2, <1>4, OthersStayHome
<1> QED BY <1>5, <1>6

\* The provider answers: with what it made at the path that is claimed ...
LEMMA CreateMakesIsHomed ==
  ASSUME LeaksInv, spent["drop"] = 0, NEW e \in Envs, CreateMakes(e)
  PROVE  \A f \in Envs : Findable(f)' /\ Homed(f)'
PROOF
<1>0. /\ op \in [Envs -> Operation] /\ FitsRow(env[e], op[e])
      /\ \A f \in Envs : Findable(f) /\ Homed(f)
  BY DEF LeaksInv, HomesInv, ClaimsInv, TypeOK, OperationsFitRows
<1>1. /\ op' = [op EXCEPT ![e] = [op[e] EXCEPT !.pc = "made", !.path = env[e].claim]]
      /\ made' = made \union {<<e, env[e].claim>>}
      /\ UNCHANGED <<env, online>>
      /\ online /\ env[e].claim # None /\ op[e].kind = "create"
      /\ \A f \in Envs \ {e} : env[f].path # env[e].claim
  BY DEF CreateMakes, Asked, AtPath
<1>2. /\ op'[e].path = env[e].claim
      /\ \A f \in Envs \ {e} : op'[f] = op[f]
  BY <1>0, <1>1 DEF Operation
<1>3. \A f \in Envs \ {e} : Empty(f) => Empty(f)'
  BY <1>1 DEF Empty
<1>4. Findable(e)'
  BY <1>0, <1>1 DEF Findable, FitsRow
<1>5. Homed(e)'
  BY <1>0, <1>1, <1>2 DEF Homed
<1>6. \A f \in Envs \ {e} : Findable(f)' /\ Homed(f)'
  BY <1>0, <1>1, <1>2, <1>3, OthersStayHome
<1> QED BY <1>4, <1>5, <1>6

\* ... or with a path of another row, if it has claimed that or nothing.
LEMMA CreateFindsIsHomed ==
  ASSUME LeaksInv, spent["drop"] = 0, NEW e \in Envs, NEW p \in Paths,
         CreateFinds(e, p)
  PROVE  \A f \in Envs : Findable(f)' /\ Homed(f)'
PROOF
<1>0. /\ op \in [Envs -> Operation] /\ FitsRow(env[e], op[e]) /\ p # None
      /\ \A f \in Envs : Findable(f) /\ Homed(f)
  BY ConstantsAssumption
     DEF LeaksInv, HomesInv, ClaimsInv, TypeOK, OperationsFitRows
<1>1. /\ op' = [op EXCEPT ![e] = [op[e] EXCEPT !.pc = "made", !.path = p]]
      /\ UNCHANGED <<env, made, online>>
      /\ online /\ env[e].claim \in {None, p} /\ op[e].kind = "create"
  BY DEF CreateFinds, Asked
<1>2. /\ op'[e].path = p
      /\ \A f \in Envs \ {e} : op'[f] = op[f]
  BY <1>0, <1>1 DEF Operation
<1>3. env[e].claim = None => Empty(e)
  BY <1>0, <1>1 DEF Homed, FitsRow
<1>4. \A f \in Envs : Empty(f)' = Empty(f)
  BY <1>1 DEF Empty
<1>5. Findable(e)' /\ Homed(e)'
  BY <1>0, <1>1, <1>2, <1>3, <1>4 DEF Findable, Homed
<1>6. \A f \in Envs \ {e} : Findable(f)' /\ Homed(f)'
  BY <1>0, <1>1, <1>2, <1>4, OthersStayHome
<1> QED BY <1>5, <1>6

\* Only a cancelled preparation stays in creation when its creation has settled.
LEMMA SettledStays ==
  ASSUME NEW row \in EnvRow, NEW aborted
  PROVE  LET new == Settled(row, aborted) IN
         /\ new.status = "none" => row.status = "none"
         /\ new.status = "creating" => row.td = "running"
PROOF BY DEF Settled, EnvRow

\* The workspace is bound to its row: who else is in creation has not claimed
\* the path.
LEMMA CreateBindsIsHomed ==
  ASSUME LeaksInv, spent["drop"] = 0, NEW e \in Envs, CreateBinds(e)
  PROVE  \A f \in Envs : Findable(f)' /\ Homed(f)'
PROOF
<1> DEFINE p   == op[e].path
           old == [env[e] EXCEPT !.claim = p, !.path = p]
           row == Settled(old, op[e].aborted)
<1>0. /\ env \in [Envs -> EnvRow] /\ op \in [Envs -> Operation]
      /\ FitsRow(env[e], op[e])
      /\ \A f \in Envs : Findable(f) /\ Homed(f)
  BY DEF LeaksInv, HomesInv, ClaimsInv, TypeOK, OperationsFitRows
<1>1. /\ \A f \in Envs : env'[f] = IF f = e THEN row ELSE env[f]
      /\ \A f \in Envs : op'[f] = IF f = e THEN NoOp ELSE op[f]
      /\ UNCHANGED <<made, online>>
      /\ Created(e) /\ op[e].kind = "create"
  BY <1>0 DEF CreateBinds, Created
<1>2. /\ old \in EnvRow /\ old.status = env[e].status
      /\ old.td = env[e].td /\ old.claim = p /\ old.path = p
  <2>1. env[e] \in EnvRow /\ p \in Paths \union {None}
    BY <1>0 DEF Operation
  <2> HIDE DEF p
  <2> QED BY <2>1 DEF EnvRow
<1> HIDE DEF old
<1>3. /\ row.td = env[e].td /\ row.claim = p /\ row.path = p
      /\ row.status = "none" => env[e].status = "none"
      /\ row.status = "creating" => row.td = "running"
  BY <1>2, SettledFacts, SettledStays
<1>4. /\ \A f \in Envs \ {e} : env[f].claim = p => env[f].status = "destroyed"
      /\ \A f \in Envs \ {e} : env[f].path # p
      /\ p # None
  BY <1>0, <1>1 DEF CreateBinds, MayBind, PathClaimed, AtPath, Homed
<1> HIDE DEF row
<1>5. \A f \in Envs : Empty(f)' = Empty(f)
  BY <1>1 DEF Empty
<1>6. NoOp.kind = "none"
  BY DEF NoOp
<1>7. Findable(e)'
  BY <1>0, <1>1, <1>3 DEF Findable, FitsRow
<1>8. Homed(e)'
  BY <1>1, <1>3, <1>4, <1>6 DEF Homed, Created
<1>9. \A f \in Envs \ {e} : Findable(f)' /\ Homed(f)'
  <2>1. \A f \in Envs \ {e} :
          env[f].status = "creating" => env'[e].path # env[f].claim
    BY <1>1, <1>3, <1>4
  <2> QED BY <1>0, <1>1, <1>5, <2>1, OthersStayHome
<1> QED BY <1>7, <1>8, <1>9

\* The path of an answer that is adopted or refused is not one at which
\* something was made for the row, so nothing was.
LEMMA UnboundIsEmpty ==
  ASSUME LeaksInv, spent["drop"] = 0, NEW e \in Envs, Created(e),
         ~MayBind(e, op[e].path) \/ AtPath(e, op[e].path) # {}
  PROVE  Empty(e)
PROOF
<1> DEFINE p == op[e].path
<1>0. FitsRow(env[e], op[e]) /\ Homed(e) /\ ClaimsAreExclusive
  BY DEF LeaksInv, HomesInv, ClaimsInv, RowsApart, OperationsFitRows
<1>1. SUFFICES ASSUME env[e].claim = p, ~Empty(e) PROVE FALSE
  BY <1>0 DEF Homed
<1>2. p # None /\ op[e].kind = "create" /\ env[e].status = "creating"
  BY <1>0 DEF Homed, Created, FitsRow
<1>3. AtPath(e, p) = {}
  BY <1>0, <1>1, <1>2 DEF Homed, AtPath
<1>4. ~PathClaimed(env, p, e)
  BY <1>0, <1>1, <1>2 DEF PathClaimed, ClaimsAreExclusive
<1>5. MayBind(e, p)
  BY <1>0, <1>1, <1>2, <1>4 DEF MayBind, FitsRow
<1> QED BY <1>3, <1>5

\* The answer is the path of another row, which takes the preparation over.
LEMMA CreateAdoptsIsHomed ==
  ASSUME LeaksInv, spent["drop"] = 0, NEW e \in Envs, NEW f \in Envs,
         CreateAdopts(e, f)
  PROVE  \A g \in Envs : Findable(g)' /\ Homed(g)'
PROOF
<1> DEFINE p     == op[e].path
           gone  == [env[e] EXCEPT !.owner = None, !.status = "destroyed",
                                   !.td = "removed", !.claim = None, !.path = None]
           taken == [env[f] EXCEPT
                       !.owner = env[e].owner, !.attempt = env[e].attempt,
                       !.status = IF env[f].status = "ready" THEN env[f].status
                                  ELSE env[e].status,
                       !.td = env[e].td, !.retire = env[e].retire, !.claim = p]
           row   == Settled(taken, op[e].aborted)
<1>0. /\ env \in [Envs -> EnvRow] /\ op \in [Envs -> Operation]
      /\ \A g \in Envs : FitsRow(env[g], op[g]) /\ Findable(g) /\ Homed(g)
      /\ OneRowPerPath
  BY DEF LeaksInv, HomesInv, ClaimsInv, RowsApart, TypeOK, OperationsFitRows
<1>1. /\ f # e /\ env[f].path = p
      /\ env[f].status \in {"ready", "provisioning"}
      /\ Created(e) /\ op[e].kind = "create" /\ AtPath(e, p) # {}
      /\ UNCHANGED <<made, online>>
  BY DEF CreateAdopts, Created, AtPath, MayAdopt
<1>2. /\ \A g \in Envs : env'[g] = IF g = e THEN gone ELSE IF g = f THEN row ELSE env[g]
      /\ \A g \in Envs : op'[g] = IF g = e THEN NoOp ELSE op[g]
  BY <1>0, <1>1 DEF CreateAdopts
<1>3. gone.status = "destroyed" /\ gone.path = None
  BY <1>0 DEF EnvRow
<1>4. Empty(e) /\ p # None
  BY <1>0, <1>1, UnboundIsEmpty DEF Homed
<1>5. env[e].status = "creating" /\ env[e].td # "removed" /\ op[f].kind # "create"
  BY <1>0, <1>1 DEF FitsRow
<1>6. /\ taken \in EnvRow /\ taken.td = env[e].td /\ taken.status # "none"
      /\ taken.claim = p /\ taken.path = p
  <2>1. env[e] \in EnvRow /\ env[f] \in EnvRow /\ p \in Paths \union {None}
    BY <1>0 DEF Operation
  <2> DEFINE status == IF env[f].status = "ready" THEN env[f].status ELSE env[e].status
  <2>2. status \in EnvironmentStatus
    BY <1>1, <1>5 DEF EnvironmentStatus
  <2>3. taken = [env[f] EXCEPT
                   !.owner = env[e].owner, !.attempt = env[e].attempt,
                   !.status = status,
                   !.td = env[e].td, !.retire = env[e].retire, !.claim = p]
    OBVIOUS
  <2> HIDE DEF taken, p, status
  <2>4. /\ env[e].owner \in Threads \union {None} /\ env[e].attempt \in Nat
        /\ env[e].td \in Teardown /\ env[e].retire \in {"none", "waiting", "due"}
    BY <2>1 DEF EnvRow
  <2>5. taken \in EnvRow /\ taken.td = env[e].td /\ taken.status = status
    BY <2>1, <2>2, <2>3, <2>4 DEF EnvRow
  <2>6. taken.claim = p /\ taken.path = p
    BY <1>1, <2>1, <2>3 DEF EnvRow
  <2> QED BY <2>2, <2>5, <2>6 DEF EnvironmentStatus
<1> HIDE DEF taken
<1>7. /\ row.td = env[e].td /\ row.claim = p /\ row.path = p
      /\ row.status # "none"
      /\ row.status = "creating" => row.td = "running"
  BY <1>6, SettledFacts, SettledStays
<1> HIDE DEF row, gone
<1>8. \A g \in Envs : Empty(g)' = Empty(g)
  BY <1>1 DEF Empty
<1>9. Findable(e)' /\ Homed(e)'
  <2>1. NoOp.kind = "none"
    BY DEF NoOp
  <2> QED BY <1>2, <1>3, <1>4, <1>8, <2>1 DEF Findable, Homed, Created
\* No row but the one that adopts is at the path.
<1>10. \A g \in Envs \ {f} : env'[g].path # p
  BY <1>0, <1>1, <1>2, <1>3, <1>4 DEF OneRowPerPath
<1>11. Findable(f)'
  BY <1>1, <1>2, <1>5, <1>7 DEF Findable
<1>12. Homed(f)'
  BY <1>1, <1>2, <1>4, <1>5, <1>7, <1>10 DEF Homed, Created
<1>13. ASSUME NEW g \in Envs \ {e, f} PROVE Findable(g)' /\ Homed(g)'
  <2>1. env'[g] = env[g] /\ op'[g] = op[g] /\ Findable(g) /\ Homed(g)
    BY <1>0, <1>2
  <2>2. \A h \in Envs : env'[h].path \in {env[h].path, None}
    BY <1>1, <1>2, <1>3, <1>7
  <2>3. env'[g].status = "creating" /\ env'[g].claim # None /\ ~Empty(g) =>
          \A h \in Envs \ {g} : env'[h].path # env'[g].claim
    BY <2>1, <2>2 DEF Homed
  <2>4. Created(g)' = Created(g)
    BY <2>1 DEF Created
  <2> QED BY <1>1, <1>8, <2>1, <2>3, <2>4 DEF Findable, Homed
<1> QED BY <1>9, <1>11, <1>12, <1>13

\* The answer is refused: it was not one of the row's own.
LEMMA CreateRefusedIsHomed ==
  ASSUME LeaksInv, spent["drop"] = 0, NEW e \in Envs, CreateRefused(e)
  PROVE  \A f \in Envs : Findable(f)' /\ Homed(f)'
PROOF
<1>0. /\ env \in [Envs -> EnvRow] /\ op \in [Envs -> Operation]
      /\ FitsRow(env[e], op[e])
      /\ \A f \in Envs : Findable(f) /\ Homed(f)
  BY DEF LeaksInv, HomesInv, ClaimsInv, TypeOK, OperationsFitRows
<1>1. /\ Created(e) /\ op[e].kind = "create"
      /\ op' = [op EXCEPT ![e] = NoOp] /\ UNCHANGED <<made, online>>
  BY DEF CreateRefused, Created
<1>2. Empty(e)
  BY <1>0, <1>1, UnboundIsEmpty DEF CreateRefused, Homed
<1>3. env[e].attempt = op[e].attempt /\ env[e].owner = op[e].owner
      /\ env[e].status = "creating"
  BY <1>0, <1>1 DEF FitsRow
<1>4. /\ env'[e].status = "error" /\ env'[e].path = None
      /\ \A f \in Envs \ {e} : env'[f] = env[f]
  <2> DEFINE row == [env[e] EXCEPT !.td = "removed", !.claim = None, !.path = None]
  <2>1. row \in EnvRow /\ row.status = "creating" /\ row.path = None
    BY <1>0, <1>3 DEF EnvRow, Teardown
  <2>2. env' = [env EXCEPT ![e] = [row EXCEPT !.status = "error"]]
    BY <1>3, <2>1 DEF CreateRefused
  <2> HIDE DEF row
  <2> QED BY <1>0, <2>1, <2>2 DEF EnvRow
<1>5. op'[e].kind = "none" /\ \A f \in Envs \ {e} : op'[f] = op[f]
  BY <1>0, <1>1 DEF NoOp
<1>6. \A f \in Envs : Empty(f)' = Empty(f)
  BY <1>1 DEF Empty
<1>7. Findable(e)' /\ Homed(e)'
  BY <1>2, <1>4, <1>5, <1>6 DEF Findable, Homed, Created
<1>8. \A f \in Envs \ {e} : Findable(f)' /\ Homed(f)'
  BY <1>0, <1>1, <1>4, <1>5, <1>6, OthersStayHome
<1> QED BY <1>7, <1>8

\* The provider removed what was made for the row.
LEMMA RemoveSucceedsIsHomed ==
  ASSUME LeaksInv, spent["drop"] = 0, NEW e \in Envs, RemoveSucceeds(e)
  PROVE  \A f \in Envs : Findable(f)' /\ Homed(f)'
PROOF
<1> DEFINE row  == [env[e] EXCEPT !.td = "removed", !.claim = None, !.retire = "none"]
           rows == [env EXCEPT ![e] = row]
<1>0. /\ env \in [Envs -> EnvRow] /\ op \in [Envs -> Operation]
      /\ FitsRow(env[e], op[e])
      /\ \A f \in Envs : Findable(f) /\ Homed(f)
  BY DEF LeaksInv, HomesInv, ClaimsInv, TypeOK, OperationsFitRows
<1>1. /\ made' = {m \in made : m[1] # e /\ m[2] # env[e].path}
      /\ env' = EnvApply(rows, thr, e, "destroy.recorded")
      /\ op' = [op EXCEPT ![e] = NoOp] /\ UNCHANGED online
  BY DEF RemoveSucceeds
<1>2. env[e].status \in {"error", "destroyed"}
  BY <1>0 DEF RemoveSucceeds, InRemoval, FitsRow
<1>3. row \in EnvRow /\ row.status = env[e].status /\ row.path = env[e].path
  BY <1>0 DEF EnvRow, Teardown
<1>4. rows \in [Envs -> EnvRow] /\ rows[e] = row /\ \A f \in Envs \ {e} : rows[f] = env[f]
  BY <1>0, <1>3
<1>5. "destroy.recorded" \in EnvironmentEvent
  BY DEF EnvironmentEvent
<1> HIDE DEF row, rows
<1>6. /\ env'[e].status # "creating" /\ env'[e].path \in {env[e].path, None}
      /\ \A f \in Envs \ {e} : env'[f] = env[f]
  BY <1>1, <1>2, <1>3, <1>4, <1>5, EnvApplyFacts
<1>7. op'[e].kind = "none" /\ \A f \in Envs \ {e} : op'[f] = op[f]
  BY <1>0, <1>1 DEF NoOp
<1>8. Empty(e)' /\ \A f \in Envs : Empty(f) => Empty(f)'
  BY <1>1 DEF Empty
<1>9. Findable(e)' /\ Homed(e)'
  BY <1>6, <1>7, <1>8 DEF Findable, Homed, Created
<1>10. \A f \in Envs \ {e} : Findable(f)' /\ Homed(f)'
  BY <1>0, <1>1, <1>6, <1>7, <1>8, OthersStayHome
<1> QED BY <1>9, <1>10

\* What else a creation does: it is taken up again, or fails.
LEMMA CreationIsAtHome ==
  ASSUME TypeOK, OperationsFitRows, NEW e \in Envs, Homed(e),
         StartCreate(e) \/ CreateFails(e)
  PROVE  AtHome /\ HostStays /\ made' \subseteq made
PROOF
<1>0. /\ env \in [Envs -> EnvRow] /\ op \in [Envs -> Operation]
      /\ UNCHANGED <<made, online>>
      /\ env = [env EXCEPT ![e] = env[e]]
  BY DEF TypeOK, StartCreate, CreateFails
\* A preparation that was not cancelled has no path yet, so its provider is
\* asked.
<1>1. CASE StartCreate(e)
  <2>1. env[e].path = None /\ env[e].owner # None
    BY <1>1 DEF StartCreate, Homed, Removing
  <2>2. CreateOp(e, env[e]).pc = "asked"
    BY <2>1 DEF CreateOp, OpAt, NoOp
  <2>3. HomeKept(env[e], env[e], op[e], CreateOp(e, env[e]))
    BY <2>1, <2>2 DEF HomeKept
  <2>4. env' = [env EXCEPT ![e] = env[e]] /\ op' = [op EXCEPT ![e] = CreateOp(e, env[e])]
    BY <1>0, <1>1 DEF StartCreate
  <2> QED BY <1>0, <2>3, <2>4, OneRowIsAtHome DEF HostStays
<1>2. CASE CreateFails(e)
  <2> DEFINE row == [env[e] EXCEPT !.status = "error"]
  <2>1. env' = [env EXCEPT ![e] = env[e]] \/ env' = [env EXCEPT ![e] = row]
    BY <1>0, <1>2 DEF CreateFails
  <2>2. HomeKept(env[e], env[e], op[e], NoOp) /\ HomeKept(env[e], row, op[e], NoOp)
    BY <1>0 DEF HomeKept, NoOp, EnvRow
  <2>3. op' = [op EXCEPT ![e] = NoOp]
    BY <1>2 DEF CreateFails
  <2> HIDE DEF row
  <2> QED BY <1>0, <2>1, <2>2, <2>3, OneRowIsAtHome DEF HostStays
<1> QED BY <1>1, <1>2

LEMMA SetupIsAtHome ==
  ASSUME TypeOK, OperationsFitRows, NEW e \in Envs, Setup(e)
  PROVE  AtHome /\ HostStays /\ made' \subseteq made
PROOF
<1>0. /\ env \in [Envs -> EnvRow] /\ op \in [Envs -> Operation]
      /\ op[e] \in Operation /\ FitsRow(env[e], op[e])
      /\ \A f \in Envs : HomeKept(env[f], env[f], op[f], op[f])
  BY DEF TypeOK, OperationsFitRows, HomeKept
<1>1. UNCHANGED <<made, online>>
  BY DEF Setup, SendSetup, InterruptSetup, SetupSucceeds, SetupFails, CancelSetup,
         SetupCancelled, CancelFails, HostGrace
<1>2. SetupFailureEvent(thr, e) \in EnvironmentEvent
      /\ {"provision.succeeded", "provision.cancelled"} \subseteq EnvironmentEvent
  BY DEF SetupFailureEvent, EnvironmentEvent
\* The row stays, or an event happens to it.
<1>3. env' = env \/ \E event \in EnvironmentEvent : env' = EnvApply(env, thr, e, event)
  BY <1>2 DEF Setup, SendSetup, InterruptSetup, SetupSucceeds, SetupFails, CancelSetup,
              SetupCancelled, CancelFails, HostGrace, RecordSetupFailure
\* The operation stays, or is no creation.
<1>4. \A f \in Envs \ {e} : op'[f] = op[f]
  BY <1>0 DEF Setup, SendSetup, InterruptSetup, SetupSucceeds, SetupFails, CancelSetup,
              SetupCancelled, CancelFails, HostGrace, SetupOver, CancelOver
<1>5. op'[e] = op[e] \/ op'[e].kind # "create"
  <2>1. CASE InterruptSetup(e) \/ HostGrace(e)
    BY <2>1 DEF InterruptSetup, HostGrace
  <2>2. CASE SendSetup(e)
    BY <1>0, <2>2 DEF SendSetup, OpAt, NoOp
  <2>3. CASE SetupSucceeds(e) \/ SetupFails(e)
    <3>1. SetupOver(e) /\ op[e].kind = "attach"
      BY <2>3 DEF SetupSucceeds, SetupFails, SetupSent
    <3> QED BY <1>0, <3>1 DEF SetupOver, NoOp, Operation
  <2>4. CASE CancelSetup(e)
    <3>1. op'[e] = CancelAsked(op[e]) /\ op[e].kind \in {"none", "attach"}
      BY <1>0, <2>4 DEF CancelSetup, Cancellable
    <3> QED BY <1>0, <3>1 DEF CancelAsked, OpAt, NoOp, Operation
  <2>5. CASE SetupCancelled(e) \/ CancelFails(e)
    <3>1. CancelOver(e) /\ op[e].kind = "attach"
      BY <1>0, <2>5 DEF SetupCancelled, CancelFails, FitsRow
    <3> QED BY <1>0, <3>1 DEF CancelOver, NoOp, Operation
  <2> QED BY <2>1, <2>2, <2>3, <2>4, <2>5 DEF Setup
<1>6. ASSUME NEW f \in Envs PROVE HomeKept(env[f], env'[f], op[f], op'[f])
  <2>1. CASE env' = env
    <3>1. f = e => HomeKept(env[f], env[f], op[f], op'[f])
      BY <1>5 DEF HomeKept
    <3> QED BY <1>0, <1>4, <2>1, <3>1
  <2>2. CASE env' # env
    <3>1. PICK event \in EnvironmentEvent : env' = EnvApply(env, thr, e, event)
      BY <1>3, <2>2
    <3> QED BY <1>0, <1>4, <1>5, <3>1, EventIsAtHome
  <2> QED BY <2>1, <2>2
<1> QED BY <1>1, <1>6 DEF AtHome, HostStays

\* Removals and what leads to them, save their success.
LEMMA RemovalIsAtHome ==
  ASSUME TypeOK, OperationsFitRows, NEW e \in Envs,
         Removal(e) \/ DeleteEnv(e), ~RemoveSucceeds(e)
  PROVE  AtHome /\ HostStays /\ made' \subseteq made
PROOF
<1>0. /\ env \in [Envs -> EnvRow] /\ op \in [Envs -> Operation]
      /\ env[e] \in EnvRow /\ op[e] \in Operation /\ FitsRow(env[e], op[e])
      /\ env = [env EXCEPT ![e] = env[e]] /\ op = [op EXCEPT ![e] = op[e]]
  BY DEF TypeOK, OperationsFitRows
<1>1. UNCHANGED <<made, online>>
  BY DEF Removal, DeleteEnv, Sweep, SlotSpares, SlotWaits, SlotBegins, HookStopped,
         HookUnknown, RemoveFails, RetireDue
<1> SUFFICES AtHome
  BY <1>1 DEF HostStays
\* It suffices to know the row and the operation afterwards.
<1>2. ASSUME NEW row, NEW o,
             env' = [env EXCEPT ![e] = row], op' = [op EXCEPT ![e] = o],
             HomeKept(env[e], row, op[e], o)
      PROVE  AtHome
  BY <1>2, OneRowIsAtHome
<1>3. ASSUME NEW row, NEW o,
             row.owner = env[e].owner, row.claim = env[e].claim,
             row.path = env[e].path, row.td # "removed",
             row.status \in {env[e].status, "error"},
             env[e].td = "running" =>
               row.td = "running" \/ env[e].status # "creating",
             o = op[e] \/ o.kind # "create"
      PROVE  HomeKept(env[e], row, op[e], o)
  BY <1>3 DEF HomeKept
<1>4. NoOp.kind = "none" /\ OpAt("remove", "slot").kind = "remove"
  BY DEF NoOp, OpAt
<1>5. ASSUME NEW o, o.kind # "create" PROVE HomeKept(env[e], env[e], op[e], o)
  BY <1>5 DEF HomeKept
<1>6. CASE Sweep(e)
  <2>1. env' = [env EXCEPT ![e] = env[e]]
    BY <1>0, <1>6 DEF Sweep
  <2>2. CASE op' = [op EXCEPT ![e] = OpAt("remove", "slot")]
    BY <1>2, <1>4, <1>5, <2>1, <2>2
  <2>3. CASE op' # [op EXCEPT ![e] = OpAt("remove", "slot")]
    <3> DEFINE o == [op[e] EXCEPT !.aborted = TRUE]
    <3>1. op' = [op EXCEPT ![e] = o]
      BY <1>6, <2>3 DEF Sweep
    <3>2. o.kind = op[e].kind /\ o.pc = op[e].pc /\ o.path = op[e].path
      BY <1>0 DEF Operation
    <3>3. HomeKept(env[e], env[e], op[e], o)
      BY <3>2 DEF HomeKept
    <3> HIDE DEF o
    <3> QED BY <1>2, <2>1, <3>1, <3>3
  <2> QED BY <2>2, <2>3
<1>7. CASE SlotSpares(e)
  <2> DEFINE freed == [env[e] EXCEPT !.owner = None, !.claim = None,
                                     !.retire = "none", !.td = "none"]
             kept  == [env[e] EXCEPT !.retire = "none"]
  <2>1. \/ env' = [env EXCEPT ![e] = env[e]]
        \/ env' = [env EXCEPT ![e] = freed]
        \/ env' = [env EXCEPT ![e] = kept]
    BY <1>0, <1>7 DEF SlotSpares
  <2>2. HomeKept(env[e], kept, op[e], NoOp)
    BY <1>0, <1>4 DEF HomeKept, EnvRow
  <2>3. HomeKept(env[e], freed, op[e], NoOp)
    BY <1>0, <1>4 DEF HomeKept, EnvRow
  <2>4. op' = [op EXCEPT ![e] = NoOp]
    BY <1>7 DEF SlotSpares
  <2> HIDE DEF freed, kept
  <2> QED BY <1>2, <1>4, <1>5, <2>1, <2>2, <2>3, <2>4
<1>8. CASE SlotWaits(e)
  <2> DEFINE row == [env[e] EXCEPT !.retire =
                       IF @ = "none" /\ e \in Lasting THEN @ ELSE "waiting"]
  <2>1. env' = [env EXCEPT ![e] = row] /\ op' = [op EXCEPT ![e] = NoOp]
    BY <1>0, <1>8 DEF SlotWaits
  <2>2. HomeKept(env[e], row, op[e], NoOp)
    BY <1>0, <1>4 DEF HomeKept, EnvRow
  <2> QED BY <1>2, <2>1, <2>2
<1>9. ASSUME NEW p, op[e].kind = "remove" PROVE [op[e] EXCEPT !.pc = p].kind # "create"
  BY <1>0, <1>9 DEF Operation
<1>10. CASE SlotBegins(e)
  <2> DEFINE row == [env[e] EXCEPT !.retire = "due",
                       !.td = IF env[e].td = "none" THEN "running" ELSE env[e].td]
             hook == CancelledRow(env[e]) /\ env[e].path # None
  <2>1. op[e].kind = "remove" /\ env[e].td # "removed"
    BY <1>10 DEF SlotBegins, SlotRetires, InSlot
  <2>2. /\ row \in EnvRow /\ row.td # "removed" /\ row.status = env[e].status
        /\ row.owner = env[e].owner /\ row.claim = env[e].claim
        /\ row.path = env[e].path
        /\ env[e].td = "running" => row.td = "running"
    BY <1>0, <2>1 DEF EnvRow, Teardown
  <2>3. /\ GivenUp(row).owner = env[e].owner /\ GivenUp(row).claim = env[e].claim
        /\ GivenUp(row).path = env[e].path /\ GivenUp(row).td = "running"
        /\ GivenUp(row).status \in {env[e].status, "error"}
    BY <2>2 DEF GivenUp, EnvRow
  <2>4. CASE hook
    <3>1. env' = [env EXCEPT ![e] = row]
          /\ op' = [op EXCEPT ![e] = [op[e] EXCEPT !.pc = "hook"]]
      BY <1>10, <2>4 DEF SlotBegins
    <3> HIDE DEF row, hook
    <3> QED BY <1>2, <1>3, <1>9, <2>1, <2>2, <3>1
  <2>5. CASE ~hook
    <3>1. env' = [env EXCEPT ![e] = GivenUp(row)]
          /\ op' = [op EXCEPT ![e] = [op[e] EXCEPT !.pc = "busy"]]
      BY <1>10, <2>5 DEF SlotBegins
    <3> HIDE DEF row, hook
    <3> QED BY <1>2, <1>3, <1>9, <2>1, <2>3, <3>1
  <2> QED BY <2>4, <2>5
<1>11. CASE HookStopped(e)
  <2>1. CASE env[e].td = "removed"
    <3>1. env' = [env EXCEPT ![e] = env[e]] /\ op' = [op EXCEPT ![e] = NoOp]
      BY <1>0, <1>11, <2>1 DEF HookStopped
    <3> QED BY <1>2, <1>4, <1>5, <3>1
  <2>2. CASE env[e].td # "removed"
    <3>1. /\ env' = [env EXCEPT ![e] = GivenUp(env[e])]
          /\ op' = [op EXCEPT ![e] = [op[e] EXCEPT !.pc = "busy"]]
          /\ op[e].kind = "remove"
      BY <1>0, <1>11, <2>2 DEF HookStopped, InHook
    <3>2. LET row == GivenUp(env[e]) IN
          /\ row.owner = env[e].owner /\ row.claim = env[e].claim
          /\ row.path = env[e].path /\ row.td = "running"
          /\ row.status \in {env[e].status, "error"}
      BY <1>0 DEF GivenUp, EnvRow
    <3> QED BY <1>2, <1>3, <1>9, <3>1, <3>2
  <2> QED BY <2>1, <2>2
<1>12. CASE HookUnknown(e)
  BY <1>0, <1>2, <1>4, <1>5, <1>12 DEF HookUnknown
<1>13. CASE RemoveFails(e)
  <2> DEFINE row == [env[e] EXCEPT !.td = "failed", !.retire = "waiting"]
  <2>1. env' = [env EXCEPT ![e] = row] /\ op' = [op EXCEPT ![e] = NoOp]
    BY <1>0, <1>13 DEF RemoveFails
  <2>2. env[e].status # "creating"
    BY <1>0, <1>13 DEF RemoveFails, InRemoval, FitsRow
  <2>3. /\ row.owner = env[e].owner /\ row.claim = env[e].claim
        /\ row.path = env[e].path /\ row.td = "failed" /\ row.status = env[e].status
    BY <1>0 DEF EnvRow
  <2> HIDE DEF row
  <2> QED BY <1>2, <1>3, <1>4, <2>1, <2>2, <2>3
<1>14. CASE RetireDue(e)
  <2> DEFINE row == [env[e] EXCEPT !.retire = "due"]
  <2>1. env' = [env EXCEPT ![e] = row] /\ op' = [op EXCEPT ![e] = op[e]]
    BY <1>0, <1>14 DEF RetireDue
  <2>2. HomeKept(env[e], row, op[e], op[e])
    BY <1>0 DEF HomeKept, EnvRow
  <2> QED BY <1>2, <2>1, <2>2
<1>15. CASE DeleteEnv(e)
  <2> DEFINE row == [env[e] EXCEPT !.td = "running", !.retire = "due"]
  <2>1. env' = [env EXCEPT ![e] = row] /\ op' = [op EXCEPT ![e] = op[e]]
    BY <1>0, <1>15 DEF DeleteEnv
  <2>2. HomeKept(env[e], row, op[e], op[e])
    BY <1>0 DEF HomeKept, EnvRow
  <2> QED BY <1>2, <2>1, <2>2
<1> QED BY <1>6, <1>7, <1>8, <1>10, <1>11, <1>12, <1>13, <1>14, <1>15 DEF Removal

\* The server and the host come and go, threads stop again and end their turns.
LEMMA RestIsAtHome ==
  ASSUME TypeOK,
         \/ \E t \in Threads : StopAgain(t) \/ TurnEnds(t)
         \/ HostReturns \/ Crash \/ UNCHANGED vars
  PROVE  AtHome /\ HostStays /\ made' \subseteq made
PROOF
<1>1. UNCHANGED <<env, made>> /\ \A e \in Envs : op'[e] \in {op[e], NoOp}
  BY DEF StopAgain, TurnEnds, HostReturns, Crash, vars
<1>2. HostStays
  BY DEF HostStays, StopAgain, TurnEnds, HostReturns, Crash, vars, NoOp
<1> QED BY <1>1, <1>2, SameIsAtHome

\* The host's departures are counted and never forgotten.
LEMMA DropsAreCounted ==
  ASSUME TypeOK, [Next]_vars
  PROVE  /\ HostDrops => spent'["drop"] = spent["drop"] + 1
         /\ ~HostDrops => spent'["drop"] = spent["drop"]
PROOF
<1>0. spent \in [Disturbance -> Nat] /\ "drop" \in Disturbance
  BY DEF TypeOK, Disturbance
<1>1. ASSUME NEW d \in Disturbance, Spend(d)
      PROVE  spent'["drop"] = IF d = "drop" THEN spent["drop"] + 1 ELSE spent["drop"]
  BY <1>0, <1>1 DEF Spend
<1>2. {"fail", "cancel", "crash", "drop", "back"} = Disturbance
  BY DEF Disturbance
<1>3. HostDrops => spent'["drop"] = spent["drop"] + 1
  BY <1>1, <1>2 DEF HostDrops
<1>4. ASSUME NEW t \in Threads, Request(t) \/ Placement(t) \/ StopAgain(t) \/ TurnEnds(t)
      PROVE  spent'["drop"] = spent["drop"]
  <2>1. CASE Unarchive(t)
    BY <1>1, <1>2, <2>1 DEF Unarchive
  <2>2. CASE ~Unarchive(t)
    BY <1>4, <2>2
       DEF Request, CreateIn, StartFirst, Restart, StartTurnInPlace,
           StartReprovisioning, Stop, Archive, Placement, Reserve, Reject, Attach,
           AttachLater, AttachNow, StartFails, StartTurn, StopAgain, TurnEnds
  <2> QED BY <2>1, <2>2
<1>5. ASSUME NEW e \in Envs, Creation(e) \/ Setup(e)
      PROVE  spent'["drop"] = spent["drop"]
  <2>1. CASE CreateFails(e) \/ SetupFails(e) \/ CancelFails(e)
    BY <1>1, <1>2, <2>1 DEF CreateFails, SetupFails, CancelFails
  <2>2. CASE ~(CreateFails(e) \/ SetupFails(e) \/ CancelFails(e))
    BY <1>5, <2>2
       DEF Creation, StartCreate, CreateClaims, CreateMakes, CreateFinds, CreateBinds,
           CreateAdopts, CreateRefused, Setup, SendSetup, InterruptSetup,
           SetupSucceeds, CancelSetup, SetupCancelled, HostGrace
  <2> QED BY <2>1, <2>2
<1>6. ASSUME NEW e \in Envs, Removal(e) \/ DeleteEnv(e)
      PROVE  spent'["drop"] = spent["drop"]
  <2>1. CASE HookUnknown(e) \/ RemoveFails(e)
    BY <1>1, <1>2, <2>1 DEF HookUnknown, RemoveFails
  <2>2. CASE ~(HookUnknown(e) \/ RemoveFails(e))
    BY <1>6, <2>2
       DEF Removal, Sweep, SlotSpares, SlotWaits, SlotBegins, HookStopped,
           RemoveSucceeds, RetireDue, DeleteEnv
  <2> QED BY <2>1, <2>2
<1>7. ASSUME HostReturns \/ Crash \/ UNCHANGED vars
      PROVE  spent'["drop"] = spent["drop"]
  BY <1>1, <1>2, <1>7 DEF HostReturns, Crash, vars
<1> QED BY <1>3, <1>4, <1>5, <1>6, <1>7 DEF Next

LEMMA HomesKept == LeaksInv /\ [Next]_vars => LeaksInv'
PROOF
<1> SUFFICES ASSUME LeaksInv, [Next]_vars PROVE LeaksInv'
  OBVIOUS
<1>0. ClaimsInv /\ ClaimsInv' /\ TypeOK /\ OperationsFitRows /\ OperationsFitRows'
  BY ClaimsKept DEF LeaksInv, ClaimsInv
<1>1. SUFFICES ASSUME spent'["drop"] = 0 PROVE HomesInv'
  BY <1>0 DEF LeaksInv, HomesInv
<1>2. spent["drop"] = 0 /\ ~HostDrops
  BY <1>0, <1>1, DropsAreCounted DEF TypeOK, Disturbance
<1>3. HomesInv /\ \A e \in Envs : Homed(e)
  BY <1>2 DEF LeaksInv, HomesInv
\* Either nothing of a row's home is disturbed ...
<1>4. ASSUME AtHome /\ HostStays /\ made' \subseteq made PROVE HomesInv'
  BY <1>0, <1>2, <1>3, <1>4, AtHomeKeeps
\* ... or the step is one of those that take something.
<1>5. ASSUME \A f \in Envs : Findable(f)' /\ Homed(f)' PROVE HomesInv'
  BY <1>5 DEF HomesInv
<1>6. ASSUME NEW t \in Threads, Request(t) PROVE HomesInv'
  BY <1>0, <1>4, <1>6, RequestIsAtHome
<1>7. ASSUME NEW t \in Threads, Placement(t) PROVE HomesInv'
  <2>1. ASSUME NEW e \in Envs, Reserve(t, e) PROVE HomesInv'
    BY <1>2, <1>5, <2>1, ReserveIsHomed
  <2>2. CASE ~\E e \in Envs : Reserve(t, e)
    BY <1>0, <1>4, <1>7, <2>2, PlacementIsAtHome
  <2> QED BY <2>1, <2>2
<1>8. ASSUME NEW e \in Envs, Creation(e) PROVE HomesInv'
  <2>1. CASE StartCreate(e) \/ CreateFails(e)
    BY <1>0, <1>3, <1>4, <2>1, CreationIsAtHome
  <2>2. ASSUME NEW p \in Paths, CreateClaims(e, p) PROVE HomesInv'
    BY <1>2, <1>5, <2>2, CreateClaimsIsHomed
  <2>3. CASE CreateMakes(e)
    BY <1>2, <1>5, <2>3, CreateMakesIsHomed
  <2>4. ASSUME NEW p \in Paths, CreateFinds(e, p) PROVE HomesInv'
    BY <1>2, <1>5, <2>4, CreateFindsIsHomed
  <2>5. CASE CreateBinds(e)
    BY <1>2, <1>5, <2>5, CreateBindsIsHomed
  <2>6. ASSUME NEW f \in Envs, CreateAdopts(e, f) PROVE HomesInv'
    BY <1>2, <1>5, <2>6, CreateAdoptsIsHomed
  <2>7. CASE CreateRefused(e)
    BY <1>2, <1>5, <2>7, CreateRefusedIsHomed
  <2> QED BY <1>8, <2>1, <2>2, <2>3, <2>4, <2>5, <2>6, <2>7 DEF Creation
<1>9. ASSUME NEW e \in Envs, Setup(e) PROVE HomesInv'
  BY <1>0, <1>4, <1>9, SetupIsAtHome
<1>10. ASSUME NEW e \in Envs, Removal(e) \/ DeleteEnv(e) PROVE HomesInv'
  <2>1. CASE RemoveSucceeds(e)
    BY <1>2, <1>5, <2>1, RemoveSucceedsIsHomed
  <2>2. CASE ~RemoveSucceeds(e)
    BY <1>0, <1>4, <1>10, <2>2, RemovalIsAtHome
  <2> QED BY <2>1, <2>2
<1>11. ASSUME \/ \E t \in Threads : StopAgain(t) \/ TurnEnds(t)
              \/ HostReturns \/ Crash \/ UNCHANGED vars
       PROVE  HomesInv'
  BY <1>0, <1>4, <1>11, RestIsAtHome
<1> QED BY <1>2, <1>6, <1>7, <1>8, <1>9, <1>10, <1>11 DEF Next

LEMMA HomesAtInit == Init => LeaksInv
PROOF
<1> SUFFICES ASSUME Init PROVE HomesInv
  BY ClaimsAtInit DEF LeaksInv
<1>1. ASSUME NEW e \in Envs PROVE Empty(e) /\ env[e] = NoRow /\ op[e] = NoOp
  BY DEF Init, Empty
<1> QED BY <1>1 DEF HomesInv, Findable, Homed, Created, NoRow, NoOp

\* Nothing a provider made is lost while the host is there: not by failed,
\* refused, cancelled or repeated creations, adoptions, failed removals or
\* restarts.
THEOREM NothingIsLost == Spec => []NothingLeaks
PROOF
<1>1. LeaksInv => NothingLeaks
  <2> SUFFICES ASSUME LeaksInv, spent["drop"] = 0, NEW m \in made
               PROVE  env[m[1]].status # "none" /\ env[m[1]].td # "removed"
    BY DEF NothingLeaks
  <2>1. m[1] \in Envs
    BY DEF LeaksInv, ClaimsInv, TypeOK
  <2>2. Findable(m[1]) /\ ~Empty(m[1])
    BY <2>1 DEF LeaksInv, HomesInv, Empty
  <2> QED BY <2>2 DEF Findable
<1> QED BY <1>1, HomesAtInit, HomesKept, PTL DEF Spec
=============================================================================
