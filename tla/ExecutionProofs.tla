--------------------------- MODULE ExecutionProofs ---------------------------
(***************************************************************************)
(* Proofs about the execution protocol, for every plan, limit and cost.    *)
(*                                                                         *)
(* IntentBeforeCall is not inductive: it needs to know what is true just   *)
(* before a call.  The strengthening Inv says that between the reservation *)
(* and the call the operation is funded and was never called (BeforeCall), *)
(* that its intent is stored once it was saved (IntentStored), and that    *)
(* nothing can take a stored record back to one without it (a row that is  *)
(* not blank is never created again, and Accepts forbids losing a record). *)
(*                                                                         *)
(* Five more invariants rest on it.  AccountInv relates the run, its       *)
(* task, the row and the order of the reservations; every action is shown  *)
(* to be a step that only moves the run (QuietStep), a step that saves a   *)
(* revision (SavesAs), or one of the few that change the ledger or what    *)
(* the task owes.  MoneyInv, on top of both, balances the account of the   *)
(* task with the debits of the authority; BoundInv counts what the run may *)
(* still reserve and paces the tool calls by the steps of the plan.        *)
(*                                                                         *)
(* The last two are about success.  SoundInv follows what the last attempt *)
(* has passed up to the save that completes the task; HeldInv says that    *)
(* what the task calls reserved is what the authority holds for it.        *)
(***************************************************************************)
EXTENDS Execution, SumTheorems, TLAPS

\* From the reservation of an operation to its final record.
InOperation == {"intent", "recheck", "evidence", "settle", "finish"}

\* The operations that belong to a generation attempt.
WithinAttempt == Kinds \ {"classification", "generation"}

AttemptPoints == {"validating", "finish_attempt", "retry_evaluation", "recover_tool"}

\* A run knows its operation while it is in one and its generation attempt
\* from the reservation of that attempt on.
RunOK(r) ==
    /\ r \in Run
    /\ r.pc \in InOperation => r.id \in Ids
    /\ r.kind \in WithinAttempt => r.attempt \in Ids
    /\ (r.kind = "generation" /\ r.pc \in InOperation) => r.attempt \in Ids
    /\ r.pc \in AttemptPoints => r.attempt \in Ids

\* A running execution has a task, and a row without a task is blank.
Owned == run.pc \notin Ended \cup {"idle"} => task.status # "absent"

RowBlank == row.status = "absent" => row.ops = NoTask.ops

BeforeCall ==
    run.pc \in {"intent", "recheck"} => ledger[run.id].state # "free" /\ calls[run.id] = 0

IntentStored == run.pc = "recheck" => row.ops[run.id].status # "absent"

Inv == TypeOK /\ RunOK(run) /\ Owned /\ RowBlank /\ IntentBeforeCall /\ BeforeCall
         /\ IntentStored
-----------------------------------------------------------------------------
(* The operators build well-formed records.                                *)

LEMMA NoTaskType ==
    /\ NoTask \in TaskResult /\ NewTask \in TaskResult
    /\ NewTask.ops = NoTask.ops
    /\ NewTask.status = "CREATED"
<1>1. NoOp \in Op
  BY DEF NoOp, Op, Kinds, OpStatuses
<1>2. NoTask \in TaskResult
  BY <1>1 DEF NoTask, TaskResult
<1>3. QED
  BY <1>2 DEF NewTask, TaskResult, Statuses

LEMMA WithOpType ==
    ASSUME task \in TaskResult, run \in Run, run.id \in Ids,
           NEW status \in OpStatuses, NEW actual \in Nat \cup {Unknown}
    PROVE  /\ WithOp(task, run.id, status, actual) \in TaskResult
           /\ WithOp(task, run.id, status, actual).status = task.status
           /\ WithOp(task, run.id, status, actual).ops[run.id].status = status
<1> DEFINE op == [kind |-> run.kind, step |-> run.tool, status |-> status, actual |-> actual]
<1>1. op \in Op /\ op.status = status
  BY DEF Op, Run
<1>2. WithOp(task, run.id, status, actual)
        = [task EXCEPT !.ops = [task.ops EXCEPT ![run.id] = op]]
  BY DEF WithOp
<1> HIDE DEF op
<1>3. [task.ops EXCEPT ![run.id] = op] \in [Ids -> Op]
        /\ [task.ops EXCEPT ![run.id] = op][run.id] = op
  BY <1>1 DEF TaskResult
<1> DEFINE ops == [task.ops EXCEPT ![run.id] = op]
<1> HIDE DEF ops
<1>4. WithOp(task, run.id, status, actual) = [task EXCEPT !.ops = ops] /\ ops \in [Ids -> Op]
        /\ ops[run.id].status = status
  BY <1>1, <1>2, <1>3 DEF ops
<1>5. QED
  BY <1>4 DEF TaskResult

LEMMA StartedType ==
    ASSUME NEW t \in TaskResult
    PROVE  /\ [t EXCEPT !.status = "RUNNING", !.generations = @ + 1] \in TaskResult
           /\ [t EXCEPT !.status = "RUNNING", !.generations = @ + 1].status = "RUNNING"
           /\ [t EXCEPT !.status = "RUNNING", !.generations = @ + 1].ops = t.ops
<1> DEFINE g == t.generations + 1
<1>1. g \in Nat
  BY DEF TaskResult
<1>2. [t EXCEPT !.status = "RUNNING", !.generations = @ + 1]
        = [t EXCEPT !.status = "RUNNING", !.generations = g]
  OBVIOUS
<1> HIDE DEF g
<1>3. QED
  BY <1>1, <1>2 DEF TaskResult, Statuses

LEMMA ChargeType ==
    ASSUME task \in TaskResult, run \in Run, run.actual \in Nat \cup {Unknown}, NEW settled \in BOOLEAN
    PROVE  Charge(settled) \in TaskResult /\ Charge(settled).status = task.status
<1>1. FinalStatus(run) \in OpStatuses
  BY DEF FinalStatus, OpStatuses
<1>2. Estimate[run.kind] \in Nat
  BY ExecutionAssumption DEF Run
<1>3. Unknown \notin Nat
  BY DEF Unknown
<1> DEFINE known == IF run.actual = Unknown THEN task.known ELSE task.known + run.actual
           reserved == IF settled THEN task.reserved - Estimate[run.kind] ELSE task.reserved
           complete == task.complete /\ run.actual # Unknown
           op == IF run.kind \in {"validation", "domain"}
                 THEN [kind |-> run.kind, step |-> run.tool,
                       status |-> FinalStatus(run), actual |-> run.actual]
                 ELSE task.ops[run.id]
<1>4. known \in Nat /\ reserved \in Int
  BY <1>2, <1>3 DEF TaskResult
<1>5. complete \in BOOLEAN
  BY DEF TaskResult
<1>6. run.id \in Ids => op \in Op
  BY <1>1 DEF Op, Run, TaskResult
<1>7. [task.ops EXCEPT ![run.id] = op] \in [Ids -> Op]
  BY <1>6 DEF TaskResult
<1>8. Charge(settled) = [task EXCEPT !.known = known, !.reserved = reserved,
                                     !.complete = complete,
                                     !.ops = [task.ops EXCEPT ![run.id] = op]]
  BY DEF Charge
<1> HIDE DEF known, reserved, complete, op
<1>9. QED
  BY <1>4, <1>5, <1>7, <1>8 DEF TaskResult

LEMMA HaltOK ==
    ASSUME NEW r, RunOK(r), NEW status \in Terminal
    PROVE  RunOK(Halt(r, status)) /\ Halt(r, status).pc = "stop"
  BY DEF Halt, RunOK, Run, Points, InOperation, AttemptPoints

LEMMA AdmitOK ==
    ASSUME NEW r, RunOK(r), NEW kind \in Kinds,
           kind \in WithinAttempt => r.attempt \in Ids
    PROVE  RunOK(AdmitAt(r, kind)) /\ AdmitAt(r, kind).pc = "admit"
<1>1. /\ "admit" \in Points /\ "none" \in Failures
      /\ "admit" \notin InOperation /\ "admit" \notin AttemptPoints
  BY DEF Points, Failures, InOperation, AttemptPoints
<1>2. QED
  BY <1>1 DEF AdmitAt, RunOK, Run

LEMMA EndedOK ==
    ASSUME NEW pc \in Ended
    PROVE  RunOK(EndedRun(pc)) /\ EndedRun(pc).pc = pc
<1>1. NoRun \in Run /\ NoRun.kind = "generation"
  BY DEF NoRun, Run, Kinds, Failures, Terminal, Points
<1>2. QED
  BY <1>1 DEF EndedRun, Ended, RunOK, Run, Points, InOperation, AttemptPoints, WithinAttempt

\* Points that do not need an operation or an attempt.
FreePoints == Points \ (InOperation \cup AttemptPoints)

LEMMA MoveOK ==
    ASSUME NEW r, RunOK(r), NEW pc \in FreePoints
    PROVE  RunOK([r EXCEPT !.pc = pc]) /\ [r EXCEPT !.pc = pc].pc = pc
<1>1. pc \in Points /\ pc \notin InOperation /\ pc \notin AttemptPoints
  BY DEF FreePoints
<1>2. QED
  BY <1>1 DEF RunOK, Run

LEMMA StatusForType ==
    ASSUME NEW f PROVE StatusFor(f) \in Terminal
  BY DEF StatusFor, Terminal
-----------------------------------------------------------------------------
(* The invariant is kept by a save, and by any step that leaves the row    *)
(* and the calls alone.                                                    *)

\* A revision the repository accepts has every record of the one before.
LEMMA AcceptedKeepsRecords ==
    ASSUME NEW prev \in TaskResult, NEW t \in TaskResult, Accepts(prev, t), NEW i \in Ids,
           prev.ops[i].status # "absent"
    PROVE  t.ops[i].status # "absent"
  BY DEF Accepts, RecordProgresses

LEMMA SaveKeepsInv ==
    ASSUME Inv, NEW t \in TaskResult, t.status # "absent",
           NEW r, RunOK(r), r.pc # "intent",
           r.pc = "recheck" => /\ run.pc = "intent"
                               /\ r.id = run.id
                               /\ t.ops[run.id].status # "absent",
           Save(t, r), UNCHANGED <<caller, ledger, calls>>
    PROVE  Inv'
<1> DEFINE n == [t EXCEPT !.revision = @ + 1]
<1>1. n \in TaskResult /\ n.status = t.status /\ n.ops = t.ops
  BY DEF TaskResult
<1>2. Accepts(row, n) => \A i \in Ids : row.ops[i].status # "absent" => n.ops[i].status # "absent"
  BY <1>1, AcceptedKeepsRecords DEF Inv, TypeOK
<1>3. RunOK(EndedRun("raised")) /\ EndedRun("raised").pc = "raised"
        /\ RunOK(EndedRun("rejected")) /\ EndedRun("rejected").pc = "rejected"
  BY EndedOK DEF Ended
<1>4. CASE row' = n /\ task' = n /\ run' = r /\ UNCHANGED journal /\ Accepts(row, n)
  <2>1. TypeOK' /\ RunOK(run)'
    BY <1>1, <1>4 DEF Inv, TypeOK, RunOK
  <2>2. Owned' /\ RowBlank'
    BY <1>1, <1>4 DEF Owned, RowBlank
  <2>3. IntentBeforeCall'
    BY <1>2, <1>4 DEF Inv, IntentBeforeCall, Called
  <2>4. BeforeCall' /\ IntentStored'
    BY <1>1, <1>4 DEF Inv, BeforeCall, IntentStored
  <2>5. QED
    BY <2>1, <2>2, <2>3, <2>4 DEF Inv
<1>5. CASE /\ Accepts(row, n)
           /\ row' \in {row, n}
           /\ journal' = n /\ task' = NoTask /\ run' = EndedRun("raised")
  <2>1. TypeOK' /\ RunOK(run)'
    BY <1>1, <1>3, <1>5, NoTaskType DEF Inv, TypeOK, RunOK
  <2>2. Owned' /\ RowBlank' /\ BeforeCall' /\ IntentStored'
    BY <1>1, <1>3, <1>5 DEF Inv, Owned, RowBlank, BeforeCall, IntentStored, Ended
  <2>3. IntentBeforeCall'
    BY <1>2, <1>5 DEF Inv, IntentBeforeCall, Called
  <2>4. QED
    BY <2>1, <2>2, <2>3 DEF Inv
<1>6. CASE task' = NoTask /\ run' = EndedRun("rejected") /\ UNCHANGED <<row, journal>>
  <2>1. TypeOK' /\ RunOK(run)'
    BY <1>3, <1>6, NoTaskType DEF Inv, TypeOK, RunOK
  <2>2. QED
    BY <1>3, <1>6, <2>1 DEF Inv, Owned, RowBlank, BeforeCall, IntentStored, Ended,
                            IntentBeforeCall, Called
<1>7. QED
  BY <1>4, <1>5, <1>6 DEF Save

\* Reservations may be added or settled, never withdrawn.
LedgerGrows ==
    /\ ledger' \in [Ids -> Reservation]
    /\ \A i \in Ids : ledger[i].state # "free" => ledger'[i].state # "free"

LEMMA MoveKeepsInv ==
    ASSUME Inv, RunOK(run'), run'.pc \notin {"intent", "recheck"},
           task' \in TaskResult, task'.status # "absent" \/ run'.pc \in Ended,
           LedgerGrows, UNCHANGED <<caller, row, journal, calls>>
    PROVE  Inv'
<1>1. TypeOK' /\ RunOK(run)'
  BY DEF Inv, TypeOK, LedgerGrows, RunOK
<1>2. Owned' /\ RowBlank' /\ BeforeCall' /\ IntentStored'
  BY DEF Inv, Owned, RowBlank, BeforeCall, IntentStored
<1>3. IntentBeforeCall'
  BY DEF Inv, IntentBeforeCall, Called, LedgerGrows
<1>4. QED
  BY <1>1, <1>2, <1>3 DEF Inv

\* The same, for the steps that touch nothing but the run.
LEMMA QuietKeepsInv ==
    ASSUME Inv, run.pc \notin Ended \cup {"idle"},
           RunOK(run'), run'.pc \notin {"intent", "recheck"},
           UNCHANGED <<task, row, journal>>, Quiet
    PROVE  Inv'
<1>1. task' \in TaskResult /\ task'.status # "absent" /\ LedgerGrows
  BY DEF Inv, TypeOK, Owned, LedgerGrows, Quiet
<1>2. QED
  BY <1>1, MoveKeepsInv DEF Quiet
-----------------------------------------------------------------------------
(* One lemma for each group of actions.                                    *)

LEMMA CheckpointFailures == CheckpointOutcomes \subseteq Failures
  BY DEF CheckpointOutcomes, Failures

LEMMA PreflightKeepsInv == ASSUME Inv, Preflight PROVE Inv'
<1>1. ASSUME NEW status \in Terminal, run' = Halt(run, status) PROVE Inv'
  BY <1>1, HaltOK, QuietKeepsInv DEF Inv, Preflight, Ended
<1>2. CASE run' = AdmitAt(run, "classification")
  BY <1>2, AdmitOK, QuietKeepsInv DEF Inv, Preflight, Ended, Kinds, WithinAttempt
<1>3. CASE run' = [run EXCEPT !.pc = "classify"]
  BY <1>3, MoveOK, QuietKeepsInv DEF Inv, Preflight, Ended, FreePoints, Points, InOperation,
                                     AttemptPoints
<1>4. "BLOCKED" \in Terminal
  BY DEF Terminal
<1>5. QED
  BY <1>1, <1>2, <1>3, <1>4, StatusForType DEF Preflight

LEMMA HaltKeepsInv ==
    ASSUME Inv, run.pc \notin Ended \cup {"idle"}, NEW status \in Terminal,
           run' = Halt(run, status), UNCHANGED <<task, row, journal>>, Quiet
    PROVE  Inv'
  BY HaltOK, QuietKeepsInv DEF Inv

LEMMA StatusTyped ==
    ASSUME NEW t \in TaskResult, NEW status \in Statuses
    PROVE  /\ [t EXCEPT !.status = status] \in TaskResult
           /\ [t EXCEPT !.status = status].status # "absent"
  BY DEF TaskResult, Statuses, Terminal

LEMMA ClassifyKeepsInv == ASSUME Inv, Classify PROVE Inv'
<1>1. CASE /\ \E status \in {"FAILED", "BLOCKED"} : run' = Halt(run, status)
           /\ UNCHANGED <<task, row, journal>>
  BY <1>1, HaltKeepsInv DEF Classify, Terminal, Ended
<1>2. CASE Save([task EXCEPT !.status = "CLASSIFIED"], [run EXCEPT !.pc = "route"])
  <2>1. [task EXCEPT !.status = "CLASSIFIED"] \in TaskResult
          /\ [task EXCEPT !.status = "CLASSIFIED"].status # "absent"
    BY StatusTyped DEF Inv, TypeOK, Statuses
  <2>2. RunOK([run EXCEPT !.pc = "route"]) /\ [run EXCEPT !.pc = "route"].pc = "route"
    BY MoveOK DEF Inv, FreePoints, Points, InOperation, AttemptPoints
  <2>3. QED
    BY <1>2, <2>1, <2>2, SaveKeepsInv DEF Classify, Quiet
<1>3. QED
  BY <1>1, <1>2 DEF Classify

LEMMA RouteKeepsInv ==
    ASSUME Inv, NEW rejected \in BOOLEAN, Route(rejected)
    PROVE  Inv'
<1> DEFINE r == IF rejected THEN Halt(run, "FAILED") ELSE [run EXCEPT !.pc = "loop"]
<1>1. [task EXCEPT !.status = "ROUTED"] \in TaskResult
        /\ [task EXCEPT !.status = "ROUTED"].status # "absent"
  BY StatusTyped DEF Inv, TypeOK, Statuses
<1>2. RunOK(r) /\ r.pc \notin {"intent", "recheck"}
  BY MoveOK, HaltOK DEF Inv, FreePoints, Points, InOperation, AttemptPoints, Terminal
<1>3. Save([task EXCEPT !.status = "ROUTED"], r)
  BY DEF Route
<1> HIDE DEF r
<1>4. QED
  BY <1>1, <1>2, <1>3, SaveKeepsInv DEF Route, Quiet

LEMMA LoopKeepsInv == ASSUME Inv, Loop PROVE Inv'
<1>1. ASSUME NEW status \in Terminal, run' = Halt(run, status) PROVE Inv'
  BY <1>1, HaltKeepsInv DEF Loop, Ended
<1>2. CASE run' = AdmitAt(run, "generation")
  BY <1>2, AdmitOK, QuietKeepsInv DEF Inv, Loop, Ended, Kinds, WithinAttempt
<1>3. "BLOCKED" \in Terminal
  BY DEF Terminal
<1>4. QED
  BY <1>1, <1>2, <1>3, StatusForType DEF Loop

LEMMA EnvironmentKeepsInv ==
    ASSUME Inv, EnvironmentChanged
    PROVE  Inv'
  BY HaltKeepsInv DEF EnvironmentChanged, Terminal, Ended

LEMMA RefusedOK ==
    ASSUME NEW r, RunOK(r), r.pc = "admit", NEW f \in Failures
    PROVE  RunOK(Refused(r, f)) /\ Refused(r, f).pc \in {"finish_attempt", "stop"}
<1>1. CASE r.kind \in ChecksWithinAttempt
  <2>1. /\ RunOK([r EXCEPT !.pc = "finish_attempt", !.failure = f])
        /\ [r EXCEPT !.pc = "finish_attempt", !.failure = f].pc = "finish_attempt"
    BY <1>1 DEF RunOK, Run, Points, InOperation, AttemptPoints, ChecksWithinAttempt,
                WithinAttempt, Kinds
  <2>2. QED
    BY <1>1, <2>1, HaltOK, StatusForType DEF Refused, ChecksWithinAttempt, Terminal
<1>2. CASE r.kind \notin ChecksWithinAttempt
  BY <1>2, HaltOK, StatusForType DEF Refused, Terminal
<1>3. QED
  BY <1>1, <1>2

LEMMA RefuseKeepsInv == ASSUME Inv, NEW f \in Failures, Refuse(f) PROVE Inv'
  BY RefusedOK, QuietKeepsInv DEF Inv, Refuse, Ended

LEMMA HeldType ==
    ASSUME Inv, NEW id \in Ids
    PROVE  /\ Held(id) \in [Ids -> Reservation]
           /\ Held(id)[id].state = "held"
           /\ \A i \in Ids : i # id => Held(id)[i] = ledger[i]
<1>1. Estimate[run.kind] \in Nat
  BY ExecutionAssumption DEF Inv, TypeOK, Run
<1>2. QED
  BY <1>1 DEF Held, Inv, TypeOK, Reservation

LEMMA ReserveKeepsInv == ASSUME Inv, NEW id \in Ids, Reserve(id) PROVE Inv'
<1>1. run.pc = "admit" /\ ledger[id].state = "free" /\ calls[id] = 0
  BY DEF Reserve, CanReserve, Fresh, Inv, IntentBeforeCall, Called, TypeOK
<1>2. task' \in TaskResult /\ task'.status # "absent"
  <2>1. Estimate[run.kind] \in Nat
    BY ExecutionAssumption DEF Inv, TypeOK, Run
  <2>2. QED
    BY <1>1, <2>1 DEF Reserve, Inv, Owned, TypeOK, TaskResult, Ended
<1>3. RunOK(run') /\ run'.pc = "intent" /\ run'.id = id
  <2> DEFINE attempt == IF run.kind = "generation" THEN id ELSE run.attempt
  <2>1. run' = [run EXCEPT !.pc = "intent", !.id = id, !.attempt = attempt]
    BY DEF Reserve
  <2>2. attempt \in Nat /\ id \in Nat
    BY DEF Inv, RunOK, Run, Ids
  <2>3. (run.kind = "generation" \/ run.kind \in WithinAttempt) => attempt \in Ids
    BY DEF Inv, RunOK, WithinAttempt
  <2> HIDE DEF attempt
  <2>4. QED
    BY <2>1, <2>2, <2>3 DEF Inv, RunOK, Run, Points, InOperation, AttemptPoints
<1>4. ledger' = Held(id) /\ UNCHANGED <<caller, row, journal, calls>>
  BY DEF Reserve
<1>5. TypeOK' /\ RunOK(run)'
  BY <1>2, <1>3, <1>4, HeldType DEF Inv, TypeOK, RunOK
<1>6. Owned' /\ RowBlank' /\ IntentStored'
  BY <1>2, <1>3, <1>4 DEF Inv, Owned, RowBlank, IntentStored
<1>7. BeforeCall'
  BY <1>1, <1>3, <1>4, HeldType DEF BeforeCall
<1>8. IntentBeforeCall'
  BY <1>1, <1>4, HeldType DEF Inv, IntentBeforeCall, Called
<1>9. QED
  BY <1>5, <1>6, <1>7, <1>8 DEF Inv

LEMMA ReserveUnavailableKeepsInv ==
    ASSUME Inv, NEW id \in Ids, ReserveUnavailable(id) PROVE Inv'
<1> DEFINE r == [run EXCEPT !.budgetUnavailable = TRUE]
<1>1. RunOK(r) /\ r.pc = "admit"
  BY DEF ReserveUnavailable, Inv, RunOK, Run
<1>2. run' = Refused(r, "terminal") /\ "terminal" \in Failures
  BY DEF ReserveUnavailable, Failures
<1> HIDE DEF r
<1>3. RunOK(run') /\ run'.pc \notin {"intent", "recheck"}
  BY <1>1, <1>2, RefusedOK
<1>4. LedgerGrows
  BY HeldType DEF ReserveUnavailable, Inv, TypeOK, LedgerGrows
<1>5. task' \in TaskResult /\ task'.status # "absent"
  BY DEF ReserveUnavailable, Inv, TypeOK, Owned, Ended
<1>6. QED
  BY <1>3, <1>4, <1>5, MoveKeepsInv DEF ReserveUnavailable

LEMMA IntentKeepsInv == ASSUME Inv, Intent PROVE Inv'
<1> DEFINE t == WithOp(task, run.id, "started", Unknown)
           u == IF run.kind = "generation"
                THEN [t EXCEPT !.status = "RUNNING", !.generations = @ + 1] ELSE t
           r == [run EXCEPT !.pc = "recheck"]
<1>1. run.id \in Ids /\ run \in Run /\ task \in TaskResult /\ task.status # "absent"
  BY DEF Intent, Inv, RunOK, TypeOK, Owned, InOperation, Ended
<1>2. t \in TaskResult /\ t.status # "absent" /\ t.ops[run.id].status = "started"
  <2>1. "started" \in OpStatuses /\ Unknown \in Nat \cup {Unknown}
    BY DEF OpStatuses
  <2>2. QED
    BY <1>1, <2>1, WithOpType
<1>3. Save(u, r)
  BY DEF Intent
<1>4. RunOK(r) /\ r.pc = "recheck" /\ r.id = run.id
  BY DEF Intent, Inv, RunOK, Run, Points, InOperation, AttemptPoints
<1> HIDE DEF t, r
<1>5. u \in TaskResult /\ u.status # "absent" /\ u.ops = t.ops
  BY <1>2, StartedType
<1> HIDE DEF u
<1>6. u.ops[run.id].status # "absent"
  BY <1>2, <1>5
<1>7. QED
  BY <1>3, <1>4, <1>5, <1>6, SaveKeepsInv DEF Intent, Quiet

LEMMA WithdrawKeepsInv == ASSUME Inv, NEW f \in Failures, Withdraw(f) PROVE Inv'
<1>1. CASE run' = Halt(run, "BLOCKED")
  BY <1>1, HaltKeepsInv DEF Withdraw, Terminal, Ended
<1>2. CASE run' # Halt(run, "BLOCKED")
  <2> DEFINE pc == IF run.kind = "classification" THEN "evidence" ELSE "settle"
             g == IF run.kind = "classification" THEN "terminal" ELSE f
  <2>1. run' = [run EXCEPT !.pc = pc, !.failure = g, !.actual = 0]
    BY <1>2 DEF Withdraw
  <2>2. pc \in {"evidence", "settle"} /\ g \in Failures
    BY DEF Failures
  <2> HIDE DEF pc, g
  <2>3. RunOK(run) /\ run.pc = "recheck"
    BY DEF Withdraw, Inv
  <2>4. RunOK(run') /\ run'.pc \notin {"intent", "recheck"}
    BY <2>1, <2>2, <2>3 DEF RunOK, Run, Points, InOperation, AttemptPoints
  <2>5. QED
    BY <2>4, QuietKeepsInv DEF Withdraw, Ended
<1>3. QED
  BY <1>1, <1>2

LEMMA LiveRefusalKeepsInv == ASSUME Inv, LiveRefusal PROVE Inv'
<1>1. RunOK(run') /\ run'.pc = "evidence"
  BY DEF LiveRefusal, Inv, RunOK, Run, Points, InOperation, AttemptPoints, Failures
<1>2. QED
  BY <1>1, QuietKeepsInv DEF LiveRefusal, Ended

\* The call itself: the operation is funded, its intent stored, and it is
\* called for the first time.
LEMMA DispatchKeepsInv ==
    ASSUME Inv, NEW f \in Failures, NEW actual \in Costs \cup {Unknown}, Dispatch(f, actual)
    PROVE  Inv'
<1>1. /\ run.id \in Ids
      /\ ledger[run.id].state # "free" /\ calls[run.id] = 0
      /\ row.ops[run.id].status # "absent"
  BY DEF Dispatch, Inv, RunOK, InOperation, BeforeCall, IntentStored
<1>2. actual \in Nat \cup {Unknown}
  BY ExecutionAssumption
<1>3. RunOK(run') /\ run'.pc \in {"evidence", "settle"}
  <2> DEFINE pc == IF run.kind \in Observed THEN "evidence" ELSE "settle"
  <2>1. run' = [run EXCEPT !.pc = pc, !.failure = f, !.actual = actual, !.dispatched = TRUE]
    BY DEF Dispatch
  <2>2. pc \in {"evidence", "settle"}
    OBVIOUS
  <2> HIDE DEF pc
  <2>3. QED
    BY <1>2, <2>1, <2>2 DEF Dispatch, Inv, RunOK, Run, Points, InOperation, AttemptPoints
<1>4. calls' = [calls EXCEPT ![run.id] = 1] /\ UNCHANGED <<caller, task, row, journal, ledger>>
  BY <1>1 DEF Dispatch, Inv, TypeOK
<1>5. TypeOK' /\ RunOK(run)'
  BY <1>1, <1>3, <1>4 DEF Inv, TypeOK, RunOK
<1>6. Owned' /\ RowBlank' /\ BeforeCall' /\ IntentStored'
  BY <1>3, <1>4 DEF Inv, Owned, RowBlank, BeforeCall, IntentStored, Dispatch, Ended
<1>7. IntentBeforeCall'
  BY <1>1, <1>4 DEF Inv, IntentBeforeCall, Called, TypeOK
<1>8. QED
  BY <1>5, <1>6, <1>7 DEF Inv

LEMMA EvidenceKeepsInv == ASSUME Inv, Evidence PROVE Inv'
<1> DEFINE t == WithOp(task, run.id, "observed", run.actual)
           r == [run EXCEPT !.pc = "settle"]
<1>1. run.id \in Ids /\ run \in Run /\ run.actual \in Nat \cup {Unknown}
        /\ task \in TaskResult /\ task.status # "absent"
  BY DEF Evidence, Inv, RunOK, Run, TypeOK, Owned, InOperation, Ended
<1>2. t \in TaskResult /\ t.status # "absent"
  <2>1. "observed" \in OpStatuses
    BY DEF OpStatuses
  <2>2. QED
    BY <1>1, <2>1, WithOpType
<1>3. RunOK(r) /\ r.pc = "settle"
  BY DEF Evidence, Inv, RunOK, Run, Points, InOperation, AttemptPoints
<1>4. Save(t, r)
  BY DEF Evidence
<1> HIDE DEF t, r
<1>5. QED
  BY <1>2, <1>3, <1>4, SaveKeepsInv DEF Evidence, Quiet

LEMMA NextVerificationOK ==
    ASSUME NEW r, RunOK(r), r.attempt \in Ids
    PROVE  RunOK(NextVerification(r)) /\ NextVerification(r).pc \in {"admit", "finish_attempt"}
<1>1. RunOK(AdmitAt(r, "evaluation")) /\ AdmitAt(r, "evaluation").pc = "admit"
        /\ RunOK(AdmitAt(r, "domain")) /\ AdmitAt(r, "domain").pc = "admit"
  BY AdmitOK DEF Kinds
<1>2. RunOK([r EXCEPT !.pc = "finish_attempt"])
        /\ [r EXCEPT !.pc = "finish_attempt"].pc = "finish_attempt"
  BY DEF RunOK, Run, Points, InOperation, AttemptPoints
<1>3. CASE r.evaluator < Evaluators
  BY <1>1, <1>3 DEF NextVerification
<1>4. CASE ~(r.evaluator < Evaluators) /\ r.evaluator >= Evaluators /\ Domain
  BY <1>1, <1>4 DEF NextVerification
<1>5. CASE ~(r.evaluator < Evaluators) /\ ~(r.evaluator >= Evaluators /\ Domain)
  BY <1>2, <1>5 DEF NextVerification
<1>6. QED
  BY <1>3, <1>4, <1>5

LEMMA AfterSettleOK ==
    ASSUME NEW r, RunOK(r), r.pc = "settle"
    PROVE  /\ RunOK(AfterSettle(r))
           /\ AfterSettle(r).pc \in {"validating", "admit", "finish_attempt", "finish"}
<1>1. r.kind \in {"generation", "validation", "domain"} => r.attempt \in Ids
  BY DEF RunOK, WithinAttempt, InOperation, Kinds
<1>2. ASSUME NEW pc \in {"validating", "finish_attempt", "finish"},
             pc # "finish" => r.attempt \in Ids
      PROVE  RunOK([r EXCEPT !.pc = pc]) /\ [r EXCEPT !.pc = pc].pc = pc
  BY <1>2 DEF RunOK, Run, Points, InOperation, AttemptPoints
<1>3. CASE r.kind = "generation" /\ r.failure = "none"
  BY <1>1, <1>2, <1>3 DEF AfterSettle
<1>4. CASE r.kind = "validation" /\ r.failure = "none"
  BY <1>1, <1>4, NextVerificationOK DEF AfterSettle
<1>5. CASE /\ ~(r.kind \in {"generation", "validation"} /\ r.failure = "none")
           /\ \/ r.kind \in {"generation", "validation"} /\ r.failure # "none"
              \/ r.kind = "domain" /\ ~r.dispatched
  BY <1>1, <1>2, <1>5 DEF AfterSettle
<1>6. CASE /\ r.kind \notin {"generation", "validation"}
           /\ ~(r.kind = "domain" /\ ~r.dispatched)
  BY <1>2, <1>6 DEF AfterSettle
<1>7. QED
  BY <1>3, <1>4, <1>5, <1>6

LEMMA SettledType ==
    ASSUME Inv, run.pc = "settle", run.actual # Unknown
    PROVE  /\ Settled \in [Ids -> Reservation]
           /\ \A i \in Ids : ledger[i].state # "free" => Settled[i].state # "free"
<1>1. run.id \in Ids /\ run.actual \in Nat
  BY DEF Inv, RunOK, Run, InOperation
<1>2. ledger \in [Ids -> Reservation]
  BY DEF Inv, TypeOK
<1>3. QED
  BY <1>1, <1>2 DEF Settled, Reservation

\* Both outcomes of charge(), settled or not.
LEMMA ChargeKeepsInv ==
    ASSUME Inv, run.pc = "settle", NEW settled \in BOOLEAN, NEW unavailable \in BOOLEAN,
           task' = Charge(settled), LedgerGrows,
           run' = AfterSettle([run EXCEPT !.costViolation = @ \/ Overran,
                                          !.budgetUnavailable = unavailable]),
           UNCHANGED <<caller, row, journal, calls>>
    PROVE  Inv'
<1> DEFINE violation == run.costViolation \/ Overran
           r == [run EXCEPT !.costViolation = violation, !.budgetUnavailable = unavailable]
<1>1. task' \in TaskResult /\ task'.status # "absent"
  BY ChargeType DEF Inv, TypeOK, Owned, Run, Ended
<1>2. RunOK(r) /\ r.pc = "settle"
  <2>1. violation \in BOOLEAN
    OBVIOUS
  <2> HIDE DEF violation
  <2>2. QED
    BY <2>1 DEF Inv, RunOK, Run
<1>3. run' = AfterSettle(r)
  OBVIOUS
<1> HIDE DEF r
<1>4. RunOK(run') /\ run'.pc \notin {"intent", "recheck"}
  BY <1>2, <1>3, AfterSettleOK
<1>5. QED
  BY <1>1, <1>4, MoveKeepsInv

LEMMA SettleKeepsInv == ASSUME Inv, Settle PROVE Inv'
<1>1. LedgerGrows
  BY SettledType DEF Settle, Inv, TypeOK, LedgerGrows
<1>2. (run.actual # Unknown) \in BOOLEAN /\ run.budgetUnavailable \in BOOLEAN
  BY DEF Inv, TypeOK, Run
<1>3. [run EXCEPT !.costViolation = @ \/ Overran]
        = [run EXCEPT !.costViolation = @ \/ Overran,
                      !.budgetUnavailable = run.budgetUnavailable]
  BY DEF Inv, TypeOK, Run
<1>4. QED
  BY <1>1, <1>2, <1>3, ChargeKeepsInv DEF Settle

LEMMA SettleUnavailableKeepsInv == ASSUME Inv, SettleUnavailable PROVE Inv'
<1>1. LedgerGrows
  BY SettledType DEF SettleUnavailable, Inv, TypeOK, LedgerGrows
<1>2. QED
  BY <1>1, ChargeKeepsInv DEF SettleUnavailable

LEMMA NextToolOK ==
    ASSUME NEW r, RunOK(r), r.attempt \in Ids
    PROVE  RunOK(NextTool(r)) /\ NextTool(r).pc \in {"admit", "complete"}
<1> DEFINE u == [r EXCEPT !.tool = @ + 1, !.replay = FALSE]
<1>1. RunOK(u) /\ u.attempt \in Ids
  <2> DEFINE n == r.tool + 1
  <2>1. n \in Nat
    BY DEF RunOK, Run
  <2>2. u = [r EXCEPT !.tool = n, !.replay = FALSE]
    OBVIOUS
  <2> HIDE DEF n
  <2>3. QED
    BY <2>1, <2>2 DEF RunOK, Run
<1>2. NextTool(r) = IF r.tool < Tools THEN AdmitAt(u, "tool") ELSE [r EXCEPT !.pc = "complete"]
  BY DEF NextTool
<1> HIDE DEF u
<1>3. RunOK(AdmitAt(u, "tool")) /\ AdmitAt(u, "tool").pc = "admit"
  BY <1>1, AdmitOK DEF Kinds
<1>4. RunOK([r EXCEPT !.pc = "complete"]) /\ [r EXCEPT !.pc = "complete"].pc = "complete"
  BY MoveOK DEF FreePoints, Points, InOperation, AttemptPoints
<1>5. QED
  BY <1>2, <1>3, <1>4

LEMMA AfterFinishOK ==
    ASSUME NEW r, RunOK(r), r.pc = "finish", NEW q \in AfterFinish(r)
    PROVE  RunOK(q) /\ q.pc \notin {"intent", "recheck"}
<1> USE DEF Points
<1>1. CASE r.kind = "classification"
  <2>1. q = [r EXCEPT !.pc = "classify"] \/ q = Halt(r, "FAILED")
    BY <1>1 DEF AfterFinish
  <2>2. "classify" \in FreePoints /\ "FAILED" \in Terminal
    BY DEF FreePoints, InOperation, AttemptPoints, Terminal
  <2>3. RunOK([r EXCEPT !.pc = "classify"]) /\ [r EXCEPT !.pc = "classify"].pc = "classify"
    BY <2>2, MoveOK
  <2>4. RunOK(Halt(r, "FAILED")) /\ Halt(r, "FAILED").pc = "stop"
    BY <2>2, HaltOK
  <2>5. QED
    BY <2>1, <2>3, <2>4
<1>2. CASE r.kind = "evaluation"
  <2> DEFINE attempt(f) == [r EXCEPT !.pc = "finish_attempt", !.failure = f]
             next == [r EXCEPT !.evaluator = @ + 1, !.retry = 0]
  <2>1. r.attempt \in Ids /\ r.failure \in Failures
    BY <1>2 DEF RunOK, WithinAttempt, Kinds, Run
  <2>2. ASSUME NEW f \in Failures
        PROVE  RunOK(attempt(f)) /\ attempt(f).pc = "finish_attempt"
    BY <2>1 DEF RunOK, Run, InOperation, AttemptPoints
  <2>3. RunOK(next) /\ next.attempt \in Ids
    <3> DEFINE n == r.evaluator + 1
    <3>1. n \in Nat
      BY DEF RunOK, Run
    <3>2. next = [r EXCEPT !.evaluator = n, !.retry = 0]
      OBVIOUS
    <3> HIDE DEF n
    <3>3. QED
      BY <2>1, <3>1, <3>2 DEF RunOK, Run
  <2>4. \/ \E f \in Failures : q = attempt(f)
        \/ q = NextVerification(next)
        \/ q = [r EXCEPT !.pc = "retry_evaluation"]
    BY <1>2, <2>1, CheckpointFailures DEF AfterFinish
  <2> HIDE DEF attempt, next
  <2>5. RunOK(NextVerification(next)) /\ NextVerification(next).pc \in {"admit", "finish_attempt"}
    BY <2>3, NextVerificationOK
  <2>6. RunOK([r EXCEPT !.pc = "retry_evaluation"])
          /\ [r EXCEPT !.pc = "retry_evaluation"].pc = "retry_evaluation"
    BY <2>1 DEF RunOK, Run, InOperation, AttemptPoints
  <2>7. QED
    BY <2>2, <2>4, <2>5, <2>6
<1>3. CASE r.kind \notin {"classification", "evaluation"}
  <2>1. r.attempt \in Ids
    BY <1>3 DEF RunOK, Run, WithinAttempt, InOperation
  <2>2. ASSUME NEW pc \in {"finish_attempt", "recover_tool"}
        PROVE  RunOK([r EXCEPT !.pc = pc]) /\ [r EXCEPT !.pc = pc].pc = pc
    BY <2>1 DEF RunOK, Run, InOperation, AttemptPoints
  <2>3. CASE r.kind = "domain"
    <3>1. q = [r EXCEPT !.pc = "finish_attempt"]
      BY <2>3 DEF AfterFinish
    <3>2. QED
      BY <2>2, <3>1
  <2>4. CASE r.kind # "domain"
    <3>1. \/ q = NextTool(r)
          \/ q = [r EXCEPT !.pc = "recover_tool"]
          \/ q = Halt(r, StatusFor(r.failure))
      <4>1. CASE r.failure = "none"
        BY <1>3, <2>4, <4>1 DEF AfterFinish
      <4>2. CASE r.failure # "none" /\ r.dispatched
        BY <1>3, <2>4, <4>2 DEF AfterFinish
      <4>3. CASE r.failure # "none" /\ ~r.dispatched
        BY <1>3, <2>4, <4>3 DEF AfterFinish
      <4>4. QED
        BY <4>1, <4>2, <4>3
    <3>2. RunOK(NextTool(r)) /\ NextTool(r).pc \in {"admit", "complete"}
      BY <2>1, NextToolOK
    <3>3. RunOK(Halt(r, StatusFor(r.failure))) /\ Halt(r, StatusFor(r.failure)).pc = "stop"
      BY HaltOK, StatusForType
    <3>4. QED
      BY <2>2, <3>1, <3>2, <3>3
  <2>5. QED
    BY <2>3, <2>4
<1>4. QED
  BY <1>1, <1>2, <1>3

LEMMA FinishOperationKeepsInv == ASSUME Inv, FinishOperation PROVE Inv'
<1>1. PICK q \in AfterFinish(run) :
         Save(WithOp(task, run.id, FinalStatus(run), run.actual), q)
  BY DEF FinishOperation
<1>2. RunOK(q) /\ q.pc \notin {"intent", "recheck"}
  BY <1>1, AfterFinishOK DEF FinishOperation, Inv
<1>3. run.id \in Ids /\ run \in Run /\ run.actual \in Nat \cup {Unknown}
        /\ task \in TaskResult /\ task.status # "absent" /\ FinalStatus(run) \in OpStatuses
  BY DEF FinishOperation, Inv, RunOK, Run, TypeOK, Owned, InOperation, Ended, FinalStatus,
         OpStatuses
<1> DEFINE t == WithOp(task, run.id, FinalStatus(run), run.actual)
<1>4. t \in TaskResult /\ t.status # "absent"
  BY <1>3, WithOpType
<1>5. Save(t, q)
  BY <1>1
<1> HIDE DEF t
<1>6. QED
  BY <1>2, <1>4, <1>5, SaveKeepsInv DEF FinishOperation, Quiet

LEMMA ValidatingKeepsInv == ASSUME Inv, Validating PROVE Inv'
<1>1. [task EXCEPT !.status = "VALIDATING"] \in TaskResult
        /\ [task EXCEPT !.status = "VALIDATING"].status # "absent"
  BY StatusTyped DEF Inv, TypeOK, Statuses
<1>2. run.attempt \in Ids
  BY DEF Validating, Inv, RunOK, AttemptPoints
<1>3. RunOK(AdmitAt(run, "validation")) /\ AdmitAt(run, "validation").pc = "admit"
  BY <1>2, AdmitOK DEF Inv, Kinds
<1>4. QED
  BY <1>1, <1>3, SaveKeepsInv DEF Validating, Quiet

LEMMA RetryEvaluationKeepsInv == ASSUME Inv, RetryEvaluation PROVE Inv'
<1> DEFINE n == run.retry + 1
           r == [run EXCEPT !.retry = n]
<1>1. n \in Nat
  BY DEF Inv, RunOK, Run
<1>2. Save(task, AdmitAt(r, "evaluation"))
  BY DEF RetryEvaluation
<1> HIDE DEF n
<1>3. RunOK(r) /\ r.attempt \in Ids
  BY <1>1 DEF RetryEvaluation, Inv, RunOK, Run, AttemptPoints
<1> HIDE DEF r
<1>4. RunOK(AdmitAt(r, "evaluation")) /\ AdmitAt(r, "evaluation").pc = "admit"
  BY <1>3, AdmitOK DEF Kinds
<1>5. task \in TaskResult /\ task.status # "absent"
  BY DEF RetryEvaluation, Inv, TypeOK, Owned, Ended
<1>6. QED
  BY <1>2, <1>4, <1>5, SaveKeepsInv DEF RetryEvaluation, Quiet

LEMMA FinishAttemptKeepsInv == ASSUME Inv, NEW f \in Failures, FinishAttempt(f) PROVE Inv'
<1> DEFINE op == task.ops[run.attempt]
           called == op.status = "observed"
           done == [kind |-> "generation", step |-> 0,
                    status |-> CASE ~called -> "cancelled"
                                 [] called /\ f = "none" -> "succeeded"
                                 [] OTHER -> "failed",
                    actual |-> IF called THEN op.actual ELSE 0]
           ops == [task.ops EXCEPT ![run.attempt] = done]
           r == IF f = "none" THEN NextTool(run)
                              ELSE [run EXCEPT !.pc = "recover", !.failure = f]
<1>1. run.attempt \in Ids /\ task \in TaskResult /\ task.status # "absent"
  BY DEF FinishAttempt, Inv, RunOK, AttemptPoints, TypeOK, Owned, Ended
<1>2. done \in Op
  <2>1. op.actual \in Nat \cup {Unknown}
    BY <1>1 DEF TaskResult, Op
  <2>2. QED
    BY <2>1 DEF Op, Kinds, OpStatuses
<1>3. Save([task EXCEPT !.ops = ops], r)
  BY DEF FinishAttempt
<1> HIDE DEF done
<1>4. ops \in [Ids -> Op]
  BY <1>1, <1>2 DEF TaskResult
<1> HIDE DEF ops
<1>5. [task EXCEPT !.ops = ops] \in TaskResult /\ [task EXCEPT !.ops = ops].status # "absent"
  BY <1>1, <1>4 DEF TaskResult
<1>6. RunOK(r) /\ r.pc \notin {"intent", "recheck"}
  <2>1. RunOK([run EXCEPT !.pc = "recover", !.failure = f])
          /\ [run EXCEPT !.pc = "recover", !.failure = f].pc = "recover"
    BY DEF Inv, RunOK, Run, Points, InOperation, AttemptPoints
  <2>2. RunOK(NextTool(run)) /\ NextTool(run).pc \in {"admit", "complete"}
    BY <1>1, NextToolOK DEF Inv
  <2>3. QED
    BY <2>1, <2>2
<1> HIDE DEF r
<1>7. QED
  BY <1>3, <1>5, <1>6, SaveKeepsInv DEF FinishAttempt, Quiet

LEMMA GiveUpKeepsInv == ASSUME Inv, GiveUp PROVE Inv'
<1>1. \E status \in Terminal : run' = Halt(run, status)
  BY StatusForType DEF GiveUp, Terminal
<1>2. QED
  BY <1>1, HaltKeepsInv DEF GiveUp, Ended

LEMMA RecoverKeepsInv == ASSUME Inv, NEW again \in BOOLEAN, Recover(again) PROVE Inv'
<1> DEFINE r == IF again THEN [run EXCEPT !.pc = "reroute"] ELSE Halt(run, "FAILED")
<1>1. [task EXCEPT !.status = "RECOVERING"] \in TaskResult
        /\ [task EXCEPT !.status = "RECOVERING"].status # "absent"
  BY StatusTyped DEF Inv, TypeOK, Statuses
<1>2. RunOK(r) /\ r.pc \notin {"intent", "recheck"}
  BY MoveOK, HaltOK DEF Inv, FreePoints, Points, InOperation, AttemptPoints, Terminal
<1>3. Save([task EXCEPT !.status = "RECOVERING"], r)
  BY DEF Recover
<1> HIDE DEF r
<1>4. QED
  BY <1>1, <1>2, <1>3, SaveKeepsInv DEF Recover, Quiet

LEMMA RerouteKeepsInv == ASSUME Inv, NEW rejected \in BOOLEAN, Reroute(rejected) PROVE Inv'
<1> DEFINE e == IF run.failure = "quality" THEN task.escalations + 1 ELSE task.escalations
           n == IF run.failure = "infrastructure" THEN task.retries + 1 ELSE task.retries
           t == [task EXCEPT !.status = "ROUTED", !.escalations = e, !.retries = n]
           again == [run EXCEPT !.pc = "loop", !.evaluator = 0, !.retry = 0]
           r == IF rejected THEN Halt(run, "FAILED") ELSE again
<1>1. task \in TaskResult
  BY DEF Inv, TypeOK
<1>2. e \in Nat /\ n \in Nat
  BY <1>1 DEF TaskResult
<1>3. Save(t, r)
  BY DEF Reroute
<1> HIDE DEF e, n
<1>4. t \in TaskResult /\ t.status # "absent"
  BY <1>1, <1>2 DEF TaskResult, Statuses
<1> HIDE DEF t
<1>5. RunOK(again) /\ again.pc = "loop"
  BY DEF Inv, RunOK, Run, Points, InOperation, AttemptPoints
<1> HIDE DEF again
<1>6. RunOK(r) /\ r.pc \notin {"intent", "recheck"}
  BY <1>5, HaltOK DEF Inv, Terminal
<1> HIDE DEF r
<1>7. QED
  BY <1>3, <1>4, <1>6, SaveKeepsInv DEF Reroute, Quiet

LEMMA RecoverToolKeepsInv == ASSUME Inv, RecoverTool PROVE Inv'
<1>1. PICK r \in AfterToolFailure : Save([task EXCEPT !.status = "RECOVERING"], r)
  BY DEF RecoverTool
<1>2. [task EXCEPT !.status = "RECOVERING"] \in TaskResult
        /\ [task EXCEPT !.status = "RECOVERING"].status # "absent"
  BY StatusTyped DEF Inv, TypeOK, Statuses
<1>3. \/ \E status \in Terminal : r = Halt(run, status)
      \/ r = [run EXCEPT !.pc = "replay_tool"]
      \/ r = [run EXCEPT !.pc = "replay_tool", !.kind = "alternate_tool"]
  BY DEF AfterToolFailure, Terminal
<1>4. RunOK([run EXCEPT !.pc = "replay_tool"])
        /\ [run EXCEPT !.pc = "replay_tool"].pc = "replay_tool"
  BY MoveOK DEF Inv, FreePoints, Points, InOperation, AttemptPoints
<1>5. RunOK([run EXCEPT !.pc = "replay_tool", !.kind = "alternate_tool"])
        /\ [run EXCEPT !.pc = "replay_tool", !.kind = "alternate_tool"].pc = "replay_tool"
  BY DEF RecoverTool, Inv, RunOK, Run, Points, InOperation, AttemptPoints, Kinds
<1>6. RunOK(r) /\ r.pc \notin {"intent", "recheck"}
  BY <1>3, <1>4, <1>5, HaltOK DEF Inv
<1>7. QED
  BY <1>1, <1>2, <1>6, SaveKeepsInv DEF RecoverTool, Quiet

LEMMA ReplayToolKeepsInv == ASSUME Inv, ReplayTool PROVE Inv'
<1> DEFINE n == task.recoveries + 1
           r == [run EXCEPT !.replay = TRUE]
<1>1. task \in TaskResult /\ n \in Nat
  BY DEF Inv, TypeOK, TaskResult
<1>2. task' = [task EXCEPT !.recoveries = n, !.status = "VALIDATING"]
  BY DEF ReplayTool
<1> HIDE DEF n
<1>3. task' \in TaskResult /\ task'.status # "absent"
  BY <1>1, <1>2 DEF TaskResult, Statuses
<1>4. run.kind \in WithinAttempt => r.attempt \in Ids
  BY DEF Inv, RunOK, Run
<1>5. run' = AdmitAt(r, run.kind)
  BY DEF ReplayTool
<1>6. RunOK(r) /\ run.kind \in Kinds
  BY DEF Inv, RunOK, Run
<1> HIDE DEF r
<1>7. RunOK(run') /\ run'.pc = "admit"
  BY <1>4, <1>5, <1>6, AdmitOK
<1>8. LedgerGrows
  BY DEF ReplayTool, Quiet, LedgerGrows, Inv, TypeOK
<1>9. QED
  BY <1>3, <1>7, <1>8, MoveKeepsInv DEF ReplayTool, Quiet

LEMMA CompleteKeepsInv == ASSUME Inv, NEW f \in Failures, Complete(f) PROVE Inv'
<1>1. CASE f = "none"
  <2>1. [task EXCEPT !.status = "SUCCEEDED"] \in TaskResult
          /\ [task EXCEPT !.status = "SUCCEEDED"].status # "absent"
    BY StatusTyped DEF Inv, TypeOK, Statuses, Terminal
  <2>2. RunOK(EndedRun("returned")) /\ EndedRun("returned").pc = "returned"
    BY EndedOK DEF Ended
  <2>3. QED
    BY <1>1, <2>1, <2>2, SaveKeepsInv DEF Complete, Quiet
<1>2. CASE f # "none"
  BY <1>2, HaltKeepsInv, StatusForType DEF Complete, Ended
<1>3. QED
  BY <1>1, <1>2

LEMMA StopKeepsInv == ASSUME Inv, Stop PROVE Inv'
<1>1. run.verdict \in Statuses
  BY DEF Inv, TypeOK, Run, Statuses
<1>2. [task EXCEPT !.status = run.verdict] \in TaskResult
        /\ [task EXCEPT !.status = run.verdict].status # "absent"
  BY <1>1, StatusTyped DEF Inv, TypeOK
<1>3. RunOK(EndedRun("returned")) /\ EndedRun("returned").pc = "returned"
  BY EndedOK DEF Ended
<1>4. QED
  BY <1>2, <1>3, SaveKeepsInv DEF Stop, Quiet

LEMMA CrashKeepsInv == ASSUME Inv, Crash PROVE Inv'
<1>1. RunOK(run') /\ run'.pc = "crashed"
  BY EndedOK DEF Crash, Ended
<1>2. LedgerGrows
  BY DEF Crash, Quiet, LedgerGrows, Inv, TypeOK
<1>3. QED
  BY <1>1, <1>2, NoTaskType, MoveKeepsInv DEF Crash, Quiet, Ended

\* A blank row belongs to no called operation, so creating the task there
\* forgets nothing.
LEMMA BlankMeansUncalled ==
    ASSUME Inv, row.status = "absent"
    PROVE  /\ \A i \in Ids : row.ops[i].status = "absent" /\ ~Called(i)
           /\ run.pc # "recheck"
<1>1. \A i \in Ids : row.ops[i] = NoOp
  BY DEF Inv, RowBlank, NoTask
<1>2. \A i \in Ids : row.ops[i].status = "absent"
  BY <1>1 DEF NoOp
<1>3. QED
  BY <1>2 DEF Inv, IntentBeforeCall, IntentStored, RunOK, InOperation

LEMMA CreateKeepsInv == ASSUME Inv, NEW c \in Callers, Create(c) PROVE Inv'
<1>1. CASE row.status = "absent"
  <2>1. RunOK(run') /\ run'.pc = "preflight"
    <3>1. NoRun \in Run /\ NoRun.kind = "generation"
      BY DEF NoRun, Run, Kinds, Failures, Terminal, Points
    <3>2. QED
      BY <1>1, <3>1 DEF Create, RunOK, Run, Points, InOperation, AttemptPoints, WithinAttempt
  <2>2. /\ row' = NewTask /\ task' = NewTask
        /\ caller' = [caller EXCEPT ![c] = "owner"]
        /\ UNCHANGED <<journal, ledger, calls>>
    BY <1>1 DEF Create
  <2>3. TypeOK' /\ RunOK(run)'
    BY <2>1, <2>2, NoTaskType DEF Inv, TypeOK, RunOK
  <2>4. Owned' /\ RowBlank' /\ BeforeCall' /\ IntentStored'
    BY <2>1, <2>2, NoTaskType DEF Owned, RowBlank, BeforeCall, IntentStored
  <2>5. IntentBeforeCall'
    BY <1>1, <2>2, BlankMeansUncalled DEF IntentBeforeCall, Called
  <2>6. QED
    BY <2>3, <2>4, <2>5 DEF Inv
<1>2. CASE row.status # "absent"
  BY <1>2 DEF Create, Inv, TypeOK, RunOK, Owned, RowBlank, BeforeCall, IntentStored,
              IntentBeforeCall, Called
<1>3. QED
  BY <1>1, <1>2

LEMMA CreateUnavailableKeepsInv ==
    ASSUME Inv, NEW c \in Callers, CreateUnavailable(c) PROVE Inv'
<1>1. CASE row' = row
  BY <1>1 DEF CreateUnavailable, Inv, TypeOK, RunOK, Owned, RowBlank, BeforeCall,
              IntentStored, IntentBeforeCall, Called
<1>2. CASE row' # row
  <2>1. row.status = "absent" /\ row' = NewTask
    BY <1>2 DEF CreateUnavailable
  <2>2. TypeOK' /\ RunOK(run)'
    BY <2>1, NoTaskType DEF CreateUnavailable, Inv, TypeOK, RunOK
  <2>3. Owned' /\ RowBlank' /\ BeforeCall'
    BY <2>1, NoTaskType DEF CreateUnavailable, Inv, Owned, RowBlank, BeforeCall
  <2>4. IntentBeforeCall' /\ IntentStored'
    BY <2>1, BlankMeansUncalled DEF CreateUnavailable, IntentBeforeCall, IntentStored, Called
  <2>5. QED
    BY <2>2, <2>3, <2>4 DEF Inv
<1>3. QED
  BY <1>1, <1>2

\* A replay stores a revision that still has every stored intent.
LEMMA ReconcileKeepsInv == ASSUME Inv, Reconcile PROVE Inv'
<1>1. row \in TaskResult /\ journal \in TaskResult /\ journal.status # "absent"
  BY DEF Reconcile, Inv, TypeOK
<1>2. \A i \in Ids : row.ops[i].status # "absent" => journal.ops[i].status # "absent"
  BY <1>1, AcceptedKeepsRecords DEF Reconcile
<1>3. TypeOK' /\ RunOK(run)'
  BY <1>1, NoTaskType DEF Reconcile, Inv, TypeOK, RunOK
<1>4. Owned' /\ RowBlank' /\ BeforeCall'
  BY <1>1 DEF Reconcile, Inv, Owned, RowBlank, BeforeCall
<1>5. IntentBeforeCall'
  BY <1>2 DEF Reconcile, Inv, IntentBeforeCall, Called
<1>6. IntentStored'
  BY <1>2 DEF Reconcile, Inv, IntentStored, RunOK, InOperation
<1>7. QED
  BY <1>3, <1>4, <1>5, <1>6 DEF Inv
-----------------------------------------------------------------------------
LEMMA InitInv == Init => Inv
<1> SUFFICES ASSUME Init PROVE Inv
  OBVIOUS
<1>1. NoRun \in Run /\ NoRun.kind = "generation" /\ NoRun.pc = "idle"
  BY DEF NoRun, Run, Kinds, Failures, Terminal, Points
<1>2. NoReservation \in Reservation
  BY DEF NoReservation, Reservation
<1>3. TypeOK /\ RunOK(run)
  BY <1>1, <1>2, NoTaskType DEF Init, TypeOK, RunOK, InOperation, AttemptPoints, WithinAttempt
<1>4. QED
  BY <1>1, <1>3 DEF Init, Inv, Owned, RowBlank, BeforeCall, IntentStored, IntentBeforeCall,
                    Called

LEMMA StepKeepsInv == ASSUME Inv, Step PROVE Inv'
  BY PreflightKeepsInv, ClassifyKeepsInv, LoopKeepsInv, EnvironmentKeepsInv, RouteKeepsInv,
     RerouteKeepsInv, ReserveKeepsInv, ReserveUnavailableKeepsInv, RefuseKeepsInv,
     WithdrawKeepsInv, FinishAttemptKeepsInv, CompleteKeepsInv, IntentKeepsInv,
     LiveRefusalKeepsInv, DispatchKeepsInv, EvidenceKeepsInv, SettleKeepsInv,
     SettleUnavailableKeepsInv, FinishOperationKeepsInv, ValidatingKeepsInv,
     RetryEvaluationKeepsInv, GiveUpKeepsInv, RecoverKeepsInv, RecoverToolKeepsInv,
     ReplayToolKeepsInv, StopKeepsInv DEF Step

LEMMA NextInv == Inv /\ [Next]_vars => Inv'
<1> SUFFICES ASSUME Inv, [Next]_vars PROVE Inv'
  OBVIOUS
<1>1. CASE Next
  BY <1>1, StepKeepsInv, CreateKeepsInv, CreateUnavailableKeepsInv, CrashKeepsInv,
     ReconcileKeepsInv DEF Next
<1>2. CASE UNCHANGED vars
  BY <1>2 DEF vars, Inv, TypeOK, RunOK, Owned, RowBlank, BeforeCall, IntentStored,
              IntentBeforeCall, Called
<1>3. QED
  BY <1>1, <1>2

\* Every record the execution builds, saves or journals is well formed, and no
\* unreported cost is ever added to an account, for every plan and limit.
THEOREM TypeCorrect == Spec => []TypeOK
<1>1. Inv => TypeOK
  BY DEF Inv
<1>2. QED
  BY <1>1, InitInv, NextInv, PTL DEF Spec

\* No provider, evaluator, check or tool is ever called for an operation without
\* reserved funds and a stored intent, or called twice for one, whatever
\* crashes, outages, replays and resubmissions happen.
THEOREM CallsFollowIntents == Spec => []IntentBeforeCall
<1>1. Inv => IntentBeforeCall
  BY DEF Inv
<1>2. QED
  BY <1>1, InitInv, NextInv, PTL DEF Spec
-----------------------------------------------------------------------------
\* save() refuses every revision after a terminal one.
LEMMA SaveKeepsTerminal ==
    ASSUME row.status \in Terminal, NEW t, NEW r, Save(t, r)
    PROVE  row' = row
  BY DEF Save, Accepts

\* A finished task is never reopened or rewritten: not by a late save, a journal
\* replay, a crash or a resubmission.
THEOREM TerminalStays == Spec => TerminalIsFinal
<1>1. [Next]_vars => [row.status \in Terminal => row' = row]_vars
  <2> SUFFICES ASSUME Next, row.status \in Terminal PROVE row' = row
    BY DEF vars
  <2>1. CASE Step
    BY <2>1, SaveKeepsTerminal
       DEF Step, Preflight, Classify, Loop, EnvironmentChanged, Route, Reroute, Reserve,
           ReserveUnavailable, Refuse, Withdraw, FinishAttempt, Complete, Intent, LiveRefusal,
           Dispatch, Evidence, Settle, SettleUnavailable, FinishOperation, Validating,
           RetryEvaluation, GiveUp, Recover, RecoverTool, ReplayTool, Stop
  <2>2. CASE Reconcile
    BY <2>2 DEF Reconcile, Accepts
  <2>3. ASSUME NEW c \in Callers, Create(c) \/ CreateUnavailable(c) PROVE row' = row
    BY <2>3 DEF Create, CreateUnavailable, Terminal
  <2>4. CASE Crash
    BY <2>4 DEF Crash
  <2>5. QED
    BY <2>1, <2>2, <2>3, <2>4 DEF Next
<1>2. QED
  BY <1>1, PTL DEF Spec, TerminalIsFinal
-----------------------------------------------------------------------------
(* The repository accepts every revision, and the outside world is left    *)
(* alone after an overrun.                                                 *)
(*                                                                         *)
(* SavesAccepted needs the whole relation between the run, its task and    *)
(* the stored row: they are in step (InStep), and the task records of the  *)
(* current operation and of the open attempt exactly what the next save    *)
(* may extend (Tracked).  NoCallAfterOverrun needs the order in which      *)
(* identifiers are reserved (LedgerOK).                                    *)

\* The execution is alive: it owns the task and has neither returned nor died.
Running == run.pc \notin Ended \cup {"idle"}

\* Points before the tools of the plan are run.
LoopPoints == {"preflight", "classify", "route", "loop", "validating", "finish_attempt",
               "retry_evaluation", "recover", "reroute"}

\* A generation attempt is open from its saved intent until FinishAttempt.
Attempting(r) ==
    \/ r.pc \in {"validating", "retry_evaluation", "finish_attempt"}
    \/ r.kind = "generation" /\ r.pc \in {"recheck", "evidence", "settle"}
    \/ r.kind \in ChecksWithinAttempt /\ r.pc \in {"admit"} \cup InOperation

Final == {"succeeded", "failed", "cancelled"}

\* What the task t records of the operation that run r is in.
OpTracked(r, t) ==
    LET op == t.ops[r.id]
    IN  /\ r.pc = "intent" => /\ op.status = "absent"
                              /\ r.kind = "generation" => r.attempt = r.id
        /\ r.pc \in {"recheck", "evidence", "settle", "finish"} =>
              op.status # "absent" /\ op.kind = r.kind /\ op.step = r.tool
        /\ r.pc \in {"recheck", "evidence"} => op.status = "started" /\ op.actual = Unknown
        /\ r.pc \in {"settle", "finish"} => op.actual \in {Unknown, r.actual}
        /\ r.pc = "settle" => op.status \notin Final
        /\ (r.pc = "finish" /\ op.status \in Final) =>
              op.status = FinalStatus(r) /\ op.actual = r.actual

OpenOp(op) == /\ op.kind = "generation" /\ op.step = 0
              /\ \/ op.status = "started" /\ op.actual = Unknown
                 \/ op.status = "observed"

ToolsTracked(r) ==
    /\ r.kind \notin ToolKinds => r.tool = 0
    /\ r.pc \in LoopPoints => r.kind \notin ToolKinds
    /\ r.pc \in {"recover_tool", "replay_tool"} => r.kind \in ToolKinds
    /\ r.pc = "finish" => r.kind \notin {"generation", "validation"}

Tracked(r, t) == /\ OpTracked(r, t)
                 /\ Attempting(r) => OpenOp(t.ops[r.attempt])
                 /\ ToolsTracked(r)

\* What save() demands of a revision besides its number and an open row.
Progresses(prev, t) ==
    /\ t.known >= prev.known
    /\ t.complete => prev.complete
    /\ t.generations >= prev.generations
    /\ t.escalations >= prev.escalations
    /\ t.retries >= prev.retries
    /\ t.recoveries >= prev.recoveries
    /\ \A i \in Ids : prev.ops[i].status # "absent" =>
                          RecordProgresses(prev.ops[i], t.ops[i])

Open(t) == t.status \notin Terminal \cup {"absent"}

InStep ==
    Running => /\ Open(row) /\ Open(task) /\ journal.status = "absent"
               /\ task.revision = row.revision
               /\ Progresses(row, task)

Unclaimed == /\ row.status = "absent" => run.pc = "idle" /\ journal.status = "absent"
             /\ run.pc = "idle" => \A i \in Ids : ledger[i].state = "free"

AllFunded(t) == \A i \in Ids : t.ops[i].status # "absent" => ledger[i].state # "free"

Funded == AllFunded(task) /\ AllFunded(row) /\ AllFunded(journal)

\* Identifiers are reserved in order, and the reservation of the current
\* operation is the last one and holds its estimate.
LedgerOK ==
    /\ \A i \in Ids : ledger[i].state = "free" => ledger[i].amount = 0
    /\ \A i, j \in Ids : (i < j /\ ledger[i].state = "free") => ledger[j].state = "free"
    /\ run.pc \in {"intent", "recheck", "evidence", "settle"} =>
          /\ ledger[run.id].state = "held" /\ ledger[run.id].amount = Estimate[run.kind]
          /\ \A j \in Ids : run.id < j => ledger[j].state = "free"

OverrunRemembered ==
    Running => \A i \in Ids : Overrun(i) > 0 => run.costViolation

AccountInv ==
    /\ Running => Tracked(run, task)
    /\ InStep /\ Unclaimed /\ Funded /\ LedgerOK
    /\ OverrunRemembered /\ NoCallAfterOverrun /\ SavesAccepted

LEMMA ProgressesSame ==
    ASSUME NEW t \in TaskResult, NEW u \in TaskResult,
           u.known = t.known, u.complete = t.complete, u.generations >= t.generations,
           u.escalations >= t.escalations, u.retries >= t.retries,
           u.recoveries >= t.recoveries, u.ops = t.ops
    PROVE  Progresses(t, u)
  BY DEF Progresses, RecordProgresses, TaskResult

LEMMA ProgressesTransitive ==
    ASSUME NEW a \in TaskResult, NEW b \in TaskResult, NEW c \in TaskResult,
           Progresses(a, b), Progresses(b, c)
    PROVE  Progresses(a, c)
<1>1. ASSUME NEW i \in Ids, a.ops[i].status # "absent"
      PROVE  RecordProgresses(a.ops[i], c.ops[i])
  BY <1>1 DEF Progresses, RecordProgresses
<1>2. /\ c.known >= a.known /\ c.generations >= a.generations
      /\ c.escalations >= a.escalations /\ c.retries >= a.retries
      /\ c.recoveries >= a.recoveries
  BY DEF Progresses, TaskResult
<1>3. c.complete => a.complete
  BY DEF Progresses
<1>4. QED
  BY <1>1, <1>2, <1>3 DEF Progresses

Keeps(r) == r.budgetUnavailable = run.budgetUnavailable /\ r.costViolation = run.costViolation

SameOp(r) == r.id = run.id /\ r.kind = run.kind

\* The steps that change nothing but the run.
QuietStep ==
    /\ Running
    /\ UNCHANGED <<caller, task, row, journal, ledger, calls>>
    /\ run'.pc \notin Ended \cup {"idle", "intent", "recheck"}
    /\ run'.pc \in {"evidence", "settle"} => run.pc = "recheck" /\ SameOp(run')
    /\ Keeps(run')
    /\ Tracked(run', task)

\* The steps that save a revision t and go on as r.
SavesAs(t, r) ==
    /\ Running
    /\ UNCHANGED <<caller, ledger, calls>>
    /\ t \in TaskResult
    /\ Save(t, r)
    /\ t.revision = task.revision /\ t.known = task.known /\ t.reserved = task.reserved
    /\ t.status # "absent"
    /\ Progresses(task, t)
    /\ \A i \in Ids : t.ops[i].status # "absent" <=>
                          task.ops[i].status # "absent" \/ (run.pc = "intent" /\ i = run.id)
    /\ r.pc \notin {"rejected", "idle", "intent", "evidence"}
    /\ r.pc \notin Ended => /\ Open(t)
                            /\ Keeps(r)
                            /\ Tracked(r, t)
                            /\ r.pc \in {"recheck", "settle"} =>
                                  run.pc \in {"intent", "evidence"} /\ SameOp(r)

LEMMA QuietKeepsAccount == ASSUME Inv, AccountInv, QuietStep PROVE AccountInv'
<1>1. (Running => Tracked(run, task))' /\ Running' /\ SavesAccepted'
  BY DEF QuietStep, Running, Ended, SavesAccepted, Tracked, OpTracked, ToolsTracked, Attempting
<1>2. InStep' /\ Unclaimed' /\ Funded'
  BY DEF QuietStep, AccountInv, InStep, Running, Unclaimed, Funded, AllFunded, Progresses, Open
<1>3. LedgerOK'
  BY DEF QuietStep, AccountInv, LedgerOK, SameOp
<1>4. OverrunRemembered' /\ NoCallAfterOverrun'
  BY DEF QuietStep, AccountInv, OverrunRemembered, NoCallAfterOverrun, Running, Keeps, Called, Overrun
<1>5. QED
  BY <1>1, <1>2, <1>3, <1>4 DEF AccountInv

\* The repository accepts the revision.
LEMMA RevisionAccepted ==
    ASSUME Inv, AccountInv, NEW t, NEW r, SavesAs(t, r)
    PROVE  LET n == [t EXCEPT !.revision = @ + 1]
           IN  /\ n \in TaskResult /\ n.ops = t.ops /\ n.status = t.status
               /\ n.revision = t.revision + 1
               /\ n.known = t.known /\ n.reserved = t.reserved
               /\ Accepts(row, n)
<1> DEFINE n == [t EXCEPT !.revision = @ + 1]
<1>1. t \in TaskResult /\ task \in TaskResult /\ row \in TaskResult
  BY DEF SavesAs, Inv, TypeOK
<1>2. /\ n \in TaskResult /\ n.ops = t.ops /\ n.status = t.status
      /\ n.known = t.known /\ n.reserved = t.reserved
      /\ n.complete = t.complete /\ n.generations = t.generations
      /\ n.escalations = t.escalations /\ n.retries = t.retries
      /\ n.recoveries = t.recoveries /\ n.revision = t.revision + 1
  BY <1>1 DEF TaskResult
<1> HIDE DEF n
<1>3. Progresses(t, n)
  BY <1>1, <1>2, ProgressesSame DEF TaskResult
<1>4. Progresses(row, task) /\ Progresses(task, t) /\ Open(row)
        /\ task.revision = row.revision /\ t.revision = task.revision
  BY DEF SavesAs, AccountInv, InStep
<1>5. Progresses(row, n)
  BY <1>1, <1>2, <1>3, <1>4, ProgressesTransitive
<1>6. Accepts(row, n)
  BY <1>2, <1>4, <1>5 DEF Accepts, Progresses, Open
<1>7. QED
  BY <1>2, <1>6 DEF n

LEMMA SaveKeepsAccount ==
    ASSUME Inv, Inv', AccountInv, NEW t, NEW r, SavesAs(t, r) PROVE AccountInv'
<1> DEFINE n == [t EXCEPT !.revision = @ + 1]
<1>1. /\ n \in TaskResult /\ n.ops = t.ops /\ n.status = t.status
      /\ Accepts(row, n)
  BY RevisionAccepted
<1>2. \/ row' = n /\ task' = n /\ run' = r /\ UNCHANGED journal
      \/ row' \in {row, n} /\ journal' = n /\ task' = NoTask /\ run' = EndedRun("raised")
  BY <1>1 DEF SavesAs, Save
<1> HIDE DEF n
<1>3. EndedRun("raised").pc = "raised"
  BY EndedOK DEF Ended
<1>4. \A i \in Ids : n.ops[i].status # "absent" => ledger[i].state # "free"
  BY <1>1 DEF SavesAs, AccountInv, Funded, AllFunded, LedgerOK
<1>5. UNCHANGED <<ledger, calls>> /\ row.status # "absent"
  BY DEF SavesAs, AccountInv, InStep, Open
<1>6. \A i \in Ids : NoTask.ops[i].status = "absent"
  BY DEF NoTask, NoOp
<1>7. Funded'
  BY <1>2, <1>4, <1>5, <1>6 DEF AccountInv, Funded, AllFunded
<1>8. NoCallAfterOverrun'
  BY <1>5 DEF AccountInv, NoCallAfterOverrun, Called, Overrun
<1>9. CASE row' = n /\ task' = n /\ run' = r /\ UNCHANGED journal
  <2>1. SavesAccepted' /\ Unclaimed'
    BY <1>1, <1>5, <1>9 DEF SavesAs, SavesAccepted, Unclaimed, Open
  <2>2. LedgerOK'
    BY <1>5, <1>9 DEF SavesAs, AccountInv, LedgerOK, SameOp, Ended
  <2>3. CASE r.pc \in Ended
    BY <1>7, <1>8, <1>9, <2>1, <2>2, <2>3 DEF AccountInv, Running, InStep, OverrunRemembered
  <2>4. CASE r.pc \notin Ended
    <3>1. Tracked(r, t) /\ Open(t) /\ Keeps(r) /\ Running
      BY <2>4 DEF SavesAs
    <3>2. (Running => Tracked(run, task))'
      BY <1>1, <1>9, <3>1 DEF Tracked, OpTracked
    <3>3. Progresses(n, n)
      BY <1>1, ProgressesSame DEF TaskResult
    <3>4. InStep'
      BY <1>1, <1>9, <3>1, <3>3 DEF AccountInv, InStep, Open
    <3>5. OverrunRemembered'
      BY <1>5, <1>9, <3>1 DEF AccountInv, OverrunRemembered, Keeps, Overrun
    <3>6. QED
      BY <1>7, <1>8, <2>1, <2>2, <3>2, <3>4, <3>5 DEF AccountInv
  <2>5. QED
    BY <2>3, <2>4
<1>10. CASE row' \in {row, n} /\ journal' = n /\ task' = NoTask /\ run' = EndedRun("raised")
  <2>1. SavesAccepted' /\ Unclaimed'
    BY <1>1, <1>3, <1>5, <1>10 DEF SavesAs, SavesAccepted, Unclaimed
  <2>2. ~Running'
    BY <1>3, <1>10 DEF Running, Ended
  <2>3. LedgerOK'
    BY <1>3, <1>5, <1>10 DEF AccountInv, LedgerOK
  <2>4. QED
    BY <1>7, <1>8, <2>1, <2>2, <2>3 DEF AccountInv, InStep, OverrunRemembered
<1>11. QED
  BY <1>2, <1>9, <1>10
-----------------------------------------------------------------------------
(* Every step of the execution but reserving, calling and settling is a    *)
(* QuietStep or SavesAs a revision.                                        *)

SameFlags(r, q) == q.budgetUnavailable = r.budgetUnavailable /\ q.costViolation = r.costViolation

LEMMA TrackedHalt ==
    ASSUME NEW r, RunOK(r), ToolsTracked(r), NEW t, NEW status \in Terminal
    PROVE  /\ Tracked(Halt(r, status), t) /\ Halt(r, status).pc = "stop"
           /\ SameFlags(r, Halt(r, status))
<1> DEFINE q == Halt(r, status)
<1>1. q.pc = "stop" /\ q.kind = r.kind /\ q.tool = r.tool /\ SameFlags(r, q)
  BY DEF Halt, RunOK, Run, SameFlags
<1> HIDE DEF q
<1>2. Tracked(q, t)
  BY <1>1 DEF Tracked, OpTracked, ToolsTracked, Attempting, InOperation, LoopPoints
<1>3. QED
  BY <1>1, <1>2 DEF q

LEMMA TrackedAdmit ==
    ASSUME NEW r, RunOK(r), NEW kind \in Kinds, NEW t,
           kind \notin ToolKinds => r.tool = 0,
           kind \in ChecksWithinAttempt => OpenOp(t.ops[r.attempt])
    PROVE  /\ Tracked(AdmitAt(r, kind), t) /\ AdmitAt(r, kind).pc = "admit"
           /\ SameFlags(r, AdmitAt(r, kind))
<1> DEFINE q == AdmitAt(r, kind)
<1>1. /\ q.pc = "admit" /\ q.kind = kind /\ q.tool = r.tool /\ q.attempt = r.attempt
      /\ SameFlags(r, q)
  BY DEF AdmitAt, RunOK, Run, SameFlags
<1> HIDE DEF q
<1>2. Tracked(q, t)
  BY <1>1 DEF Tracked, OpTracked, ToolsTracked, Attempting, InOperation, LoopPoints
<1>3. QED
  BY <1>1, <1>2 DEF q

\* To a point outside any operation, recording a failure or not.
LEMMA TrackedMove ==
    ASSUME NEW r, RunOK(r), ToolsTracked(r), NEW q, NEW t,
           q.kind = r.kind, q.tool = r.tool, q.attempt = r.attempt,
           q.pc \notin InOperation \cup {"admit"},
           q.pc \in LoopPoints => r.kind \notin ToolKinds,
           q.pc \in {"recover_tool", "replay_tool"} => r.kind \in ToolKinds,
           q.pc \in {"validating", "retry_evaluation", "finish_attempt"} => OpenOp(t.ops[r.attempt])
    PROVE  Tracked(q, t)
  BY DEF Tracked, OpTracked, ToolsTracked, Attempting, InOperation

\* A step to a point where no operation is in progress.
LEMMA QuietTo ==
    ASSUME Running, UNCHANGED <<caller, task, row, journal, ledger, calls>>,
           run'.pc \notin Ended \cup {"idle"} \cup InOperation,
           SameFlags(run, run'), Tracked(run', task)
    PROVE  QuietStep
  BY DEF QuietStep, Keeps, SameFlags, InOperation

LEMMA HaltQuiet ==
    ASSUME Inv, AccountInv, Running, NEW status \in Terminal, run' = Halt(run, status),
           UNCHANGED <<task, row, journal>>, Quiet
    PROVE  QuietStep
<1>1. RunOK(run) /\ ToolsTracked(run)
  BY DEF Inv, AccountInv, Tracked
<1>2. Tracked(run', task) /\ run'.pc = "stop" /\ SameFlags(run, run')
  BY <1>1, TrackedHalt
<1>3. QED
  BY <1>2, QuietTo DEF Quiet, Ended, InOperation

LEMMA PreflightQuiet == ASSUME Inv, AccountInv, Preflight PROVE QuietStep
<1>1. RunOK(run) /\ Tracked(run, task) /\ Running /\ run.kind \notin ToolKinds
  BY DEF Inv, AccountInv, Running, Preflight, Ended, Tracked, ToolsTracked, LoopPoints
<1>2. CASE \E status \in Terminal : run' = Halt(run, status)
  BY <1>1, <1>2, HaltQuiet DEF Preflight
<1>3. CASE run' = AdmitAt(run, "classification")
  <2>1. Tracked(run', task) /\ run'.pc = "admit" /\ SameFlags(run, run')
    BY <1>1, <1>3, TrackedAdmit DEF Kinds, ChecksWithinAttempt, Tracked, ToolsTracked
  <2>2. QED
    BY <1>1, <2>1, QuietTo DEF Preflight, Quiet, Ended, InOperation
<1>4. CASE run' = [run EXCEPT !.pc = "classify"]
  <2>1. /\ run'.pc = "classify" /\ run'.kind = run.kind /\ run'.tool = run.tool
        /\ run'.attempt = run.attempt /\ SameFlags(run, run')
    BY <1>1, <1>4 DEF RunOK, Run, SameFlags
  <2>2. Tracked(run', task)
    BY <1>1, <2>1, TrackedMove DEF Tracked, InOperation
  <2>3. QED
    BY <1>1, <2>1, <2>2, QuietTo DEF Preflight, Quiet, Ended, InOperation
<1>5. QED
  BY <1>2, <1>3, <1>4, StatusForType DEF Preflight, Terminal

LEMMA LoopQuiet == ASSUME Inv, AccountInv, Loop PROVE QuietStep
<1>1. RunOK(run) /\ Tracked(run, task) /\ Running /\ run.kind \notin ToolKinds
  BY DEF Inv, AccountInv, Running, Loop, Ended, Tracked, ToolsTracked, LoopPoints
<1>2. CASE \E status \in Terminal : run' = Halt(run, status)
  BY <1>1, <1>2, HaltQuiet DEF Loop
<1>3. CASE run' = AdmitAt(run, "generation")
  <2>1. Tracked(run', task) /\ run'.pc = "admit" /\ SameFlags(run, run')
    BY <1>1, <1>3, TrackedAdmit DEF Kinds, ChecksWithinAttempt, Tracked, ToolsTracked
  <2>2. QED
    BY <1>1, <2>1, QuietTo DEF Loop, Quiet, Ended, InOperation
<1>4. QED
  BY <1>2, <1>3, StatusForType DEF Loop, Terminal

LEMMA EnvironmentQuiet == ASSUME Inv, AccountInv, EnvironmentChanged PROVE QuietStep
  BY HaltQuiet DEF EnvironmentChanged, Running, Ended, Terminal

LEMMA GiveUpQuiet == ASSUME Inv, AccountInv, GiveUp PROVE QuietStep
<1>1. \E status \in Terminal : run' = Halt(run, status)
  BY StatusForType DEF GiveUp, Terminal
<1>2. QED
  BY <1>1, HaltQuiet DEF GiveUp, Running, Ended

LEMMA RefusedTracked ==
    ASSUME NEW r, RunOK(r), ToolsTracked(r), NEW t, r.pc = "admit",
           r.kind \in ChecksWithinAttempt => OpenOp(t.ops[r.attempt]), NEW f \in Failures
    PROVE  /\ Tracked(Refused(r, f), t) /\ Refused(r, f).pc \in {"finish_attempt", "stop"}
           /\ SameFlags(r, Refused(r, f))
<1>1. \/ Refused(r, f) = [r EXCEPT !.pc = "finish_attempt", !.failure = f]
            /\ r.kind \in ChecksWithinAttempt
      \/ \E status \in Terminal : Refused(r, f) = Halt(r, status)
  BY StatusForType DEF Refused, Terminal
<1>2. CASE Refused(r, f) = [r EXCEPT !.pc = "finish_attempt", !.failure = f]
            /\ r.kind \in ChecksWithinAttempt
  <2> DEFINE q == [r EXCEPT !.pc = "finish_attempt", !.failure = f]
  <2>1. /\ q.pc = "finish_attempt" /\ q.kind = r.kind /\ q.tool = r.tool
        /\ q.attempt = r.attempt /\ SameFlags(r, q)
    BY DEF RunOK, Run, SameFlags
  <2> HIDE DEF q
  <2>2. Tracked(q, t)
    BY <1>2, <2>1, TrackedMove DEF InOperation, ChecksWithinAttempt, ToolKinds
  <2>3. QED
    BY <1>2, <2>1, <2>2 DEF q
<1>3. CASE \E status \in Terminal : Refused(r, f) = Halt(r, status)
  BY <1>3, TrackedHalt
<1>4. QED
  BY <1>1, <1>2, <1>3

LEMMA RefuseQuiet == ASSUME Inv, AccountInv, NEW f \in Failures, Refuse(f) PROVE QuietStep
<1>1. RunOK(run) /\ ToolsTracked(run) /\ Running /\ run.pc = "admit"
        /\ (run.kind \in ChecksWithinAttempt => OpenOp(task.ops[run.attempt]))
  BY DEF Inv, AccountInv, Running, Refuse, Ended, Tracked, Attempting
<1>2. Tracked(run', task) /\ run'.pc \in {"finish_attempt", "stop"} /\ SameFlags(run, run')
  BY <1>1, RefusedTracked DEF Refuse
<1>3. QED
  BY <1>1, <1>2, QuietTo DEF Refuse, Quiet, Ended, InOperation

\* From the check after the intent to the evidence or the settlement.
LEMMA LeaveRecheck ==
    ASSUME NEW r, RunOK(r), NEW t, Tracked(r, t), r.pc = "recheck",
           NEW q, q.pc \in {"evidence", "settle"}, q.kind = r.kind, q.tool = r.tool,
           q.attempt = r.attempt, q.id = r.id
    PROVE  Tracked(q, t)
  BY DEF Tracked, OpTracked, ToolsTracked, Attempting, LoopPoints, InOperation, Final

LEMMA WithdrawQuiet == ASSUME Inv, AccountInv, NEW f \in Failures, Withdraw(f) PROVE QuietStep
<1>1. RunOK(run) /\ Tracked(run, task) /\ Running /\ run.pc = "recheck"
  BY DEF Inv, AccountInv, Running, Withdraw, Ended
<1>2. CASE run' = Halt(run, "BLOCKED")
  BY <1>1, <1>2, HaltQuiet DEF Withdraw, Terminal
<1>3. CASE run' # Halt(run, "BLOCKED")
  <2> DEFINE pc == IF run.kind = "classification" THEN "evidence" ELSE "settle"
             g == IF run.kind = "classification" THEN "terminal" ELSE f
  <2>1. run' = [run EXCEPT !.pc = pc, !.failure = g, !.actual = 0]
    BY <1>3 DEF Withdraw
  <2>2. pc \in {"evidence", "settle"}
    OBVIOUS
  <2> HIDE DEF pc, g
  <2>3. /\ run'.pc = pc /\ run'.kind = run.kind /\ run'.tool = run.tool
        /\ run'.attempt = run.attempt /\ run'.id = run.id /\ Keeps(run')
    BY <1>1, <2>1 DEF RunOK, Run, Keeps
  <2>4. Tracked(run', task)
    BY <1>1, <2>2, <2>3, LeaveRecheck
  <2>5. QED
    BY <1>1, <2>2, <2>3, <2>4 DEF QuietStep, Withdraw, Quiet, SameOp, Ended
<1>4. QED
  BY <1>2, <1>3

LEMMA LiveRefusalQuiet == ASSUME Inv, AccountInv, LiveRefusal PROVE QuietStep
<1>1. RunOK(run) /\ Tracked(run, task) /\ Running /\ run.pc = "recheck"
  BY DEF Inv, AccountInv, Running, LiveRefusal, Ended
<1>2. /\ run'.pc = "evidence" /\ run'.kind = run.kind /\ run'.tool = run.tool
      /\ run'.attempt = run.attempt /\ run'.id = run.id /\ Keeps(run')
  BY <1>1 DEF LiveRefusal, RunOK, Run, Keeps
<1>3. Tracked(run', task)
  BY <1>1, <1>2, LeaveRecheck
<1>4. QED
  BY <1>1, <1>2, <1>3 DEF QuietStep, LiveRefusal, Quiet, SameOp, Ended

\* A save that leaves the records alone and goes on outside any operation, or
\* ends the execution.
LEMMA PlainSave ==
    ASSUME Inv, AccountInv, Running, Quiet, run.pc # "intent",
           NEW t \in TaskResult, t.ops = task.ops, t.revision = task.revision,
           t.known = task.known, t.reserved = task.reserved, t.complete = task.complete,
           t.generations = task.generations, t.escalations >= task.escalations,
           t.retries >= task.retries, t.recoveries = task.recoveries, t.status # "absent",
           NEW r, Save(t, r), r.pc \notin {"rejected", "idle"} \cup InOperation,
           r.pc \notin Ended => Open(t) /\ SameFlags(run, r) /\ Tracked(r, task)
    PROVE  SavesAs(t, r)
<1>1. Progresses(task, t)
  BY ProgressesSame DEF Inv, TypeOK, TaskResult
<1>2. Tracked(r, task) => Tracked(r, t)
  BY DEF Tracked, OpTracked
<1>3. r.pc \notin {"rejected", "idle", "intent", "evidence", "recheck", "settle"}
  BY DEF InOperation
<1>4. SameFlags(run, r) => Keeps(r)
  BY DEF SameFlags, Keeps
<1>5. \A i \in Ids : t.ops[i].status # "absent" <=>
          task.ops[i].status # "absent" \/ (run.pc = "intent" /\ i = run.id)
  OBVIOUS
<1>6. t.revision = task.revision /\ t.known = task.known /\ t.reserved = task.reserved
        /\ UNCHANGED <<caller, ledger, calls>>
  BY DEF Quiet
<1>7. r.pc \notin Ended => /\ Open(t)
                           /\ Keeps(r)
                           /\ Tracked(r, t)
                           /\ r.pc \in {"recheck", "settle"} =>
                                 run.pc \in {"intent", "evidence"} /\ SameOp(r)
  BY <1>2, <1>3, <1>4
<1>8. QED
  BY <1>1, <1>3, <1>5, <1>6, <1>7 DEF SavesAs

LEMMA StatusFields ==
    ASSUME NEW t \in TaskResult, NEW status \in Statuses, NEW u,
           u = [t EXCEPT !.status = status]
    PROVE  /\ u \in TaskResult /\ u.status = status /\ status # "absent"
           /\ u.ops = t.ops /\ u.revision = t.revision /\ u.known = t.known
           /\ u.reserved = t.reserved /\ u.complete = t.complete
           /\ u.generations = t.generations /\ u.escalations = t.escalations
           /\ u.retries = t.retries /\ u.recoveries = t.recoveries
           /\ t.escalations \in Nat /\ t.retries \in Nat
  BY DEF TaskResult, Statuses, Terminal

LEMMA StatusSave ==
    ASSUME Inv, AccountInv, Running, Quiet, run.pc # "intent", NEW status \in Statuses,
           NEW r, Save([task EXCEPT !.status = status], r),
           r.pc \notin {"rejected", "idle"} \cup InOperation,
           r.pc \notin Ended => status \notin Terminal /\ SameFlags(run, r) /\ Tracked(r, task)
    PROVE  \E t, q : SavesAs(t, q)
<1> DEFINE t == [task EXCEPT !.status = status]
<1>1. task \in TaskResult
  BY DEF Inv, TypeOK
<1>2. /\ t \in TaskResult /\ t.status = status /\ status # "absent"
      /\ t.ops = task.ops /\ t.revision = task.revision /\ t.known = task.known
      /\ t.reserved = task.reserved /\ t.complete = task.complete
      /\ t.generations = task.generations /\ t.escalations = task.escalations
      /\ t.retries = task.retries /\ t.recoveries = task.recoveries
      /\ task.escalations \in Nat /\ task.retries \in Nat
  BY <1>1, StatusFields
<1>3. Save(t, r)
  OBVIOUS
<1> HIDE DEF t
<1>4. t.escalations >= task.escalations /\ t.retries >= task.retries
  BY <1>2
<1>5. r.pc \notin Ended => Open(t) /\ SameFlags(run, r) /\ Tracked(r, task)
  BY <1>2 DEF Open
<1>6. SavesAs(t, r)
  BY <1>2, <1>3, <1>4, <1>5, PlainSave
<1>7. QED
  BY <1>6

LEMMA ClassifyShape ==
    ASSUME Inv, AccountInv, Classify PROVE QuietStep \/ \E t, r : SavesAs(t, r)
<1>1. RunOK(run) /\ Tracked(run, task) /\ Running /\ run.kind \notin ToolKinds
        /\ run.pc = "classify"
  BY DEF Inv, AccountInv, Running, Classify, Ended, Tracked, ToolsTracked, LoopPoints
<1>2. CASE \E status \in {"FAILED", "BLOCKED"} :
             run' = Halt(run, status) /\ UNCHANGED <<task, row, journal>>
  BY <1>1, <1>2, HaltQuiet DEF Classify, Terminal
<1>3. CASE Save([task EXCEPT !.status = "CLASSIFIED"], [run EXCEPT !.pc = "route"])
  <2> DEFINE r == [run EXCEPT !.pc = "route"]
  <2>1. /\ r.pc = "route" /\ r.kind = run.kind /\ r.tool = run.tool
        /\ r.attempt = run.attempt /\ SameFlags(run, r)
    BY <1>1 DEF RunOK, Run, SameFlags
  <2>2. Save([task EXCEPT !.status = "CLASSIFIED"], r)
    BY <1>3
  <2> HIDE DEF r
  <2>3. Tracked(r, task)
    BY <1>1, <2>1, TrackedMove DEF Tracked, InOperation
  <2>4. QED
    BY <1>1, <2>1, <2>2, <2>3, StatusSave DEF Classify, Statuses, Terminal, InOperation
<1>4. QED
  BY <1>2, <1>3 DEF Classify

LEMMA RouteShape ==
    ASSUME Inv, AccountInv, NEW rejected \in BOOLEAN, Route(rejected)
    PROVE  \E t, r : SavesAs(t, r)
<1>1. RunOK(run) /\ Tracked(run, task) /\ ToolsTracked(run) /\ Running
        /\ run.kind \notin ToolKinds /\ run.pc = "route"
  BY DEF Inv, AccountInv, Running, Route, Ended, Tracked, ToolsTracked, LoopPoints
<1> DEFINE loop == [run EXCEPT !.pc = "loop"]
           r == IF rejected THEN Halt(run, "FAILED") ELSE loop
<1>2. /\ loop.pc = "loop" /\ loop.kind = run.kind /\ loop.tool = run.tool
      /\ loop.attempt = run.attempt /\ SameFlags(run, loop)
  BY <1>1 DEF RunOK, Run, SameFlags
<1>3. Save([task EXCEPT !.status = "ROUTED"], r)
  BY DEF Route
<1> HIDE DEF loop
<1>4. Tracked(loop, task)
  BY <1>1, <1>2, TrackedMove DEF Tracked, InOperation
<1>5. r.pc \in {"stop", "loop"} /\ SameFlags(run, r) /\ Tracked(r, task)
  BY <1>1, <1>2, <1>4, TrackedHalt DEF Terminal
<1> HIDE DEF r
<1>6. QED
  BY <1>1, <1>3, <1>5, StatusSave DEF Route, Statuses, Terminal, InOperation

LEMMA ValidatingShape == ASSUME Inv, AccountInv, Validating PROVE \E t, r : SavesAs(t, r)
<1>1. RunOK(run) /\ ToolsTracked(run) /\ Running /\ OpenOp(task.ops[run.attempt])
        /\ run.tool = 0 /\ run.pc = "validating"
  BY DEF Inv, AccountInv, Running, Validating, Ended, Tracked, ToolsTracked, LoopPoints, Attempting
<1> DEFINE r == AdmitAt(run, "validation")
<1>2. r.pc = "admit" /\ SameFlags(run, r) /\ Tracked(r, task)
  BY <1>1, TrackedAdmit DEF Kinds
<1>3. Save([task EXCEPT !.status = "VALIDATING"], r)
  BY DEF Validating
<1> HIDE DEF r
<1>4. QED
  BY <1>1, <1>2, <1>3, StatusSave DEF Validating, Statuses, Terminal, InOperation

LEMMA RecoverShape ==
    ASSUME Inv, AccountInv, NEW again \in BOOLEAN, Recover(again)
    PROVE  \E t, r : SavesAs(t, r)
<1>1. RunOK(run) /\ Tracked(run, task) /\ ToolsTracked(run) /\ Running
        /\ run.kind \notin ToolKinds /\ run.pc = "recover"
  BY DEF Inv, AccountInv, Running, Recover, Ended, Tracked, ToolsTracked, LoopPoints
<1> DEFINE q == [run EXCEPT !.pc = "reroute"]
           r == IF again THEN q ELSE Halt(run, "FAILED")
<1>2. /\ q.pc = "reroute" /\ q.kind = run.kind /\ q.tool = run.tool
      /\ q.attempt = run.attempt /\ SameFlags(run, q)
  BY <1>1 DEF RunOK, Run, SameFlags
<1>3. Save([task EXCEPT !.status = "RECOVERING"], r)
  BY DEF Recover
<1> HIDE DEF q
<1>4. Tracked(q, task)
  BY <1>1, <1>2, TrackedMove DEF Tracked, InOperation
<1>5. r.pc \in {"stop", "reroute"} /\ SameFlags(run, r) /\ Tracked(r, task)
  BY <1>1, <1>2, <1>4, TrackedHalt DEF Terminal
<1> HIDE DEF r
<1>6. QED
  BY <1>1, <1>3, <1>5, StatusSave DEF Recover, Statuses, Terminal, InOperation

LEMMA RerouteShape ==
    ASSUME Inv, AccountInv, NEW rejected \in BOOLEAN, Reroute(rejected)
    PROVE  \E t, r : SavesAs(t, r)
<1> DEFINE e == IF run.failure = "quality" THEN task.escalations + 1 ELSE task.escalations
           n == IF run.failure = "infrastructure" THEN task.retries + 1 ELSE task.retries
           t == [task EXCEPT !.status = "ROUTED", !.escalations = e, !.retries = n]
           again == [run EXCEPT !.pc = "loop", !.evaluator = 0, !.retry = 0]
           r == IF rejected THEN Halt(run, "FAILED") ELSE again
<1>1. task \in TaskResult
  BY DEF Inv, TypeOK
<1>2. e \in Nat /\ n \in Nat /\ e >= task.escalations /\ n >= task.retries
  BY <1>1 DEF TaskResult
<1>3. Save(t, r)
  BY DEF Reroute
<1> HIDE DEF e, n
<1>4. /\ t \in TaskResult /\ t.status = "ROUTED" /\ t.ops = task.ops
      /\ t.revision = task.revision /\ t.known = task.known /\ t.reserved = task.reserved
      /\ t.complete = task.complete /\ t.generations = task.generations
      /\ t.escalations = e /\ t.retries = n /\ t.recoveries = task.recoveries
  BY <1>1, <1>2 DEF TaskResult, Statuses
<1> HIDE DEF t
<1>5. RunOK(run) /\ Tracked(run, task) /\ ToolsTracked(run) /\ Running
        /\ run.kind \notin ToolKinds /\ run.pc = "reroute"
  BY DEF Inv, AccountInv, Running, Reroute, Ended, Tracked, ToolsTracked, LoopPoints
<1>6. /\ again.pc = "loop" /\ again.kind = run.kind /\ again.tool = run.tool
      /\ again.attempt = run.attempt /\ SameFlags(run, again)
  BY <1>5 DEF RunOK, Run, SameFlags
<1> HIDE DEF again
<1>7. Tracked(again, task)
  BY <1>5, <1>6, TrackedMove DEF Tracked, InOperation
<1>8. r.pc \in {"stop", "loop"} /\ SameFlags(run, r) /\ Tracked(r, task)
  BY <1>5, <1>6, <1>7, TrackedHalt DEF Terminal
<1> HIDE DEF r
<1>9. Open(t) /\ r.pc \notin {"rejected", "idle"} \cup InOperation /\ t.status # "absent"
  BY <1>4, <1>8 DEF Open, Terminal, InOperation
<1>10. SavesAs(t, r)
  BY <1>2, <1>3, <1>4, <1>5, <1>8, <1>9, PlainSave DEF Reroute
<1>11. QED
  BY <1>10

LEMMA RecoverToolShape == ASSUME Inv, AccountInv, RecoverTool PROVE \E t, r : SavesAs(t, r)
<1>1. RunOK(run) /\ ToolsTracked(run) /\ Running /\ run.pc = "recover_tool"
  BY DEF Inv, AccountInv, Running, RecoverTool, Ended, Tracked
<1>2. PICK r \in AfterToolFailure : Save([task EXCEPT !.status = "RECOVERING"], r)
  BY DEF RecoverTool
<1>3. \/ \E status \in Terminal : r = Halt(run, status)
      \/ r = [run EXCEPT !.pc = "replay_tool"]
      \/ r = [run EXCEPT !.pc = "replay_tool", !.kind = "alternate_tool"]
  BY DEF AfterToolFailure, Terminal
<1>4. CASE \E status \in Terminal : r = Halt(run, status)
  BY <1>1, <1>2, <1>4, TrackedHalt, StatusSave DEF RecoverTool, Statuses, Terminal, InOperation
<1>5. CASE \/ r = [run EXCEPT !.pc = "replay_tool"]
           \/ r = [run EXCEPT !.pc = "replay_tool", !.kind = "alternate_tool"]
  <2>1. /\ r.pc = "replay_tool" /\ r.kind \in {run.kind, "alternate_tool"}
        /\ r.tool = run.tool /\ SameFlags(run, r)
    BY <1>1, <1>5 DEF RunOK, Run, SameFlags
  <2>2. Tracked(r, task)
    BY <1>1, <2>1 DEF Tracked, OpTracked, ToolsTracked, Attempting, InOperation, LoopPoints,
                      ToolKinds
  <2>3. QED
    BY <1>1, <1>2, <2>1, <2>2, StatusSave DEF RecoverTool, Statuses, Terminal, InOperation
<1>6. QED
  BY <1>3, <1>4, <1>5

LEMMA CompleteShape ==
    ASSUME Inv, AccountInv, NEW f \in Failures, Complete(f)
    PROVE  QuietStep \/ \E t, r : SavesAs(t, r)
<1>1. Running /\ run.pc = "complete"
  BY DEF Running, Complete, Ended
<1>2. CASE f = "none"
  <2>1. EndedRun("returned").pc = "returned"
    BY EndedOK DEF Ended
  <2>2. QED
    BY <1>1, <1>2, <2>1, StatusSave DEF Complete, Statuses, Terminal, Ended, InOperation
<1>3. CASE f # "none"
  BY <1>1, <1>3, HaltQuiet, StatusForType DEF Complete
<1>4. QED
  BY <1>2, <1>3

LEMMA StopShape == ASSUME Inv, AccountInv, Stop PROVE \E t, r : SavesAs(t, r)
<1>1. Running /\ run.pc = "stop" /\ run.verdict \in Statuses
  BY DEF Running, Stop, Ended, Inv, TypeOK, Run, Statuses
<1>2. EndedRun("returned").pc = "returned"
  BY EndedOK DEF Ended
<1>3. QED
  BY <1>1, <1>2, StatusSave DEF Stop, Ended, InOperation

LEMMA RetryEvaluationShape == ASSUME Inv, AccountInv, RetryEvaluation PROVE \E t, r : SavesAs(t, r)
<1> DEFINE n == run.retry + 1
           q == [run EXCEPT !.retry = n]
           r == AdmitAt(q, "evaluation")
<1>1. RunOK(run) /\ ToolsTracked(run) /\ Running /\ OpenOp(task.ops[run.attempt])
        /\ run.tool = 0 /\ run.pc = "retry_evaluation" /\ task \in TaskResult
  BY DEF Inv, AccountInv, Running, RetryEvaluation, Ended, Tracked, ToolsTracked, LoopPoints,
         Attempting, TypeOK
<1>2. n \in Nat
  BY <1>1 DEF RunOK, Run
<1>3. Save(task, r)
  BY DEF RetryEvaluation
<1> HIDE DEF n
<1>4. RunOK(q) /\ q.tool = 0 /\ q.attempt = run.attempt /\ SameFlags(run, q)
  BY <1>1, <1>2 DEF RunOK, Run, SameFlags
<1> HIDE DEF q
<1>5. r.pc = "admit" /\ SameFlags(q, r) /\ Tracked(r, task)
  BY <1>1, <1>4, TrackedAdmit DEF Kinds
<1> HIDE DEF r
<1>6. Open(task) /\ task.status # "absent" /\ SameFlags(run, r)
  BY <1>1, <1>4, <1>5 DEF AccountInv, InStep, Open, SameFlags
<1>7. task.escalations >= task.escalations /\ task.retries >= task.retries
  BY <1>1 DEF TaskResult
<1>8. SavesAs(task, r)
  BY <1>1, <1>3, <1>5, <1>6, <1>7, PlainSave DEF RetryEvaluation, InOperation
<1>9. QED
  BY <1>8

\* A save that writes one record: a new one with the intent, otherwise one that
\* progresses.
LEMMA RecordSave ==
    ASSUME Inv, AccountInv, Running, Quiet,
           NEW id \in Ids, NEW op \in Op, op.status # "absent",
           IF run.pc = "intent" THEN id = run.id /\ task.ops[id].status = "absent"
                                ELSE /\ task.ops[id].status # "absent"
                                     /\ RecordProgresses(task.ops[id], op),
           NEW t \in TaskResult, t.ops = [task.ops EXCEPT ![id] = op],
           t.revision = task.revision, t.known = task.known, t.reserved = task.reserved,
           t.complete = task.complete, t.generations >= task.generations,
           t.escalations = task.escalations, t.retries = task.retries,
           t.recoveries = task.recoveries, Open(t),
           NEW r, Save(t, r), r.pc \notin Ended \cup {"idle", "intent", "evidence"},
           SameFlags(run, r), Tracked(r, t),
           r.pc \in {"recheck", "settle"} => run.pc \in {"intent", "evidence"} /\ SameOp(r)
    PROVE  SavesAs(t, r)
<1>1. task \in TaskResult
  BY DEF Inv, TypeOK
<1>2. /\ t.ops[id] = op
      /\ \A i \in Ids : i # id => t.ops[i] = task.ops[i]
  BY <1>1 DEF TaskResult
<1>3. ASSUME NEW i \in Ids, task.ops[i].status # "absent"
      PROVE  RecordProgresses(task.ops[i], t.ops[i])
  BY <1>2, <1>3 DEF RecordProgresses
<1>4. /\ t.known >= task.known /\ t.escalations >= task.escalations
      /\ t.retries >= task.retries /\ t.recoveries >= task.recoveries
  BY <1>1 DEF TaskResult
<1>5. Progresses(task, t)
  BY <1>3, <1>4 DEF Progresses
<1>6. \A i \in Ids : t.ops[i].status # "absent" <=>
          task.ops[i].status # "absent" \/ (run.pc = "intent" /\ i = run.id)
  BY <1>2
<1>7. Keeps(r) /\ t.status # "absent" /\ r.pc # "rejected" /\ UNCHANGED <<caller, ledger, calls>>
  BY DEF SameFlags, Keeps, Open, Ended, Quiet
<1>8. QED
  BY <1>5, <1>6, <1>7 DEF SavesAs

LEMMA WithOpFields ==
    ASSUME task \in TaskResult, run \in Run, run.id \in Ids,
           NEW status \in OpStatuses, NEW actual \in Nat \cup {Unknown}, NEW t,
           t = WithOp(task, run.id, status, actual), NEW op,
           op = [kind |-> run.kind, step |-> run.tool, status |-> status, actual |-> actual]
    PROVE  /\ op \in Op /\ op.kind = run.kind /\ op.step = run.tool
           /\ op.status = status /\ op.actual = actual
           /\ t \in TaskResult /\ t.ops = [task.ops EXCEPT ![run.id] = op]
           /\ t.status = task.status /\ t.revision = task.revision /\ t.known = task.known
           /\ t.reserved = task.reserved /\ t.complete = task.complete
           /\ t.generations = task.generations /\ t.escalations = task.escalations
           /\ t.retries = task.retries /\ t.recoveries = task.recoveries
<1>1. op \in Op /\ op.kind = run.kind /\ op.step = run.tool
        /\ op.status = status /\ op.actual = actual
  BY DEF Op, Run
<1> DEFINE ops == [task.ops EXCEPT ![run.id] = op]
<1>2. ops \in [Ids -> Op]
  BY <1>1 DEF TaskResult
<1>3. t = [task EXCEPT !.ops = ops]
  BY DEF WithOp
<1> HIDE DEF ops
<1>4. /\ t \in TaskResult /\ t.ops = ops
      /\ t.status = task.status /\ t.revision = task.revision /\ t.known = task.known
      /\ t.reserved = task.reserved /\ t.complete = task.complete
      /\ t.generations = task.generations /\ t.escalations = task.escalations
      /\ t.retries = task.retries /\ t.recoveries = task.recoveries
  BY <1>2, <1>3 DEF TaskResult
<1>5. QED
  BY <1>1, <1>4 DEF ops

LEMMA StartedFields ==
    ASSUME NEW t \in TaskResult, NEW u, u = [t EXCEPT !.status = "RUNNING", !.generations = @ + 1]
    PROVE  /\ u \in TaskResult /\ u.status = "RUNNING" /\ u.ops = t.ops
           /\ u.revision = t.revision /\ u.known = t.known
           /\ u.reserved = t.reserved /\ u.complete = t.complete
           /\ u.generations >= t.generations /\ u.escalations = t.escalations
           /\ u.retries = t.retries /\ u.recoveries = t.recoveries
<1> DEFINE g == t.generations + 1
<1>1. g \in Nat /\ g >= t.generations
  BY DEF TaskResult
<1>2. u = [t EXCEPT !.status = "RUNNING", !.generations = g]
  OBVIOUS
<1> HIDE DEF g
<1>3. QED
  BY <1>1, <1>2 DEF TaskResult, Statuses

LEMMA IntentShape == ASSUME Inv, AccountInv, Intent PROVE \E t, r : SavesAs(t, r)
<1> DEFINE t == WithOp(task, run.id, "started", Unknown)
           op == [kind |-> run.kind, step |-> run.tool, status |-> "started", actual |-> Unknown]
           u == IF run.kind = "generation"
                THEN [t EXCEPT !.status = "RUNNING", !.generations = @ + 1] ELSE t
           r == [run EXCEPT !.pc = "recheck"]
<1>1. /\ run.id \in Ids /\ run \in Run /\ task \in TaskResult /\ Running /\ RunOK(run)
      /\ Tracked(run, task) /\ run.pc = "intent" /\ Open(task)
  BY DEF Intent, Inv, RunOK, TypeOK, InOperation, Ended, AccountInv, Running, InStep
<1>2. "started" \in OpStatuses /\ Unknown \in Nat \cup {Unknown}
  BY DEF OpStatuses
<1>3. /\ op \in Op /\ op.kind = run.kind /\ op.step = run.tool
      /\ op.status = "started" /\ op.actual = Unknown
      /\ t \in TaskResult /\ t.ops = [task.ops EXCEPT ![run.id] = op]
      /\ t.status = task.status /\ t.revision = task.revision /\ t.known = task.known
      /\ t.reserved = task.reserved /\ t.complete = task.complete
      /\ t.generations = task.generations /\ t.escalations = task.escalations
      /\ t.retries = task.retries /\ t.recoveries = task.recoveries
  BY <1>1, <1>2, WithOpFields
<1>4. Save(u, r)
  BY DEF Intent
<1>5. /\ r.pc = "recheck" /\ r.kind = run.kind /\ r.tool = run.tool /\ r.id = run.id
      /\ r.attempt = run.attempt /\ SameFlags(run, r)
  BY <1>1 DEF RunOK, Run, SameFlags
<1> HIDE DEF t, r, op
<1>6. t.generations >= task.generations
  BY <1>1, <1>3 DEF TaskResult
<1>7. /\ u \in TaskResult /\ u.ops = [task.ops EXCEPT ![run.id] = op] /\ Open(u)
      /\ u.revision = task.revision /\ u.known = task.known
      /\ u.reserved = task.reserved /\ u.complete = task.complete
      /\ u.generations >= task.generations /\ u.escalations = task.escalations
      /\ u.retries = task.retries /\ u.recoveries = task.recoveries
  <2>1. CASE run.kind = "generation"
    BY <1>1, <1>3, <2>1, StartedFields DEF Open, Terminal, TaskResult
  <2>2. CASE run.kind # "generation"
    BY <1>1, <1>3, <1>6, <2>2 DEF Open
  <2>3. QED
    BY <2>1, <2>2
<1> HIDE DEF u
<1>8. /\ u.ops[run.id] = op
      /\ \A i \in Ids : i # run.id => u.ops[i] = task.ops[i]
  BY <1>1, <1>7 DEF TaskResult
<1>9. Tracked(r, u)
  <2>1. OpTracked(r, u)
    BY <1>3, <1>5, <1>8 DEF OpTracked
  <2>2. ToolsTracked(r)
    BY <1>1, <1>5 DEF Tracked, ToolsTracked, LoopPoints
  <2>3. ASSUME Attempting(r) PROVE OpenOp(u.ops[r.attempt])
    <3>1. CASE run.kind = "generation"
      <4>1. run.attempt = run.id /\ run.tool = 0
        BY <1>1, <3>1 DEF Tracked, OpTracked, ToolsTracked, ToolKinds
      <4>2. QED
        BY <1>3, <1>5, <1>8, <3>1, <4>1 DEF OpenOp
    <3>2. CASE run.kind # "generation"
      <4>1. run.kind \in ChecksWithinAttempt
        BY <1>5, <2>3, <3>2 DEF Attempting
      <4>2. OpenOp(task.ops[run.attempt]) /\ task.ops[run.id].status = "absent"
        BY <1>1, <4>1 DEF Tracked, OpTracked, Attempting, InOperation
      <4>3. run.attempt \in Ids /\ run.attempt # run.id
        BY <1>1, <4>1, <4>2 DEF OpenOp, RunOK, WithinAttempt, ChecksWithinAttempt, Kinds
      <4>4. QED
        BY <1>5, <1>8, <4>2, <4>3
    <3>3. QED
      BY <3>1, <3>2
  <2>4. QED
    BY <2>1, <2>2, <2>3 DEF Tracked
<1>10. task.ops[run.id].status = "absent" /\ op.status # "absent"
  BY <1>1, <1>3 DEF Tracked, OpTracked
<1>11. r.pc \notin Ended \cup {"idle", "intent", "evidence"} /\ SameOp(r)
  BY <1>5 DEF Ended, SameOp
<1>12. SavesAs(u, r)
  BY <1>1, <1>3, <1>4, <1>5, <1>7, <1>9, <1>10, <1>11, RecordSave DEF Intent
<1>13. QED
  BY <1>12

\* Writing the record of the current operation leaves the open attempt open.
LEMMA OpSaveLeavesAttempt ==
    ASSUME Inv, Tracked(run, task), run.pc \in {"evidence", "finish"}, NEW op, NEW t,
           t.ops = [task.ops EXCEPT ![run.id] = op],
           op.kind = run.kind, op.step = run.tool, op.status = "observed" \/ run.pc = "finish",
           Attempting(run)
    PROVE  OpenOp(t.ops[run.attempt])
<1>1. /\ task \in TaskResult /\ run.id \in Ids /\ RunOK(run)
      /\ OpenOp(task.ops[run.attempt]) /\ task.ops[run.id].kind = run.kind
  BY DEF Inv, TypeOK, RunOK, InOperation, Tracked, OpTracked
<1>2. t.ops[run.id] = op /\ \A i \in Ids : i # run.id => t.ops[i] = task.ops[i]
  BY <1>1 DEF TaskResult
<1>3. run.attempt \in Ids
  BY <1>1 DEF RunOK, Attempting, WithinAttempt, ChecksWithinAttempt, Kinds, InOperation
<1>4. CASE run.attempt = run.id
  <2>1. run.kind = "generation"
    BY <1>1, <1>4 DEF OpenOp
  <2>2. run.pc = "evidence" /\ run.tool = 0
    BY <2>1 DEF Attempting, ChecksWithinAttempt, Tracked, ToolsTracked, ToolKinds
  <2>3. QED
    BY <1>2, <1>4, <1>1, <2>1, <2>2 DEF OpenOp
<1>5. CASE run.attempt # run.id
  BY <1>1, <1>2, <1>3, <1>5
<1>6. QED
  BY <1>4, <1>5

LEMMA EvidenceShape == ASSUME Inv, AccountInv, Evidence PROVE \E t, r : SavesAs(t, r)
<1> DEFINE t == WithOp(task, run.id, "observed", run.actual)
           op == [kind |-> run.kind, step |-> run.tool, status |-> "observed", actual |-> run.actual]
           r == [run EXCEPT !.pc = "settle"]
<1>1. /\ run.id \in Ids /\ run \in Run /\ task \in TaskResult /\ Running /\ RunOK(run)
      /\ Tracked(run, task) /\ run.pc = "evidence" /\ Open(task)
      /\ run.actual \in Nat \cup {Unknown}
  BY DEF Evidence, Inv, RunOK, Run, TypeOK, InOperation, Ended, AccountInv, Running, InStep
<1>2. "observed" \in OpStatuses
  BY DEF OpStatuses
<1>3. /\ op \in Op /\ op.kind = run.kind /\ op.step = run.tool
      /\ op.status = "observed" /\ op.actual = run.actual
      /\ t \in TaskResult /\ t.ops = [task.ops EXCEPT ![run.id] = op]
      /\ t.status = task.status /\ t.revision = task.revision /\ t.known = task.known
      /\ t.reserved = task.reserved /\ t.complete = task.complete
      /\ t.generations = task.generations /\ t.escalations = task.escalations
      /\ t.retries = task.retries /\ t.recoveries = task.recoveries
  BY <1>1, <1>2, WithOpFields
<1>4. Save(t, r)
  BY DEF Evidence
<1>5. /\ r.pc = "settle" /\ r.kind = run.kind /\ r.tool = run.tool /\ r.id = run.id
      /\ r.attempt = run.attempt /\ r.actual = run.actual /\ SameFlags(run, r)
  BY <1>1 DEF RunOK, Run, SameFlags
<1> HIDE DEF t, r, op
<1>6. t.generations >= task.generations /\ Open(t)
  BY <1>1, <1>3 DEF TaskResult, Open
<1>7. t.ops[run.id] = op
  BY <1>1, <1>3 DEF TaskResult
<1>8. Tracked(r, t)
  <2>1. OpTracked(r, t)
    BY <1>3, <1>5, <1>7 DEF OpTracked, Final
  <2>2. ToolsTracked(r)
    BY <1>1, <1>5 DEF Tracked, ToolsTracked, LoopPoints
  <2>3. ASSUME Attempting(r) PROVE OpenOp(t.ops[r.attempt])
    <3>1. Attempting(run)
      BY <1>1, <1>5, <2>3 DEF Attempting, InOperation
    <3>2. QED
      BY <1>1, <1>3, <1>5, <3>1, OpSaveLeavesAttempt
  <2>4. QED
    BY <2>1, <2>2, <2>3 DEF Tracked
<1>9. /\ task.ops[run.id].status # "absent" /\ op.status # "absent"
      /\ RecordProgresses(task.ops[run.id], op)
  BY <1>1, <1>3 DEF Tracked, OpTracked, RecordProgresses
<1>10. r.pc \notin Ended \cup {"idle", "intent", "evidence"} /\ SameOp(r)
  BY <1>5 DEF Ended, SameOp
<1>11. SavesAs(t, r)
  BY <1>1, <1>3, <1>4, <1>5, <1>6, <1>8, <1>9, <1>10, RecordSave DEF Evidence
<1>12. QED
  BY <1>11

LEMMA NextVerificationTracked ==
    ASSUME NEW r, RunOK(r), ToolsTracked(r), r.kind \notin ToolKinds, NEW t,
           OpenOp(t.ops[r.attempt])
    PROVE  /\ Tracked(NextVerification(r), t) /\ SameFlags(r, NextVerification(r))
           /\ NextVerification(r).pc \in {"admit", "finish_attempt"}
<1>1. r.tool = 0
  BY DEF ToolsTracked
<1>2. /\ Tracked(AdmitAt(r, "evaluation"), t) /\ AdmitAt(r, "evaluation").pc = "admit"
      /\ SameFlags(r, AdmitAt(r, "evaluation"))
      /\ Tracked(AdmitAt(r, "domain"), t) /\ AdmitAt(r, "domain").pc = "admit"
      /\ SameFlags(r, AdmitAt(r, "domain"))
  BY <1>1, TrackedAdmit DEF Kinds
<1> DEFINE q == [r EXCEPT !.pc = "finish_attempt"]
<1>3. /\ q.pc = "finish_attempt" /\ q.kind = r.kind /\ q.tool = r.tool
      /\ q.attempt = r.attempt /\ SameFlags(r, q)
  BY DEF RunOK, Run, SameFlags
<1>4. NextVerification(r) \in {AdmitAt(r, "evaluation"), AdmitAt(r, "domain"), q}
  <2>1. CASE r.evaluator < Evaluators
    BY <2>1 DEF NextVerification
  <2>2. CASE ~(r.evaluator < Evaluators) /\ r.evaluator >= Evaluators /\ Domain
    BY <2>2 DEF NextVerification
  <2>3. CASE ~(r.evaluator < Evaluators) /\ ~(r.evaluator >= Evaluators /\ Domain)
    BY <2>3 DEF NextVerification
  <2>4. QED
    BY <2>1, <2>2, <2>3
<1> HIDE DEF q
<1>5. Tracked(q, t)
  BY <1>3, TrackedMove DEF InOperation
<1>6. QED
  BY <1>2, <1>3, <1>4, <1>5

LEMMA NextToolTracked ==
    ASSUME NEW r, RunOK(r), ToolsTracked(r), NEW t
    PROVE  /\ Tracked(NextTool(r), t) /\ SameFlags(r, NextTool(r))
           /\ NextTool(r).pc \in {"admit", "complete"}
<1> DEFINE n == r.tool + 1
           u == [r EXCEPT !.tool = n, !.replay = FALSE]
           q == [r EXCEPT !.pc = "complete"]
<1>1. n \in Nat
  BY DEF RunOK, Run
<1>2. NextTool(r) \in {AdmitAt(u, "tool"), q}
  BY DEF NextTool
<1> HIDE DEF n
<1>3. RunOK(u) /\ SameFlags(r, u)
  BY <1>1 DEF RunOK, Run, SameFlags
<1> HIDE DEF u
<1>4. /\ Tracked(AdmitAt(u, "tool"), t) /\ AdmitAt(u, "tool").pc = "admit"
      /\ SameFlags(u, AdmitAt(u, "tool"))
  BY <1>3, TrackedAdmit DEF Kinds, ToolKinds, ChecksWithinAttempt
<1>5. /\ q.pc = "complete" /\ q.kind = r.kind /\ q.tool = r.tool
      /\ q.attempt = r.attempt /\ SameFlags(r, q)
  BY DEF RunOK, Run, SameFlags
<1> HIDE DEF q
<1>6. Tracked(q, t)
  BY <1>5, TrackedMove DEF InOperation, LoopPoints
<1>7. QED
  BY <1>2, <1>3, <1>4, <1>5, <1>6 DEF SameFlags

LEMMA AfterFinishTracked ==
    ASSUME NEW r, RunOK(r), r.pc = "finish", ToolsTracked(r), NEW t,
           Attempting(r) => OpenOp(t.ops[r.attempt]), NEW q \in AfterFinish(r)
    PROVE  /\ Tracked(q, t) /\ SameFlags(r, q)
           /\ q.pc \notin Ended \cup {"idle"} \cup InOperation
<1>1. ASSUME NEW pc \in {"classify", "finish_attempt", "retry_evaluation", "recover_tool"},
             IF pc = "recover_tool" THEN r.kind \in ToolKinds ELSE r.kind \notin ToolKinds,
             pc \in {"finish_attempt", "retry_evaluation"} => OpenOp(t.ops[r.attempt]),
             NEW f, q = [r EXCEPT !.pc = pc, !.failure = f]
      PROVE  /\ Tracked(q, t) /\ SameFlags(r, q)
             /\ q.pc \notin Ended \cup {"idle"} \cup InOperation
  <2>1. /\ q.pc = pc /\ q.kind = r.kind /\ q.tool = r.tool /\ q.attempt = r.attempt
        /\ SameFlags(r, q)
    BY <1>1 DEF RunOK, Run, SameFlags
  <2>2. Tracked(q, t)
    BY <1>1, <2>1, TrackedMove DEF InOperation, LoopPoints
  <2>3. QED
    BY <1>1, <2>1, <2>2 DEF Ended, InOperation
<1>2. ASSUME NEW status \in Terminal, q = Halt(r, status)
      PROVE  /\ Tracked(q, t) /\ SameFlags(r, q)
             /\ q.pc \notin Ended \cup {"idle"} \cup InOperation
  BY <1>2, TrackedHalt DEF Ended, InOperation
<1>3. \A pc : [r EXCEPT !.pc = pc] = [r EXCEPT !.pc = pc, !.failure = r.failure]
  BY DEF RunOK, Run
<1>4. CASE r.kind = "classification"
  <2>1. q = [r EXCEPT !.pc = "classify"] \/ q = Halt(r, "FAILED")
    BY <1>4 DEF AfterFinish
  <2>2. QED
    BY <1>1, <1>2, <1>3, <1>4, <2>1 DEF Terminal, ToolKinds
<1>5. CASE r.kind = "evaluation"
  <2> DEFINE attempt(f) == [r EXCEPT !.pc = "finish_attempt", !.failure = f]
             n == r.evaluator + 1
             next == [r EXCEPT !.evaluator = n, !.retry = 0]
  <2>1. OpenOp(t.ops[r.attempt])
    BY <1>5 DEF Attempting, ChecksWithinAttempt, InOperation
  <2>2. \/ \E f : q = attempt(f)
        \/ q = NextVerification(next)
        \/ q = [r EXCEPT !.pc = "retry_evaluation"]
    BY <1>5 DEF AfterFinish
  <2>3. CASE \E f : q = attempt(f)
    BY <1>1, <1>5, <2>1, <2>3 DEF ToolKinds
  <2>4. CASE q = [r EXCEPT !.pc = "retry_evaluation"]
    BY <1>1, <1>3, <1>5, <2>1, <2>4 DEF ToolKinds
  <2>5. CASE q = NextVerification(next)
    <3>1. n \in Nat
      BY DEF RunOK, Run
    <3> HIDE DEF n
    <3>2. RunOK(next) /\ next.attempt = r.attempt /\ next.kind = r.kind
            /\ next.tool = r.tool /\ next.pc = r.pc /\ SameFlags(r, next)
      BY <3>1 DEF RunOK, Run, SameFlags
    <3>3. q = NextVerification(next)
      BY <2>5
    <3> HIDE DEF next, attempt
    <3>4. ToolsTracked(next) /\ next.kind \notin ToolKinds
      BY <1>5, <3>2 DEF ToolsTracked, ToolKinds
    <3>5. Tracked(q, t) /\ SameFlags(next, q) /\ q.pc \in {"admit", "finish_attempt"}
      BY <2>1, <3>2, <3>3, <3>4, NextVerificationTracked
    <3>6. QED
      BY <3>2, <3>5 DEF SameFlags, Ended, InOperation
  <2>6. QED
    BY <2>2, <2>3, <2>4, <2>5
<1>6. CASE r.kind = "domain"
  <2>1. q = [r EXCEPT !.pc = "finish_attempt"]
    BY <1>6 DEF AfterFinish
  <2>2. OpenOp(t.ops[r.attempt])
    BY <1>6 DEF Attempting, ChecksWithinAttempt, InOperation
  <2>3. QED
    BY <1>1, <1>3, <1>6, <2>1, <2>2 DEF ToolKinds
<1>7. CASE r.kind \notin {"classification", "evaluation", "domain"}
  <2>1. \/ q = NextTool(r)
        \/ q = [r EXCEPT !.pc = "recover_tool"]
        \/ q = Halt(r, StatusFor(r.failure))
    <3>1. CASE r.failure = "none"
      BY <1>7, <3>1 DEF AfterFinish
    <3>2. CASE r.failure # "none" /\ r.dispatched
      BY <1>7, <3>2 DEF AfterFinish
    <3>3. CASE r.failure # "none" /\ ~r.dispatched
      BY <1>7, <3>3 DEF AfterFinish
    <3>4. QED
      BY <3>1, <3>2, <3>3
  <2>2. CASE q = NextTool(r)
    BY <2>2, NextToolTracked DEF Ended, InOperation
  <2>3. CASE q = [r EXCEPT !.pc = "recover_tool"]
    BY <1>1, <1>3, <1>7, <2>3 DEF ToolKinds, ToolsTracked, RunOK, Run, Kinds
  <2>4. CASE q = Halt(r, StatusFor(r.failure))
    BY <1>2, <2>4, StatusForType
  <2>5. QED
    BY <2>1, <2>2, <2>3, <2>4
<1>8. QED
  BY <1>4, <1>5, <1>6, <1>7

LEMMA FinishOperationShape ==
    ASSUME Inv, AccountInv, FinishOperation PROVE \E t, r : SavesAs(t, r)
<1> DEFINE t == WithOp(task, run.id, FinalStatus(run), run.actual)
           op == [kind |-> run.kind, step |-> run.tool, status |-> FinalStatus(run),
                  actual |-> run.actual]
<1>1. PICK q \in AfterFinish(run) : Save(t, q)
  BY DEF FinishOperation
<1>2. /\ run.id \in Ids /\ run \in Run /\ task \in TaskResult /\ Running /\ RunOK(run)
      /\ Tracked(run, task) /\ run.pc = "finish" /\ Open(task)
      /\ run.actual \in Nat \cup {Unknown}
  BY DEF FinishOperation, Inv, RunOK, Run, TypeOK, InOperation, Ended, AccountInv, Running, InStep
<1>3. FinalStatus(run) \in OpStatuses /\ FinalStatus(run) # "absent"
  BY DEF OpStatuses, FinalStatus
<1>4. /\ op \in Op /\ op.kind = run.kind /\ op.step = run.tool
      /\ op.status = FinalStatus(run) /\ op.actual = run.actual
      /\ t \in TaskResult /\ t.ops = [task.ops EXCEPT ![run.id] = op]
      /\ t.status = task.status /\ t.revision = task.revision /\ t.known = task.known
      /\ t.reserved = task.reserved /\ t.complete = task.complete
      /\ t.generations = task.generations /\ t.escalations = task.escalations
      /\ t.retries = task.retries /\ t.recoveries = task.recoveries
  BY <1>2, <1>3, WithOpFields
<1> HIDE DEF t, op
<1>5. t.generations >= task.generations /\ Open(t)
  BY <1>2, <1>4 DEF TaskResult, Open
<1>6. Attempting(run) => OpenOp(t.ops[run.attempt])
  BY <1>2, <1>4, OpSaveLeavesAttempt
<1>7. /\ Tracked(q, t) /\ SameFlags(run, q)
      /\ q.pc \notin Ended \cup {"idle"} \cup InOperation
  BY <1>1, <1>2, <1>6, AfterFinishTracked DEF Tracked
<1>8. task.ops[run.id].status # "absent" /\ RecordProgresses(task.ops[run.id], op)
  <2> DEFINE old == task.ops[run.id]
  <2>1. old \in Op /\ old.status # "absent" /\ old.kind = op.kind /\ old.step = op.step
          /\ old.actual \in {Unknown, op.actual}
          /\ (old.status \in Final => old.status = op.status /\ old.actual = op.actual)
    BY <1>2, <1>4 DEF Tracked, OpTracked, TaskResult
  <2> HIDE DEF old
  <2>2. old.status \in Final => old = op
    BY <1>4, <2>1 DEF Op
  <2>3. QED
    BY <1>3, <1>4, <2>1, <2>2 DEF RecordProgresses, Final, old
<1>9. q.pc \notin Ended \cup {"idle", "intent", "evidence", "recheck", "settle"}
  BY <1>7 DEF InOperation
<1>10. SavesAs(t, q)
  BY <1>1, <1>2, <1>3, <1>4, <1>5, <1>7, <1>8, <1>9, RecordSave DEF FinishOperation
<1>11. QED
  BY <1>10

LEMMA FinishAttemptShape ==
    ASSUME Inv, AccountInv, NEW f \in Failures, FinishAttempt(f) PROVE \E t, r : SavesAs(t, r)
<1> DEFINE old == task.ops[run.attempt]
           called == old.status = "observed"
           op == [kind |-> "generation", step |-> 0,
                  status |-> CASE ~called -> "cancelled"
                               [] called /\ f = "none" -> "succeeded"
                               [] OTHER -> "failed",
                  actual |-> IF called THEN old.actual ELSE 0]
           ops == [task.ops EXCEPT ![run.attempt] = op]
           t == [task EXCEPT !.ops = ops]
           failed == [run EXCEPT !.pc = "recover", !.failure = f]
           r == IF f = "none" THEN NextTool(run) ELSE failed
<1>1. /\ task \in TaskResult /\ Running /\ RunOK(run) /\ run.attempt \in Ids
      /\ Tracked(run, task) /\ run.pc = "finish_attempt" /\ Open(task)
  BY DEF FinishAttempt, Inv, RunOK, TypeOK, AttemptPoints, Ended, AccountInv, Running, InStep
<1>2. OpenOp(old) /\ old \in Op /\ ToolsTracked(run) /\ run.kind \notin ToolKinds
  BY <1>1 DEF Tracked, Attempting, TaskResult, ToolsTracked, LoopPoints
<1>3. Save(t, r)
  BY DEF FinishAttempt
<1>4. op \in Op /\ op.status # "absent" /\ RecordProgresses(old, op) /\ old.status # "absent"
  <2>1. op \in Op /\ op.status # "absent" /\ op.kind = "generation" /\ op.step = 0
          /\ op.actual = IF called THEN old.actual ELSE 0
    BY <1>2 DEF Op, Kinds, OpStatuses
  <2> HIDE DEF op
  <2>2. QED
    BY <1>2, <2>1 DEF RecordProgresses, OpenOp
<1> HIDE DEF op
<1>5. ops \in [Ids -> Op]
  BY <1>1, <1>4 DEF TaskResult
<1> HIDE DEF ops
<1>6. /\ t \in TaskResult /\ t.ops = ops
      /\ t.status = task.status /\ t.revision = task.revision /\ t.known = task.known
      /\ t.reserved = task.reserved /\ t.complete = task.complete
      /\ t.generations = task.generations /\ t.escalations = task.escalations
      /\ t.retries = task.retries /\ t.recoveries = task.recoveries
      /\ task.generations \in Nat
  BY <1>1, <1>5 DEF TaskResult
<1> HIDE DEF t
<1>7. /\ failed.pc = "recover" /\ failed.kind = run.kind /\ failed.tool = run.tool
      /\ failed.attempt = run.attempt /\ SameFlags(run, failed)
  BY <1>1 DEF RunOK, Run, SameFlags
<1> HIDE DEF failed
<1>8. Tracked(failed, t)
  BY <1>1, <1>2, <1>7, TrackedMove DEF InOperation
<1>9. Tracked(r, t) /\ SameFlags(run, r) /\ r.pc \in {"admit", "complete", "recover"}
  BY <1>1, <1>2, <1>7, <1>8, NextToolTracked
<1> HIDE DEF r
<1>10. /\ r.pc \notin Ended \cup {"idle", "intent", "evidence", "recheck", "settle"}
       /\ Open(t) /\ t.generations >= task.generations
  BY <1>1, <1>6, <1>9 DEF Ended, Open
<1>11. t.ops = [task.ops EXCEPT ![run.attempt] = op]
  BY <1>6 DEF ops
<1> HIDE DEF old
<1>12. SavesAs(t, r)
  BY <1>1, <1>3, <1>4, <1>6, <1>9, <1>10, <1>11, RecordSave DEF FinishAttempt, old
<1>13. QED
  BY <1>12
-----------------------------------------------------------------------------
(* Reserving, calling, settling, and what ends or starts an execution.     *)

LEMMA OverrunIsNat ==
    ASSUME Inv, NEW i \in Ids
    PROVE  Overrun(i) \in Nat
  BY DEF Inv, TypeOK, Reservation, Overrun

\* What a reservation leaves as it was.
LEMMA HeldKeeps ==
    ASSUME Inv, AccountInv, NEW id \in Ids, Fresh(id), ledger' = Held(id)
    PROVE  /\ \A i \in Ids : ledger'[i].state = "free" => ledger'[i].amount = 0
           /\ \A i, j \in Ids : (i < j /\ ledger'[i].state = "free") => ledger'[j].state = "free"
           /\ \A i \in Ids : ledger[i].state # "free" => ledger'[i].state # "free"
           /\ \A i \in Ids : Overrun(i)' = Overrun(i)
           /\ \A j \in Ids : id < j => ledger'[j].state = "free"
           /\ ledger'[id].state = "held" /\ ledger'[id].amount = Estimate[run.kind]
<1>1. /\ ledger'[id].state = "held" /\ ledger'[id].amount = Estimate[run.kind]
      /\ \A i \in Ids : i # id => ledger'[i] = ledger[i]
  BY DEF Held, Inv, TypeOK
<1>2. ledger[id].state = "free" /\ \A i \in Ids : i < id => ledger[i].state # "free"
  BY DEF Fresh
<1>3. \A i \in Ids : Overrun(i)' = Overrun(i)
  BY <1>1, <1>2 DEF Overrun
<1>4. \A i, j \in Ids : (i < j /\ ledger[i].state = "free") => ledger[j].state = "free"
  BY DEF AccountInv, LedgerOK
<1>5. \A i \in Ids : i \in Int
  BY DEF Ids
<1>6. \A j \in Ids : id < j => ledger'[j].state = "free"
  BY <1>1, <1>2, <1>4, <1>5
<1>7. QED
  BY <1>1, <1>2, <1>3, <1>4, <1>6 DEF AccountInv, LedgerOK

LEMMA ReserveKeepsAccount ==
    ASSUME Inv, Inv', AccountInv, NEW id \in Ids, Reserve(id) PROVE AccountInv'
<1>1. /\ RunOK(run) /\ Running /\ Tracked(run, task) /\ run.pc = "admit" /\ Fresh(id)
      /\ ledger' = Held(id) /\ task \in TaskResult /\ UNCHANGED <<row, journal, calls>>
  BY DEF Inv, TypeOK, AccountInv, Reserve, CanReserve, Running, Ended
<1>2. /\ run'.pc = "intent" /\ run'.id = id /\ run'.kind = run.kind /\ run'.tool = run.tool
      /\ run'.attempt = (IF run.kind = "generation" THEN id ELSE run.attempt)
      /\ SameFlags(run, run')
  BY <1>1 DEF Reserve, RunOK, Run, SameFlags
<1>3. /\ task'.ops = task.ops /\ task'.status = task.status /\ task'.revision = task.revision
      /\ task'.known = task.known /\ task'.complete = task.complete
      /\ task'.generations = task.generations /\ task'.escalations = task.escalations
      /\ task'.retries = task.retries /\ task'.recoveries = task.recoveries
  BY <1>1 DEF Reserve, TaskResult
<1>4. task.ops[id].status = "absent"
  BY <1>1 DEF AccountInv, Funded, AllFunded, Fresh
<1>5. Tracked(run', task')
  <2>1. OpTracked(run', task')
    BY <1>2, <1>3, <1>4 DEF OpTracked
  <2>2. ToolsTracked(run')
    BY <1>1, <1>2 DEF Tracked, ToolsTracked, LoopPoints
  <2>3. Attempting(run') => OpenOp(task'.ops[run'.attempt])
    BY <1>1, <1>2, <1>3 DEF Tracked, Attempting, ChecksWithinAttempt
  <2>4. QED
    BY <2>1, <2>2, <2>3 DEF Tracked
<1>6. InStep'
  BY <1>1, <1>3 DEF AccountInv, InStep, Open, Progresses
<1>7. Unclaimed' /\ SavesAccepted'
  BY <1>1, <1>2 DEF AccountInv, InStep, Open, Unclaimed, SavesAccepted
<1>8. Funded'
  BY <1>1, <1>3, HeldKeeps DEF AccountInv, Funded, AllFunded
<1>9. LedgerOK'
  BY <1>1, <1>2, HeldKeeps DEF LedgerOK
<1>10. OverrunRemembered' /\ NoCallAfterOverrun'
  BY <1>1, <1>2, HeldKeeps DEF AccountInv, OverrunRemembered, NoCallAfterOverrun, Called, SameFlags
<1>11. QED
  BY <1>5, <1>6, <1>7, <1>8, <1>9, <1>10 DEF AccountInv

LEMMA ReserveUnavailableKeepsAccount ==
    ASSUME Inv, Inv', AccountInv, NEW id \in Ids, ReserveUnavailable(id) PROVE AccountInv'
<1> DEFINE r == [run EXCEPT !.budgetUnavailable = TRUE]
<1>1. /\ RunOK(run) /\ Running /\ Tracked(run, task) /\ run.pc = "admit" /\ Fresh(id)
      /\ UNCHANGED <<task, row, journal, calls>>
      /\ ledger' = ledger \/ ledger' = Held(id)
  BY DEF Inv, AccountInv, ReserveUnavailable, Running, Ended
<1>2. /\ RunOK(r) /\ r.pc = "admit" /\ r.kind = run.kind /\ r.tool = run.tool
      /\ r.attempt = run.attempt /\ r.costViolation = run.costViolation
  BY <1>1 DEF RunOK, Run
<1>3. run' = Refused(r, "terminal") /\ "terminal" \in Failures
  BY DEF ReserveUnavailable, Failures
<1> HIDE DEF r
<1>4. ToolsTracked(r) /\ (r.kind \in ChecksWithinAttempt => OpenOp(task.ops[r.attempt]))
  BY <1>1, <1>2 DEF Tracked, ToolsTracked, Attempting
<1>5. /\ Tracked(run', task) /\ run'.pc \in {"finish_attempt", "stop"}
      /\ run'.costViolation = run.costViolation
  BY <1>2, <1>3, <1>4, RefusedTracked DEF SameFlags
<1>6. /\ \A i \in Ids : ledger'[i].state = "free" => ledger'[i].amount = 0
      /\ \A i, j \in Ids : (i < j /\ ledger'[i].state = "free") => ledger'[j].state = "free"
      /\ \A i \in Ids : ledger[i].state # "free" => ledger'[i].state # "free"
      /\ \A i \in Ids : Overrun(i)' = Overrun(i)
  <2>1. CASE ledger' = ledger
    BY <2>1 DEF AccountInv, LedgerOK, Overrun
  <2>2. CASE ledger' = Held(id)
    BY <1>1, <2>2, HeldKeeps
  <2>3. QED
    BY <1>1, <2>1, <2>2
<1>7. (Running => Tracked(run, task))'
  BY <1>1, <1>5 DEF Tracked, OpTracked, ToolsTracked, Attempting
<1>8. InStep' /\ Unclaimed' /\ SavesAccepted'
  BY <1>1, <1>5 DEF AccountInv, InStep, Open, Progresses, Unclaimed, SavesAccepted
<1>9. Funded' /\ LedgerOK'
  BY <1>1, <1>5, <1>6 DEF AccountInv, Funded, AllFunded, LedgerOK
<1>10. OverrunRemembered' /\ NoCallAfterOverrun'
  BY <1>1, <1>5, <1>6 DEF AccountInv, OverrunRemembered, NoCallAfterOverrun, Called
<1>11. QED
  BY <1>7, <1>8, <1>9, <1>10 DEF AccountInv

\* A call is made only when no overrun is remembered, so no operation before it
\* overran.
LEMMA DispatchKeepsAccount ==
    ASSUME Inv, Inv', AccountInv, NEW f \in Failures, NEW actual \in Costs \cup {Unknown},
           Dispatch(f, actual)
    PROVE  AccountInv'
<1>1. /\ RunOK(run) /\ Running /\ Tracked(run, task) /\ run.pc = "recheck" /\ run.id \in Ids
      /\ UNCHANGED <<task, row, journal, ledger>> /\ ~run.costViolation
  BY DEF Inv, RunOK, InOperation, AccountInv, Dispatch, Running, Ended, CheckpointOutcomes
<1>2. /\ run'.pc \in {"evidence", "settle"} /\ run'.kind = run.kind /\ run'.tool = run.tool
      /\ run'.attempt = run.attempt /\ run'.id = run.id /\ SameFlags(run, run')
  BY <1>1 DEF Dispatch, RunOK, Run, SameFlags
<1>3. Tracked(run', task)
  BY <1>1, <1>2, LeaveRecheck
<1>4. (Running => Tracked(run, task))'
  BY <1>1, <1>3 DEF Tracked, OpTracked, ToolsTracked, Attempting
<1>5. InStep' /\ Unclaimed' /\ SavesAccepted'
  BY <1>1, <1>2 DEF AccountInv, InStep, Open, Progresses, Unclaimed, SavesAccepted, Running
<1>6. Funded' /\ LedgerOK'
  BY <1>1, <1>2 DEF AccountInv, Funded, AllFunded, LedgerOK
<1>7. \A i \in Ids : Overrun(i)' = Overrun(i) /\ ~(Overrun(i) > 0)
  BY <1>1 DEF AccountInv, OverrunRemembered, Overrun
<1>8. OverrunRemembered' /\ NoCallAfterOverrun'
  BY <1>7 DEF OverrunRemembered, NoCallAfterOverrun
<1>9. QED
  BY <1>4, <1>5, <1>6, <1>8 DEF AccountInv

LEMMA ChargeFields ==
    ASSUME task \in TaskResult, run \in Run, run.id \in Ids, run.actual \in Nat \cup {Unknown},
           NEW settled \in BOOLEAN, NEW t, t = Charge(settled), NEW op,
           op = IF run.kind \in {"validation", "domain"}
                THEN [kind |-> run.kind, step |-> run.tool,
                      status |-> FinalStatus(run), actual |-> run.actual]
                ELSE task.ops[run.id]
    PROVE  /\ t \in TaskResult /\ op \in Op
           /\ t.ops = [task.ops EXCEPT ![run.id] = op]
           /\ t.status = task.status /\ t.revision = task.revision
           /\ t.known = (IF run.actual = Unknown THEN task.known ELSE task.known + run.actual)
           /\ t.reserved = (IF settled THEN task.reserved - Estimate[run.kind] ELSE task.reserved)
           /\ t.known >= task.known /\ (t.complete => task.complete)
           /\ t.generations = task.generations /\ t.escalations = task.escalations
           /\ t.retries = task.retries /\ t.recoveries = task.recoveries
<1>1. FinalStatus(run) \in OpStatuses
  BY DEF FinalStatus, OpStatuses
<1>2. op \in Op
  BY <1>1 DEF Op, Run, TaskResult
<1> DEFINE known == IF run.actual = Unknown THEN task.known ELSE task.known + run.actual
           reserved == IF settled THEN task.reserved - Estimate[run.kind] ELSE task.reserved
           complete == task.complete /\ run.actual # Unknown
           ops == [task.ops EXCEPT ![run.id] = op]
<1>3. t = [task EXCEPT !.known = known, !.reserved = reserved,
                       !.complete = complete, !.ops = ops]
  BY DEF Charge
<1>4. known >= task.known
  BY DEF TaskResult, Unknown
<1>5. complete => task.complete
  OBVIOUS
<1> HIDE DEF known, reserved, complete, ops
<1>6. /\ t.ops = ops /\ t.known = known /\ t.reserved = reserved /\ t.complete = complete
      /\ t.status = task.status /\ t.revision = task.revision
      /\ t.generations = task.generations /\ t.escalations = task.escalations
      /\ t.retries = task.retries /\ t.recoveries = task.recoveries
  BY <1>3 DEF TaskResult
<1>7. t \in TaskResult
  BY ChargeType
<1>8. QED
  BY <1>2, <1>4, <1>5, <1>6, <1>7 DEF known, reserved, ops

LEMMA AfterSettleTracked ==
    ASSUME Inv, Running, Tracked(run, task), run.pc = "settle", NEW r, RunOK(r), r.pc = "settle",
           r.kind = run.kind, r.tool = run.tool, r.attempt = run.attempt, r.id = run.id,
           r.actual = run.actual, r.failure = run.failure, r.dispatched = run.dispatched,
           NEW settled \in BOOLEAN
    PROVE  /\ Tracked(AfterSettle(r), Charge(settled)) /\ SameFlags(r, AfterSettle(r))
           /\ AfterSettle(r).pc \in {"validating", "admit", "finish_attempt", "finish"}
<1> DEFINE t == Charge(settled)
           op == IF run.kind \in {"validation", "domain"}
                 THEN [kind |-> run.kind, step |-> run.tool,
                       status |-> FinalStatus(run), actual |-> run.actual]
                 ELSE task.ops[run.id]
           q == AfterSettle(r)
<1>1. /\ task \in TaskResult /\ run \in Run /\ run.id \in Ids /\ RunOK(run)
      /\ run.actual \in Nat \cup {Unknown}
  BY DEF Inv, TypeOK, RunOK, Run, InOperation
<1>2. op \in Op /\ t.ops = [task.ops EXCEPT ![run.id] = op]
  BY <1>1, ChargeFields
<1>3. t.ops[run.id] = op /\ \A i \in Ids : i # run.id => t.ops[i] = task.ops[i]
  BY <1>1, <1>2 DEF TaskResult
<1> HIDE DEF t
<1>4. ToolsTracked(r)
  BY DEF Tracked, ToolsTracked, LoopPoints
<1>5. ASSUME run.kind \in {"generation", "validation", "domain"}
      PROVE  run.kind \notin ToolKinds /\ OpenOp(t.ops[r.attempt])
  <2>1. Attempting(run)
    BY <1>5 DEF Attempting, ChecksWithinAttempt, InOperation
  <2>2. OpenOp(task.ops[run.attempt]) /\ task.ops[run.id].kind = run.kind /\ run.attempt \in Ids
    BY <1>1, <1>5, <2>1 DEF Tracked, OpTracked, RunOK, WithinAttempt, InOperation, Kinds
  <2>3. CASE run.attempt = run.id
    BY <1>3, <2>2, <2>3, <1>5 DEF OpenOp, ToolKinds
  <2>4. CASE run.attempt # run.id
    BY <1>3, <2>2, <2>4, <1>5 DEF ToolKinds
  <2>5. QED
    BY <2>3, <2>4
<1>6. ASSUME NEW pc \in {"validating", "finish_attempt"},
             run.kind \in {"generation", "validation", "domain"}, q = [r EXCEPT !.pc = pc]
      PROVE  /\ Tracked(q, t) /\ SameFlags(r, q)
             /\ q.pc \in {"validating", "admit", "finish_attempt", "finish"}
  <2>1. /\ q.pc = pc /\ q.kind = r.kind /\ q.tool = r.tool /\ q.attempt = r.attempt
        /\ SameFlags(r, q)
    BY <1>6 DEF RunOK, Run, SameFlags
  <2> HIDE DEF q
  <2>2. Tracked(q, t)
    BY <1>4, <1>5, <1>6, <2>1, TrackedMove DEF InOperation
  <2>3. QED
    BY <1>6, <2>1, <2>2
<1>7. CASE r.kind = "generation" /\ r.failure = "none"
  BY <1>6, <1>7 DEF AfterSettle, t
<1>8. CASE r.kind = "validation" /\ r.failure = "none"
  <2>1. q = NextVerification(r)
    BY <1>8 DEF AfterSettle
  <2> HIDE DEF q
  <2>2. /\ Tracked(q, t) /\ SameFlags(r, q) /\ q.pc \in {"admit", "finish_attempt"}
    BY <1>4, <1>5, <1>8, <2>1, NextVerificationTracked
  <2>3. QED
    BY <2>2 DEF q, t
<1>9. CASE /\ ~(r.kind \in {"generation", "validation"} /\ r.failure = "none")
           /\ \/ r.kind \in {"generation", "validation"} /\ r.failure # "none"
              \/ r.kind = "domain" /\ ~r.dispatched
  <2>1. q = [r EXCEPT !.pc = "finish_attempt"]
    BY <1>9 DEF AfterSettle
  <2>2. QED
    BY <1>6, <1>9, <2>1 DEF t
<1>10. CASE /\ r.kind \notin {"generation", "validation"}
            /\ ~(r.kind = "domain" /\ ~r.dispatched)
  <2>1. q = [r EXCEPT !.pc = "finish"]
    BY <1>10 DEF AfterSettle
  <2>2. /\ q.pc = "finish" /\ q.kind = r.kind /\ q.tool = r.tool /\ q.attempt = r.attempt
        /\ q.id = r.id /\ q.actual = r.actual /\ q.failure = r.failure
        /\ q.dispatched = r.dispatched /\ SameFlags(r, q)
    BY <2>1 DEF RunOK, Run, SameFlags
  <2> HIDE DEF q
  <2>3. FinalStatus(q) = FinalStatus(run)
    BY <2>2 DEF FinalStatus
  <2>4. /\ task.ops[run.id].status \notin Final \cup {"absent"}
        /\ task.ops[run.id].kind = run.kind /\ task.ops[run.id].step = run.tool
        /\ task.ops[run.id].actual \in {Unknown, run.actual}
    BY DEF Tracked, OpTracked
  <2>5. OpTracked(q, t)
    <3>1. CASE run.kind = "domain"
      <4>1. op.kind = run.kind /\ op.step = run.tool /\ op.status = FinalStatus(run)
              /\ op.actual = run.actual /\ op.status # "absent"
        BY <3>1 DEF FinalStatus
      <4> HIDE DEF op
      <4>2. QED
        BY <1>3, <2>2, <2>3, <4>1 DEF OpTracked
    <3>2. CASE run.kind # "domain"
      <4>1. op = task.ops[run.id]
        BY <1>10, <3>2
      <4> HIDE DEF op
      <4>2. QED
        BY <1>3, <2>2, <2>4, <4>1 DEF OpTracked
    <3>3. QED
      BY <3>1, <3>2
  <2>6. Attempting(q) => OpenOp(t.ops[q.attempt])
    <3>1. SUFFICES ASSUME Attempting(q) PROVE OpenOp(t.ops[q.attempt])
      OBVIOUS
    <3>2. run.kind \in {"evaluation", "domain"}
      BY <1>10, <2>2, <3>1 DEF Attempting, ChecksWithinAttempt
    <3>3. OpenOp(task.ops[run.attempt]) /\ run.attempt \in Ids
      BY <1>1, <3>2 DEF Tracked, Attempting, ChecksWithinAttempt, InOperation, RunOK,
                        WithinAttempt, Kinds
    <3>4. run.attempt # run.id
      BY <2>4, <3>2, <3>3 DEF OpenOp
    <3>5. QED
      BY <1>3, <2>2, <3>3, <3>4
  <2>7. ToolsTracked(q)
    BY <1>4, <1>10, <2>2 DEF ToolsTracked, LoopPoints
  <2>8. QED
    BY <2>2, <2>5, <2>6, <2>7 DEF Tracked, q, t
<1>11. QED
  BY <1>7, <1>8, <1>9, <1>10

\* What the settlement of the current operation leaves as it was.
LEMMA SettledKeeps ==
    ASSUME Inv, AccountInv, run.pc = "settle", run.actual # Unknown, ledger' = Settled
    PROVE  /\ \A i \in Ids : ledger'[i].state = ledger[i].state \/ i = run.id
           /\ \A i \in Ids : ledger'[i].amount = ledger[i].amount
           /\ ledger'[run.id].state = "settled" /\ ledger'[run.id].actual = run.actual
           /\ \A i \in Ids : i # run.id => Overrun(i)' = Overrun(i)
           /\ \A i \in Ids : (i = run.id /\ Overrun(i)' > 0) => Overran
<1>1. run.id \in Ids /\ run.actual \in Nat /\ ledger \in [Ids -> Reservation]
        /\ ledger[run.id].amount = Estimate[run.kind] /\ Estimate[run.kind] \in Nat
  BY ExecutionAssumption DEF Inv, TypeOK, RunOK, Run, InOperation, AccountInv, LedgerOK
<1>2. /\ \A i \in Ids : i # run.id => ledger'[i] = ledger[i]
      /\ ledger'[run.id].state = "settled" /\ ledger'[run.id].actual = run.actual
      /\ ledger'[run.id].amount = ledger[run.id].amount
  BY <1>1 DEF Settled, Reservation
<1>3. \A i \in Ids : i # run.id => Overrun(i)' = Overrun(i)
  BY <1>2 DEF Overrun
<1>4. ASSUME NEW i \in Ids, i = run.id
      PROVE  Overrun(i)' = IF run.actual > Estimate[run.kind]
                           THEN run.actual - Estimate[run.kind] ELSE 0
  <2>1. /\ ledger'[i].state = "settled" /\ ledger'[i].actual = run.actual
        /\ ledger'[i].amount = Estimate[run.kind]
    BY <1>1, <1>2, <1>4
  <2>2. QED
    BY <2>1 DEF Overrun
<1>5. \A i \in Ids : (i = run.id /\ Overrun(i)' > 0) => Overran
  BY <1>1, <1>4 DEF Overran
<1>6. QED
  BY <1>2, <1>3, <1>5

\* Both outcomes of charge(), settled or not.
LEMMA ChargeKeepsAccount ==
    ASSUME Inv, Inv', AccountInv, run.pc = "settle", NEW settled \in BOOLEAN,
           NEW unavailable \in BOOLEAN, task' = Charge(settled),
           ledger' = ledger \/ (run.actual # Unknown /\ ledger' = Settled),
           run' = AfterSettle([run EXCEPT !.costViolation = @ \/ Overran,
                                          !.budgetUnavailable = unavailable]),
           UNCHANGED <<caller, row, journal, calls>>
    PROVE  AccountInv'
<1> DEFINE violation == run.costViolation \/ Overran
           r == [run EXCEPT !.costViolation = violation, !.budgetUnavailable = unavailable]
<1>1. /\ RunOK(run) /\ Running /\ Tracked(run, task) /\ run.id \in Ids /\ run \in Run
      /\ task \in TaskResult /\ row \in TaskResult /\ run.actual \in Nat \cup {Unknown}
  BY DEF Inv, TypeOK, RunOK, Run, InOperation, AccountInv, Running, Ended
<1>2. violation \in BOOLEAN /\ run' = AfterSettle(r)
  OBVIOUS
<1> HIDE DEF violation
<1>3. /\ RunOK(r) /\ r.pc = "settle" /\ r.kind = run.kind /\ r.tool = run.tool
      /\ r.attempt = run.attempt /\ r.id = run.id /\ r.actual = run.actual
      /\ r.failure = run.failure /\ r.dispatched = run.dispatched
      /\ r.costViolation = violation
  BY <1>1, <1>2 DEF RunOK, Run
<1> HIDE DEF r
<1>4. /\ Tracked(run', task') /\ run'.costViolation = violation
      /\ run'.pc \in {"validating", "admit", "finish_attempt", "finish"}
  BY <1>1, <1>2, <1>3, AfterSettleTracked DEF SameFlags
<1> DEFINE op == IF run.kind \in {"validation", "domain"}
                 THEN [kind |-> run.kind, step |-> run.tool,
                       status |-> FinalStatus(run), actual |-> run.actual]
                 ELSE task.ops[run.id]
           t == Charge(settled)
<1>4a. /\ t = Charge(settled) /\ task' = t
      /\ op = IF run.kind \in {"validation", "domain"}
              THEN [kind |-> run.kind, step |-> run.tool,
                    status |-> FinalStatus(run), actual |-> run.actual]
              ELSE task.ops[run.id]
  OBVIOUS
<1> HIDE DEF t, op
<1>4b. /\ t \in TaskResult /\ op \in Op
      /\ t.ops = [task.ops EXCEPT ![run.id] = op]
      /\ t.status = task.status /\ t.revision = task.revision
      /\ t.known >= task.known /\ (t.complete => task.complete)
      /\ t.generations = task.generations /\ t.escalations = task.escalations
      /\ t.retries = task.retries /\ t.recoveries = task.recoveries
  BY <1>1, <1>4a, ChargeFields
<1>5. /\ task' \in TaskResult /\ op \in Op
      /\ task'.ops = [task.ops EXCEPT ![run.id] = op]
      /\ task'.status = task.status /\ task'.revision = task.revision
      /\ task'.known >= task.known /\ (task'.complete => task.complete)
      /\ task'.generations = task.generations /\ task'.escalations = task.escalations
      /\ task'.retries = task.retries /\ task'.recoveries = task.recoveries
  BY <1>4b, <1>4a
<1>6. task'.ops[run.id] = op /\ \A i \in Ids : i # run.id => task'.ops[i] = task.ops[i]
  BY <1>1, <1>5 DEF TaskResult
<1>7. op.status # "absent" /\ RecordProgresses(task.ops[run.id], op)
  BY <1>1 DEF Tracked, OpTracked, RecordProgresses, FinalStatus, Final, op
<1>8. task.ops[run.id].status # "absent"
  BY <1>1 DEF Tracked, OpTracked
<1>9. Progresses(task, task')
  <2>1. ASSUME NEW i \in Ids, task.ops[i].status # "absent"
        PROVE  RecordProgresses(task.ops[i], task'.ops[i])
    BY <1>6, <1>7, <2>1 DEF RecordProgresses
  <2>2. /\ task'.generations >= task.generations /\ task'.escalations >= task.escalations
        /\ task'.retries >= task.retries /\ task'.recoveries >= task.recoveries
    BY <1>1, <1>5 DEF TaskResult
  <2>3. QED
    BY <1>5, <2>1, <2>2 DEF Progresses
<1>10. InStep'
  <2>1. Open(row) /\ Open(task) /\ journal.status = "absent"
          /\ task.revision = row.revision /\ Progresses(row, task)
    BY <1>1 DEF AccountInv, InStep
  <2>2. Progresses(row, task')
    BY <1>1, <1>5, <1>9, <2>1, ProgressesTransitive
  <2>3. row' = row /\ journal' = journal /\ Open(task)'
    BY <1>5, <2>1 DEF Open
  <2>4. QED
    BY <1>5, <2>1, <2>2, <2>3 DEF InStep
<1>11. Unclaimed' /\ SavesAccepted'
  BY <1>1, <1>4 DEF AccountInv, InStep, Open, Unclaimed, SavesAccepted
<1>12. /\ \A i \in Ids : ledger'[i].state = ledger[i].state
                            \/ (ledger'[i].state # "free" /\ ledger[i].state # "free")
       /\ \A i \in Ids : ledger'[i].amount = ledger[i].amount
  BY <1>1, SettledKeeps DEF AccountInv, LedgerOK
<1>13. Funded'
  BY <1>6, <1>8, <1>12 DEF AccountInv, Funded, AllFunded
<1>14. LedgerOK'
  BY <1>4, <1>12 DEF AccountInv, LedgerOK
<1>15. \A i \in Ids : Overrun(i)' > 0 => Overrun(i) > 0 \/ (i = run.id /\ Overran)
  <2>1. CASE ledger' = ledger
    BY <2>1 DEF Overrun
  <2>2. CASE run.actual # Unknown /\ ledger' = Settled
    <3>1. \A i \in Ids : i # run.id => Overrun(i)' = Overrun(i)
      BY <2>2, SettledKeeps
    <3>2. \A i \in Ids : (i = run.id /\ Overrun(i)' > 0) => Overran
      BY <2>2, SettledKeeps
    <3>3. QED
      BY <3>1, <3>2
  <2>3. QED
    BY <2>1, <2>2
<1>16. OverrunRemembered'
  BY <1>1, <1>4, <1>15 DEF AccountInv, OverrunRemembered, violation
<1>17. \A j \in Ids : run.id < j => ~Called(j)
  BY DEF AccountInv, LedgerOK, Inv, IntentBeforeCall
<1>18. NoCallAfterOverrun'
  BY <1>15, <1>17 DEF AccountInv, NoCallAfterOverrun, Called
<1>19. QED
  BY <1>4, <1>10, <1>11, <1>13, <1>14, <1>16, <1>18 DEF AccountInv

LEMMA SettleKeepsAccount == ASSUME Inv, Inv', AccountInv, Settle PROVE AccountInv'
<1>1. [run EXCEPT !.costViolation = @ \/ Overran]
        = [run EXCEPT !.costViolation = @ \/ Overran,
                      !.budgetUnavailable = run.budgetUnavailable]
        /\ run.budgetUnavailable \in BOOLEAN /\ (run.actual # Unknown) \in BOOLEAN
  BY DEF Inv, TypeOK, Run
<1>2. QED
  BY <1>1, ChargeKeepsAccount DEF Settle

LEMMA SettleUnavailableKeepsAccount ==
    ASSUME Inv, Inv', AccountInv, SettleUnavailable PROVE AccountInv'
  BY ChargeKeepsAccount DEF SettleUnavailable

LEMMA ReplayToolKeepsAccount == ASSUME Inv, Inv', AccountInv, ReplayTool PROVE AccountInv'
<1> DEFINE n == task.recoveries + 1
           r == [run EXCEPT !.replay = TRUE]
<1>1. /\ RunOK(run) /\ Running /\ Tracked(run, task) /\ run.pc = "replay_tool"
      /\ task \in TaskResult /\ row \in TaskResult /\ run.kind \in ToolKinds /\ run.kind \in Kinds
  BY DEF Inv, TypeOK, RunOK, Run, AccountInv, Running, Ended, ReplayTool, Tracked, ToolsTracked
<1>2. n \in Nat /\ n >= task.recoveries
  BY <1>1 DEF TaskResult
<1>3. task' = [task EXCEPT !.recoveries = n, !.status = "VALIDATING"]
        /\ run' = AdmitAt(r, run.kind) /\ UNCHANGED <<row, journal, ledger, calls>>
  BY DEF ReplayTool, Quiet
<1> HIDE DEF n
<1>4. /\ task' \in TaskResult /\ task'.ops = task.ops /\ task'.status = "VALIDATING"
      /\ task'.revision = task.revision /\ task'.known = task.known
      /\ task'.complete = task.complete /\ task'.recoveries = n
      /\ task'.generations = task.generations /\ task'.escalations = task.escalations
      /\ task'.retries = task.retries
  BY <1>1, <1>2, <1>3 DEF TaskResult, Statuses
<1>5. RunOK(r) /\ SameFlags(run, r)
  BY <1>1 DEF RunOK, Run, SameFlags
<1> HIDE DEF r
<1>6. Tracked(run', task') /\ run'.pc = "admit" /\ SameFlags(r, run')
  BY <1>1, <1>3, <1>5, TrackedAdmit DEF ToolKinds, ChecksWithinAttempt
<1>7. /\ task'.generations >= task.generations /\ task'.escalations >= task.escalations
      /\ task'.retries >= task.retries /\ task'.recoveries >= task.recoveries
  BY <1>1, <1>2, <1>4 DEF TaskResult
<1>8. Progresses(task, task')
  BY <1>1, <1>4, <1>7, ProgressesSame
<1>9. InStep'
  <2>1. Open(row) /\ journal.status = "absent"
          /\ task.revision = row.revision /\ Progresses(row, task)
    BY <1>1 DEF AccountInv, InStep
  <2>2. Progresses(row, task') /\ Open(task)'
    BY <1>1, <1>4, <1>8, <2>1, ProgressesTransitive DEF Open, Terminal
  <2>3. QED
    BY <1>3, <1>4, <2>1, <2>2 DEF InStep
<1>10. Unclaimed' /\ SavesAccepted'
  BY <1>1, <1>3, <1>6 DEF AccountInv, InStep, Open, Unclaimed, SavesAccepted
<1>11. Funded' /\ LedgerOK'
  BY <1>3, <1>4, <1>6 DEF AccountInv, Funded, AllFunded, LedgerOK
<1>12. OverrunRemembered' /\ NoCallAfterOverrun'
  BY <1>1, <1>3, <1>5, <1>6 DEF AccountInv, OverrunRemembered, NoCallAfterOverrun, Called, SameFlags,
     Overrun
<1>13. QED
  BY <1>6, <1>9, <1>10, <1>11, <1>12 DEF AccountInv

LEMMA NoTaskBlank ==
    /\ NoTask.status = "absent"
    /\ \A i \in Ids : NoTask.ops[i].status = "absent" /\ NewTask.ops[i].status = "absent"
  BY DEF NewTask, NoTask, NoOp

LEMMA CrashKeepsAccount == ASSUME Inv, AccountInv, Crash PROVE AccountInv'
<1>1. run'.pc = "crashed" /\ ~Running' /\ UNCHANGED <<row, journal, ledger, calls>>
        /\ task' = NoTask /\ Running
  BY EndedOK DEF Crash, Quiet, Ended, Running
<1>2. Unclaimed' /\ SavesAccepted'
  BY <1>1 DEF AccountInv, InStep, Open, Unclaimed, SavesAccepted
<1>3. Funded' /\ LedgerOK' /\ NoCallAfterOverrun'
  BY <1>1, NoTaskBlank DEF AccountInv, Funded, AllFunded, LedgerOK, NoCallAfterOverrun, Called, Overrun
<1>4. QED
  BY <1>1, <1>2, <1>3 DEF AccountInv, InStep, OverrunRemembered

\* Nobody has reserved anything for a task that was not claimed.
LEMMA CreateKeepsAccount == ASSUME Inv, AccountInv, NEW c \in Callers, Create(c) PROVE AccountInv'
<1>1. CASE row.status = "absent"
  <2>1. /\ run.pc = "idle" /\ row' = NewTask /\ task' = NewTask
        /\ UNCHANGED <<journal, ledger, calls>> /\ run' = [NoRun EXCEPT !.pc = "preflight"]
        /\ \A i \in Ids : ledger[i].state = "free"
    BY <1>1 DEF Create, AccountInv, Unclaimed
  <2>2. run'.pc = "preflight" /\ run'.kind = "generation" /\ run'.tool = 0
    BY <2>1 DEF NoRun
  <2>3. Tracked(run', task')
    BY <2>2 DEF Tracked, OpTracked, ToolsTracked, Attempting, LoopPoints, InOperation, ToolKinds,
                ChecksWithinAttempt
  <2>4. Open(NewTask) /\ NewTask \in TaskResult
    BY NoTaskType DEF Open, Terminal
  <2>5. Progresses(NewTask, NewTask)
    BY <2>4, ProgressesSame DEF TaskResult
  <2>6. journal.status = "absent"
    BY <1>1 DEF AccountInv, Unclaimed
  <2>7. InStep' /\ Unclaimed' /\ SavesAccepted'
    BY <2>1, <2>2, <2>4, <2>5, <2>6 DEF InStep, Unclaimed, SavesAccepted, Open
  <2>8. Funded' /\ LedgerOK'
    BY <2>1, <2>2, NoTaskBlank DEF AccountInv, Funded, AllFunded, LedgerOK
  <2>9. OverrunRemembered' /\ NoCallAfterOverrun'
    BY <2>1 DEF AccountInv, OverrunRemembered, NoCallAfterOverrun, Overrun
  <2>10. QED
    BY <2>3, <2>7, <2>8, <2>9 DEF AccountInv
<1>2. CASE row.status # "absent"
  <2>1. UNCHANGED <<run, task, row, journal, ledger, calls>>
    BY <1>2 DEF Create
  <2>2. QED
    BY <2>1 DEF AccountInv, Running, Tracked, OpTracked, ToolsTracked, Attempting, InStep, Progresses,
                Open, Unclaimed, Funded, AllFunded, LedgerOK, OverrunRemembered, NoCallAfterOverrun,
                SavesAccepted, Called, Overrun
<1>3. QED
  BY <1>1, <1>2

LEMMA CreateUnavailableKeepsAccount ==
    ASSUME Inv, AccountInv, NEW c \in Callers, CreateUnavailable(c) PROVE AccountInv'
<1>1. UNCHANGED <<run, task, journal, ledger, calls>>
        /\ (row' = row \/ (row.status = "absent" /\ row' = NewTask))
  BY DEF CreateUnavailable
<1>2. (Running => Tracked(run, task))' /\ LedgerOK' /\ OverrunRemembered' /\ NoCallAfterOverrun'
        /\ SavesAccepted'
  BY <1>1 DEF AccountInv, Running, Tracked, OpTracked, ToolsTracked, Attempting, LedgerOK,
              OverrunRemembered, NoCallAfterOverrun, SavesAccepted, Called, Overrun
<1>3. CASE row' = row
  BY <1>1, <1>2, <1>3 DEF AccountInv, InStep, Running, Progresses, Open, Unclaimed, Funded, AllFunded
<1>4. CASE row.status = "absent" /\ row' = NewTask
  <2>1. run.pc = "idle" /\ NewTask.status # "absent"
    BY <1>4, NoTaskType DEF AccountInv, Unclaimed
  <2>2. InStep' /\ Unclaimed'
    BY <1>1, <1>4, <2>1 DEF AccountInv, InStep, Running, Unclaimed
  <2>3. Funded'
    BY <1>1, <1>4, NoTaskBlank DEF AccountInv, Funded, AllFunded
  <2>4. QED
    BY <1>2, <2>2, <2>3 DEF AccountInv
<1>5. QED
  BY <1>1, <1>3, <1>4

LEMMA ReconcileKeepsAccount == ASSUME Inv, AccountInv, Reconcile PROVE AccountInv'
<1>1. /\ ~Running /\ row' = journal /\ journal' = NoTask /\ journal.status # "absent"
      /\ UNCHANGED <<run, task, ledger, calls>>
  BY DEF Reconcile, AccountInv, InStep
<1>2. ~Running' /\ LedgerOK' /\ NoCallAfterOverrun' /\ SavesAccepted' /\ Unclaimed'
  BY <1>1 DEF AccountInv, Running, LedgerOK, NoCallAfterOverrun, SavesAccepted, Called, Overrun,
              Unclaimed
<1>3. Funded'
  BY <1>1, NoTaskBlank DEF AccountInv, Funded, AllFunded
<1>4. QED
  BY <1>2, <1>3 DEF AccountInv, InStep, OverrunRemembered

LEMMA InitAccount == Init => AccountInv
<1> SUFFICES ASSUME Init PROVE AccountInv
  OBVIOUS
<1>1. run.pc = "idle" /\ ~Running
  BY DEF Init, NoRun, Running
<1>2. \A i \in Ids : ledger[i].state = "free" /\ ledger[i].amount = 0 /\ Overrun(i) = 0
  BY DEF Init, NoReservation, Overrun
<1>3. Funded
  BY NoTaskBlank DEF Init, Funded, AllFunded
<1>4. LedgerOK /\ Unclaimed /\ NoCallAfterOverrun /\ SavesAccepted
  BY <1>1, <1>2, NoTaskBlank DEF LedgerOK, Unclaimed, NoCallAfterOverrun, SavesAccepted, Init
<1>5. QED
  BY <1>1, <1>3, <1>4 DEF AccountInv, InStep, OverrunRemembered

\* Which steps are quiet and which save.
LEMMA StepShapes ==
    ASSUME Inv, AccountInv, Step
    PROVE  \/ QuietStep
           \/ \E t, r : SavesAs(t, r)
           \/ \E id \in Ids : Reserve(id) \/ ReserveUnavailable(id)
           \/ \E f \in Failures, actual \in Costs \cup {Unknown} : Dispatch(f, actual)
           \/ Settle \/ SettleUnavailable \/ ReplayTool
  BY PreflightQuiet, ClassifyShape, EnvironmentQuiet, LoopQuiet, RouteShape, RerouteShape,
     RefuseQuiet, WithdrawQuiet, FinishAttemptShape, CompleteShape, IntentShape,
     LiveRefusalQuiet, EvidenceShape, FinishOperationShape, ValidatingShape,
     RetryEvaluationShape, GiveUpQuiet, RecoverShape, RecoverToolShape, StopShape DEF Step

LEMMA NextAccount == Inv /\ Inv' /\ AccountInv /\ [Next]_vars => AccountInv'
<1> SUFFICES ASSUME Inv, Inv', AccountInv, [Next]_vars PROVE AccountInv'
  OBVIOUS
<1>1. CASE Step
  BY <1>1, StepShapes, QuietKeepsAccount, SaveKeepsAccount, ReserveKeepsAccount,
     ReserveUnavailableKeepsAccount, DispatchKeepsAccount, SettleKeepsAccount,
     SettleUnavailableKeepsAccount, ReplayToolKeepsAccount
<1>2. CASE UNCHANGED vars
  BY <1>2 DEF vars, AccountInv, Running, Tracked, OpTracked, ToolsTracked, Attempting, InStep,
              Progresses, Open, Unclaimed, Funded, AllFunded, LedgerOK, OverrunRemembered,
              NoCallAfterOverrun, SavesAccepted, Called, Overrun
<1>3. QED
  BY <1>1, <1>2, CreateKeepsAccount, CreateUnavailableKeepsAccount, CrashKeepsAccount,
     ReconcileKeepsAccount DEF Next

\* save() never raises ConcurrentUpdate out of execute(): the repository accepts
\* every revision of the owning execution, on every path through the attempts,
\* checks, retries and tools of any plan.
THEOREM EverySaveAccepted == Spec => []SavesAccepted
<1>1. Inv /\ AccountInv => SavesAccepted
  BY DEF AccountInv
<1>2. QED
  BY <1>1, InitInv, NextInv, InitAccount, NextAccount, PTL DEF Spec

\* Once the cost of an operation has passed its reservation, the task calls no
\* provider, evaluator, check or tool again.
THEOREM OverrunStopsCalls == Spec => []NoCallAfterOverrun
<1>1. Inv /\ AccountInv => NoCallAfterOverrun
  BY DEF AccountInv
<1>2. QED
  BY <1>1, InitInv, NextInv, InitAccount, NextAccount, PTL DEF Spec

-----------------------------------------------------------------------------
(* The account of the task covers what the authority debits, and the       *)
(* ceiling bounds it.                                                      *)
(*                                                                         *)
(* SpendWithinCeiling needs the balance: while the authority answers, the  *)
(* account is exactly the debit, so what check_admission compares with the *)
(* ceiling is what the reservation adds to.  AccountCoversLedger needs the *)
(* reservation that is granted and not yet named by a record, and the      *)
(* journaled revision, which becomes the row.                              *)

Excess(reservation) ==
    IF reservation.state = "settled" /\ reservation.actual > reservation.amount
    THEN reservation.actual - reservation.amount ELSE 0

DebitsOf(l) == [i \in Ids |-> Debit(l[i])]

ExcessesOf(l) == [i \in Ids |-> Excess(l[i])]

\* What was reserved and may still be owed: the debit up to the reservation.
FundsOf(l) == [i \in Ids |-> Debit(l[i]) - Excess(l[i])]

Total(f, S) == SumFunctionOnSet(f, S)

\* The operations the running execution knows of.
Counted == Recorded(task) \cup (IF run.pc = "intent" THEN {run.id} ELSE {})

Balanced ==
    (Running /\ ~run.budgetUnavailable) => Total(DebitsOf(ledger), Ids) = task.known + task.reserved

Covered == Running => Total(DebitsOf(ledger), Counted) <= task.known + task.reserved

SnapshotCovered(t) == Total(FundsOf(ledger), Recorded(t)) <= t.known + t.reserved

WithinCeiling == Total(DebitsOf(ledger), Ids) <= Ceiling + Total(ExcessesOf(ledger), Ids)

MoneyInv ==
    /\ Balanced /\ Covered /\ WithinCeiling
    /\ SnapshotCovered(row) /\ SnapshotCovered(journal)

LEMMA MoneyTypes ==
    ASSUME NEW l \in [Ids -> Reservation], NEW S, S \subseteq Ids
    PROVE  /\ IsFiniteSet(S)
           /\ IsNatOn(DebitsOf(l), S) /\ IsNatOn(ExcessesOf(l), S) /\ IsNatOn(FundsOf(l), S)
           /\ Total(DebitsOf(l), S) \in Nat /\ Total(ExcessesOf(l), S) \in Nat
           /\ Total(FundsOf(l), S) \in Nat
           /\ Total(FundsOf(l), S) <= Total(DebitsOf(l), S)
<1>1. IsFiniteSet(S)
  <2>1. IsFiniteSet(Ids)
    BY ExecutionAssumption, FS_Interval DEF Ids
  <2>2. QED
    BY <2>1, FS_Subset
<1>2. ASSUME NEW i \in Ids
      PROVE  /\ Debit(l[i]) \in Nat /\ Excess(l[i]) \in Nat /\ Debit(l[i]) - Excess(l[i]) \in Nat
             /\ Debit(l[i]) - Excess(l[i]) <= Debit(l[i])
  BY DEF Debit, Excess, Reservation
<1>3. IsNatOn(DebitsOf(l), S) /\ IsNatOn(ExcessesOf(l), S) /\ IsNatOn(FundsOf(l), S)
  BY <1>2 DEF IsNatOn, DebitsOf, ExcessesOf, FundsOf
<1>4. \A i \in S : FundsOf(l)[i] <= DebitsOf(l)[i]
  BY <1>2 DEF DebitsOf, FundsOf
<1>5. QED
  BY <1>1, <1>3, <1>4, SumType, SumMonotone DEF Total

LEMMA RecordedIds == ASSUME NEW t PROVE Recorded(t) \subseteq Ids
  BY DEF Recorded

\* The sums as the properties state them.
LEMMA MoneyStated ==
    ASSUME Inv
    PROVE  /\ LedgerDebit = Total(DebitsOf(ledger), Ids)
           /\ SumOver(Ids, Overrun) = Total(ExcessesOf(ledger), Ids)
           /\ \A t : SumOver(Recorded(t), LAMBDA i : Debit(ledger[i]))
                       = Total(DebitsOf(ledger), Recorded(t))
           /\ \A t : SumOver(Recorded(t), LAMBDA i : Debit(ledger[i]) - Overrun(i))
                       = Total(FundsOf(ledger), Recorded(t))
<1>1. ledger \in [Ids -> Reservation] /\ \A i : Overrun(i) = Excess(ledger[i])
  BY DEF Inv, TypeOK, Overrun, Excess
<1>2. LedgerDebit = Total(DebitsOf(ledger), Ids)
  BY DEF LedgerDebit, SumFunction, DebitsOf, Total
<1>3. SumOver(Ids, Overrun) = Total(ExcessesOf(ledger), Ids)
  <2>1. [i \in Ids |-> Overrun(i)] = ExcessesOf(ledger)
    BY <1>1 DEF ExcessesOf
  <2>2. QED
    BY <2>1 DEF SumOver, SumFunction, ExcessesOf, Total
<1>4. ASSUME NEW t
      PROVE  /\ SumOver(Recorded(t), LAMBDA i : Debit(ledger[i]))
                  = Total(DebitsOf(ledger), Recorded(t))
             /\ SumOver(Recorded(t), LAMBDA i : Debit(ledger[i]) - Overrun(i))
                  = Total(FundsOf(ledger), Recorded(t))
  <2> DEFINE S == Recorded(t)
             d == [i \in S |-> Debit(ledger[i])]
             b == [i \in S |-> Debit(ledger[i]) - Overrun(i)]
  <2>1. S \subseteq Ids
    BY RecordedIds
  <2>2. (\A i \in S : d[i] = DebitsOf(ledger)[i]) /\ \A i \in S : b[i] = FundsOf(ledger)[i]
    BY <1>1, <2>1 DEF DebitsOf, FundsOf
  <2>3. DOMAIN d = S /\ DOMAIN b = S
    OBVIOUS
  <2> HIDE DEF S
  <2>4. SumFunctionOnSet(d, S) = Total(DebitsOf(ledger), S)
    <3> HIDE DEF d
    <3>1. QED
      BY <1>1, <2>1, <2>2, MoneyTypes, SumSame DEF Total
  <2>5. SumFunctionOnSet(b, S) = Total(FundsOf(ledger), S)
    <3> HIDE DEF b
    <3>1. QED
      BY <1>1, <2>1, <2>2, MoneyTypes, SumSame DEF Total
  <2>6. QED
    BY <2>3, <2>4, <2>5 DEF SumOver, SumFunction, S
<1>5. QED
  BY <1>2, <1>3, <1>4

LEMMA MoneyProperties == ASSUME Inv, MoneyInv PROVE SpendWithinCeiling /\ AccountCoversLedger
<1>1. SpendWithinCeiling
  BY MoneyStated DEF MoneyInv, WithinCeiling, SpendWithinCeiling
<1>2. ASSUME Running
      PROVE  Total(DebitsOf(ledger), Recorded(task)) <= task.known + task.reserved
  <2>1. Recorded(task) \subseteq Counted /\ Counted \subseteq Ids /\ ledger \in [Ids -> Reservation]
          /\ task \in TaskResult
    BY RecordedIds DEF Counted, Inv, TypeOK, RunOK, InOperation
  <2> DEFINE a == Total(DebitsOf(ledger), Recorded(task))
             b == Total(DebitsOf(ledger), Counted)
  <2>2. a <= b
    <3>1. \A i \in Recorded(task) : DebitsOf(ledger)[i] <= DebitsOf(ledger)[i]
      BY <2>1, MoneyTypes, RecordedIds DEF IsNatOn
    <3>2. QED
      BY <2>1, <3>1, MoneyTypes, RecordedIds, SumMonotone DEF Total
  <2>3. a \in Nat /\ b \in Nat /\ b <= task.known + task.reserved
    BY <1>2, <2>1, MoneyTypes, RecordedIds DEF MoneyInv, Covered
  <2> HIDE DEF a, b
  <2>4. task.known \in Nat /\ task.reserved \in Int
    BY <2>1 DEF TaskResult
  <2>5. a <= task.known + task.reserved
    BY <2>2, <2>3, <2>4
  <2>6. QED
    BY <2>5 DEF a
<1>3. QED
  BY <1>1, <1>2, MoneyStated DEF MoneyInv, SnapshotCovered, AccountCoversLedger, Running

\* What changes neither the ledger nor what the task knows of it.
LEMMA SameMoney ==
    ASSUME Inv, MoneyInv, UNCHANGED <<row, journal, ledger>>, Running \/ ~Running',
           Running' => /\ run'.pc # "intent" /\ run.pc # "intent"
                       /\ run'.budgetUnavailable = run.budgetUnavailable
                       /\ task'.ops = task.ops /\ task'.known = task.known
                       /\ task'.reserved = task.reserved
    PROVE  MoneyInv'
<1>1. WithinCeiling' /\ SnapshotCovered(row)' /\ SnapshotCovered(journal)'
  BY DEF MoneyInv, WithinCeiling, SnapshotCovered, Recorded
<1>2. Balanced'
  BY DEF MoneyInv, Balanced
<1>3. Running' => Counted' = Counted
  BY DEF Counted, Recorded
<1>4. Covered'
  BY <1>3 DEF MoneyInv, Covered
<1>5. QED
  BY <1>1, <1>2, <1>4 DEF MoneyInv

LEMMA QuietKeepsMoney == ASSUME Inv, AccountInv, MoneyInv, QuietStep PROVE MoneyInv'
<1>1. CASE run.pc # "intent"
  BY <1>1, SameMoney DEF QuietStep, Keeps
<1>2. CASE run.pc = "intent"
  <2>1. /\ UNCHANGED <<task, row, journal, ledger>> /\ Running /\ run'.pc # "intent"
        /\ run'.budgetUnavailable = run.budgetUnavailable
    BY DEF QuietStep, Keeps
  <2>2. WithinCeiling' /\ SnapshotCovered(row)' /\ SnapshotCovered(journal)' /\ Balanced'
    BY <2>1 DEF MoneyInv, WithinCeiling, SnapshotCovered, Recorded, Balanced
  <2>3. Running => Total(DebitsOf(ledger), Recorded(task)) <= task.known + task.reserved
    BY MoneyProperties, MoneyStated DEF AccountCoversLedger, Running
  <2>4. Counted' = Recorded(task)
    BY <2>1 DEF Counted, Recorded
  <2>5. Covered'
    BY <2>1, <2>3, <2>4 DEF Covered
  <2>6. QED
    BY <2>2, <2>5 DEF MoneyInv
<1>3. QED
  BY <1>1, <1>2

\* A saved revision names exactly the operations the execution counted.
LEMMA SaveKeepsMoney ==
    ASSUME Inv, AccountInv, MoneyInv, NEW t, NEW r, SavesAs(t, r) PROVE MoneyInv'
<1> DEFINE n == [t EXCEPT !.revision = @ + 1]
<1>1. n \in TaskResult /\ n.ops = t.ops /\ n.known = task.known /\ n.reserved = task.reserved
        /\ Accepts(row, n)
  BY RevisionAccepted DEF SavesAs
<1>2. \/ row' = n /\ task' = n /\ run' = r /\ UNCHANGED journal
      \/ row' \in {row, n} /\ journal' = n /\ task' = NoTask /\ run' = EndedRun("raised")
  BY <1>1 DEF SavesAs, Save
<1> HIDE DEF n
<1>3. EndedRun("raised").pc = "raised"
  BY EndedOK DEF Ended
<1>4. Running /\ UNCHANGED ledger /\ ledger \in [Ids -> Reservation] /\ task \in TaskResult
  BY DEF SavesAs, Inv, TypeOK
<1>5. Recorded(n) = Counted /\ Counted \subseteq Ids
  <2>1. \A i \in Ids : t.ops[i].status # "absent" <=>
                          task.ops[i].status # "absent" \/ (run.pc = "intent" /\ i = run.id)
    BY DEF SavesAs
  <2>2. run.pc = "intent" => run.id \in Ids
    BY DEF Inv, RunOK, InOperation
  <2>3. QED
    BY <1>1, <2>1, <2>2 DEF Recorded, Counted
<1>6. Total(DebitsOf(ledger), Recorded(n)) <= n.known + n.reserved
  BY <1>1, <1>4, <1>5 DEF MoneyInv, Covered
<1>7. Total(FundsOf(ledger), Recorded(n)) <= n.known + n.reserved
  <2> DEFINE a == Total(FundsOf(ledger), Recorded(n))
             b == Total(DebitsOf(ledger), Recorded(n))
  <2>1. a \in Nat /\ b \in Nat /\ a <= b
    BY <1>4, <1>5, MoneyTypes
  <2>2. b <= n.known + n.reserved /\ n.known \in Nat /\ n.reserved \in Int
    BY <1>1, <1>6 DEF TaskResult
  <2> HIDE DEF a, b
  <2>3. a <= n.known + n.reserved
    BY <2>1, <2>2
  <2>4. QED
    BY <2>3 DEF a
<1>8. WithinCeiling'
  BY <1>4 DEF MoneyInv, WithinCeiling
<1>9. SnapshotCovered(row)' /\ SnapshotCovered(journal)'
  BY <1>2, <1>4, <1>7 DEF MoneyInv, SnapshotCovered, Recorded
<1>10. CASE run' = EndedRun("raised")
  <2>1. ~Running'
    BY <1>3, <1>10 DEF Running, Ended
  <2>2. QED
    BY <1>8, <1>9, <2>1 DEF MoneyInv, Balanced, Covered
<1>11. CASE row' = n /\ task' = n /\ run' = r
  <2>1. CASE r.pc \in Ended
    BY <1>8, <1>9, <1>11, <2>1 DEF MoneyInv, Balanced, Covered, Running
  <2>2. CASE r.pc \notin Ended
    <3>1. r.pc # "intent" /\ r.budgetUnavailable = run.budgetUnavailable
      BY <2>2 DEF SavesAs, Keeps
    <3>2. Balanced'
      BY <1>1, <1>4, <1>11, <3>1 DEF MoneyInv, Balanced
    <3>3. Counted' = Recorded(n)
      BY <1>11, <3>1 DEF Counted, Recorded
    <3>4. Covered'
      BY <1>4, <1>6, <1>11, <3>3 DEF Covered
    <3>5. QED
      BY <1>8, <1>9, <3>2, <3>4 DEF MoneyInv
  <2>3. QED
    BY <2>1, <2>2
<1>12. QED
  BY <1>2, <1>10, <1>11

LEMMA NothingTotal ==
    ASSUME NEW f, NEW S, S = {} PROVE Total(f, S) = 0
  BY FS_EmptySet, SumZero DEF Total

LEMMA BlankCovered ==
    /\ SnapshotCovered(NoTask) /\ SnapshotCovered(NoTask)'
    /\ SnapshotCovered(NewTask) /\ SnapshotCovered(NewTask)'
<1>1. /\ NoTask.known = 0 /\ NoTask.reserved = 0 /\ NewTask.known = 0 /\ NewTask.reserved = 0
      /\ Recorded(NoTask) = {} /\ Recorded(NewTask) = {}
  BY NoTaskBlank DEF NewTask, NoTask, Recorded
<1>2. QED
  BY <1>1, NothingTotal DEF SnapshotCovered, Recorded

\* Nothing is debited while every reservation is free.
LEMMA FreeMoney ==
    ASSUME Inv, LedgerOK, \A i \in Ids : ledger[i].state = "free"
    PROVE  Total(DebitsOf(ledger), Ids) = 0 /\ Total(ExcessesOf(ledger), Ids) = 0
<1>1. \A i \in Ids : DebitsOf(ledger)[i] = 0 /\ ExcessesOf(ledger)[i] = 0
  BY DEF LedgerOK, DebitsOf, ExcessesOf, Debit, Excess
<1>2. IsFiniteSet(Ids)
  BY MoneyTypes DEF Inv, TypeOK
<1>3. QED
  BY <1>1, <1>2, SumZero DEF Total

LEMMA CrashKeepsMoney == ASSUME Inv, MoneyInv, Crash PROVE MoneyInv'
<1>1. ~Running' /\ UNCHANGED <<row, journal, ledger>>
  BY EndedOK DEF Crash, Quiet, Ended, Running
<1>2. QED
  BY <1>1, SameMoney

LEMMA ReconcileKeepsMoney == ASSUME Inv, AccountInv, MoneyInv, Reconcile PROVE MoneyInv'
<1>1. ~Running /\ row' = journal /\ journal' = NoTask /\ UNCHANGED <<run, task, ledger>>
  BY DEF Reconcile, AccountInv, InStep
<1>2. WithinCeiling' /\ Balanced' /\ Covered'
  BY <1>1 DEF MoneyInv, WithinCeiling, Balanced, Covered, Running
<1>3. SnapshotCovered(row)'
  BY <1>1 DEF MoneyInv, SnapshotCovered, Recorded
<1>4. SnapshotCovered(journal)'
  BY <1>1, BlankCovered DEF SnapshotCovered, Recorded
<1>5. QED
  BY <1>2, <1>3, <1>4 DEF MoneyInv

LEMMA CreateKeepsMoney ==
    ASSUME Inv, AccountInv, MoneyInv, NEW c \in Callers, Create(c) PROVE MoneyInv'
<1>1. CASE row.status = "absent"
  <2>1. /\ row' = NewTask /\ task' = NewTask /\ UNCHANGED <<journal, ledger>>
        /\ run' = [NoRun EXCEPT !.pc = "preflight"]
        /\ \A i \in Ids : ledger[i].state = "free"
    BY <1>1 DEF Create, AccountInv, Unclaimed
  <2>2. run'.pc = "preflight"
    BY <2>1 DEF NoRun
  <2>3. Total(DebitsOf(ledger), Ids) = 0 /\ NewTask.known = 0 /\ NewTask.reserved = 0
    BY <2>1, FreeMoney DEF AccountInv, NewTask, NoTask
  <2>4. Counted' = {}
    BY <2>1, <2>2, NoTaskBlank DEF Counted, Recorded
  <2>5. Total(DebitsOf(ledger), {}) = 0
    BY NothingTotal
  <2>6. Balanced' /\ Covered'
    BY <2>1, <2>3, <2>4, <2>5 DEF Balanced, Covered
  <2>7. WithinCeiling' /\ SnapshotCovered(journal)'
    BY <2>1 DEF MoneyInv, WithinCeiling, SnapshotCovered, Recorded
  <2>8. SnapshotCovered(row)'
    BY <2>1, BlankCovered DEF SnapshotCovered, Recorded
  <2>9. QED
    BY <2>6, <2>7, <2>8 DEF MoneyInv
<1>2. CASE row.status # "absent"
  <2>1. UNCHANGED <<run, task, row, journal, ledger>>
    BY <1>2 DEF Create
  <2>2. QED
    BY <2>1 DEF MoneyInv, Balanced, Covered, WithinCeiling, SnapshotCovered, Counted, Recorded, Running
<1>3. QED
  BY <1>1, <1>2

LEMMA CreateUnavailableKeepsMoney ==
    ASSUME Inv, AccountInv, MoneyInv, NEW c \in Callers, CreateUnavailable(c) PROVE MoneyInv'
<1>1. UNCHANGED <<run, task, journal, ledger>> /\ (row' = row \/ row' = NewTask)
  BY DEF CreateUnavailable
<1>2. WithinCeiling' /\ Balanced' /\ Covered' /\ SnapshotCovered(journal)'
  BY <1>1 DEF MoneyInv, WithinCeiling, Balanced, Covered, Running, Counted, SnapshotCovered, Recorded
<1>3. SnapshotCovered(row)'
  BY <1>1, BlankCovered DEF MoneyInv, SnapshotCovered, Recorded
<1>4. QED
  BY <1>2, <1>3 DEF MoneyInv

LEMMA InitMoney == ASSUME Init PROVE MoneyInv
<1>1. Inv /\ AccountInv
  BY InitInv, InitAccount
<1>2. ~Running /\ row = NoTask /\ journal = NoTask /\ \A i \in Ids : ledger[i].state = "free"
  BY DEF Init, NoRun, Running, NoReservation
<1>3. WithinCeiling
  BY <1>1, <1>2, FreeMoney, ExecutionAssumption DEF AccountInv, WithinCeiling
<1>4. QED
  BY <1>2, <1>3, BlankCovered DEF MoneyInv, Balanced, Covered

\* A reservation adds its estimate to the debits and to nothing else.
LEMMA HeldMoney ==
    ASSUME Inv, AccountInv, NEW id \in Ids, Fresh(id), ledger' = Held(id)
    PROVE  /\ Total(DebitsOf(ledger'), Ids) = Total(DebitsOf(ledger), Ids) + Estimate[run.kind]
           /\ Total(ExcessesOf(ledger'), Ids) = Total(ExcessesOf(ledger), Ids)
           /\ \A S \in SUBSET Ids : id \notin S =>
                /\ Total(DebitsOf(ledger'), S) = Total(DebitsOf(ledger), S)
                /\ Total(FundsOf(ledger'), S) = Total(FundsOf(ledger), S)
                /\ Total(DebitsOf(ledger'), S \cup {id})
                     = Total(DebitsOf(ledger), S) + Estimate[run.kind]
<1> DEFINE d == DebitsOf(ledger)
           e == DebitsOf(ledger')
           x == ExcessesOf(ledger)
           y == ExcessesOf(ledger')
           b == FundsOf(ledger)
           g == FundsOf(ledger')
           est == Estimate[run.kind]
<1>1. est \in Nat /\ ledger \in [Ids -> Reservation]
  BY ExecutionAssumption DEF Inv, TypeOK, Run
<1>2. /\ ledger'[id] = [state |-> "held", amount |-> est, actual |-> 0]
      /\ \A i \in Ids : i # id => ledger'[i] = ledger[i]
      /\ ledger' \in [Ids -> Reservation]
      /\ ledger[id].state = "free" /\ ledger[id].amount = 0
  BY <1>1 DEF Held, Reservation, Fresh, AccountInv, LedgerOK
<1>3. /\ d[id] = 0 /\ e[id] = est /\ x[id] = 0 /\ y[id] = 0
      /\ \A i \in Ids : i # id => e[i] = d[i] /\ y[i] = x[i] /\ g[i] = b[i]
  BY <1>2 DEF DebitsOf, ExcessesOf, FundsOf, Debit, Excess
<1>4. ASSUME NEW S \in SUBSET Ids
      PROVE  /\ IsFiniteSet(S)
             /\ IsNatOn(d, S) /\ IsNatOn(e, S) /\ IsNatOn(x, S) /\ IsNatOn(y, S)
             /\ IsNatOn(b, S) /\ IsNatOn(g, S)
             /\ Total(d, S) \in Nat /\ Total(e, S) \in Nat
             /\ Total(x, S) \in Nat /\ Total(y, S) \in Nat
  BY <1>1, <1>2, MoneyTypes
<1> HIDE DEF d, e, x, y, b, g, est
<1>5. Total(e, Ids) + 0 = Total(d, Ids) + est /\ Total(y, Ids) + 0 = Total(x, Ids) + 0
  BY <1>3, <1>4, SumUpdate DEF Total
<1>6. ASSUME NEW S \in SUBSET Ids, id \notin S
      PROVE  /\ Total(e, S) = Total(d, S) /\ Total(g, S) = Total(b, S)
             /\ Total(e, S \cup {id}) = Total(d, S) + est
  <2>1. \A i \in S : e[i] = d[i] /\ g[i] = b[i]
    BY <1>3, <1>6
  <2>2. Total(e, S) = Total(d, S) /\ Total(g, S) = Total(b, S)
    BY <1>4, <2>1, SumSame DEF Total
  <2>3. S \cup {id} \in SUBSET Ids /\ (S \cup {id}) \ {id} = S
    BY <1>6
  <2>4. Total(e, S \cup {id}) = e[id] + Total(e, S)
    BY <1>4, <2>3, SumRemove DEF Total
  <2>5. Total(d, S) \in Nat
    BY <1>4
  <2>6. QED
    BY <1>1, <1>3, <2>2, <2>4, <2>5 DEF est
<1>7. Ids \in SUBSET Ids
  OBVIOUS
<1>8. Total(e, Ids) = Total(d, Ids) + est /\ Total(y, Ids) = Total(x, Ids)
  BY <1>1, <1>4, <1>5, <1>7 DEF est
<1>9. QED
  BY <1>6, <1>8 DEF d, e, x, y, b, g, est

\* check_admission compares at least the estimate with what is left.
LEMMA AdmissionCoversEstimate ==
    ASSUME NEW kind \in Kinds
    PROVE  AdmissionCost(kind) \in Nat /\ Estimate[kind] <= AdmissionCost(kind)
<1>1. \A a, b \in Nat : a * b \in Nat
  OBVIOUS
<1>2. /\ Estimate["generation"] \in Nat /\ Estimate["validation"] \in Nat
      /\ Estimate["evaluation"] \in Nat /\ Estimate["domain"] \in Nat
      /\ Estimate["tool"] \in Nat /\ Estimate[kind] \in Nat
      /\ Evaluators \in Nat /\ Tools \in Nat
  BY ExecutionAssumption DEF Kinds, Tools
<1> DEFINE e == Evaluators * Estimate["evaluation"]
           u == Tools * Estimate["tool"]
<1>3. e \in Nat /\ u \in Nat
  BY <1>1, <1>2
<1> HIDE DEF e, u
<1>4. PlanCost = Estimate["generation"] + Estimate["validation"] + e
                   + (IF Domain THEN Estimate["domain"] ELSE 0) + u
  BY DEF PlanCost, e, u
<1>5. PlanCost \in Nat /\ Estimate["generation"] <= PlanCost
  BY <1>2, <1>3, <1>4
<1>6. QED
  BY <1>2, <1>5 DEF AdmissionCost

\* An admitted operation fits under the ceiling on top of all that is debited.
LEMMA ReservationFits ==
    ASSUME Inv, AccountInv, MoneyInv, CanReserve
    PROVE  \/ Estimate[run.kind] = 0
           \/ Total(DebitsOf(ledger), Ids) + Estimate[run.kind] <= Ceiling
<1> DEFINE est == Estimate[run.kind]
           spent == LedgerDebit
<1>1. /\ run.kind \in Kinds /\ task.known \in Nat /\ task.reserved \in Int
      /\ Authority \in Nat /\ Ceiling \in Nat /\ est \in Nat
  BY ExecutionAssumption DEF Inv, TypeOK, Run, TaskResult
<1>2. spent = Total(DebitsOf(ledger), Ids) /\ spent \in Nat
  BY MoneyStated, MoneyTypes DEF Inv, TypeOK
<1>3. Running /\ ~run.budgetUnavailable
  BY DEF CanReserve, CheckpointOutcomes, Running, Ended
<1>4. spent = task.known + task.reserved
  BY <1>2, <1>3 DEF MoneyInv, Balanced
<1>5. AdmissionCost(run.kind) <= Remaining /\ AdmissionCost(run.kind) \in Nat
        /\ est <= AdmissionCost(run.kind)
  BY <1>1, AdmissionCoversEstimate DEF CanReserve, Admissible
<1> HIDE DEF est, spent
<1>6. Remaining = LET funds == IF Authority - spent < Ceiling - task.known - task.reserved
                               THEN Authority - spent ELSE Ceiling - task.known - task.reserved
                  IN  IF funds < 0 THEN 0 ELSE funds
  BY DEF Remaining, spent
<1>7. Remaining = 0 \/ Remaining <= Ceiling - task.known - task.reserved
  BY <1>1, <1>2, <1>6
<1>8. Remaining \in Int
  BY <1>1, <1>2, <1>6
<1>9. est = 0 \/ est + task.known + task.reserved <= Ceiling
  BY <1>1, <1>5, <1>7, <1>8
<1>10. est = 0 \/ spent + est <= Ceiling
  BY <1>1, <1>2, <1>4, <1>9
<1>11. QED
  BY <1>2, <1>10 DEF est

LEMMA HeldWithinCeiling ==
    ASSUME Inv, AccountInv, MoneyInv, NEW id \in Ids, Fresh(id), CanReserve, ledger' = Held(id)
    PROVE  WithinCeiling'
<1> DEFINE d == Total(DebitsOf(ledger), Ids)
           e == Total(DebitsOf(ledger'), Ids)
           x == Total(ExcessesOf(ledger), Ids)
           y == Total(ExcessesOf(ledger'), Ids)
           est == Estimate[run.kind]
<1>1. d \in Nat /\ x \in Nat /\ est \in Nat /\ Ceiling \in Nat
  BY MoneyTypes, ExecutionAssumption DEF Inv, TypeOK, Run
<1>2. e = d + est /\ y = x
  BY HeldMoney
<1>3. d <= Ceiling + x /\ (est = 0 \/ d + est <= Ceiling)
  BY ReservationFits DEF MoneyInv, WithinCeiling
<1> HIDE DEF d, e, x, y, est
<1>4. e <= Ceiling + y
  BY <1>1, <1>2, <1>3
<1>5. QED
  BY <1>4 DEF WithinCeiling, e, y

\* The reservation is not among the records of any revision.
LEMMA FreshUnrecorded ==
    ASSUME AccountInv, NEW id \in Ids, Fresh(id)
    PROVE  id \notin Recorded(task) /\ id \notin Recorded(row) /\ id \notin Recorded(journal)
  BY DEF AccountInv, Funded, AllFunded, Fresh, Recorded

LEMMA HeldSnapshots ==
    ASSUME Inv, AccountInv, MoneyInv, NEW id \in Ids, Fresh(id), ledger' = Held(id),
           UNCHANGED <<row, journal>>
    PROVE  SnapshotCovered(row)' /\ SnapshotCovered(journal)'
<1>1. /\ Recorded(row) \in SUBSET Ids /\ Recorded(journal) \in SUBSET Ids
      /\ id \notin Recorded(row) /\ id \notin Recorded(journal)
  BY FreshUnrecorded, RecordedIds
<1>2. /\ Total(FundsOf(ledger'), Recorded(row)) = Total(FundsOf(ledger), Recorded(row))
      /\ Total(FundsOf(ledger'), Recorded(journal)) = Total(FundsOf(ledger), Recorded(journal))
  BY <1>1, HeldMoney
<1>3. QED
  BY <1>2 DEF MoneyInv, SnapshotCovered, Recorded

LEMMA ReserveKeepsMoney ==
    ASSUME Inv, AccountInv, MoneyInv, NEW id \in Ids, Reserve(id) PROVE MoneyInv'
<1> DEFINE d == Total(DebitsOf(ledger), Ids)
           c == Total(DebitsOf(ledger), Recorded(task))
           est == Estimate[run.kind]
<1>1. /\ CanReserve /\ Fresh(id) /\ ledger' = Held(id) /\ UNCHANGED <<row, journal>>
      /\ run.pc = "admit" /\ ~run.budgetUnavailable /\ Running
      /\ run \in Run /\ task \in TaskResult
  BY DEF Reserve, CanReserve, CheckpointOutcomes, Running, Ended, Inv, TypeOK
<1>2. run'.pc = "intent" /\ run'.id = id
  BY <1>1 DEF Reserve, Run
<1>3. task'.known = task.known /\ task'.reserved = task.reserved + est /\ task'.ops = task.ops
  BY <1>1 DEF Reserve, TaskResult
<1>4. est \in Nat /\ task.known \in Nat /\ task.reserved \in Int /\ d \in Nat /\ c \in Nat
  BY <1>1, MoneyTypes, RecordedIds, ExecutionAssumption DEF Inv, TypeOK, Run, TaskResult
<1>5. d = task.known + task.reserved /\ c <= task.known + task.reserved
  BY <1>1 DEF MoneyInv, Balanced, Covered, Counted
<1>6. Total(DebitsOf(ledger'), Ids) = d + est
        /\ Total(DebitsOf(ledger'), Recorded(task) \cup {id}) = c + est
  BY <1>1, HeldMoney, FreshUnrecorded, RecordedIds
<1>7. Counted' = Recorded(task) \cup {id}
  BY <1>2, <1>3 DEF Counted, Recorded
<1> HIDE DEF d, c, est
<1>8. d + est = task'.known + task'.reserved /\ c + est <= task'.known + task'.reserved
  BY <1>3, <1>4, <1>5
<1>9. Balanced' /\ Covered'
  BY <1>6, <1>7, <1>8 DEF Balanced, Covered
<1>10. QED
  BY <1>1, <1>9, HeldWithinCeiling, HeldSnapshots DEF MoneyInv

LEMMA ReserveUnavailableKeepsMoney ==
    ASSUME Inv, AccountInv, MoneyInv, NEW id \in Ids, ReserveUnavailable(id) PROVE MoneyInv'
<1> DEFINE r == [run EXCEPT !.budgetUnavailable = TRUE]
<1>1. /\ Fresh(id) /\ UNCHANGED <<task, row, journal>> /\ run.pc = "admit" /\ Running
      /\ (ledger' = ledger \/ (CanReserve /\ ledger' = Held(id)))
      /\ RunOK(run) /\ Tracked(run, task)
  BY DEF ReserveUnavailable, Running, Ended, Inv, AccountInv
<1>2. /\ RunOK(r) /\ r.pc = "admit" /\ r.kind = run.kind /\ r.tool = run.tool
      /\ r.attempt = run.attempt /\ r.budgetUnavailable
  BY <1>1 DEF RunOK, Run
<1>3. run' = Refused(r, "terminal") /\ "terminal" \in Failures
  BY DEF ReserveUnavailable, Failures
<1> HIDE DEF r
<1>4. ToolsTracked(r) /\ (r.kind \in ChecksWithinAttempt => OpenOp(task.ops[r.attempt]))
  BY <1>1, <1>2 DEF Tracked, ToolsTracked, Attempting
<1>5. run'.pc # "intent" /\ run'.budgetUnavailable
  BY <1>2, <1>3, <1>4, RefusedTracked DEF SameFlags
<1>6. Balanced' /\ Counted' = Recorded(task) /\ Counted = Recorded(task)
  BY <1>1, <1>5 DEF Balanced, Counted, Recorded
<1>7. CASE ledger' = ledger
  BY <1>1, <1>6, <1>7 DEF MoneyInv, Covered, WithinCeiling, SnapshotCovered, Recorded
<1>8. CASE CanReserve /\ ledger' = Held(id)
  <2>1. Total(DebitsOf(ledger'), Recorded(task)) = Total(DebitsOf(ledger), Recorded(task))
    BY <1>1, <1>8, HeldMoney, FreshUnrecorded, RecordedIds
  <2>2. Covered'
    BY <1>1, <1>6, <2>1 DEF MoneyInv, Covered
  <2>3. QED
    BY <1>1, <1>6, <1>8, <2>2, HeldWithinCeiling, HeldSnapshots DEF MoneyInv
<1>9. QED
  BY <1>1, <1>7, <1>8

\* A settlement replaces the reservation of the operation by its cost.
LEMMA SettledMoney ==
    ASSUME Inv, AccountInv, run.pc = "settle", run.actual # Unknown, ledger' = Settled
    PROVE  /\ \A S \in SUBSET Ids : run.id \in S =>
                 Total(DebitsOf(ledger'), S) + Estimate[run.kind]
                   = Total(DebitsOf(ledger), S) + run.actual
           /\ \A S \in SUBSET Ids : Total(FundsOf(ledger'), S) <= Total(FundsOf(ledger), S)
           /\ Total(ExcessesOf(ledger'), Ids)
                = Total(ExcessesOf(ledger), Ids)
                    + (IF Overran THEN run.actual - Estimate[run.kind] ELSE 0)
           /\ ledger' \in [Ids -> Reservation]
<1> DEFINE d == DebitsOf(ledger)
           e == DebitsOf(ledger')
           x == ExcessesOf(ledger)
           y == ExcessesOf(ledger')
           b == FundsOf(ledger)
           g == FundsOf(ledger')
           est == Estimate[run.kind]
           id == run.id
           over == IF Overran THEN run.actual - est ELSE 0
<1>1. /\ est \in Nat /\ run.actual \in Nat /\ id \in Ids /\ ledger \in [Ids -> Reservation]
      /\ ledger[id].state = "held" /\ ledger[id].amount = est
  BY ExecutionAssumption DEF Inv, TypeOK, Run, RunOK, InOperation, AccountInv, LedgerOK
<1>2. /\ ledger'[id].state = "settled" /\ ledger'[id].amount = est
      /\ ledger'[id].actual = run.actual
      /\ \A i \in Ids : i # id => ledger'[i] = ledger[i]
      /\ ledger' \in [Ids -> Reservation]
  BY <1>1 DEF Settled, Reservation
<1>3. /\ d[id] = est /\ e[id] = run.actual /\ x[id] = 0 /\ y[id] = over
      /\ g[id] = run.actual - over /\ b[id] = est
      /\ \A i \in Ids : i # id => e[i] = d[i] /\ y[i] = x[i] /\ g[i] = b[i]
  BY <1>1, <1>2 DEF DebitsOf, ExcessesOf, FundsOf, Debit, Excess, Overran
<1>4. ASSUME NEW S \in SUBSET Ids
      PROVE  /\ IsFiniteSet(S)
             /\ IsNatOn(d, S) /\ IsNatOn(e, S) /\ IsNatOn(x, S) /\ IsNatOn(y, S)
             /\ IsNatOn(b, S) /\ IsNatOn(g, S)
             /\ Total(x, S) \in Nat /\ Total(y, S) \in Nat
  BY <1>1, <1>2, MoneyTypes
<1>5. over \in Nat /\ run.actual - over <= est
  BY <1>1 DEF Overran
<1> HIDE DEF d, e, x, y, b, g, est, over, id
<1>6. ASSUME NEW S \in SUBSET Ids, id \in S
      PROVE  Total(e, S) + est = Total(d, S) + run.actual
  <2>1. \A i \in S : i # id => e[i] = d[i]
    BY <1>3, <1>6
  <2>2. SumFunctionOnSet(e, S) + d[id] = SumFunctionOnSet(d, S) + e[id]
    BY <1>4, <1>6, <2>1, SumUpdate
  <2>3. QED
    BY <1>3, <2>2 DEF Total
<1>7. ASSUME NEW S \in SUBSET Ids
      PROVE  Total(g, S) <= Total(b, S)
  <2>1. ASSUME NEW i \in S PROVE g[i] <= b[i]
    <3>1. CASE i = id
      BY <1>3, <1>5, <3>1
    <3>2. CASE i # id
      <4>1. b[i] \in Nat /\ g[i] = b[i]
        BY <1>3, <1>4, <3>2 DEF IsNatOn
      <4>2. QED
        BY <4>1
    <3>3. QED
      BY <3>1, <3>2
  <2>2. QED
    BY <1>4, <1>7, <2>1, SumMonotone DEF Total
<1>8. Total(y, Ids) = Total(x, Ids) + over
  <2>1. Total(y, Ids) + 0 = Total(x, Ids) + over
    BY <1>1, <1>3, <1>4, SumUpdate DEF Total
  <2>2. Total(y, Ids) \in Nat
    BY <1>4
  <2>3. QED
    BY <2>1, <2>2
<1>9. QED
  BY <1>2, <1>6, <1>7, <1>8 DEF d, e, x, y, b, g, est, over, id

\* Both outcomes of charge(): a settlement that was acknowledged moves the
\* cost from reserved to known, any other only adds it.
LEMMA ChargeKeepsMoney ==
    ASSUME Inv, AccountInv, MoneyInv, run.pc = "settle", NEW settled \in BOOLEAN,
           task' = Charge(settled),
           settled => run.actual # Unknown /\ ledger' = Settled,
           ledger' = ledger \/ (run.actual # Unknown /\ ledger' = Settled),
           run'.pc # "intent",
           run'.budgetUnavailable
             \/ /\ run'.budgetUnavailable = run.budgetUnavailable
                /\ settled = (run.actual # Unknown),
           UNCHANGED <<row, journal>>
    PROVE  MoneyInv'
<1> DEFINE op == IF run.kind \in {"validation", "domain"}
                 THEN [kind |-> run.kind, step |-> run.tool,
                       status |-> FinalStatus(run), actual |-> run.actual]
                 ELSE task.ops[run.id]
           t == Charge(settled)
<1>1. /\ RunOK(run) /\ Running /\ Tracked(run, task) /\ run.id \in Ids /\ run \in Run
      /\ task \in TaskResult /\ run.actual \in Nat \cup {Unknown}
      /\ Estimate[run.kind] \in Nat /\ ledger \in [Ids -> Reservation]
  BY ExecutionAssumption DEF Inv, TypeOK, RunOK, Run, InOperation, AccountInv, Running, Ended
<1>2. /\ t = Charge(settled) /\ task' = t
      /\ op = IF run.kind \in {"validation", "domain"}
              THEN [kind |-> run.kind, step |-> run.tool,
                    status |-> FinalStatus(run), actual |-> run.actual]
              ELSE task.ops[run.id]
  OBVIOUS
<1> HIDE DEF t, op
<1>3. /\ op \in Op /\ task'.ops = [task.ops EXCEPT ![run.id] = op]
      /\ task'.known = (IF run.actual = Unknown THEN task.known ELSE task.known + run.actual)
      /\ task'.reserved = (IF settled THEN task.reserved - Estimate[run.kind] ELSE task.reserved)
  BY <1>1, <1>2, ChargeFields
<1>4. task.ops[run.id].status # "absent" /\ op.status # "absent"
  BY <1>1 DEF Tracked, OpTracked, FinalStatus, op
<1>5. Counted' = Recorded(task) /\ Counted = Recorded(task) /\ run.id \in Recorded(task)
        /\ Recorded(task) \in SUBSET Ids
  <2>1. \A i \in Ids : task'.ops[i].status # "absent" <=> task.ops[i].status # "absent"
    BY <1>1, <1>3, <1>4 DEF TaskResult
  <2>2. QED
    BY <1>1, <1>4, <2>1, RecordedIds DEF Counted, Recorded
<1>6. ledger' \in [Ids -> Reservation]
  BY <1>1, SettledMoney
<1> DEFINE d == Total(DebitsOf(ledger), Ids)
           e == Total(DebitsOf(ledger'), Ids)
           c == Total(DebitsOf(ledger), Recorded(task))
           k == Total(DebitsOf(ledger'), Recorded(task))
           x == Total(ExcessesOf(ledger), Ids)
           y == Total(ExcessesOf(ledger'), Ids)
           est == Estimate[run.kind]
           funds == task.known + task.reserved
<1>7. /\ d \in Nat /\ e \in Nat /\ c \in Nat /\ k \in Nat /\ x \in Nat /\ y \in Nat
      /\ est \in Nat /\ funds \in Int /\ Ceiling \in Nat
      /\ task.known \in Nat /\ task.reserved \in Int
  <2>1. d \in Nat /\ c \in Nat /\ x \in Nat
    BY <1>1, <1>5, MoneyTypes
  <2>2. e \in Nat /\ k \in Nat /\ y \in Nat
    BY <1>5, <1>6, MoneyTypes
  <2>3. task.known \in Nat /\ task.reserved \in Int /\ funds \in Int
    BY <1>1 DEF TaskResult
  <2>4. QED
    BY <1>1, <2>1, <2>2, <2>3, ExecutionAssumption
<1>8. /\ c <= funds /\ d <= Ceiling + x
      /\ ~run.budgetUnavailable => d = funds
  BY <1>1, <1>5 DEF MoneyInv, Covered, Balanced, WithinCeiling
<1>9. ASSUME run.actual # Unknown, ledger' = Settled
      PROVE  /\ e + est = d + run.actual /\ k + est = c + run.actual
             /\ y = x + (IF run.actual > est THEN run.actual - est ELSE 0)
  BY <1>5, <1>9, SettledMoney DEF Overran
<1>10. ledger' = ledger => e = d /\ k = c /\ y = x
  OBVIOUS
<1>11. (run.actual # Unknown => run.actual \in Nat) /\ Unknown \notin Nat
  BY <1>1 DEF Unknown
<1>12. SnapshotCovered(row)' /\ SnapshotCovered(journal)'
  <2>1. CASE ledger' = ledger
    BY <2>1 DEF MoneyInv, SnapshotCovered, Recorded
  <2>2. CASE run.actual # Unknown /\ ledger' = Settled
    <3> DEFINE a == Total(FundsOf(ledger), Recorded(row))
               b == Total(FundsOf(ledger'), Recorded(row))
               f == Total(FundsOf(ledger), Recorded(journal))
               g == Total(FundsOf(ledger'), Recorded(journal))
    <3>1. /\ a \in Nat /\ b \in Nat /\ f \in Nat /\ g \in Nat /\ b <= a /\ g <= f
      BY <1>1, <1>6, <2>2, RecordedIds, MoneyTypes, SettledMoney
    <3>2. a <= row.known + row.reserved /\ f <= journal.known + journal.reserved
      BY DEF MoneyInv, SnapshotCovered
    <3>3. /\ row.known + row.reserved \in Int /\ journal.known + journal.reserved \in Int
      BY DEF Inv, TypeOK, TaskResult
    <3> HIDE DEF a, b, f, g
    <3>4. b <= row.known + row.reserved /\ g <= journal.known + journal.reserved
      BY <3>1, <3>2, <3>3
    <3>5. QED
      BY <3>4 DEF SnapshotCovered, Recorded, b, g
  <2>3. QED
    BY <2>1, <2>2
<1> HIDE DEF d, e, c, k, x, y, est
<1>13. e <= Ceiling + y
  BY <1>7, <1>8, <1>9, <1>10, <1>11
<1>14. k <= task'.known + task'.reserved
  <2>1. CASE settled
    BY <1>3, <1>7, <1>8, <1>9, <1>11, <2>1 DEF est
  <2>2. CASE ~settled /\ run.actual = Unknown
    BY <1>3, <1>7, <1>8, <1>10, <2>2
  <2>3. CASE ~settled /\ run.actual # Unknown
    BY <1>3, <1>7, <1>8, <1>9, <1>10, <1>11, <2>3
  <2>4. QED
    BY <2>1, <2>2, <2>3
<1>15. ASSUME ~run'.budgetUnavailable PROVE e = task'.known + task'.reserved
  <2>1. ~run.budgetUnavailable /\ settled = (run.actual # Unknown)
    BY <1>15
  <2>2. CASE settled
    BY <1>3, <1>7, <1>8, <1>9, <1>11, <2>1, <2>2 DEF est
  <2>3. CASE ~settled
    <3>1. run.actual = Unknown /\ ledger' = ledger
      BY <2>1, <2>3
    <3>2. QED
      BY <1>3, <1>7, <1>8, <1>10, <2>1, <2>3, <3>1
  <2>4. QED
    BY <2>2, <2>3
<1>16. Balanced' /\ Covered' /\ WithinCeiling'
  BY <1>5, <1>13, <1>14, <1>15 DEF Balanced, Covered, WithinCeiling, e, k, y
<1>17. QED
  BY <1>12, <1>16 DEF MoneyInv

LEMMA AfterSettleFlags ==
    ASSUME Inv, AccountInv, run.pc = "settle", NEW violation \in BOOLEAN, NEW unavailable \in BOOLEAN,
           NEW q, q = AfterSettle([run EXCEPT !.costViolation = violation,
                                              !.budgetUnavailable = unavailable])
    PROVE  q.pc # "intent" /\ q.budgetUnavailable = unavailable
<1> DEFINE r == [run EXCEPT !.costViolation = violation, !.budgetUnavailable = unavailable]
<1>1. RunOK(run) /\ Running /\ Tracked(run, task)
  BY DEF Inv, AccountInv, Running, Ended
<1>2. /\ RunOK(r) /\ r.pc = "settle" /\ r.kind = run.kind /\ r.tool = run.tool
      /\ r.attempt = run.attempt /\ r.id = run.id /\ r.actual = run.actual
      /\ r.failure = run.failure /\ r.dispatched = run.dispatched
      /\ r.budgetUnavailable = unavailable
  BY <1>1 DEF RunOK, Run
<1>3. q = AfterSettle(r) /\ TRUE \in BOOLEAN
  OBVIOUS
<1> HIDE DEF r
<1>4. QED
  BY <1>1, <1>2, <1>3, AfterSettleTracked DEF SameFlags

LEMMA SettleKeepsMoney ==
    ASSUME Inv, AccountInv, MoneyInv, Settle \/ SettleUnavailable PROVE MoneyInv'
<1> DEFINE violation == run.costViolation \/ Overran
<1>1. violation \in BOOLEAN /\ run.budgetUnavailable \in BOOLEAN /\ TRUE \in BOOLEAN
        /\ (run.actual # Unknown) \in BOOLEAN /\ FALSE \in BOOLEAN
  BY DEF Inv, TypeOK, Run
<1>2. CASE Settle
  <2>1. run' = AfterSettle([run EXCEPT !.costViolation = violation,
                                       !.budgetUnavailable = run.budgetUnavailable])
    <3>1. [run EXCEPT !.costViolation = violation]
            = [run EXCEPT !.costViolation = violation,
                          !.budgetUnavailable = run.budgetUnavailable]
      BY DEF Inv, TypeOK, Run
    <3>2. QED
      BY <1>2, <3>1 DEF Settle
  <2> HIDE DEF violation
  <2>2. run'.pc # "intent" /\ run'.budgetUnavailable = run.budgetUnavailable
    BY <1>1, <1>2, <2>1, AfterSettleFlags DEF Settle
  <2>3. QED
    BY <1>1, <1>2, <2>2, ChargeKeepsMoney DEF Settle
<1>3. CASE SettleUnavailable
  <2>1. run' = AfterSettle([run EXCEPT !.costViolation = violation, !.budgetUnavailable = TRUE])
    BY <1>3 DEF SettleUnavailable
  <2> HIDE DEF violation
  <2>2. run'.pc # "intent" /\ run'.budgetUnavailable
    BY <1>1, <1>3, <2>1, AfterSettleFlags DEF SettleUnavailable
  <2>3. QED
    BY <1>1, <1>3, <2>2, ChargeKeepsMoney DEF SettleUnavailable
<1>4. QED
  BY <1>2, <1>3

LEMMA DispatchKeepsMoney ==
    ASSUME Inv, AccountInv, MoneyInv, NEW f \in Failures, NEW actual \in Costs \cup {Unknown},
           Dispatch(f, actual)
    PROVE  MoneyInv'
<1>1. RunOK(run) /\ Running /\ run.pc = "recheck" /\ UNCHANGED <<task, row, journal, ledger>>
  BY DEF Inv, Dispatch, Running, Ended
<1>2. run'.pc \in {"evidence", "settle"} /\ run'.budgetUnavailable = run.budgetUnavailable
  BY <1>1 DEF Dispatch, RunOK, Run
<1>3. QED
  BY <1>1, <1>2, SameMoney

LEMMA ReplayToolKeepsMoney ==
    ASSUME Inv, AccountInv, MoneyInv, ReplayTool PROVE MoneyInv'
<1> DEFINE n == task.recoveries + 1
           r == [run EXCEPT !.replay = TRUE]
<1>1. RunOK(run) /\ Running /\ run.pc = "replay_tool" /\ task \in TaskResult
        /\ UNCHANGED <<row, journal, ledger>>
  BY DEF Inv, TypeOK, ReplayTool, Quiet, Running, Ended
<1>2. task' = [task EXCEPT !.recoveries = n, !.status = "VALIDATING"]
        /\ run' = AdmitAt(r, run.kind)
  BY DEF ReplayTool
<1> HIDE DEF n
<1>3. task'.ops = task.ops /\ task'.known = task.known /\ task'.reserved = task.reserved
  BY <1>1, <1>2 DEF TaskResult
<1>4. run'.pc = "admit" /\ run'.budgetUnavailable = run.budgetUnavailable
  BY <1>1, <1>2 DEF AdmitAt, RunOK, Run
<1>5. QED
  BY <1>1, <1>3, <1>4, SameMoney

LEMMA NextMoney == Inv /\ AccountInv /\ MoneyInv /\ [Next]_vars => MoneyInv'
<1> SUFFICES ASSUME Inv, AccountInv, MoneyInv, [Next]_vars PROVE MoneyInv'
  OBVIOUS
<1>1. CASE Step
  BY <1>1, StepShapes, QuietKeepsMoney, SaveKeepsMoney, ReserveKeepsMoney,
     ReserveUnavailableKeepsMoney, DispatchKeepsMoney, SettleKeepsMoney, ReplayToolKeepsMoney
<1>2. CASE UNCHANGED vars
  BY <1>2 DEF vars, MoneyInv, Balanced, Covered, WithinCeiling, SnapshotCovered, Counted, Recorded,
              Running
<1>3. QED
  BY <1>1, <1>2, CreateKeepsMoney, CreateUnavailableKeepsMoney, CrashKeepsMoney,
     ReconcileKeepsMoney DEF Next

\* remaining() and check_admission keep the task under its own ceiling, whatever
\* settlements were lost: what the authority debits passes the ceiling only by
\* what reported costs exceeded their reservations.
THEOREM SpendingBounded == Spec => []SpendWithinCeiling
<1>1. Inv /\ MoneyInv => SpendWithinCeiling
  BY MoneyProperties
<1>2. QED
  BY <1>1, InitInv, NextInv, InitAccount, NextAccount, InitMoney, NextMoney, PTL DEF Spec

\* known_cost_usd and reserved_cost_usd cover what the authority debits for the
\* recorded operations: in memory while the execution runs, and in the stored
\* revision after any crash, lost acknowledgement or journal replay.
THEOREM AccountIsCovered == Spec => []AccountCoversLedger
<1>1. Inv /\ MoneyInv => AccountCoversLedger
  BY MoneyProperties
<1>2. QED
  BY <1>1, InitInv, NextInv, InitAccount, NextAccount, InitMoney, NextMoney, PTL DEF Spec

-----------------------------------------------------------------------------
(* The execution is bounded and its side effects are safe.                 *)
(*                                                                         *)
(* OperationsBounded needs what the run may still reserve at every point:  *)
(* what it reserved and what is left stay within the bound, an operation   *)
(* takes one from what is left, and no step adds to it.  SideEffectsSafe   *)
(* needs the tool calls recorded so far to be of the current or an earlier *)
(* step of the plan, and a call to be repeated only as a replay.           *)

\* What a generation attempt, its V0 validation, its evaluators with their
\* retries and its V3 validation may reserve.
Evaluations == Evaluators * (EvaluatorRetries + 1)
Domains == IF Domain THEN 1 ELSE 0
Round == 2 + Evaluations + Domains

Bound == (IF Live THEN 1 ELSE 0) + MaxGenerations * Round + Tools + MaxToolRecoveries

\* The calls that the current evaluator and the ones after it may still take.
EvaluationsLeft(r) == (Evaluators - r.evaluator) * (EvaluatorRetries + 1) - r.retry

\* What the attempt in progress may still reserve.  A generation is reserved
\* before it is counted.
AttemptLeft(r) ==
    CASE r.pc = "intent" /\ r.kind = "generation" -> -1
      [] r.pc \in {"recheck", "evidence", "settle"} /\ r.kind = "generation" -> Round - 1
      [] r.pc = "validating" -> Round - 1
      [] r.pc = "admit" /\ r.kind = "validation" -> Round - 1
      [] r.pc \in InOperation /\ r.kind = "validation" -> Evaluations + Domains
      [] r.pc = "admit" /\ r.kind = "evaluation" -> EvaluationsLeft(r) + Domains
      [] r.pc \in InOperation /\ r.kind = "evaluation" -> EvaluationsLeft(r) - 1 + Domains
      [] r.pc = "retry_evaluation" -> EvaluationsLeft(r) - 1 + Domains
      [] r.pc = "admit" /\ r.kind = "domain" -> Domains
      [] OTHER -> 0

\* What is due before the first generation, and of the tools of the plan.
ClassificationLeft(r) ==
    IF Live /\ (r.pc = "preflight" \/ (r.pc = "admit" /\ r.kind = "classification"))
    THEN 1 ELSE 0

ToolsLeft(r) == Tools - r.tool + (IF r.pc = "admit" /\ r.kind \in ToolKinds THEN 1 ELSE 0)

RunLeft(r) == ClassificationLeft(r) + AttemptLeft(r) + ToolsLeft(r)

\* How many more operations run r of task t may reserve.
Left(r, t) == RunLeft(r) + (MaxGenerations - t.generations) * Round
                + (MaxToolRecoveries - t.recoveries)

\* The counters are within their limits, strictly so where another is due.
WithinLimits(r, t) ==
    /\ t.generations <= MaxGenerations /\ t.recoveries <= MaxToolRecoveries
    /\ r.tool <= Tools /\ r.retry <= EvaluatorRetries
    /\ r.pc = "intent" /\ r.kind = "generation" => t.generations < MaxGenerations
    /\ r.pc = "replay_tool" => t.recoveries < MaxToolRecoveries
    /\ r.pc = "retry_evaluation" => r.retry < EvaluatorRetries /\ r.kind = "evaluation"
    /\ r.kind = "evaluation" /\ r.pc \in {"admit", "retry_evaluation"} \cup InOperation =>
          r.evaluator < Evaluators
    /\ r.kind = "domain" => Domain
    /\ r.kind = "classification" => Live

ToolOp(t, i) == t.ops[i].status # "absent" /\ t.ops[i].kind \in ToolKinds

\* The tool calls so far are of the current or an earlier step of the plan; the
\* first one of a step is on the tool itself, and only a safe one gets an id.
ToolsPaced(r, t) ==
    /\ \A i \in Ids : ToolOp(t, i) => t.ops[i].step <= r.tool
    /\ r.kind \in ToolKinds /\ r.pc \in {"admit", "intent"} /\ ~r.replay =>
          /\ r.kind = "tool"
          /\ \A i \in Ids : ToolOp(t, i) => t.ops[i].step < r.tool
    /\ r.kind \in ToolKinds /\ r.pc = "intent" => SafeToolCall(r)

SafeRecords(t) ==
    /\ \A i, j \in Ids :
          (/\ ToolOp(t, i) /\ ToolOp(t, j) /\ t.ops[i].step = t.ops[j].step
           /\ ToolPlan[t.ops[i].step] = "unkeyed") => i = j
    /\ \A i \in Ids : ToolOp(t, i) /\ ToolPlan[t.ops[i].step] = "keyed" => t.ops[i].kind = "tool"

Used(l) == {i \in Ids : l[i].state # "free"}

Paced(r, t) == WithinLimits(r, t) /\ ToolsPaced(r, t)

\* Until the execution stops, what it reserved and what it may still reserve
\* stay within the bound.
BoundInv ==
    /\ Running => Paced(run, task)
    /\ Running /\ run.pc # "stop" => Cardinality(Used(ledger)) + Left(run, task) <= Bound
    /\ Cardinality(Used(ledger)) <= Bound
    /\ SafeRecords(task) /\ SafeRecords(row) /\ SafeRecords(journal)
-----------------------------------------------------------------------------
(* The arithmetic of what is left.                                         *)

LEMMA RoundFacts ==
    /\ Evaluators \in Nat /\ EvaluatorRetries \in Nat /\ MaxGenerations \in Nat
    /\ MaxToolRecoveries \in Nat /\ Tools \in Nat
    /\ Evaluations \in Nat /\ Domains \in 0..1 /\ Round \in Nat
    /\ Round = 2 + Evaluations + Domains
<1>1. /\ Evaluators \in Nat /\ EvaluatorRetries \in Nat /\ MaxGenerations \in Nat
      /\ MaxToolRecoveries \in Nat /\ Tools \in Nat
  BY ExecutionAssumption DEF Tools
<1>2. \A a, b \in Nat : a * (b + 1) \in Nat
  OBVIOUS
<1>3. Evaluations \in Nat
  BY <1>1, <1>2 DEF Evaluations
<1>4. Domains \in 0..1
  BY DEF Domains
<1>5. QED
  BY <1>1, <1>3, <1>4 DEF Round

LEMMA Products ==
    /\ \A a, b \in Nat : a * b \in Nat
    /\ \A a \in Int, b \in Nat : (a + 1) * b = a * b + b
    /\ \A a, b \in Nat : a >= 1 => a * b >= b
  OBVIOUS

LEMMA EvaluationFacts ==
    ASSUME NEW r \in Run, r.evaluator < Evaluators, r.retry <= EvaluatorRetries
    PROVE  /\ EvaluationsLeft(r) \in Nat /\ EvaluationsLeft(r) >= 1
           /\ \A q : q.evaluator = r.evaluator /\ q.retry = r.retry + 1 =>
                        EvaluationsLeft(q) = EvaluationsLeft(r) - 1
           /\ \A q : q.evaluator = r.evaluator + 1 /\ q.retry = 0 =>
                        EvaluationsLeft(q) <= EvaluationsLeft(r) - 1
<1> DEFINE a == Evaluators - (r.evaluator + 1)
           b == EvaluatorRetries + 1
<1>1. r.evaluator \in Nat /\ r.retry \in Nat
  BY DEF Run
<1>2. a \in Nat /\ b \in Nat /\ Evaluators - r.evaluator = a + 1
  BY <1>1, RoundFacts
<1>3. a * b \in Nat /\ (a + 1) * b = a * b + b
  BY <1>2, Products
<1>4. EvaluationsLeft(r) = (a + 1) * b - r.retry
  BY <1>2 DEF EvaluationsLeft
<1>5. \A q : q.evaluator = r.evaluator + 1 /\ q.retry = 0 => EvaluationsLeft(q) = a * b - 0
  BY DEF EvaluationsLeft
<1>6. \A q : q.evaluator = r.evaluator /\ q.retry = r.retry + 1 =>
                EvaluationsLeft(q) = (a + 1) * b - (r.retry + 1)
  BY <1>2 DEF EvaluationsLeft
<1>7. r.retry < b
  BY <1>1, RoundFacts
<1> HIDE DEF a, b
<1>8. QED
  BY <1>1, <1>2, <1>3, <1>4, <1>5, <1>6, <1>7

LEMMA EvaluationsWithin ==
    ASSUME NEW r \in Run, r.evaluator < Evaluators
    PROVE  EvaluationsLeft(r) \in Int /\ EvaluationsLeft(r) <= Evaluations
<1> DEFINE b == EvaluatorRetries + 1
           a == Evaluators - r.evaluator
           e == r.evaluator
<1>1. e \in Nat /\ r.retry \in Nat
  BY DEF Run
<1>2. a \in Nat /\ b \in Nat /\ Evaluators = a + e
  BY <1>1, RoundFacts
<1>3. \A x, y, z \in Nat : (x + y) * z = x * z + y * z
  OBVIOUS
<1>4. a * b \in Nat /\ e * b \in Nat
  BY <1>1, <1>2, Products
<1>5. EvaluationsLeft(r) = a * b - r.retry /\ Evaluations = Evaluators * b
  BY DEF EvaluationsLeft, Evaluations
<1> HIDE DEF a, b, e
<1>6. Evaluators * b = a * b + e * b
  BY <1>1, <1>2, <1>3
<1>7. QED
  BY <1>1, <1>4, <1>5, <1>6

\* What a run may still reserve is a number, and negative only between the
\* reservation of a generation and its count.
LEMMA RunLeftFloor ==
    ASSUME NEW r \in Run, NEW t, WithinLimits(r, t)
    PROVE  /\ ClassificationLeft(r) \in 0..1 /\ ToolsLeft(r) \in Nat
           /\ AttemptLeft(r) \in Int /\ RunLeft(r) \in Int /\ r.tool \in Nat
           /\ Tools - r.tool \in Nat /\ ToolsLeft(r) >= Tools - r.tool
           /\ ~(r.pc = "intent" /\ r.kind = "generation") =>
                 AttemptLeft(r) >= 0 /\ RunLeft(r) >= Tools - r.tool
           /\ r.pc = "intent" /\ r.kind = "generation" => RunLeft(r) >= -1
<1>1. r.tool \in Nat /\ r.tool <= Tools
  BY DEF WithinLimits, Run
<1>2. ClassificationLeft(r) \in 0..1 /\ ToolsLeft(r) \in Nat /\ Tools - r.tool \in Nat
        /\ ToolsLeft(r) >= Tools - r.tool
  BY <1>1, RoundFacts DEF ClassificationLeft, ToolsLeft
<1>3. (r.kind = "evaluation" /\ r.pc \in {"admit", "retry_evaluation"} \cup InOperation) =>
         EvaluationsLeft(r) \in Nat /\ EvaluationsLeft(r) >= 1
  BY EvaluationFacts DEF WithinLimits
<1>4. r.pc = "retry_evaluation" => r.kind = "evaluation"
  BY DEF WithinLimits
<1>5. AttemptLeft(r) \in Int
  BY <1>3, <1>4, RoundFacts DEF AttemptLeft
<1>6. ~(r.pc = "intent" /\ r.kind = "generation") => AttemptLeft(r) >= 0
  BY <1>3, <1>4, RoundFacts DEF AttemptLeft
<1>7. r.pc = "intent" /\ r.kind = "generation" => AttemptLeft(r) = -1
  BY DEF AttemptLeft
<1>8. QED
  BY <1>1, <1>2, <1>5, <1>6, <1>7 DEF RunLeft

LEMMA LeftFloor ==
    ASSUME NEW r \in Run, NEW t \in TaskResult, WithinLimits(r, t)
    PROVE  Left(r, t) \in Nat
<1> DEFINE m == MaxGenerations - t.generations
<1>1. t.generations \in Nat /\ t.recoveries \in Nat
  BY DEF TaskResult
<1>2. m \in Nat /\ MaxToolRecoveries - t.recoveries \in Nat
        /\ (r.pc = "intent" /\ r.kind = "generation" => m >= 1)
  BY <1>1, RoundFacts DEF WithinLimits
<1>3. Left(r, t) = RunLeft(r) + m * Round + (MaxToolRecoveries - t.recoveries)
  BY DEF Left
<1> HIDE DEF m
<1>4. m * Round \in Nat /\ (m >= 1 => m * Round >= Round) /\ Round >= 2 /\ Round \in Nat
  BY <1>2, Products, RoundFacts
<1>5. RunLeft(r) \in Int /\ RunLeft(r) >= -1
        /\ (~(r.pc = "intent" /\ r.kind = "generation") => RunLeft(r) >= 0)
  BY RunLeftFloor
<1>6. QED
  BY <1>2, <1>3, <1>4, <1>5
-----------------------------------------------------------------------------
(* Steps that go on with no more left than before.                         *)

SameTools(t, u) ==
    \A i \in Ids : /\ ToolOp(u, i) <=> ToolOp(t, i)
                   /\ ToolOp(t, i) => u.ops[i].kind = t.ops[i].kind /\ u.ops[i].step = t.ops[i].step

\* A revision u of the task counts the same attempts and tool calls.
SameCounts(u) == /\ u.generations = task.generations /\ u.recoveries = task.recoveries
                 /\ SameTools(task, u)

\* The run may go on as q with task u.
Continues(q, u) ==
    /\ SafeRecords(u)
    /\ q.pc \notin Ended => Paced(q, u)
    /\ q.pc \notin Ended \cup {"stop"} =>
          run.pc # "stop" /\ Left(q, u) \in Int /\ Left(q, u) <= Left(run, task)

LEMMA SameSafe ==
    ASSUME NEW t, NEW u, SameTools(t, u), SafeRecords(t) PROVE SafeRecords(u)
  BY DEF SameTools, SafeRecords

LEMMA SamePaced ==
    ASSUME NEW t, NEW u, SameTools(t, u), NEW r, ToolsPaced(r, t) PROVE ToolsPaced(r, u)
  BY DEF SameTools, ToolsPaced

LEMMA ContinuesSame ==
    ASSUME NEW q, NEW u, Continues(q, task), SameCounts(u) PROVE Continues(q, u)
<1>1. SafeRecords(u)
  BY SameSafe DEF Continues, SameCounts
<1>2. Left(q, u) = Left(q, task)
  BY DEF Left, SameCounts
<1>3. Paced(q, task) => Paced(q, u)
  BY SamePaced DEF Paced, WithinLimits, SameCounts
<1>4. QED
  BY <1>1, <1>2, <1>3 DEF Continues

LEMMA UsedFinite ==
    ASSUME NEW l PROVE IsFiniteSet(Used(l)) /\ Cardinality(Used(l)) \in Nat
<1>1. IsFiniteSet(Ids)
  BY FS_Interval, ExecutionAssumption DEF Ids
<1>2. Used(l) \subseteq Ids
  BY DEF Used
<1>3. QED
  BY <1>1, <1>2, FS_Subset, FS_CardinalityType

LEMMA BoundType == Bound \in Int
<1>1. MaxGenerations * Round \in Nat
  BY Products, RoundFacts
<1>2. QED
  BY <1>1, RoundFacts DEF Bound

LEMMA BlankSafe == SafeRecords(NoTask) /\ \A r : r.tool \in Nat => \A i \in Ids : ~ToolOp(NoTask, i)
  BY DEF SafeRecords, ToolOp, NoTask, NoOp

\* A step of the run that reserves nothing.
LEMMA MoveKeepsBound ==
    ASSUME Inv, BoundInv, Running, Used(ledger') = Used(ledger), Continues(run', task'),
           row' \in {row, task'}, journal' = journal
    PROVE  BoundInv'
<1>1. Cardinality(Used(ledger)) \in Nat /\ Bound \in Int /\ Left(run, task) \in Nat
  BY UsedFinite, BoundType, LeftFloor DEF Inv, TypeOK, BoundInv, Paced
<1>2. Used(ledger') = Used(ledger)
  OBVIOUS
<1>3. SafeRecords(task') /\ SafeRecords(row') /\ SafeRecords(journal')
  BY DEF Continues, BoundInv
<1>4. Running' => Paced(run', task')
  BY DEF Continues, Running
<1>5. Running' /\ run'.pc # "stop" => Cardinality(Used(ledger')) + Left(run', task') <= Bound
  BY <1>1, <1>2 DEF Continues, Running, BoundInv
<1>6. Cardinality(Used(ledger')) <= Bound
  BY <1>2 DEF BoundInv
<1>7. QED
  BY <1>3, <1>4, <1>5, <1>6 DEF BoundInv

LEMMA EndsBound ==
    ASSUME BoundInv, UNCHANGED ledger, ~Running', SafeRecords(task'), SafeRecords(row'),
           SafeRecords(journal')
    PROVE  BoundInv'
<1>1. Used(ledger') = Used(ledger)
  BY DEF Used
<1>2. QED
  BY <1>1 DEF BoundInv

LEMMA SaveKeepsBound ==
    ASSUME Inv, BoundInv, Running, Quiet, NEW t \in TaskResult, NEW r, Save(t, r), Continues(r, t)
    PROVE  BoundInv'
<1> DEFINE n == [t EXCEPT !.revision = @ + 1]
<1>1. n.ops = t.ops /\ n.generations = t.generations /\ n.recoveries = t.recoveries
  BY DEF TaskResult
<1>2. \/ row' = n /\ task' = n /\ run' = r /\ journal' = journal
      \/ row' \in {row, n} /\ journal' = n /\ task' = NoTask /\ run' = EndedRun("raised")
      \/ row' = row /\ journal' = journal /\ task' = NoTask /\ run' = EndedRun("rejected")
  BY DEF Save
<1> HIDE DEF n
<1>3. Continues(r, n)
  BY <1>1 DEF Continues, SafeRecords, ToolOp, Paced, WithinLimits, ToolsPaced, Left
<1>4. SafeRecords(n) /\ SafeRecords(NoTask) /\ SafeRecords(row) /\ SafeRecords(journal)
  BY <1>3, BlankSafe DEF Continues, BoundInv
<1>5. EndedRun("raised").pc = "raised" /\ EndedRun("rejected").pc = "rejected"
  BY EndedOK DEF Ended
<1>6. UNCHANGED ledger
  BY DEF Quiet
<1>7. CASE row' = n /\ task' = n /\ run' = r /\ journal' = journal
  BY <1>3, <1>6, <1>7, MoveKeepsBound
<1>8. CASE \/ row' \in {row, n} /\ journal' = n /\ task' = NoTask /\ run' = EndedRun("raised")
           \/ row' = row /\ journal' = journal /\ task' = NoTask /\ run' = EndedRun("rejected")
  BY <1>4, <1>5, <1>6, <1>8, EndsBound DEF Running, Ended
<1>9. QED
  BY <1>2, <1>7, <1>8

LEMMA QuietKeepsBound ==
    ASSUME Inv, BoundInv, Running, Quiet, UNCHANGED <<task, row, journal>>, Continues(run', task)
    PROVE  BoundInv'
<1>1. Continues(run', task') /\ row' \in {row, task'} /\ UNCHANGED ledger /\ journal' = journal
  BY DEF Quiet
<1>2. QED
  BY <1>1, MoveKeepsBound
-----------------------------------------------------------------------------
(* The places a run may go to.                                             *)

\* The counters of the run itself.
SamePace(r, q) == /\ q.kind = r.kind /\ q.tool = r.tool /\ q.evaluator = r.evaluator
                  /\ q.retry = r.retry /\ q.replay = r.replay

LEMMA HaltContinues ==
    ASSUME Inv, BoundInv, Running, NEW status \in Terminal
    PROVE  Continues(Halt(run, status), task)
<1> DEFINE q == Halt(run, status)
<1>1. q.pc = "stop" /\ SamePace(run, q)
  BY DEF Halt, Inv, TypeOK, Run, SamePace
<1> HIDE DEF q
<1>2. Paced(run, task) /\ SafeRecords(task)
  BY DEF BoundInv
<1>3. Paced(q, task)
  BY <1>1, <1>2 DEF Paced, WithinLimits, ToolsPaced, SamePace, InOperation
<1>4. Continues(q, task)
  BY <1>1, <1>2, <1>3 DEF Continues
<1>5. QED
  BY <1>4 DEF q

\* Points where nothing of an attempt is due but what the limits leave.
Between == {"classify", "route", "loop", "finish_attempt", "recover", "reroute",
            "recover_tool", "complete"}

LEMMA BetweenLeft ==
    ASSUME NEW q, q.pc \in Between
    PROVE  RunLeft(q) = 0 + 0 + (Tools - q.tool + 0)
  BY DEF RunLeft, ClassificationLeft, AttemptLeft, ToolsLeft, Between, InOperation

LEMMA BetweenContinues ==
    ASSUME Inv, BoundInv, Running, run.pc \notin {"stop", "intent"}, NEW q, q.pc \in Between,
           q.tool = run.tool, q.kind = run.kind, q.retry \in {run.retry, 0}
    PROVE  Continues(q, task)
<1>1. run \in Run /\ task \in TaskResult /\ Paced(run, task) /\ SafeRecords(task)
  BY DEF Inv, TypeOK, BoundInv
<1>2. RunLeft(run) \in Int /\ RunLeft(run) >= Tools - run.tool /\ Tools - run.tool \in Nat
  BY <1>1, RunLeftFloor DEF Paced
<1>3. RunLeft(q) <= RunLeft(run) /\ RunLeft(q) \in Int
  BY <1>2, BetweenLeft
<1>4. (MaxGenerations - task.generations) * Round \in Int /\ MaxToolRecoveries - task.recoveries \in Int
  BY <1>1, RoundFacts DEF TaskResult
<1>5. Left(q, task) \in Int /\ Left(q, task) <= Left(run, task)
  BY <1>2, <1>3, <1>4 DEF Left
<1>6. WithinLimits(q, task)
  BY <1>1, RoundFacts DEF Paced, WithinLimits, Between, InOperation
<1>7. ToolsPaced(q, task)
  BY <1>1 DEF Paced, ToolsPaced, Between
<1>8. QED
  BY <1>1, <1>5, <1>6, <1>7 DEF Continues, Paced, Between

\* Left depends on the run through RunLeft alone.
LEMMA LeftCompares ==
    ASSUME Inv, BoundInv, Running, NEW q, RunLeft(q) \in Int, RunLeft(q) <= RunLeft(run)
    PROVE  Left(q, task) \in Int /\ Left(q, task) <= Left(run, task)
<1>1. run \in Run /\ task \in TaskResult /\ WithinLimits(run, task)
  BY DEF Inv, TypeOK, BoundInv, Paced
<1>2. RunLeft(run) \in Int
  BY <1>1, RunLeftFloor
<1>3. (MaxGenerations - task.generations) * Round \in Int /\ MaxToolRecoveries - task.recoveries \in Int
  BY <1>1, RoundFacts DEF TaskResult
<1>4. QED
  BY <1>2, <1>3 DEF Left

\* Within an operation that has its intent.
LEMMA OperationContinues ==
    ASSUME Inv, BoundInv, Running, run.pc \in {"recheck", "evidence", "settle"},
           NEW q, SamePace(run, q), q.pc \in {"evidence", "settle", "finish"},
           q.pc = "finish" => run.kind # "generation"
    PROVE  Continues(q, task)
<1>1. run \in Run /\ Paced(run, task) /\ SafeRecords(task)
  BY DEF Inv, TypeOK, BoundInv
<1>2. EvaluationsLeft(q) = EvaluationsLeft(run)
  BY DEF EvaluationsLeft, SamePace
<1>3. ClassificationLeft(q) = ClassificationLeft(run) /\ ToolsLeft(q) = ToolsLeft(run)
  BY DEF ClassificationLeft, ToolsLeft, SamePace
<1>4. AttemptLeft(q) = AttemptLeft(run)
  BY <1>2 DEF AttemptLeft, SamePace, InOperation
<1>5. RunLeft(q) = RunLeft(run) /\ RunLeft(run) \in Int
  BY <1>1, <1>3, <1>4, RunLeftFloor DEF RunLeft, Paced
<1>6. Left(q, task) \in Int /\ Left(q, task) <= Left(run, task)
  BY <1>5, LeftCompares
<1>7. WithinLimits(q, task)
  BY <1>1 DEF Paced, WithinLimits, SamePace, InOperation
<1>8. ToolsPaced(q, task)
  BY <1>1 DEF Paced, ToolsPaced, SamePace
<1>9. QED
  BY <1>1, <1>6, <1>7, <1>8 DEF Continues, Paced

LEMMA AdmitFields ==
    ASSUME NEW r \in Run, NEW kind
    PROVE  LET q == AdmitAt(r, kind)
           IN  /\ q.pc = "admit" /\ q.kind = kind /\ q.tool = r.tool /\ q.evaluator = r.evaluator
               /\ q.retry = r.retry /\ q.replay = r.replay
  BY DEF AdmitAt, Run

\* Where an operation other than a tool call is asked for next.
LEMMA AdmitContinues ==
    ASSUME Inv, BoundInv, Running, run.pc # "stop", NEW q, q.pc = "admit",
           q.kind \in Kinds \ ToolKinds, q.tool = run.tool, q.retry \in Nat,
           q.retry <= EvaluatorRetries,
           q.kind = "evaluation" => q.evaluator < Evaluators,
           q.kind = "domain" => Domain, q.kind = "classification" => Live,
           RunLeft(q) \in Int, RunLeft(q) <= RunLeft(run)
    PROVE  Continues(q, task)
<1>1. Paced(run, task) /\ SafeRecords(task)
  BY DEF BoundInv
<1>2. Left(q, task) \in Int /\ Left(q, task) <= Left(run, task)
  BY LeftCompares
<1>3. WithinLimits(q, task)
  BY <1>1 DEF Paced, WithinLimits, InOperation
<1>4. ToolsPaced(q, task)
  BY <1>1 DEF Paced, ToolsPaced
<1>5. QED
  BY <1>1, <1>2, <1>3, <1>4 DEF Continues, Paced

\* The next evaluation, the domain validation or the end of the attempt, from
\* run r, which is the current one or has finished with its evaluator.
LEMMA NextVerificationContinues ==
    ASSUME Inv, BoundInv, Running, run.pc \in InOperation \ {"intent"}, NEW r \in Run,
           r.kind = run.kind, r.kind \in {"validation", "evaluation"}, r.tool = run.tool,
           r.retry <= EvaluatorRetries,
           RunLeft(run) \in Int,
           RunLeft(run) >= Domains + (Tools - run.tool),
           r.evaluator < Evaluators =>
              RunLeft(run) >= EvaluationsLeft(r) + Domains + (Tools - run.tool)
    PROVE  Continues(NextVerification(r), task)
<1>1. run \in Run /\ Paced(run, task) /\ r.tool \in Nat /\ r.retry \in Nat /\ r.evaluator \in Nat
        /\ Tools - run.tool \in Int /\ Evaluators \in Nat
  BY RoundFacts DEF Inv, TypeOK, BoundInv, Run
<1>2. CASE r.evaluator < Evaluators
  <2> DEFINE q == AdmitAt(r, "evaluation")
  <2>1. q.pc = "admit" /\ q.kind = "evaluation" /\ q.tool = r.tool /\ q.evaluator = r.evaluator
        /\ q.retry = r.retry
    BY AdmitFields
  <2>2. NextVerification(r) = q
    BY <1>1, <1>2 DEF NextVerification
  <2> HIDE DEF q
  <2>3. EvaluationsLeft(q) = EvaluationsLeft(r) /\ EvaluationsLeft(r) \in Int
    BY <1>2, <2>1, EvaluationsWithin DEF EvaluationsLeft
  <2>4. RunLeft(q) = 0 + (EvaluationsLeft(q) + Domains) + (Tools - q.tool + 0)
    BY <2>1 DEF RunLeft, ClassificationLeft, AttemptLeft, ToolsLeft, ToolKinds, InOperation
  <2>5. RunLeft(q) \in Int /\ RunLeft(q) <= RunLeft(run)
    BY <1>1, <1>2, <2>1, <2>3, <2>4, RoundFacts
  <2>6. QED
    BY <1>1, <1>2, <2>1, <2>2, <2>5, AdmitContinues DEF Kinds, ToolKinds, InOperation
<1>3. CASE r.evaluator >= Evaluators /\ Domain
  <2> DEFINE q == AdmitAt(r, "domain")
  <2>1. q.pc = "admit" /\ q.kind = "domain" /\ q.tool = r.tool /\ q.retry = r.retry
    BY AdmitFields
  <2>2. NextVerification(r) = q
    BY <1>1, <1>3 DEF NextVerification
  <2> HIDE DEF q
  <2>3. RunLeft(q) = 0 + Domains + (Tools - q.tool + 0)
    BY <2>1 DEF RunLeft, ClassificationLeft, AttemptLeft, ToolsLeft, ToolKinds, InOperation
  <2>4. RunLeft(q) \in Int /\ RunLeft(q) <= RunLeft(run)
    BY <1>1, <2>1, <2>3, RoundFacts
  <2>5. QED
    BY <1>1, <1>3, <2>1, <2>2, <2>4, AdmitContinues DEF Kinds, ToolKinds, InOperation
<1>4. CASE r.evaluator >= Evaluators /\ ~Domain
  <2> DEFINE q == [r EXCEPT !.pc = "finish_attempt"]
  <2>1. q.pc = "finish_attempt" /\ q.kind = r.kind /\ q.tool = r.tool /\ q.retry = r.retry
    BY DEF Run
  <2>2. NextVerification(r) = q
    BY <1>1, <1>4 DEF NextVerification
  <2> HIDE DEF q
  <2>3. RunLeft(q) = 0 + 0 + (Tools - q.tool + 0)
    BY <2>1, BetweenLeft DEF Between
  <2>4. RunLeft(q) \in Int /\ RunLeft(q) <= RunLeft(run)
    BY <1>1, <2>1, <2>3, RoundFacts
  <2>5. Left(q, task) \in Int /\ Left(q, task) <= Left(run, task)
    BY <2>4, LeftCompares
  <2>6. WithinLimits(q, task)
    BY <1>1, <2>1 DEF Paced, WithinLimits, InOperation
  <2>7. ToolsPaced(q, task)
    BY <1>1, <2>1 DEF Paced, ToolsPaced
  <2>8. QED
    BY <2>1, <2>2, <2>5, <2>6, <2>7 DEF Continues, Paced, BoundInv, InOperation
<1>5. QED
  BY <1>1, <1>2, <1>3, <1>4

LEMMA NextToolContinues ==
    ASSUME Inv, BoundInv, Running, run.pc \in {"finish", "finish_attempt"},
           NEW r \in Run, SamePace(run, r)
    PROVE  Continues(NextTool(r), task)
<1>1. /\ run \in Run /\ Paced(run, task) /\ SafeRecords(task) /\ r.tool = run.tool /\ r.tool \in Nat
      /\ r.retry = run.retry /\ r.kind = run.kind
  BY DEF Inv, TypeOK, BoundInv, Run, SamePace
<1>2. RunLeft(run) \in Int /\ RunLeft(run) >= Tools - run.tool /\ Tools - run.tool \in Nat
  BY <1>1, RunLeftFloor DEF Paced
<1>3. CASE r.tool < Tools
  <2> DEFINE u == [r EXCEPT !.tool = @ + 1, !.replay = FALSE]
             q == AdmitAt(u, "tool")
  <2>1. u \in Run /\ u.tool = r.tool + 1 /\ u.replay = FALSE /\ u.retry = r.retry
    <3> DEFINE n == r.tool + 1
    <3>1. n \in Nat
      BY <1>1
    <3>2. u = [r EXCEPT !.tool = n, !.replay = FALSE]
      OBVIOUS
    <3> HIDE DEF n
    <3>3. u \in Run /\ u.tool = n /\ u.replay = FALSE /\ u.retry = r.retry
      BY <3>1, <3>2 DEF Run
    <3>4. QED
      BY <3>3 DEF n
  <2>2. NextTool(r) = q
    BY <1>3 DEF NextTool
  <2> HIDE DEF u
  <2>3. /\ q.pc = "admit" /\ q.kind = "tool" /\ q.tool = r.tool + 1 /\ q.retry = r.retry
        /\ q.replay = FALSE
    BY <2>1, AdmitFields
  <2> HIDE DEF q
  <2>4. RunLeft(q) = 0 + 0 + (Tools - q.tool + 1)
    BY <2>3 DEF RunLeft, ClassificationLeft, AttemptLeft, ToolsLeft, ToolKinds, InOperation
  <2>5. RunLeft(q) \in Int /\ RunLeft(q) <= RunLeft(run)
    BY <1>1, <1>2, <2>3, <2>4, RoundFacts
  <2>6. Left(q, task) \in Int /\ Left(q, task) <= Left(run, task)
    BY <2>5, LeftCompares
  <2>7. WithinLimits(q, task)
    BY <1>1, <1>3, <2>3, RoundFacts DEF Paced, WithinLimits, InOperation
  <2>8. \A i \in Ids : ToolOp(task, i) => task.ops[i].step <= r.tool /\ task.ops[i].step \in Nat
    BY <1>1 DEF Paced, ToolsPaced, Inv, TypeOK, TaskResult, Op
  <2>9. ToolsPaced(q, task)
    BY <1>1, <2>3, <2>8 DEF ToolsPaced
  <2>10. QED
    BY <1>1, <2>2, <2>3, <2>6, <2>7, <2>9 DEF Continues, Paced
<1>4. CASE ~(r.tool < Tools)
  <2> DEFINE q == [r EXCEPT !.pc = "complete"]
  <2>1. q.pc = "complete" /\ q.tool = r.tool /\ q.kind = r.kind /\ q.retry = r.retry
    BY DEF Run
  <2>2. NextTool(r) = q
    BY <1>4 DEF NextTool
  <2> HIDE DEF q
  <2>3. QED
    BY <1>1, <2>1, <2>2, BetweenContinues DEF Between
<1>5. QED
  BY <1>3, <1>4
-----------------------------------------------------------------------------
(* Every action keeps the bound.                                           *)

LEMMA StatusSaveKeepsBound ==
    ASSUME Inv, BoundInv, Running, Quiet, NEW status \in Statuses, NEW r,
           Save([task EXCEPT !.status = status], r), Continues(r, task)
    PROVE  BoundInv'
<1> DEFINE t == [task EXCEPT !.status = status]
<1>1. task \in TaskResult
  BY DEF Inv, TypeOK
<1>2. t \in TaskResult /\ t.ops = task.ops /\ t.generations = task.generations
        /\ t.recoveries = task.recoveries
  BY <1>1, StatusFields
<1>3. Save(t, r)
  OBVIOUS
<1> HIDE DEF t
<1>4. SameCounts(t)
  BY <1>2 DEF SameCounts, SameTools, ToolOp
<1>5. QED
  BY <1>2, <1>3, <1>4, ContinuesSame, SaveKeepsBound

LEMMA PreflightKeepsBound == ASSUME Inv, BoundInv, Preflight PROVE BoundInv'
<1>1. Running /\ run \in Run /\ run.pc = "preflight" /\ Quiet /\ UNCHANGED <<task, row, journal>>
        /\ Paced(run, task)
  BY DEF Preflight, Running, Ended, Inv, TypeOK, BoundInv
<1>2. ASSUME NEW f \in CheckpointOutcomes PROVE StatusFor(f) \in Terminal
  BY CheckpointFailures, StatusForType
<1>3. CASE run' = Halt(run, "BLOCKED") \/ \E f \in CheckpointOutcomes \ {"none"} : run' = Halt(run, StatusFor(f))
  BY <1>1, <1>2, <1>3, HaltContinues, QuietKeepsBound DEF Terminal
<1>4. CASE Live /\ run' = AdmitAt(run, "classification")
  <2> DEFINE q == AdmitAt(run, "classification")
  <2>1. q.pc = "admit" /\ q.kind = "classification" /\ q.tool = run.tool /\ q.retry = run.retry
    BY <1>1, AdmitFields
  <2> HIDE DEF q
  <2>2. ClassificationLeft(q) = 1 /\ AttemptLeft(q) = 0 /\ ToolsLeft(q) = Tools - run.tool + 0
    BY <1>4, <2>1 DEF ClassificationLeft, AttemptLeft, ToolsLeft, ToolKinds, InOperation
  <2>3. ClassificationLeft(run) = 1 /\ AttemptLeft(run) = 0 /\ ToolsLeft(run) = Tools - run.tool + 0
    BY <1>1, <1>4 DEF ClassificationLeft, AttemptLeft, ToolsLeft, InOperation
  <2>4. RunLeft(run) \in Int
    BY <1>1, RunLeftFloor DEF Paced
  <2>5. RunLeft(q) = RunLeft(run)
    BY <2>2, <2>3 DEF RunLeft
  <2>6. run.retry \in Nat /\ run.retry <= EvaluatorRetries /\ RunLeft(q) <= RunLeft(run)
    BY <1>1, <2>4, <2>5 DEF Paced, WithinLimits, Run
  <2>7. Continues(q, task)
    BY <1>1, <1>4, <2>1, <2>4, <2>5, <2>6, AdmitContinues DEF Kinds, ToolKinds
  <2>8. QED
    BY <1>1, <1>4, <2>7, QuietKeepsBound DEF q
<1>5. CASE run' = [run EXCEPT !.pc = "classify"]
  <2>1. run'.pc = "classify" /\ run'.tool = run.tool /\ run'.kind = run.kind /\ run'.retry = run.retry
    BY <1>1, <1>5 DEF Run
  <2>2. QED
    BY <1>1, <2>1, BetweenContinues, QuietKeepsBound DEF Between
<1>6. QED
  BY <1>3, <1>4, <1>5 DEF Preflight

LEMMA ClassifyKeepsBound == ASSUME Inv, BoundInv, Classify PROVE BoundInv'
<1>1. Running /\ run \in Run /\ run.pc = "classify" /\ Quiet
  BY DEF Classify, Running, Ended, Inv, TypeOK
<1>2. CASE \E status \in {"FAILED", "BLOCKED"} :
             run' = Halt(run, status) /\ UNCHANGED <<task, row, journal>>
  BY <1>1, <1>2, HaltContinues, QuietKeepsBound DEF Terminal
<1>3. CASE Save([task EXCEPT !.status = "CLASSIFIED"], [run EXCEPT !.pc = "route"])
  <2> DEFINE r == [run EXCEPT !.pc = "route"]
  <2>1. r.pc = "route" /\ r.tool = run.tool /\ r.kind = run.kind /\ r.retry = run.retry
    BY <1>1 DEF Run
  <2>2. Save([task EXCEPT !.status = "CLASSIFIED"], r)
    BY <1>3
  <2> HIDE DEF r
  <2>3. QED
    BY <1>1, <2>1, <2>2, BetweenContinues, StatusSaveKeepsBound DEF Between, Statuses
<1>4. QED
  BY <1>2, <1>3 DEF Classify

LEMMA RouteKeepsBound ==
    ASSUME Inv, BoundInv, NEW rejected \in BOOLEAN, Route(rejected) PROVE BoundInv'
<1>1. Running /\ run \in Run /\ run.pc = "route" /\ Quiet
  BY DEF Route, Running, Ended, Inv, TypeOK
<1> DEFINE loop == [run EXCEPT !.pc = "loop"]
           r == IF rejected THEN Halt(run, "FAILED") ELSE loop
<1>2. loop.pc = "loop" /\ loop.tool = run.tool /\ loop.kind = run.kind /\ loop.retry = run.retry
  BY <1>1 DEF Run
<1>3. Save([task EXCEPT !.status = "ROUTED"], r)
  BY DEF Route
<1> HIDE DEF loop
<1>4. Continues(r, task)
  BY <1>1, <1>2, BetweenContinues, HaltContinues DEF Between, Terminal
<1> HIDE DEF r
<1>5. QED
  BY <1>1, <1>3, <1>4, StatusSaveKeepsBound DEF Statuses

LEMMA LoopKeepsBound == ASSUME Inv, BoundInv, Loop PROVE BoundInv'
<1>1. Running /\ run \in Run /\ run.pc = "loop" /\ Quiet /\ UNCHANGED <<task, row, journal>>
        /\ Paced(run, task)
  BY DEF Loop, Running, Ended, Inv, TypeOK, BoundInv
<1>2. ASSUME NEW f \in CheckpointOutcomes PROVE StatusFor(f) \in Terminal
  BY CheckpointFailures, StatusForType
<1>3. CASE run' = Halt(run, "BLOCKED") \/ \E f \in CheckpointOutcomes \ {"none"} : run' = Halt(run, StatusFor(f))
  BY <1>1, <1>2, <1>3, HaltContinues, QuietKeepsBound DEF Terminal
<1>4. CASE run' = AdmitAt(run, "generation")
  <2> DEFINE q == AdmitAt(run, "generation")
  <2>1. q.pc = "admit" /\ q.kind = "generation" /\ q.tool = run.tool /\ q.retry = run.retry
    BY <1>1, AdmitFields
  <2> HIDE DEF q
  <2>2. RunLeft(q) = 0 + 0 + (Tools - run.tool + 0)
    BY <2>1 DEF RunLeft, ClassificationLeft, AttemptLeft, ToolsLeft, ToolKinds, InOperation
  <2>3. RunLeft(run) = 0 + 0 + (Tools - run.tool + 0)
    BY <1>1, BetweenLeft DEF Between
  <2>4. RunLeft(run) \in Int
    BY <1>1, RunLeftFloor DEF Paced
  <2>5. run.retry \in Nat /\ run.retry <= EvaluatorRetries /\ RunLeft(q) <= RunLeft(run)
          /\ RunLeft(q) \in Int
    BY <1>1, <2>2, <2>3, <2>4 DEF Paced, WithinLimits, Run
  <2>6. Continues(q, task)
    BY <1>1, <2>1, <2>5, AdmitContinues DEF Kinds, ToolKinds
  <2>7. QED
    BY <1>1, <1>4, <2>6, QuietKeepsBound DEF q
<1>5. QED
  BY <1>3, <1>4 DEF Loop

LEMMA EnvironmentKeepsBound == ASSUME Inv, BoundInv, EnvironmentChanged PROVE BoundInv'
<1>1. Running /\ Quiet /\ UNCHANGED <<task, row, journal>> /\ run' = Halt(run, "BLOCKED")
  BY DEF EnvironmentChanged, Running, Ended
<1>2. QED
  BY <1>1, HaltContinues, QuietKeepsBound DEF Terminal

LEMMA GiveUpKeepsBound == ASSUME Inv, BoundInv, GiveUp PROVE BoundInv'
<1>1. Running /\ Quiet /\ UNCHANGED <<task, row, journal>>
        /\ run' = Halt(run, IF run.budgetUnavailable THEN "FAILED" ELSE StatusFor(run.failure))
        /\ run.failure \in Failures
  BY DEF GiveUp, Running, Ended, Inv, TypeOK, Run
<1>2. (IF run.budgetUnavailable THEN "FAILED" ELSE StatusFor(run.failure)) \in Terminal
  BY <1>1, StatusForType DEF Terminal
<1>3. QED
  BY <1>1, <1>2, HaltContinues, QuietKeepsBound

\* Rewriting a record that is there, for the same operation.
LEMMA RecordKeepsCounts ==
    ASSUME task \in TaskResult, NEW id \in Ids, NEW op, NEW t,
           t.ops = [task.ops EXCEPT ![id] = op],
           t.generations = task.generations, t.recoveries = task.recoveries,
           task.ops[id].status # "absent", op.status # "absent",
           op.kind = task.ops[id].kind, op.step = task.ops[id].step
    PROVE  SameCounts(t)
<1>1. t.ops[id] = op /\ \A i \in Ids : i # id => t.ops[i] = task.ops[i]
  BY DEF TaskResult
<1>2. QED
  BY <1>1 DEF SameCounts, SameTools, ToolOp

LEMMA StopContinues ==
    ASSUME BoundInv, Running, NEW q, q.pc = "stop", SamePace(run, q)
    PROVE  Continues(q, task)
  BY DEF BoundInv, Continues, Paced, WithinLimits, ToolsPaced, SamePace, InOperation, Ended

LEMMA RefusedPace ==
    ASSUME NEW r \in Run, NEW f \in Failures
    PROVE  /\ SamePace(r, Refused(r, f))
           /\ \/ Refused(r, f).pc = "stop"
              \/ Refused(r, f).pc = "finish_attempt" /\ r.kind \in ChecksWithinAttempt
<1>1. \/ Refused(r, f) = [r EXCEPT !.pc = "finish_attempt", !.failure = f]
            /\ r.kind \in ChecksWithinAttempt
      \/ \E status \in Terminal : Refused(r, f) = Halt(r, status)
  BY StatusForType DEF Refused, Terminal
<1>2. CASE Refused(r, f) = [r EXCEPT !.pc = "finish_attempt", !.failure = f]
            /\ r.kind \in ChecksWithinAttempt
  BY <1>2 DEF SamePace, Run
<1>3. CASE \E status \in Terminal : Refused(r, f) = Halt(r, status)
  BY <1>3 DEF SamePace, Run, Halt
<1>4. QED
  BY <1>1, <1>2, <1>3

LEMMA RefuseKeepsBound ==
    ASSUME Inv, BoundInv, NEW f \in Failures, Refuse(f) PROVE BoundInv'
<1>1. Running /\ run \in Run /\ run.pc = "admit" /\ Quiet /\ UNCHANGED <<task, row, journal>>
        /\ run' = Refused(run, f)
  BY DEF Refuse, Running, Ended, Inv, TypeOK
<1>2. SamePace(run, run') /\ run'.pc \in {"stop", "finish_attempt"}
  BY <1>1, RefusedPace
<1>3. Continues(run', task)
  BY <1>1, <1>2, StopContinues, BetweenContinues DEF Between, SamePace
<1>4. QED
  BY <1>1, <1>3, QuietKeepsBound

LEMMA HeldCounts ==
    ASSUME Inv, NEW id \in Ids, Fresh(id), ledger' = Held(id)
    PROVE  Cardinality(Used(ledger')) = Cardinality(Used(ledger)) + 1
<1>1. /\ ledger'[id].state = "held"
      /\ \A i \in Ids : i # id => ledger'[i] = ledger[i]
  BY DEF Held, Inv, TypeOK
<1>2. Used(ledger') = Used(ledger) \cup {id} /\ id \notin Used(ledger)
  BY <1>1 DEF Used, Fresh
<1>3. QED
  BY <1>2, UsedFinite, FS_AddElement

\* A reservation takes one of what was left, and there was one.
LEMMA ReservationCounts ==
    ASSUME Inv, BoundInv, Running, run.pc = "admit", CanReserve, NEW q \in Run, q.pc = "intent",
           SamePace(run, q)
    PROVE  /\ Paced(q, task) /\ Left(q, task) \in Nat
           /\ Left(run, task) \in Nat /\ Left(q, task) = Left(run, task) - 1
<1>1. run \in Run /\ task \in TaskResult /\ Paced(run, task) /\ run.kind \in Kinds
  BY DEF Inv, TypeOK, BoundInv, Run
<1>2. WithinLimits(q, task)
  BY <1>1 DEF Paced, WithinLimits, SamePace, CanReserve, Admissible, InOperation
<1>3. run.kind \in ToolKinds => SafeToolCall(q)
  BY DEF CanReserve, Admissible, SafeToolCall, SamePace
<1>4. ToolsPaced(q, task)
  BY <1>1, <1>3 DEF Paced, ToolsPaced, SamePace
<1>5. EvaluationsLeft(q) = EvaluationsLeft(run)
  BY DEF EvaluationsLeft, SamePace
<1>6. run.kind = "evaluation" => EvaluationsLeft(run) \in Nat
  BY <1>1, EvaluationFacts DEF Paced, WithinLimits
<1>7. /\ run.kind = "classification" => Live
      /\ run.kind = "domain" => Domain
  BY <1>1 DEF Paced, WithinLimits
<1>8. RunLeft(q) = RunLeft(run) - 1 /\ RunLeft(run) \in Int
  <2>1. RunLeft(run) \in Int /\ q.tool = run.tool /\ q.kind = run.kind /\ Tools - run.tool \in Int
    BY <1>1, RunLeftFloor DEF Paced, SamePace
  <2>2. CASE run.kind = "classification"
    <3>1. /\ ClassificationLeft(run) = 1 /\ ClassificationLeft(q) = 0
          /\ AttemptLeft(run) = 0 /\ AttemptLeft(q) = 0
          /\ ToolsLeft(run) = Tools - run.tool + 0 /\ ToolsLeft(q) = Tools - run.tool + 0
      BY <1>7, <2>1, <2>2 DEF ClassificationLeft, AttemptLeft, ToolsLeft, InOperation, ToolKinds
    <3>2. QED
      BY <2>1, <3>1 DEF RunLeft
  <2>3. CASE run.kind \in ToolKinds
    <3>1. /\ ClassificationLeft(run) = 0 /\ ClassificationLeft(q) = 0
          /\ AttemptLeft(run) = 0 /\ AttemptLeft(q) = 0
          /\ ToolsLeft(run) = Tools - run.tool + 1 /\ ToolsLeft(q) = Tools - run.tool + 0
      BY <2>1, <2>3 DEF ClassificationLeft, AttemptLeft, ToolsLeft, InOperation, ToolKinds
    <3>2. QED
      BY <2>1, <3>1 DEF RunLeft
  <2>4. CASE run.kind \in {"generation", "validation", "evaluation", "domain"}
    <3>1. /\ ClassificationLeft(run) = 0 /\ ClassificationLeft(q) = 0
          /\ ToolsLeft(run) = Tools - run.tool + 0 /\ ToolsLeft(q) = Tools - run.tool + 0
      BY <2>1, <2>4 DEF ClassificationLeft, ToolsLeft, ToolKinds
    <3>2. AttemptLeft(q) = AttemptLeft(run) - 1 /\ AttemptLeft(run) \in Int
      <4>1. CASE run.kind = "generation"
        BY <2>1, <4>1 DEF AttemptLeft, InOperation
      <4>2. CASE run.kind = "validation"
        BY <2>1, <4>2, RoundFacts DEF AttemptLeft, InOperation
      <4>3. CASE run.kind = "evaluation"
        BY <1>5, <1>6, <2>1, <4>3, RoundFacts DEF AttemptLeft, InOperation
      <4>4. CASE run.kind = "domain"
        BY <1>7, <2>1, <4>4 DEF AttemptLeft, InOperation, Domains
      <4>5. QED
        BY <2>4, <4>1, <4>2, <4>3, <4>4
    <3>3. QED
      BY <2>1, <3>1, <3>2 DEF RunLeft
  <2>5. QED
    BY <1>1, <2>1, <2>2, <2>3, <2>4 DEF Kinds, ToolKinds
<1>9. Left(q, task) \in Nat /\ Left(run, task) \in Nat
  BY <1>1, <1>2, LeftFloor DEF Paced
<1>10. (MaxGenerations - task.generations) * Round \in Int /\ MaxToolRecoveries - task.recoveries \in Int
  BY <1>1, RoundFacts DEF TaskResult
<1>11. Left(q, task) = Left(run, task) - 1
  BY <1>8, <1>10 DEF Left
<1>12. QED
  BY <1>2, <1>4, <1>9, <1>11 DEF Paced

LEMMA ReserveKeepsBound == ASSUME Inv, BoundInv, NEW id \in Ids, Reserve(id) PROVE BoundInv'
<1>1. /\ Running /\ run \in Run /\ run.pc = "admit" /\ CanReserve /\ Fresh(id) /\ ledger' = Held(id)
      /\ UNCHANGED <<row, journal>> /\ task \in TaskResult /\ id \in Nat
  BY ExecutionAssumption DEF Reserve, CanReserve, Running, Ended, Inv, TypeOK, Ids
<1> DEFINE attempt == IF run.kind = "generation" THEN id ELSE run.attempt
           q == [run EXCEPT !.pc = "intent", !.id = id, !.attempt = attempt]
<1>2. attempt \in Nat /\ run' = q
  BY <1>1 DEF Reserve, Run
<1> HIDE DEF attempt
<1>3. q \in Run /\ q.pc = "intent" /\ SamePace(run, q)
  BY <1>1, <1>2 DEF Run, SamePace, Points
<1> HIDE DEF q
<1>4. /\ Paced(q, task) /\ Left(q, task) \in Nat
      /\ Left(run, task) \in Nat /\ Left(q, task) = Left(run, task) - 1
  BY <1>1, <1>3, ReservationCounts
<1>5. Cardinality(Used(ledger')) = Cardinality(Used(ledger)) + 1 /\ Cardinality(Used(ledger)) \in Nat
        /\ Bound \in Int
  BY <1>1, HeldCounts, UsedFinite, BoundType
<1>6. task'.ops = task.ops /\ task'.generations = task.generations /\ task'.recoveries = task.recoveries
  BY <1>1 DEF Reserve, TaskResult
<1>7. SameTools(task, task') /\ Left(q, task') = Left(q, task)
  BY <1>6 DEF SameTools, ToolOp, Left
<1>8. Paced(q, task') /\ SafeRecords(task')
  BY <1>4, <1>6, <1>7, SamePaced, SameSafe DEF Paced, WithinLimits, BoundInv
<1>9. Cardinality(Used(ledger)) + Left(run, task) <= Bound
  BY <1>1 DEF BoundInv
<1>10. Cardinality(Used(ledger')) + Left(run', task') <= Bound /\ Cardinality(Used(ledger')) <= Bound
  BY <1>2, <1>4, <1>5, <1>7, <1>9
<1>11. QED
  BY <1>1, <1>2, <1>8, <1>10 DEF BoundInv

LEMMA ReserveUnavailableKeepsBound ==
    ASSUME Inv, BoundInv, NEW id \in Ids, ReserveUnavailable(id) PROVE BoundInv'
<1> DEFINE r == [run EXCEPT !.budgetUnavailable = TRUE]
           q == [run EXCEPT !.pc = "intent"]
<1>1. /\ Running /\ run \in Run /\ run.pc = "admit" /\ Fresh(id)
      /\ (ledger' = ledger \/ (CanReserve /\ ledger' = Held(id)))
      /\ UNCHANGED <<row, journal, task>> /\ task \in TaskResult
      /\ run' = Refused(r, "terminal")
  BY DEF ReserveUnavailable, Running, Ended, Inv, TypeOK
<1>2. r \in Run /\ SamePace(run, r) /\ q \in Run /\ q.pc = "intent" /\ SamePace(run, q)
  BY <1>1 DEF Run, SamePace, Points
<1> HIDE DEF r, q
<1>3. /\ SamePace(run, run')
      /\ run'.pc = "stop" \/ (run'.pc = "finish_attempt" /\ run.kind \in ChecksWithinAttempt)
  BY <1>1, <1>2, RefusedPace DEF SamePace, Failures
<1>4. Continues(run', task)
  BY <1>1, <1>3, StopContinues, BetweenContinues DEF Between, SamePace
<1>5. CASE ledger' = ledger
  <2>1. Continues(run', task') /\ row' \in {row, task'} /\ journal' = journal
    BY <1>1, <1>4
  <2>2. QED
    BY <1>1, <1>5, <2>1, MoveKeepsBound
<1>6. CASE CanReserve /\ ledger' = Held(id)
  <2>1. /\ Paced(q, task) /\ Left(q, task) \in Nat
        /\ Left(run, task) \in Nat /\ Left(q, task) = Left(run, task) - 1
    BY <1>1, <1>2, <1>6, ReservationCounts
  <2>2. Cardinality(Used(ledger')) = Cardinality(Used(ledger)) + 1 /\ Cardinality(Used(ledger)) \in Nat
          /\ Bound \in Int
    BY <1>1, <1>6, HeldCounts, UsedFinite, BoundType
  <2>3. Cardinality(Used(ledger)) + Left(run, task) <= Bound
    BY <1>1 DEF BoundInv
  <2>4. run'.pc # "stop" => Left(run', task) \in Int /\ Left(run', task) <= Left(q, task)
    <3>1. SUFFICES ASSUME run'.pc = "finish_attempt", run.kind \in ChecksWithinAttempt
                   PROVE  Left(run', task) \in Int /\ Left(run', task) <= Left(q, task)
      BY <1>3
    <3>2. q.kind # "generation" /\ q.tool = run.tool /\ run'.tool = run.tool
      BY <1>2, <1>3, <3>1 DEF SamePace, ChecksWithinAttempt
    <3>3. RunLeft(q) \in Int /\ RunLeft(q) >= Tools - q.tool /\ Tools - q.tool \in Nat
      BY <1>2, <2>1, <3>2, RunLeftFloor DEF Paced
    <3>4. RunLeft(run') = 0 + 0 + (Tools - run'.tool + 0)
      BY <3>1, BetweenLeft DEF Between
    <3>5. RunLeft(run') \in Int /\ RunLeft(run') <= RunLeft(q)
      BY <3>2, <3>3, <3>4
    <3>6. (MaxGenerations - task.generations) * Round \in Int
            /\ MaxToolRecoveries - task.recoveries \in Int
      BY <1>1, RoundFacts DEF TaskResult
    <3>7. QED
      BY <3>3, <3>5, <3>6 DEF Left
  <2>5. /\ run'.pc # "stop" => Cardinality(Used(ledger')) + Left(run', task) <= Bound
        /\ Cardinality(Used(ledger')) <= Bound
    BY <2>1, <2>2, <2>3, <2>4
  <2>6. Paced(run', task') /\ SafeRecords(task')
    BY <1>1, <1>3, <1>4 DEF Continues, Ended
  <2>7. QED
    BY <1>1, <2>5, <2>6 DEF BoundInv
<1>7. QED
  BY <1>1, <1>5, <1>6

\* The intent counts a generation, and adds a tool call that is safe.
LEMMA IntentKeepsBound == ASSUME Inv, AccountInv, BoundInv, Intent PROVE BoundInv'
<1> DEFINE t == WithOp(task, run.id, "started", Unknown)
           op == [kind |-> run.kind, step |-> run.tool, status |-> "started", actual |-> Unknown]
           g == t.generations + 1
           u == IF run.kind = "generation"
                THEN [t EXCEPT !.status = "RUNNING", !.generations = g] ELSE t
           r == [run EXCEPT !.pc = "recheck"]
<1>1. /\ run.id \in Ids /\ run \in Run /\ task \in TaskResult /\ Running
      /\ Tracked(run, task) /\ run.pc = "intent" /\ Quiet /\ Paced(run, task)
      /\ SafeRecords(task)
  BY DEF Intent, Inv, RunOK, TypeOK, InOperation, Ended, AccountInv, Running, BoundInv
<1>2. "started" \in OpStatuses /\ Unknown \in Nat \cup {Unknown}
  BY DEF OpStatuses
<1>3. /\ op.kind = run.kind /\ op.step = run.tool /\ op.status = "started"
      /\ t \in TaskResult /\ t.ops = [task.ops EXCEPT ![run.id] = op]
      /\ t.generations = task.generations /\ t.recoveries = task.recoveries
  BY <1>1, <1>2, WithOpFields
<1>4. Save(u, r)
  BY DEF Intent
<1>5. r \in Run /\ r.pc = "recheck" /\ SamePace(run, r)
  BY <1>1 DEF Run, SamePace, Points
<1> HIDE DEF t, r, op
<1>6. g \in Nat /\ task.generations \in Nat /\ g = task.generations + 1
  BY <1>1, <1>3 DEF TaskResult
<1> HIDE DEF g
<1>7. /\ u \in TaskResult /\ u.ops = [task.ops EXCEPT ![run.id] = op]
      /\ u.recoveries = task.recoveries
      /\ u.generations = IF run.kind = "generation" THEN g ELSE task.generations
  BY <1>3, <1>6 DEF TaskResult, Statuses
<1> HIDE DEF u
<1>8. /\ u.ops[run.id] = op
      /\ \A i \in Ids : i # run.id => u.ops[i] = task.ops[i]
      /\ task.ops[run.id].status = "absent"
  BY <1>1, <1>7 DEF TaskResult, Tracked, OpTracked
<1>9. \A i \in Ids : /\ i # run.id => (ToolOp(u, i) <=> ToolOp(task, i))
                     /\ i = run.id => (ToolOp(u, i) <=> run.kind \in ToolKinds)
  BY <1>3, <1>8 DEF ToolOp
<1>10. \A i \in Ids : ToolOp(task, i) => task.ops[i].step <= run.tool /\ task.ops[i].step \in Nat
  BY <1>1 DEF Paced, ToolsPaced, TaskResult, Op
<1>11. SafeRecords(u)
  <2>1. CASE run.kind \notin ToolKinds
    BY <1>1, <1>8, <1>9, <2>1 DEF SafeRecords
  <2>2. CASE run.kind \in ToolKinds
    <3>1. /\ SafeToolCall(run)
          /\ ~run.replay => run.kind = "tool"
          /\ ~run.replay => \A i \in Ids : ToolOp(task, i) => task.ops[i].step < run.tool
      BY <1>1, <2>2 DEF Paced, ToolsPaced
    <3>2. ToolPlan[run.tool] = "unkeyed" => ~run.replay
      BY <3>1 DEF SafeToolCall
    <3>3. ToolPlan[run.tool] = "keyed" => run.kind = "tool"
      BY <3>1 DEF SafeToolCall
    <3>4. ToolPlan[run.tool] = "unkeyed" =>
             \A i \in Ids : ToolOp(task, i) => task.ops[i].step # run.tool
      BY <1>1, <1>10, <3>1, <3>2 DEF Run
    <3>5. \A i \in Ids : (ToolOp(u, i) /\ i # run.id) => ToolOp(task, i) /\ u.ops[i] = task.ops[i]
      BY <1>8, <1>9
    <3>6. u.ops[run.id].step = run.tool /\ u.ops[run.id].kind = run.kind
      BY <1>3, <1>8
    <3>7. \A i, j \in Ids :
             (/\ ToolOp(u, i) /\ ToolOp(u, j) /\ u.ops[i].step = u.ops[j].step
              /\ ToolPlan[u.ops[i].step] = "unkeyed") => i = j
      BY <1>1, <3>4, <3>5, <3>6 DEF SafeRecords
    <3>8. \A i \in Ids : ToolOp(u, i) /\ ToolPlan[u.ops[i].step] = "keyed" => u.ops[i].kind = "tool"
      BY <1>1, <3>3, <3>5, <3>6 DEF SafeRecords
    <3>9. QED
      BY <3>7, <3>8 DEF SafeRecords
  <2>3. QED
    BY <2>1, <2>2
<1>12. WithinLimits(r, u)
  BY <1>1, <1>5, <1>6, <1>7, RoundFacts DEF Paced, WithinLimits, SamePace, InOperation
<1>13. ToolsPaced(r, u)
  <2>1. \A i \in Ids : ToolOp(u, i) => u.ops[i].step <= run.tool
    BY <1>1, <1>3, <1>8, <1>9, <1>10 DEF Run
  <2>2. QED
    BY <1>5, <2>1 DEF ToolsPaced, SamePace
<1>14. Left(r, u) \in Int /\ Left(r, u) <= Left(run, task)
  <2> DEFINE m == MaxGenerations - g
             rec == MaxToolRecoveries - task.recoveries
  <2>1. RunLeft(run) \in Int /\ RunLeft(r) \in Int /\ rec \in Int /\ m \in Int /\ Round \in Nat
        /\ task.recoveries \in Nat /\ MaxGenerations \in Nat
    BY <1>1, <1>5, <1>6, <1>12, RunLeftFloor, RoundFacts DEF Paced, TaskResult
  <2>2. EvaluationsLeft(r) = EvaluationsLeft(run)
    BY <1>5 DEF EvaluationsLeft, SamePace
  <2>3. ClassificationLeft(r) = ClassificationLeft(run) /\ ToolsLeft(r) = ToolsLeft(run)
    BY <1>1, <1>5 DEF ClassificationLeft, ToolsLeft, SamePace
  <2>4. CASE run.kind = "generation"
    <3>1. AttemptLeft(run) = -1 /\ AttemptLeft(r) = Round - 1
      BY <1>1, <1>5, <2>4 DEF AttemptLeft, SamePace, InOperation
    <3>2. ClassificationLeft(run) \in Int /\ ToolsLeft(run) \in Int
      BY <1>1, RunLeftFloor DEF Paced
    <3>3. RunLeft(r) = RunLeft(run) + Round
      BY <2>1, <2>3, <3>1, <3>2 DEF RunLeft
    <3>4. Left(r, u) = RunLeft(r) + m * Round + rec
      BY <1>7, <2>4 DEF Left
    <3>5. MaxGenerations - task.generations = m + 1
      BY <1>6, <2>1
    <3>6. Left(run, task) = RunLeft(run) + (m + 1) * Round + rec
      BY <3>5 DEF Left
    <3> HIDE DEF m, rec
    <3>7. (m + 1) * Round = m * Round + Round /\ m * Round \in Int
      BY <2>1, Products
    <3>8. QED
      BY <2>1, <3>3, <3>4, <3>6, <3>7
  <2>5. CASE run.kind # "generation"
    <3>1. AttemptLeft(r) = AttemptLeft(run)
      BY <1>1, <1>5, <2>2, <2>5 DEF AttemptLeft, SamePace, InOperation
    <3>2. Left(r, u) = Left(run, task)
      BY <1>7, <2>3, <2>5, <3>1 DEF Left, RunLeft
    <3>3. Left(run, task) \in Nat
      BY <1>1, LeftFloor DEF Paced
    <3>4. QED
      BY <3>2, <3>3
  <2>6. QED
    BY <2>4, <2>5
<1>15. Continues(r, u)
  BY <1>1, <1>11, <1>12, <1>13, <1>14 DEF Continues, Paced
<1>16. QED
  BY <1>1, <1>4, <1>7, <1>15, SaveKeepsBound

LEMMA WithdrawKeepsBound ==
    ASSUME Inv, BoundInv, NEW f \in Failures, Withdraw(f) PROVE BoundInv'
<1>1. Running /\ run \in Run /\ run.pc = "recheck" /\ Quiet /\ UNCHANGED <<task, row, journal>>
  BY DEF Withdraw, Running, Ended, Inv, TypeOK
<1>2. CASE run' = Halt(run, "BLOCKED")
  BY <1>1, <1>2, HaltContinues, QuietKeepsBound DEF Terminal
<1>3. CASE run' # Halt(run, "BLOCKED")
  <2> DEFINE pc == IF run.kind = "classification" THEN "evidence" ELSE "settle"
             g == IF run.kind = "classification" THEN "terminal" ELSE f
  <2>1. run' = [run EXCEPT !.pc = pc, !.failure = g, !.actual = 0]
    BY <1>3 DEF Withdraw
  <2>2. pc \in {"evidence", "settle"}
    OBVIOUS
  <2> HIDE DEF pc, g
  <2>3. run'.pc = pc /\ SamePace(run, run')
    BY <1>1, <2>1 DEF Run, SamePace
  <2>4. QED
    BY <1>1, <2>2, <2>3, OperationContinues, QuietKeepsBound
<1>4. QED
  BY <1>2, <1>3

LEMMA LiveRefusalKeepsBound == ASSUME Inv, BoundInv, LiveRefusal PROVE BoundInv'
<1>1. Running /\ run \in Run /\ run.pc = "recheck" /\ Quiet /\ UNCHANGED <<task, row, journal>>
  BY DEF LiveRefusal, Running, Ended, Inv, TypeOK
<1>2. run'.pc = "evidence" /\ SamePace(run, run')
  BY <1>1 DEF LiveRefusal, Run, SamePace
<1>3. QED
  BY <1>1, <1>2, OperationContinues, QuietKeepsBound

LEMMA DispatchKeepsBound ==
    ASSUME Inv, BoundInv, NEW f \in Failures, NEW actual \in Costs \cup {Unknown},
           Dispatch(f, actual)
    PROVE  BoundInv'
<1>1. Running /\ run \in Run /\ run.pc = "recheck" /\ UNCHANGED <<task, row, journal, ledger>>
  BY DEF Dispatch, Running, Ended, Inv, TypeOK
<1> DEFINE pc == IF run.kind \in Observed THEN "evidence" ELSE "settle"
<1>2. run' = [run EXCEPT !.pc = pc, !.failure = f, !.actual = actual, !.dispatched = TRUE]
  BY DEF Dispatch
<1>3. pc \in {"evidence", "settle"}
  OBVIOUS
<1> HIDE DEF pc
<1>4. run'.pc = pc /\ SamePace(run, run')
  BY <1>1, <1>2 DEF Run, SamePace
<1>5. Continues(run', task') /\ row' \in {row, task'} /\ journal' = journal
  BY <1>1, <1>3, <1>4, OperationContinues
<1>6. QED
  BY <1>1, <1>5, MoveKeepsBound

LEMMA EvidenceKeepsBound == ASSUME Inv, AccountInv, BoundInv, Evidence PROVE BoundInv'
<1> DEFINE t == WithOp(task, run.id, "observed", run.actual)
           op == [kind |-> run.kind, step |-> run.tool, status |-> "observed", actual |-> run.actual]
           r == [run EXCEPT !.pc = "settle"]
<1>1. /\ run.id \in Ids /\ run \in Run /\ task \in TaskResult /\ Running
      /\ Tracked(run, task) /\ run.pc = "evidence" /\ Quiet
      /\ run.actual \in Nat \cup {Unknown}
  BY DEF Evidence, Inv, RunOK, Run, TypeOK, InOperation, Ended, AccountInv, Running
<1>2. "observed" \in OpStatuses
  BY DEF OpStatuses
<1>3. /\ op.kind = run.kind /\ op.step = run.tool /\ op.status = "observed"
      /\ t \in TaskResult /\ t.ops = [task.ops EXCEPT ![run.id] = op]
      /\ t.generations = task.generations /\ t.recoveries = task.recoveries
  BY <1>1, <1>2, WithOpFields
<1>4. Save(t, r)
  BY DEF Evidence
<1>5. r.pc = "settle" /\ SamePace(run, r)
  BY <1>1 DEF Run, SamePace
<1> HIDE DEF t, r, op
<1>6. /\ task.ops[run.id].status # "absent" /\ op.status # "absent"
      /\ op.kind = task.ops[run.id].kind /\ op.step = task.ops[run.id].step
  BY <1>1, <1>3 DEF Tracked, OpTracked
<1>7. SameCounts(t)
  BY <1>1, <1>3, <1>6, RecordKeepsCounts
<1>8. Continues(r, t)
  BY <1>1, <1>5, <1>7, OperationContinues, ContinuesSame
<1>9. QED
  BY <1>1, <1>3, <1>4, <1>8, SaveKeepsBound

\* What follows a settlement.
LEMMA AfterSettleContinues ==
    ASSUME Inv, BoundInv, Running, run.pc = "settle", NEW r \in Run, r.pc = "settle", SamePace(run, r)
    PROVE  Continues(AfterSettle(r), task)
<1>1. /\ run \in Run /\ Paced(run, task) /\ SafeRecords(task) /\ r.kind = run.kind /\ r.tool = run.tool
      /\ r.retry = run.retry /\ r.retry <= EvaluatorRetries /\ run.kind \in Kinds
  BY DEF Inv, TypeOK, BoundInv, Paced, WithinLimits, SamePace, Run
<1>2. RunLeft(run) \in Int /\ Tools - run.tool \in Nat
  BY <1>1, RunLeftFloor DEF Paced
<1>3. CASE r.kind = "generation" /\ r.failure = "none"
  <2> DEFINE q == [r EXCEPT !.pc = "validating"]
  <2>1. q.pc = "validating" /\ SamePace(run, q)
    BY DEF Run, SamePace
  <2>2. AfterSettle(r) = q
    BY <1>3 DEF AfterSettle
  <2> HIDE DEF q
  <2>3. RunLeft(q) = 0 + (Round - 1) + (Tools - run.tool + 0)
    BY <1>3, <2>1 DEF RunLeft, ClassificationLeft, AttemptLeft, ToolsLeft, SamePace, InOperation
  <2>4. RunLeft(run) = 0 + (Round - 1) + (Tools - run.tool + 0)
    BY <1>1, <1>3 DEF RunLeft, ClassificationLeft, AttemptLeft, ToolsLeft, InOperation
  <2>5. Left(q, task) \in Int /\ Left(q, task) <= Left(run, task)
    BY <1>2, <2>3, <2>4, LeftCompares
  <2>6. WithinLimits(q, task) /\ ToolsPaced(q, task)
    BY <1>1, <2>1 DEF Paced, WithinLimits, ToolsPaced, SamePace, InOperation
  <2>7. QED
    BY <1>1, <2>2, <2>5, <2>6 DEF Continues, Paced
<1>4. CASE r.kind = "validation" /\ r.failure = "none"
  <2>1. AfterSettle(r) = NextVerification(r)
    BY <1>4 DEF AfterSettle
  <2>2. RunLeft(run) = 0 + (Evaluations + Domains) + (Tools - run.tool + 0)
    BY <1>1, <1>4 DEF RunLeft, ClassificationLeft, AttemptLeft, ToolsLeft, ToolKinds, InOperation
  <2>3. r.evaluator < Evaluators => EvaluationsLeft(r) \in Int /\ EvaluationsLeft(r) <= Evaluations
    BY EvaluationsWithin
  <2>4. /\ RunLeft(run) >= Domains + (Tools - run.tool)
        /\ r.evaluator < Evaluators =>
              RunLeft(run) >= EvaluationsLeft(r) + Domains + (Tools - run.tool)
    BY <1>2, <2>2, <2>3, RoundFacts
  <2>5. QED
    BY <1>1, <1>2, <1>4, <2>1, <2>4, NextVerificationContinues DEF InOperation
<1>5. CASE \/ r.kind \in {"generation", "validation"} /\ r.failure # "none"
           \/ r.kind = "domain" /\ ~r.dispatched
  <2> DEFINE q == [r EXCEPT !.pc = "finish_attempt"]
  <2>1. q.pc = "finish_attempt" /\ q.kind = run.kind /\ q.tool = run.tool /\ q.retry = run.retry
    BY <1>1 DEF Run
  <2>2. AfterSettle(r) = q
    BY <1>5 DEF AfterSettle
  <2> HIDE DEF q
  <2>3. QED
    BY <2>1, <2>2, BetweenContinues DEF Between
<1>6. CASE /\ r.kind \notin {"generation", "validation"}
           /\ ~(r.kind = "domain" /\ ~r.dispatched)
  <2> DEFINE q == [r EXCEPT !.pc = "finish"]
  <2>1. q.pc = "finish" /\ SamePace(run, q)
    BY DEF Run, SamePace
  <2>2. AfterSettle(r) = q
    BY <1>6 DEF AfterSettle
  <2> HIDE DEF q
  <2>3. QED
    BY <1>1, <1>6, <2>1, <2>2, OperationContinues
<1>7. QED
  BY <1>3, <1>4, <1>5, <1>6

\* Settling charges the task and reserves nothing.
LEMMA ChargeKeepsBound ==
    ASSUME Inv, AccountInv, BoundInv, run.pc = "settle", NEW settled \in BOOLEAN, task' = Charge(settled),
           ledger' \in {ledger, Settled}, NEW r \in Run, r.pc = "settle", SamePace(run, r),
           run' = AfterSettle(r), UNCHANGED <<row, journal>>
    PROVE  BoundInv'
<1> DEFINE op == IF run.kind \in {"validation", "domain"}
                 THEN [kind |-> run.kind, step |-> run.tool,
                       status |-> FinalStatus(run), actual |-> run.actual]
                 ELSE task.ops[run.id]
           old == task.ops[run.id]
           t == Charge(settled)
<1>1. /\ Running /\ run \in Run /\ task \in TaskResult /\ run.id \in Ids /\ Tracked(run, task)
      /\ run.actual \in Nat \cup {Unknown} /\ ledger[run.id].state = "held"
  BY DEF Inv, TypeOK, RunOK, Run, InOperation, Running, Ended, AccountInv, LedgerOK
<1>1a. /\ t = Charge(settled) /\ task' = t
       /\ op = IF run.kind \in {"validation", "domain"}
               THEN [kind |-> run.kind, step |-> run.tool,
                     status |-> FinalStatus(run), actual |-> run.actual]
               ELSE task.ops[run.id]
  OBVIOUS
<1> HIDE DEF t, op
<1>2. /\ op \in Op /\ t.ops = [task.ops EXCEPT ![run.id] = op]
      /\ t.generations = task.generations /\ t.recoveries = task.recoveries
  BY <1>1, <1>1a, ChargeFields
<1>3. old.status # "absent" /\ old.kind = run.kind /\ old.step = run.tool
  BY <1>1 DEF Tracked, OpTracked
<1>4. op.status # "absent" /\ op.kind = old.kind /\ op.step = old.step
  BY <1>1a, <1>3 DEF FinalStatus
<1>5. SameCounts(t)
  BY <1>1, <1>2, <1>3, <1>4, RecordKeepsCounts
<1>6. Continues(run', task')
  <2>1. Continues(run', t)
    BY <1>1, <1>5, AfterSettleContinues, ContinuesSame
  <2>2. QED
    BY <1>1a, <2>1
<1>7. Used(ledger') = Used(ledger)
  <2>1. \A i \in Ids : (ledger'[i].state # "free") <=> (ledger[i].state # "free")
    BY <1>1 DEF Settled, Inv, TypeOK, Reservation
  <2>2. QED
    BY <2>1 DEF Used
<1>8. QED
  BY <1>1, <1>6, <1>7, MoveKeepsBound

LEMMA SettleKeepsBound == ASSUME Inv, AccountInv, BoundInv, Settle PROVE BoundInv'
<1> DEFINE v == run.costViolation \/ Overran
           r == [run EXCEPT !.costViolation = v]
<1>1. run \in Run /\ run.pc = "settle" /\ v \in BOOLEAN
  BY DEF Settle, Inv, TypeOK, Run
<1>2. /\ run' = AfterSettle(r) /\ task' = Charge(run.actual # Unknown)
      /\ ledger' \in {ledger, Settled} /\ UNCHANGED <<row, journal>>
  BY DEF Settle
<1> HIDE DEF v
<1>3. r \in Run /\ r.pc = "settle" /\ SamePace(run, r)
  BY <1>1 DEF Run, SamePace
<1> HIDE DEF r
<1>4. (run.actual # Unknown) \in BOOLEAN
  OBVIOUS
<1>5. QED
  BY <1>1, <1>2, <1>3, <1>4, ChargeKeepsBound

LEMMA SettleUnavailableKeepsBound ==
    ASSUME Inv, AccountInv, BoundInv, SettleUnavailable PROVE BoundInv'
<1> DEFINE v == run.costViolation \/ Overran
           r == [run EXCEPT !.costViolation = v, !.budgetUnavailable = TRUE]
<1>1. run \in Run /\ run.pc = "settle" /\ v \in BOOLEAN
  BY DEF SettleUnavailable, Inv, TypeOK, Run
<1>2. /\ run' = AfterSettle(r) /\ task' = Charge(FALSE)
      /\ ledger' \in {ledger, Settled} /\ UNCHANGED <<row, journal>>
  BY DEF SettleUnavailable
<1> HIDE DEF v
<1>3. r \in Run /\ r.pc = "settle" /\ SamePace(run, r)
  BY <1>1 DEF Run, SamePace
<1> HIDE DEF r
<1>4. QED
  BY <1>1, <1>2, <1>3, ChargeKeepsBound

\* Where the final record of an operation leads.
LEMMA AfterFinishPlaces ==
    ASSUME NEW r, RunOK(r), NEW q \in AfterFinish(r)
    PROVE  \/ q.pc \in Between \cup {"stop"} /\ SamePace(r, q)
           \/ r.kind = "evaluation" /\ \E next \in Run :
                 /\ next.kind = r.kind /\ next.tool = r.tool /\ next.evaluator = r.evaluator + 1
                 /\ next.retry = 0 /\ q = NextVerification(next)
           \/ /\ r.kind = "evaluation" /\ r.retry < EvaluatorRetries
              /\ q.pc = "retry_evaluation" /\ SamePace(r, q)
           \/ q = NextTool(r)
<1>1. ASSUME NEW pc \in {"classify", "finish_attempt", "recover_tool"}, NEW f,
             q = [r EXCEPT !.pc = pc, !.failure = f]
      PROVE  q.pc \in Between \cup {"stop"} /\ SamePace(r, q)
  BY <1>1 DEF RunOK, Run, SamePace, Between
<1>2. ASSUME NEW pc \in {"classify", "finish_attempt", "recover_tool"}, q = [r EXCEPT !.pc = pc]
      PROVE  q.pc \in Between \cup {"stop"} /\ SamePace(r, q)
  BY <1>2 DEF RunOK, Run, SamePace, Between
<1>3. ASSUME NEW status, q = Halt(r, status)
      PROVE  q.pc \in Between \cup {"stop"} /\ SamePace(r, q)
  BY <1>3 DEF RunOK, Run, SamePace, Halt
<1>4. CASE r.kind = "classification"
  <2>1. q = [r EXCEPT !.pc = "classify"] \/ q = Halt(r, "FAILED")
    BY <1>4 DEF AfterFinish
  <2>2. QED
    BY <1>2, <1>3, <2>1
<1>5. CASE r.kind = "evaluation"
  <2> DEFINE attempt(f) == [r EXCEPT !.pc = "finish_attempt", !.failure = f]
             n == r.evaluator + 1
             next == [r EXCEPT !.evaluator = n, !.retry = 0]
             again == [r EXCEPT !.pc = "retry_evaluation"]
  <2>1. \/ \E f : q = attempt(f)
        \/ q = NextVerification(next)
        \/ q = again
    BY <1>5 DEF AfterFinish
  <2>2. CASE \E f : q = attempt(f)
    <3>1. PICK f : q = attempt(f)
      BY <2>2
    <3>2. QED
      BY <1>1, <3>1
  <2>3. CASE q = again
    <3>1. q.pc = "retry_evaluation" /\ SamePace(r, q)
      BY <2>3 DEF RunOK, Run, SamePace
    <3>2. CASE r.retry < EvaluatorRetries
      BY <1>5, <3>1, <3>2
    <3>3. CASE ~(r.retry < EvaluatorRetries)
      <4>1. (\E f : q = attempt(f)) \/ q = NextVerification(next)
        BY <1>5, <3>3 DEF AfterFinish
      <4>2. q # NextVerification(next)
        <5>1. NextVerification(next).pc \in {"admit", "finish_attempt"}
          BY DEF NextVerification, AdmitAt, RunOK, Run
        <5>2. QED
          BY <3>1, <5>1
      <4>3. PICK f : q = attempt(f)
        BY <4>1, <4>2
      <4>4. QED
        BY <1>1, <4>3
    <3>4. QED
      BY <3>2, <3>3
  <2>4. CASE q = NextVerification(next)
    <3>1. n \in Nat /\ n = r.evaluator + 1
      BY DEF RunOK, Run
    <3>2. q = NextVerification(next)
      BY <2>4
    <3> HIDE DEF n
    <3>3. next \in Run /\ next.kind = r.kind /\ next.tool = r.tool /\ next.evaluator = n
            /\ next.retry = 0
      BY <3>1 DEF RunOK, Run
    <3> HIDE DEF next, attempt, again
    <3>4. QED
      BY <1>5, <3>1, <3>2, <3>3
  <2> HIDE DEF next, attempt, again, n
  <2>5. QED
    BY <2>1, <2>2, <2>3, <2>4
<1>6. CASE r.kind = "domain"
  <2>1. q = [r EXCEPT !.pc = "finish_attempt"]
    BY <1>6 DEF AfterFinish
  <2>2. QED
    BY <1>2, <2>1
<1>7. CASE r.kind \notin {"classification", "evaluation", "domain"}
  <2>1. \/ q = NextTool(r)
        \/ q = [r EXCEPT !.pc = "recover_tool"]
        \/ q = Halt(r, StatusFor(r.failure))
    <3>1. CASE r.failure = "none"
      BY <1>7, <3>1 DEF AfterFinish
    <3>2. CASE r.failure # "none" /\ r.dispatched
      BY <1>7, <3>2 DEF AfterFinish
    <3>3. CASE r.failure # "none" /\ ~r.dispatched
      BY <1>7, <3>3 DEF AfterFinish
    <3>4. QED
      BY <3>1, <3>2, <3>3
  <2>2. CASE q = NextTool(r)
    BY <2>2
  <2>3. CASE q = [r EXCEPT !.pc = "recover_tool"]
    BY <1>2, <2>3
  <2>4. CASE q = Halt(r, StatusFor(r.failure))
    BY <1>3, <2>4
  <2>5. QED
    BY <2>1, <2>2, <2>3, <2>4
<1>8. QED
  BY <1>4, <1>5, <1>6, <1>7

LEMMA AfterFinishContinues ==
    ASSUME Inv, BoundInv, Running, run.pc = "finish", NEW q \in AfterFinish(run)
    PROVE  Continues(q, task)
<1>1. run \in Run /\ RunOK(run) /\ Paced(run, task) /\ SafeRecords(task)
  BY DEF Inv, TypeOK, BoundInv
<1>2. RunLeft(run) \in Int /\ Tools - run.tool \in Nat
  BY <1>1, RunLeftFloor DEF Paced
<1>3. CASE q.pc \in Between \cup {"stop"} /\ SamePace(run, q)
  BY <1>3, StopContinues, BetweenContinues DEF SamePace
<1>4. CASE q = NextTool(run)
  BY <1>1, <1>4, NextToolContinues DEF SamePace
<1>5. ASSUME run.kind = "evaluation"
      PROVE  /\ run.evaluator < Evaluators /\ run.retry <= EvaluatorRetries
             /\ RunLeft(run) = 0 + (EvaluationsLeft(run) - 1 + Domains) + (Tools - run.tool + 0)
             /\ EvaluationsLeft(run) \in Nat /\ EvaluationsLeft(run) >= 1
  <2>1. run.evaluator < Evaluators /\ run.retry <= EvaluatorRetries
    BY <1>1, <1>5 DEF Paced, WithinLimits, InOperation
  <2>2. RunLeft(run) = 0 + (EvaluationsLeft(run) - 1 + Domains) + (Tools - run.tool + 0)
    BY <1>5 DEF RunLeft, ClassificationLeft, AttemptLeft, ToolsLeft, ToolKinds, InOperation
  <2>3. QED
    BY <1>1, <2>1, <2>2, EvaluationFacts
<1>6. CASE run.kind = "evaluation" /\ \E next \in Run :
             /\ next.kind = run.kind /\ next.tool = run.tool /\ next.evaluator = run.evaluator + 1
             /\ next.retry = 0 /\ q = NextVerification(next)
  <2>1. PICK next \in Run :
             /\ next.kind = run.kind /\ next.tool = run.tool /\ next.evaluator = run.evaluator + 1
             /\ next.retry = 0 /\ q = NextVerification(next)
    BY <1>6
  <2>2. EvaluationsLeft(next) <= EvaluationsLeft(run) - 1
    BY <1>1, <1>5, <1>6, <2>1, EvaluationFacts
  <2>3. next.evaluator < Evaluators => EvaluationsLeft(next) \in Int
    BY EvaluationsWithin
  <2>4. /\ RunLeft(run) >= Domains + (Tools - run.tool)
        /\ next.evaluator < Evaluators =>
              RunLeft(run) >= EvaluationsLeft(next) + Domains + (Tools - run.tool)
    BY <1>2, <1>5, <1>6, <2>2, <2>3, RoundFacts
  <2>5. next.retry <= EvaluatorRetries
    BY <2>1, RoundFacts
  <2>6. QED
    BY <1>2, <1>6, <2>1, <2>4, <2>5, NextVerificationContinues DEF InOperation
<1>7. CASE /\ run.kind = "evaluation" /\ run.retry < EvaluatorRetries
           /\ q.pc = "retry_evaluation" /\ SamePace(run, q)
  <2>1. EvaluationsLeft(q) = EvaluationsLeft(run)
    BY <1>7 DEF EvaluationsLeft, SamePace
  <2>2. RunLeft(q) = 0 + (EvaluationsLeft(run) - 1 + Domains) + (Tools - run.tool + 0)
    BY <1>7, <2>1 DEF RunLeft, ClassificationLeft, AttemptLeft, ToolsLeft, SamePace, InOperation
  <2>3. Left(q, task) \in Int /\ Left(q, task) <= Left(run, task)
    BY <1>2, <1>5, <1>7, <2>2, LeftCompares
  <2>4. WithinLimits(q, task) /\ ToolsPaced(q, task)
    BY <1>1, <1>5, <1>7 DEF Paced, WithinLimits, ToolsPaced, SamePace, InOperation
  <2>5. QED
    BY <1>1, <2>3, <2>4 DEF Continues, Paced
<1>8. QED
  BY <1>1, <1>3, <1>4, <1>6, <1>7, AfterFinishPlaces

LEMMA FinishOperationKeepsBound == ASSUME Inv, AccountInv, BoundInv, FinishOperation PROVE BoundInv'
<1> DEFINE t == WithOp(task, run.id, FinalStatus(run), run.actual)
           op == [kind |-> run.kind, step |-> run.tool, status |-> FinalStatus(run),
                  actual |-> run.actual]
<1>1. PICK q \in AfterFinish(run) : Save(t, q)
  BY DEF FinishOperation
<1>2. /\ run.id \in Ids /\ run \in Run /\ task \in TaskResult /\ Running
      /\ Tracked(run, task) /\ run.pc = "finish" /\ Quiet
      /\ run.actual \in Nat \cup {Unknown}
  BY DEF FinishOperation, Inv, RunOK, Run, TypeOK, InOperation, Ended, AccountInv, Running
<1>3. FinalStatus(run) \in OpStatuses /\ FinalStatus(run) # "absent"
  BY DEF OpStatuses, FinalStatus
<1>4. /\ op.kind = run.kind /\ op.step = run.tool /\ op.status = FinalStatus(run)
      /\ t \in TaskResult /\ t.ops = [task.ops EXCEPT ![run.id] = op]
      /\ t.generations = task.generations /\ t.recoveries = task.recoveries
  BY <1>2, <1>3, WithOpFields
<1> HIDE DEF t, op
<1>5. /\ task.ops[run.id].status # "absent" /\ op.status # "absent"
      /\ op.kind = task.ops[run.id].kind /\ op.step = task.ops[run.id].step
  BY <1>2, <1>3, <1>4 DEF Tracked, OpTracked
<1>6. SameCounts(t)
  BY <1>2, <1>4, <1>5, RecordKeepsCounts
<1>7. Continues(q, t)
  BY <1>2, <1>6, AfterFinishContinues, ContinuesSame
<1>8. QED
  BY <1>1, <1>2, <1>4, <1>7, SaveKeepsBound

LEMMA ValidatingKeepsBound == ASSUME Inv, BoundInv, Validating PROVE BoundInv'
<1>1. Running /\ run \in Run /\ run.pc = "validating" /\ Quiet /\ Paced(run, task)
  BY DEF Validating, Running, Ended, Inv, TypeOK, BoundInv
<1> DEFINE q == AdmitAt(run, "validation")
<1>2. q.pc = "admit" /\ q.kind = "validation" /\ q.tool = run.tool /\ q.retry = run.retry
  BY <1>1, AdmitFields
<1>3. Save([task EXCEPT !.status = "VALIDATING"], q)
  BY DEF Validating
<1> HIDE DEF q
<1>4. RunLeft(q) = 0 + (Round - 1) + (Tools - run.tool + 0)
  BY <1>2 DEF RunLeft, ClassificationLeft, AttemptLeft, ToolsLeft, ToolKinds, InOperation
<1>5. RunLeft(run) = 0 + (Round - 1) + (Tools - run.tool + 0)
  BY <1>1 DEF RunLeft, ClassificationLeft, AttemptLeft, ToolsLeft, InOperation
<1>6. RunLeft(run) \in Int
  BY <1>1, RunLeftFloor DEF Paced
<1>7. run.retry \in Nat /\ run.retry <= EvaluatorRetries /\ RunLeft(q) <= RunLeft(run)
        /\ RunLeft(q) \in Int
  BY <1>1, <1>4, <1>5, <1>6 DEF Paced, WithinLimits, Run
<1>8. Continues(q, task)
  BY <1>1, <1>2, <1>7, AdmitContinues DEF Kinds, ToolKinds
<1>9. QED
  BY <1>1, <1>3, <1>8, StatusSaveKeepsBound DEF Statuses

\* A retry takes one of the evaluator's calls.
LEMMA RetryEvaluationKeepsBound == ASSUME Inv, BoundInv, RetryEvaluation PROVE BoundInv'
<1>1. /\ Running /\ run \in Run /\ run.pc = "retry_evaluation" /\ Quiet /\ Paced(run, task)
      /\ task \in TaskResult
  BY DEF RetryEvaluation, Running, Ended, Inv, TypeOK, BoundInv
<1>2. /\ run.kind = "evaluation" /\ run.evaluator < Evaluators /\ run.retry < EvaluatorRetries
      /\ run.retry \in Nat
  BY <1>1 DEF Paced, WithinLimits, Run
<1> DEFINE n == run.retry + 1
           r == [run EXCEPT !.retry = n]
           q == AdmitAt(r, "evaluation")
<1>3. n \in Nat /\ n <= EvaluatorRetries /\ run.retry <= EvaluatorRetries /\ n = run.retry + 1
  BY <1>2, RoundFacts
<1>4. Save(task, q)
  BY DEF RetryEvaluation
<1> HIDE DEF n
<1>5. r \in Run /\ r.tool = run.tool /\ r.evaluator = run.evaluator /\ r.retry = n
  BY <1>1, <1>3 DEF Run
<1> HIDE DEF r
<1>6. /\ q.pc = "admit" /\ q.kind = "evaluation" /\ q.tool = run.tool /\ q.retry = n
      /\ q.evaluator = run.evaluator
  BY <1>5, AdmitFields
<1> HIDE DEF q
<1>7. EvaluationsLeft(run) \in Nat /\ EvaluationsLeft(q) = EvaluationsLeft(run) - 1
  BY <1>1, <1>2, <1>3, <1>6, EvaluationFacts
<1>8. RunLeft(q) = 0 + (EvaluationsLeft(q) + Domains) + (Tools - run.tool + 0)
  BY <1>6 DEF RunLeft, ClassificationLeft, AttemptLeft, ToolsLeft, ToolKinds, InOperation
<1>9. RunLeft(run) = 0 + (EvaluationsLeft(run) - 1 + Domains) + (Tools - run.tool + 0)
  BY <1>1 DEF RunLeft, ClassificationLeft, AttemptLeft, ToolsLeft, InOperation
<1>10. RunLeft(run) \in Int
  BY <1>1, RunLeftFloor DEF Paced
<1>11. RunLeft(q) = RunLeft(run)
  BY <1>7, <1>8, <1>9
<1>12. RunLeft(q) <= RunLeft(run) /\ RunLeft(q) \in Int
  BY <1>10, <1>11
<1>13. Continues(q, task)
  BY <1>1, <1>2, <1>3, <1>6, <1>12, AdmitContinues DEF Kinds, ToolKinds
<1>14. QED
  BY <1>1, <1>4, <1>13, SaveKeepsBound

LEMMA FinishAttemptKeepsBound ==
    ASSUME Inv, AccountInv, BoundInv, NEW f \in Failures, FinishAttempt(f) PROVE BoundInv'
<1> DEFINE old == task.ops[run.attempt]
           called == old.status = "observed"
           op == [kind |-> "generation", step |-> 0,
                  status |-> CASE ~called -> "cancelled"
                               [] called /\ f = "none" -> "succeeded"
                               [] OTHER -> "failed",
                  actual |-> IF called THEN old.actual ELSE 0]
           ops == [task.ops EXCEPT ![run.attempt] = op]
           t == [task EXCEPT !.ops = ops]
           failed == [run EXCEPT !.pc = "recover", !.failure = f]
           r == IF f = "none" THEN NextTool(run) ELSE failed
<1>1. /\ task \in TaskResult /\ Running /\ run \in Run /\ run.attempt \in Ids
      /\ Tracked(run, task) /\ run.pc = "finish_attempt" /\ Quiet
  BY DEF FinishAttempt, Inv, RunOK, TypeOK, AttemptPoints, Ended, AccountInv, Running
<1>2. OpenOp(old) /\ old \in Op
  BY <1>1 DEF Tracked, Attempting, TaskResult
<1>3. Save(t, r)
  BY DEF FinishAttempt
<1>4. op \in Op /\ op.status # "absent" /\ op.kind = "generation" /\ op.step = 0
  BY <1>2 DEF Op, Kinds, OpStatuses
<1> HIDE DEF op
<1>5. ops \in [Ids -> Op] /\ ops = [task.ops EXCEPT ![run.attempt] = op]
  BY <1>1, <1>4 DEF TaskResult
<1> HIDE DEF ops
<1>6. /\ t \in TaskResult /\ t.ops = ops
      /\ t.generations = task.generations /\ t.recoveries = task.recoveries
  BY <1>1, <1>5 DEF TaskResult
<1> HIDE DEF t
<1>7. /\ old.status # "absent" /\ op.kind = old.kind /\ op.step = old.step
  BY <1>2, <1>4 DEF OpenOp
<1>8. SameCounts(t)
  BY <1>1, <1>4, <1>5, <1>6, <1>7, RecordKeepsCounts
<1>9. /\ failed.pc = "recover" /\ failed.kind = run.kind /\ failed.tool = run.tool
      /\ failed.retry = run.retry
  BY <1>1 DEF Run
<1> HIDE DEF failed
<1>10. Continues(failed, task)
  BY <1>1, <1>9, BetweenContinues DEF Between
<1>11. Continues(NextTool(run), task)
  BY <1>1, NextToolContinues DEF SamePace
<1>12. Continues(r, t)
  BY <1>8, <1>10, <1>11, ContinuesSame
<1> HIDE DEF r
<1>13. QED
  BY <1>1, <1>3, <1>6, <1>12, SaveKeepsBound

LEMMA RecoverKeepsBound ==
    ASSUME Inv, BoundInv, NEW again \in BOOLEAN, Recover(again) PROVE BoundInv'
<1>1. Running /\ run \in Run /\ run.pc = "recover" /\ Quiet
  BY DEF Recover, Running, Ended, Inv, TypeOK
<1> DEFINE reroute == [run EXCEPT !.pc = "reroute"]
           r == IF again THEN reroute ELSE Halt(run, "FAILED")
<1>2. /\ reroute.pc = "reroute" /\ reroute.tool = run.tool /\ reroute.kind = run.kind
      /\ reroute.retry = run.retry
  BY <1>1 DEF Run
<1>3. Save([task EXCEPT !.status = "RECOVERING"], r)
  BY DEF Recover
<1> HIDE DEF reroute
<1>4. Continues(r, task)
  BY <1>1, <1>2, BetweenContinues, HaltContinues DEF Between, Terminal
<1> HIDE DEF r
<1>5. QED
  BY <1>1, <1>3, <1>4, StatusSaveKeepsBound DEF Statuses

LEMMA RerouteKeepsBound ==
    ASSUME Inv, BoundInv, NEW rejected \in BOOLEAN, Reroute(rejected) PROVE BoundInv'
<1>1. Running /\ run \in Run /\ task \in TaskResult /\ run.pc = "reroute" /\ Quiet
  BY DEF Reroute, Running, Ended, Inv, TypeOK
<1> DEFINE e == IF run.failure = "quality" THEN task.escalations + 1 ELSE task.escalations
           n == IF run.failure = "infrastructure" THEN task.retries + 1 ELSE task.retries
           t == [task EXCEPT !.status = "ROUTED", !.escalations = e, !.retries = n]
           loop == [run EXCEPT !.pc = "loop", !.evaluator = 0, !.retry = 0]
           r == IF rejected THEN Halt(run, "FAILED") ELSE loop
<1>2. e \in Nat /\ n \in Nat
  BY <1>1 DEF TaskResult
<1>3. Save(t, r)
  BY DEF Reroute
<1> HIDE DEF e, n
<1>4. /\ t \in TaskResult /\ t.ops = task.ops
      /\ t.generations = task.generations /\ t.recoveries = task.recoveries
  BY <1>1, <1>2 DEF TaskResult, Statuses
<1> HIDE DEF t
<1>5. loop.pc = "loop" /\ loop.tool = run.tool /\ loop.kind = run.kind /\ loop.retry = 0
  BY <1>1 DEF Run
<1> HIDE DEF loop
<1>6. Continues(r, task)
  BY <1>1, <1>5, BetweenContinues, HaltContinues DEF Between, Terminal
<1> HIDE DEF r
<1>7. SameCounts(t)
  BY <1>4 DEF SameCounts, SameTools, ToolOp
<1>8. QED
  BY <1>1, <1>3, <1>4, <1>6, <1>7, ContinuesSame, SaveKeepsBound

\* A replay is chosen only where a recovery is left.
LEMMA RecoverToolKeepsBound == ASSUME Inv, AccountInv, BoundInv, RecoverTool PROVE BoundInv'
<1>1. /\ Running /\ run \in Run /\ task \in TaskResult /\ run.pc = "recover_tool" /\ Quiet
      /\ Paced(run, task) /\ SafeRecords(task) /\ run.kind \in ToolKinds
  BY DEF RecoverTool, Running, Ended, Inv, TypeOK, BoundInv, AccountInv, Tracked, ToolsTracked
<1>2. PICK q \in AfterToolFailure : Save([task EXCEPT !.status = "RECOVERING"], q)
  BY DEF RecoverTool
<1> DEFINE same == [run EXCEPT !.pc = "replay_tool"]
           other == [run EXCEPT !.pc = "replay_tool", !.kind = "alternate_tool"]
<1>3. \/ q \in {Halt(run, "FAILED"), Halt(run, "BLOCKED")}
      \/ q \in {same, other} /\ ~(task.recoveries >= MaxToolRecoveries)
  BY DEF AfterToolFailure
<1>4. CASE q \in {Halt(run, "FAILED"), Halt(run, "BLOCKED")}
  <2>1. Continues(q, task)
    BY <1>1, <1>4, HaltContinues DEF Terminal
  <2>2. QED
    BY <1>1, <1>2, <2>1, StatusSaveKeepsBound DEF Statuses
<1>5. CASE q \in {same, other} /\ ~(task.recoveries >= MaxToolRecoveries)
  <2>1. /\ q.pc = "replay_tool" /\ q.kind \in ToolKinds /\ q.tool = run.tool
        /\ q.evaluator = run.evaluator /\ q.retry = run.retry
    BY <1>1, <1>5 DEF Run, ToolKinds
  <2>2. task.recoveries < MaxToolRecoveries
    BY <1>1, <1>5, RoundFacts DEF TaskResult
  <2>3. RunLeft(q) = 0 + 0 + (Tools - run.tool + 0)
    BY <2>1 DEF RunLeft, ClassificationLeft, AttemptLeft, ToolsLeft, InOperation
  <2>4. RunLeft(run) = 0 + 0 + (Tools - run.tool + 0)
    BY <1>1, BetweenLeft DEF Between
  <2>5. RunLeft(run) \in Int
    BY <1>1, RunLeftFloor DEF Paced
  <2>6. RunLeft(q) \in Int /\ RunLeft(q) <= RunLeft(run)
    BY <2>3, <2>4, <2>5
  <2>7. Left(q, task) \in Int /\ Left(q, task) <= Left(run, task)
    BY <1>1, <2>6, LeftCompares
  <2>8. WithinLimits(q, task)
    BY <1>1, <2>1, <2>2 DEF Paced, WithinLimits, InOperation, ToolKinds
  <2>9. ToolsPaced(q, task)
    BY <1>1, <2>1 DEF Paced, ToolsPaced
  <2>10. Continues(q, task)
    BY <1>1, <2>7, <2>8, <2>9 DEF Continues, Paced
  <2>11. QED
    BY <1>1, <1>2, <2>10, StatusSaveKeepsBound DEF Statuses
<1>6. QED
  BY <1>3, <1>4, <1>5

\* Counting the recovery pays for the call it makes.
LEMMA ReplayToolKeepsBound == ASSUME Inv, AccountInv, BoundInv, ReplayTool PROVE BoundInv'
<1>1. /\ Running /\ run \in Run /\ task \in TaskResult /\ run.pc = "replay_tool" /\ Quiet
      /\ Paced(run, task) /\ SafeRecords(task) /\ run.kind \in ToolKinds
      /\ UNCHANGED <<row, journal>>
  BY DEF ReplayTool, Running, Ended, Inv, TypeOK, BoundInv, AccountInv, Tracked, ToolsTracked
<1>2. /\ task.recoveries \in Nat /\ task.recoveries < MaxToolRecoveries
      /\ task.generations \in Nat /\ task.generations <= MaxGenerations /\ run.tool \in Nat
      /\ run.tool <= Tools /\ run.retry <= EvaluatorRetries
  BY <1>1 DEF Paced, WithinLimits, TaskResult, Run
<1> DEFINE n == task.recoveries + 1
           t == [task EXCEPT !.recoveries = n, !.status = "VALIDATING"]
           r == [run EXCEPT !.replay = TRUE]
           q == AdmitAt(r, run.kind)
<1>3. n \in Nat /\ n <= MaxToolRecoveries /\ n = task.recoveries + 1
  BY <1>2, RoundFacts
<1>4. task' = t /\ run' = q
  BY DEF ReplayTool
<1> HIDE DEF n
<1>5. t.ops = task.ops /\ t.generations = task.generations /\ t.recoveries = n
  BY <1>1 DEF TaskResult
<1> HIDE DEF t
<1>6. r \in Run /\ r.tool = run.tool /\ r.retry = run.retry /\ r.replay = TRUE
  BY <1>1 DEF Run
<1> HIDE DEF r
<1>7. /\ q.pc = "admit" /\ q.kind = run.kind /\ q.tool = run.tool /\ q.retry = run.retry
      /\ q.replay = TRUE
  BY <1>6, AdmitFields
<1> HIDE DEF q
<1>8. RunLeft(q) = 0 + 0 + (Tools - run.tool + 1)
  BY <1>1, <1>7 DEF RunLeft, ClassificationLeft, AttemptLeft, ToolsLeft, ToolKinds, InOperation
<1>9. RunLeft(run) = 0 + 0 + (Tools - run.tool + 0)
  BY <1>1 DEF RunLeft, ClassificationLeft, AttemptLeft, ToolsLeft, InOperation
<1>10. (MaxGenerations - task.generations) * Round \in Int
  BY <1>2, RoundFacts
<1>11. Left(q, t) \in Int /\ Left(q, t) <= Left(run, task)
  <2> DEFINE p == (MaxGenerations - task.generations) * Round
  <2>1. Left(q, t) = RunLeft(q) + p + (MaxToolRecoveries - n)
    BY <1>5 DEF Left
  <2>2. Left(run, task) = RunLeft(run) + p + (MaxToolRecoveries - task.recoveries)
    BY DEF Left
  <2>3. p \in Int
    BY <1>10
  <2> HIDE DEF p
  <2>4. QED
    BY <1>2, <1>3, <1>8, <1>9, <2>1, <2>2, <2>3, RoundFacts
<1>12. WithinLimits(q, t)
  BY <1>1, <1>2, <1>3, <1>5, <1>7 DEF WithinLimits, ToolKinds, InOperation
<1>13. ToolsPaced(q, t)
  BY <1>1, <1>5, <1>7 DEF Paced, ToolsPaced, ToolOp
<1>14. SafeRecords(t)
  BY <1>1, <1>5 DEF SafeRecords, ToolOp
<1>15. Continues(run', task')
  BY <1>1, <1>4, <1>11, <1>12, <1>13, <1>14 DEF Continues, Paced
<1>16. Used(ledger') = Used(ledger)
  BY <1>1 DEF Quiet
<1>17. QED
  BY <1>1, <1>15, <1>16, MoveKeepsBound

LEMMA ReturnContinues == ASSUME BoundInv PROVE Continues(EndedRun("returned"), task)
<1>1. EndedRun("returned").pc = "returned"
  BY EndedOK DEF Ended
<1>2. QED
  BY <1>1 DEF Continues, BoundInv, Ended

LEMMA CompleteKeepsBound ==
    ASSUME Inv, BoundInv, NEW f \in Failures, Complete(f) PROVE BoundInv'
<1>1. Running /\ Quiet
  BY DEF Complete, Running, Ended
<1>2. CASE f = "none"
  BY <1>1, <1>2, ReturnContinues, StatusSaveKeepsBound DEF Complete, Statuses, Terminal
<1>3. CASE f # "none"
  <2>1. run' = Halt(run, StatusFor(f)) /\ UNCHANGED <<task, row, journal>>
    BY <1>3 DEF Complete
  <2>2. QED
    BY <1>1, <2>1, StatusForType, HaltContinues, QuietKeepsBound
<1>4. QED
  BY <1>2, <1>3

LEMMA StopKeepsBound == ASSUME Inv, BoundInv, Stop PROVE BoundInv'
<1>1. Running /\ Quiet /\ run.verdict \in Statuses
  BY DEF Stop, Running, Ended, Inv, TypeOK, Run, Terminal, Statuses
<1>2. Save([task EXCEPT !.status = run.verdict], EndedRun("returned"))
  BY DEF Stop
<1>3. QED
  BY <1>1, <1>2, ReturnContinues, StatusSaveKeepsBound

LEMMA CrashKeepsBound == ASSUME BoundInv, Crash PROVE BoundInv'
<1>1. /\ UNCHANGED ledger /\ run' = EndedRun("crashed") /\ task' = NoTask
      /\ row' = row /\ journal' = journal
  BY DEF Crash, Quiet
<1>2. EndedRun("crashed").pc = "crashed"
  BY EndedOK DEF Ended
<1>3. QED
  BY <1>1, <1>2, BlankSafe, EndsBound DEF BoundInv, Running, Ended

\* A new task has everything left.
LEMMA NewTaskBound ==
    ASSUME NEW r, r = [NoRun EXCEPT !.pc = "preflight"]
    PROVE  Paced(r, NewTask) /\ SafeRecords(NewTask) /\ Left(r, NewTask) = Bound
<1>1. /\ r.pc = "preflight" /\ r.kind = "generation" /\ r.tool = 0 /\ r.retry = 0
  BY DEF NoRun
<1>2. NewTask.ops = NoTask.ops /\ NewTask.generations = 0 /\ NewTask.recoveries = 0
  BY DEF NewTask, NoTask
<1>3. \A i \in Ids : ~ToolOp(NewTask, i)
  BY <1>2, BlankSafe DEF ToolOp, NoTask, NoOp
<1>4. SafeRecords(NewTask)
  BY <1>3 DEF SafeRecords
<1>5. WithinLimits(r, NewTask)
  BY <1>1, <1>2, RoundFacts DEF WithinLimits, InOperation
<1>6. ToolsPaced(r, NewTask)
  BY <1>1, <1>3 DEF ToolsPaced, ToolKinds
<1>7. /\ ClassificationLeft(r) = (IF Live THEN 1 ELSE 0) /\ AttemptLeft(r) = 0
      /\ ToolsLeft(r) = Tools - 0 + 0
  BY <1>1 DEF ClassificationLeft, AttemptLeft, ToolsLeft, InOperation
<1>8. Left(r, NewTask) = Bound
  <2> DEFINE c == IF Live THEN 1 ELSE 0
             p == MaxGenerations * Round
  <2>1. c \in Nat /\ p \in Nat
    BY RoundFacts, Products
  <2>2. (MaxGenerations - 0) * Round = p
    BY RoundFacts
  <2>3. Left(r, NewTask) = c + 0 + (Tools - 0 + 0) + (MaxGenerations - 0) * Round
                             + (MaxToolRecoveries - 0)
    BY <1>2, <1>7 DEF Left, RunLeft
  <2>4. Bound = c + p + Tools + MaxToolRecoveries
    BY DEF Bound
  <2> HIDE DEF c, p
  <2>5. QED
    BY <2>1, <2>2, <2>3, <2>4, RoundFacts
<1>9. QED
  BY <1>4, <1>5, <1>6, <1>8 DEF Paced

LEMMA UnusedLedger ==
    ASSUME NEW l, \A i \in Ids : l[i].state = "free" PROVE Cardinality(Used(l)) = 0
<1>1. Used(l) = {}
  BY DEF Used
<1>2. QED
  BY <1>1, FS_EmptySet

LEMMA NothingUsed == Bound \in Nat
<1>1. MaxGenerations * Round \in Nat
  BY Products, RoundFacts
<1>2. QED
  BY <1>1, RoundFacts DEF Bound

LEMMA CreateKeepsBound ==
    ASSUME Inv, AccountInv, BoundInv, NEW c \in Callers, Create(c) PROVE BoundInv'
<1>1. ledger' = ledger /\ journal' = journal
  BY DEF Create
<1>2. CASE row.status = "absent"
  <2> DEFINE r == [NoRun EXCEPT !.pc = "preflight"]
  <2>1. row' = NewTask /\ task' = NewTask /\ run' = r
    BY <1>2 DEF Create
  <2>2. Paced(r, NewTask) /\ SafeRecords(NewTask) /\ Left(r, NewTask) = Bound
    BY NewTaskBound
  <2>3. \A i \in Ids : ledger[i].state = "free"
    BY <1>2 DEF AccountInv, Unclaimed
  <2>4. Cardinality(Used(ledger')) = 0 /\ Bound \in Nat
    BY <1>1, <2>3, UnusedLedger, NothingUsed
  <2> HIDE DEF r
  <2>5. QED
    BY <1>1, <2>1, <2>2, <2>4 DEF BoundInv
<1>3. CASE row.status # "absent"
  <2>1. UNCHANGED <<row, task, run, ledger, journal>>
    BY <1>1, <1>3 DEF Create
  <2>2. QED
    BY <2>1 DEF BoundInv, Running
<1>4. QED
  BY <1>2, <1>3

LEMMA CreateUnavailableKeepsBound ==
    ASSUME BoundInv, NEW c \in Callers, CreateUnavailable(c) PROVE BoundInv'
<1>1. UNCHANGED <<task, run, ledger, journal>> /\ row' \in {row, NewTask}
  BY DEF CreateUnavailable
<1>2. SafeRecords(NewTask)
  BY NewTaskBound
<1>3. QED
  BY <1>1, <1>2 DEF BoundInv, Running

LEMMA ReconcileKeepsBound == ASSUME BoundInv, Reconcile PROVE BoundInv'
<1>1. UNCHANGED <<task, run, ledger>> /\ row' = journal /\ journal' = NoTask
  BY DEF Reconcile
<1>2. QED
  BY <1>1, BlankSafe DEF BoundInv, Running
-----------------------------------------------------------------------------
LEMMA InitBound == Init => BoundInv
<1> SUFFICES ASSUME Init PROVE BoundInv
  OBVIOUS
<1>1. ~Running /\ task = NoTask /\ row = NoTask /\ journal = NoTask
  BY DEF Init, NoRun, Running
<1>2. \A i \in Ids : ledger[i].state = "free"
  BY DEF Init, NoReservation
<1>3. Cardinality(Used(ledger)) = 0 /\ Bound \in Nat
  BY <1>2, UnusedLedger, NothingUsed
<1>4. QED
  BY <1>1, <1>3, BlankSafe DEF BoundInv

LEMMA StepBound == ASSUME Inv, AccountInv, BoundInv, Step PROVE BoundInv'
  BY PreflightKeepsBound, ClassifyKeepsBound, EnvironmentKeepsBound, LoopKeepsBound,
     RouteKeepsBound, RerouteKeepsBound, ReserveKeepsBound, ReserveUnavailableKeepsBound,
     RefuseKeepsBound, WithdrawKeepsBound, FinishAttemptKeepsBound, CompleteKeepsBound,
     IntentKeepsBound, LiveRefusalKeepsBound, DispatchKeepsBound, EvidenceKeepsBound,
     SettleKeepsBound, SettleUnavailableKeepsBound, FinishOperationKeepsBound,
     ValidatingKeepsBound, RetryEvaluationKeepsBound, GiveUpKeepsBound, RecoverKeepsBound,
     RecoverToolKeepsBound, ReplayToolKeepsBound, StopKeepsBound DEF Step

LEMMA NextBound == Inv /\ AccountInv /\ BoundInv /\ [Next]_vars => BoundInv'
<1> SUFFICES ASSUME Inv, AccountInv, BoundInv, [Next]_vars PROVE BoundInv'
  OBVIOUS
<1>1. CASE UNCHANGED vars
  BY <1>1 DEF vars, BoundInv, Running
<1>2. QED
  BY <1>1, StepBound, CreateKeepsBound, CreateUnavailableKeepsBound, CrashKeepsBound,
     ReconcileKeepsBound DEF Next

LEMMA BoundIsStated == BoundInv => OperationsBounded
  BY DEF BoundInv, OperationsBounded, Used, Bound, Round, Evaluations, Domains

LEMMA AtMostOne ==
    ASSUME NEW S, \A i, j \in S : i = j PROVE Cardinality(S) <= 1
<1>1. CASE S = {}
  BY <1>1, FS_EmptySet
<1>2. CASE S # {}
  <2>1. PICK i \in S : TRUE
    BY <1>2
  <2>2. S = {i}
    BY <2>1
  <2>3. Cardinality(S) = 1
    BY <2>2, FS_Singleton, Zenon
  <2>4. QED
    BY <2>3
<1>3. QED
  BY <1>1, <1>2

LEMMA SafetyIsStated == ASSUME Inv, BoundInv PROVE SideEffectsSafe
<1> SUFFICES ASSUME NEW n \in 1..Tools
             PROVE  LET performed(kinds) == {i \in Ids : /\ Called(i) /\ row.ops[i].kind \in kinds
                                                         /\ row.ops[i].step = n}
                    IN  /\ ToolPlan[n] = "unkeyed" => Cardinality(performed(ToolKinds)) <= 1
                        /\ ToolPlan[n] = "keyed" => performed({"alternate_tool"}) = {}
  BY DEF SideEffectsSafe
<1> DEFINE performed(kinds) == {i \in Ids : /\ Called(i) /\ row.ops[i].kind \in kinds
                                            /\ row.ops[i].step = n}
<1>1. \A i \in Ids : Called(i) => row.ops[i].status # "absent"
  BY DEF Inv, IntentBeforeCall
<1>2. SafeRecords(row)
  BY DEF BoundInv
<1>3. ASSUME ToolPlan[n] = "unkeyed" PROVE Cardinality(performed(ToolKinds)) <= 1
  <2>1. \A i, j \in performed(ToolKinds) : i = j
    BY <1>1, <1>2, <1>3 DEF SafeRecords, ToolOp
  <2> HIDE DEF performed
  <2>2. QED
    BY <2>1, AtMostOne
<1>4. ASSUME ToolPlan[n] = "keyed" PROVE performed({"alternate_tool"}) = {}
  BY <1>1, <1>2, <1>4 DEF SafeRecords, ToolOp, ToolKinds
<1>5. QED
  BY <1>3, <1>4

\* Every loop of the execution is bounded for any plan: attempts, evaluator
\* retries and tool recoveries together never reserve more operations than the
\* limits allow, whatever fails and however often the task is resubmitted.
THEOREM OperationsAreBounded == Spec => []OperationsBounded
<1>1. BoundInv => OperationsBounded
  BY BoundIsStated
<1>2. QED
  BY <1>1, InitInv, NextInv, InitAccount, NextAccount, InitBound, NextBound, PTL DEF Spec

\* _check_tool keeps every side effect safe: one that cannot be reconciled is
\* performed at most once, and one with an idempotency key never on another tool.
THEOREM SideEffectsAreSafe == Spec => []SideEffectsSafe
<1>1. Inv /\ BoundInv => SideEffectsSafe
  BY SafetyIsStated
<1>2. QED
  BY <1>1, InitInv, NextInv, InitAccount, NextAccount, InitBound, NextBound, PTL DEF Spec

-----------------------------------------------------------------------------
(* A stored success is sound.                                              *)
(*                                                                         *)
(* SuccessIsSound is about the moment of success alone.  Course carries it *)
(* there: what the records of the last attempt show to have passed at each *)
(* point of the program (Progressed), that its generation was answered     *)
(* (Answered), and that every record but those of the operation and the    *)
(* attempt in progress has ended and is settled if and only if its cost is *)
(* known (Booked).  An execution that stops or that found the authority    *)
(* unavailable cannot succeed any more and is off the course.              *)

OnCourse(r) == r.pc \notin Ended \cup {"idle", "stop"} /\ ~r.budgetUnavailable

\* The records of the given kinds that succeeded since operation a.
Passed(ops, a, kinds) ==
    {i \in Ids : i >= a /\ ops[i].kind \in kinds /\ ops[i].status = "succeeded"}

\* How many validations, evaluations, domain validations and tool calls those are.
Verified(ops, a, v, e, d, n) ==
    /\ Cardinality(Passed(ops, a, {"validation"})) = v
    /\ Cardinality(Passed(ops, a, {"evaluation"})) = e
    /\ Cardinality(Passed(ops, a, {"domain"})) = d
    /\ Cardinality(Passed(ops, a, ToolKinds)) = n

\* The stages of an attempt, up to its verification, and of the tools after it.
Unverified(r) ==
    \/ r.kind = "generation" /\ r.pc \in {"recheck", "evidence", "settle"}
    \/ r.pc = "validating"
    \/ r.kind = "validation" /\ r.pc \in {"admit"} \cup InOperation

Evaluating(r) ==
    r.pc = "retry_evaluation" \/ (r.kind = "evaluation" /\ r.pc \in {"admit"} \cup InOperation)

DomainDue(r) == r.kind = "domain" /\ r.pc \in {"admit"} \cup (InOperation \ {"finish"})

AttemptPassed(r) ==
    r.failure = "none" /\ (r.pc = "finish_attempt" \/ (r.kind = "domain" /\ r.pc = "finish"))

UsingTools(r) ==
    r.kind \in ToolKinds /\ r.pc \in {"admit", "recover_tool", "replay_tool"} \cup InOperation

LastAttempt(ops, a) ==
    /\ ops[a].status # "absent" /\ ops[a].kind = "generation"
    /\ \A j \in Ids : ops[j].status # "absent" /\ ops[j].kind = "generation" => j <= a

Progressed(r, ops) ==
    /\ Attempting(r) \/ UsingTools(r) \/ r.pc = "complete" =>
          r.attempt \in Ids /\ LastAttempt(ops, r.attempt)
    /\ Unverified(r) => Verified(ops, r.attempt, 0, 0, 0, 0)
    /\ Evaluating(r) => Verified(ops, r.attempt, 1, r.evaluator, 0, 0)
    /\ DomainDue(r) => Verified(ops, r.attempt, 1, Evaluators, 0, 0)
    /\ AttemptPassed(r) => Verified(ops, r.attempt, 1, Evaluators, Domains, 0)
    /\ UsingTools(r) => Verified(ops, r.attempt, 1, Evaluators, Domains, r.tool - 1)
    /\ r.pc = "complete" => Verified(ops, r.attempt, 1, Evaluators, Domains, Tools)
    /\ UsingTools(r) \/ r.pc = "complete" => ops[r.attempt].status = "succeeded"

\* The provider's answer is recorded before anything is verified, and what is
\* recorded is what is charged.
Answered(r, ops) ==
    /\ (\/ r.pc \in {"validating", "retry_evaluation"}
        \/ r.kind \in ChecksWithinAttempt /\ r.pc \in {"admit"} \cup InOperation
        \/ r.failure = "none" /\ \/ r.pc = "finish_attempt"
                                 \/ r.kind = "generation" /\ r.pc = "settle")
          => ops[r.attempt].status = "observed"
    /\ r.pc = "settle" => IF ops[r.id].status = "observed"
                          THEN ops[r.id].actual = r.actual
                          ELSE r.kind = "generation" => r.actual # Unknown
    /\ r.pc = "finish" => (ops[r.id].status \in Final <=> r.kind = "domain")

\* The run begins an attempt with its first evaluator, and knows whether it called.
Steered(r) ==
    /\ (\/ r.pc \in {"preflight", "classify", "route", "loop", "validating"}
        \/ /\ r.kind \in {"classification", "generation", "validation"}
           /\ r.pc \in {"admit"} \cup InOperation)
         => r.evaluator = 0
    /\ r.kind = "generation" /\ r.pc \in InOperation => r.attempt = r.id
    /\ r.pc \in {"evidence", "settle", "finish"} /\ r.failure = "none" => r.dispatched
    /\ r.pc = "finish" /\ r.kind \in WithinAttempt => r.attempt <= r.id

\* The authority holds the estimate of an operation while its cost is unknown.
Owed(reservation, actual) == reservation.state = "held" <=> actual = Unknown

\* The records that are not yet final.
Pending(r, i) == (r.pc \in InOperation /\ i = r.id) \/ (Attempting(r) /\ i = r.attempt)

Booked(r, ops, l) ==
    /\ \A i \in Ids : ops[i].status # "absent" => l[i].amount = Estimate[ops[i].kind]
    /\ \A i \in Ids : ops[i].status # "absent" /\ ~Pending(r, i) =>
          ops[i].status \in Final /\ Owed(l[i], ops[i].actual)
    /\ r.pc = "finish" => Owed(l[r.id], r.actual)
    /\ Attempting(r) /\ ~(r.kind = "generation" /\ r.pc \in InOperation) =>
          IF ops[r.attempt].status = "observed"
          THEN Owed(l[r.attempt], ops[r.attempt].actual)
          ELSE l[r.attempt].state # "held"

Course(r, ops, l) ==
    Steered(r) /\ Progressed(r, ops) /\ Answered(r, ops) /\ Booked(r, ops, l)

\* While the authority answers, the task knows of every reservation, and what it
\* calls reserved is what the authority holds for it.
HeldOf(l) == [i \in Ids |-> IF l[i].state = "held" THEN l[i].amount ELSE 0]

HeldInv ==
    Running /\ ~run.budgetUnavailable =>
        /\ \A i \in Ids : ledger[i].state # "free" => i \in Counted
        /\ Total(HeldOf(ledger), Ids) = task.reserved

\* The reservations that a task names and whose cost it does not know.
OwedBy(ops) == [i \in Ids |-> IF ops[i].status # "absent" /\ ops[i].actual = Unknown
                              THEN Estimate[ops[i].kind] ELSE 0]

Succeeds(ops, reserved, l) ==
    /\ \E a \in Ids : /\ LastAttempt(ops, a) /\ ops[a].status = "succeeded"
                      /\ Verified(ops, a, 1, Evaluators, Domains, Tools)
    /\ \A i \in Ids : ops[i].status # "absent" => ops[i].status \in Final /\ Excess(l[i]) = 0
    /\ reserved = Total(OwedBy(ops), Ids)
    /\ Live => \A i \in Ids :
          ops[i].status # "absent" /\ ops[i].kind \in {"classification", "generation"}
            => ops[i].actual # Unknown

Sound(t, l) == t.status = "SUCCEEDED" => Succeeds(t.ops, t.reserved, l)

\* A run that goes on with these records and this ledger is on its course or
\* cannot succeed.
Goes(r, ops, l) == r.verdict # "SUCCEEDED" /\ (OnCourse(r) => Course(r, ops, l))

SoundInv == Goes(run, task.ops, ledger) /\ Sound(row, ledger) /\ Sound(journal, ledger)

LEMMA EndedGoes ==
    ASSUME NEW pc \in Ended, NEW ops, NEW l PROVE Goes(EndedRun(pc), ops, l)
  BY DEF Goes, OnCourse, EndedRun, NoRun, Ended

\* While the execution runs, nothing terminal is stored or journaled.
LEMMA MoveKeepsSound ==
    ASSUME Inv, AccountInv, Running, UNCHANGED <<row, journal>>,
           Goes(run', task'.ops, ledger')
    PROVE  SoundInv'
<1>1. row'.status # "SUCCEEDED" /\ journal'.status # "SUCCEEDED"
  BY DEF AccountInv, InStep, Open, Terminal
<1>2. QED
  BY <1>1 DEF SoundInv, Sound

LEMMA SaveKeepsSound ==
    ASSUME Inv, SoundInv, Quiet, NEW t \in TaskResult, NEW r, Save(t, r),
           Goes(r, t.ops, ledger), Sound(t, ledger)
    PROVE  SoundInv'
<1> DEFINE n == [t EXCEPT !.revision = @ + 1]
<1>1. n.ops = t.ops /\ n.status = t.status /\ n.reserved = t.reserved
  BY DEF TaskResult
<1>2. \/ row' = n /\ task' = n /\ run' = r /\ journal' = journal
      \/ row' \in {row, n} /\ journal' = n /\ task' = NoTask /\ run' = EndedRun("raised")
      \/ row' = row /\ journal' = journal /\ task' = NoTask /\ run' = EndedRun("rejected")
  BY DEF Save
<1> HIDE DEF n
<1>3. ledger' = ledger
  BY DEF Quiet
<1>4. Goes(run', task'.ops, ledger')
  BY <1>1, <1>2, <1>3, EndedGoes DEF Ended
<1>5. Sound(n, ledger)
  BY <1>1 DEF Sound
<1>6. QED
  BY <1>2, <1>3, <1>4, <1>5 DEF SoundInv

\* A step that moves the run alone.
LEMMA QuietKeepsSound ==
    ASSUME Inv, AccountInv, Running, Quiet, UNCHANGED <<task, row, journal>>,
           Goes(run', task.ops, ledger)
    PROVE  SoundInv'
  BY MoveKeepsSound DEF Quiet

\* A step that saves no more than a new status.
LEMMA StatusSaveKeepsSound ==
    ASSUME Inv, SoundInv, Quiet, NEW status \in Statuses \ {"SUCCEEDED"}, NEW r,
           Save([task EXCEPT !.status = status], r), Goes(r, task.ops, ledger)
    PROVE  SoundInv'
<1> DEFINE t == [task EXCEPT !.status = status]
<1>1. task \in TaskResult
  BY DEF Inv, TypeOK
<1>2. t \in TaskResult /\ t.ops = task.ops /\ t.status = status
  BY <1>1, StatusFields DEF TaskResult
<1>3. Save(t, r)
  OBVIOUS
<1> HIDE DEF t
<1>4. QED
  BY <1>2, <1>3, SaveKeepsSound DEF Sound
-----------------------------------------------------------------------------
(* The records that passed.                                                *)

LEMMA PassedFinite ==
    ASSUME NEW ops, NEW a, NEW kinds
    PROVE  IsFiniteSet(Passed(ops, a, kinds)) /\ Cardinality(Passed(ops, a, kinds)) \in Nat
<1>1. IsFiniteSet(Ids)
  BY ExecutionAssumption, FS_Interval DEF Ids
<1>2. Passed(ops, a, kinds) \subseteq Ids
  BY DEF Passed
<1>3. QED
  BY <1>1, <1>2, FS_Subset, FS_CardinalityType

\* What passed is the same when the record that changes is of a generation, or
\* does not begin or cease to be a success.
LEMMA VerifiedSame ==
    ASSUME NEW ops, NEW new, NEW id, NEW a,
           \A i \in Ids : i # id => new[i] = ops[i],
           \/ ops[id].status # "succeeded" /\ new[id].status # "succeeded"
           \/ /\ new[id].kind = ops[id].kind
              /\ new[id].status = ops[id].status \/ ops[id].kind = "generation"
    PROVE  \A v, e, d, n : Verified(ops, a, v, e, d, n) => Verified(new, a, v, e, d, n)
<1>1. \A kinds : "generation" \notin kinds => Passed(new, a, kinds) = Passed(ops, a, kinds)
  BY DEF Passed
<1>2. QED
  BY <1>1 DEF Verified, ToolKinds

\* One more has passed.
LEMMA PassedMore ==
    ASSUME NEW ops, NEW new, NEW id \in Ids, NEW a \in Int, a <= id,
           \A i \in Ids : i # id => new[i] = ops[i],
           ops[id].status # "succeeded", new[id].status = "succeeded", NEW kinds
    PROVE  Cardinality(Passed(new, a, kinds))
             = Cardinality(Passed(ops, a, kinds)) + (IF new[id].kind \in kinds THEN 1 ELSE 0)
<1> DEFINE P == Passed(ops, a, kinds)
           Q == Passed(new, a, kinds)
<1>1. IsFiniteSet(P) /\ Cardinality(P) \in Nat
  BY PassedFinite
<1>2. id \notin P
  BY DEF Passed
<1>3. CASE new[id].kind \in kinds
  <2>1. id >= a
    BY ExecutionAssumption DEF Ids
  <2>2. Q = P \cup {id}
    BY <1>3, <2>1 DEF Passed
  <2> HIDE DEF P, Q
  <2>3. Cardinality(Q) = Cardinality(P) + 1
    BY <1>1, <1>2, <2>2, FS_AddElement
  <2>4. QED
    BY <1>3, <2>3 DEF P, Q
<1>4. CASE new[id].kind \notin kinds
  <2>1. Q = P
    BY <1>4 DEF Passed
  <2> HIDE DEF P, Q
  <2>2. Cardinality(Q) = Cardinality(P) + 0
    BY <1>1, <2>1
  <2>3. QED
    BY <1>4, <2>2 DEF P, Q
<1>5. QED
  BY <1>3, <1>4

LEMMA VerifiedMore ==
    ASSUME NEW ops, NEW new, NEW id \in Ids, NEW a \in Int, a <= id,
           \A i \in Ids : i # id => new[i] = ops[i],
           ops[id].status # "succeeded", new[id].status = "succeeded",
           NEW v, NEW e, NEW d, NEW n, Verified(ops, a, v, e, d, n)
    PROVE  /\ new[id].kind = "validation" => Verified(new, a, v + 1, e, d, n)
           /\ new[id].kind = "evaluation" => Verified(new, a, v, e + 1, d, n)
           /\ new[id].kind = "domain" => Verified(new, a, v, e, d + 1, n)
           /\ new[id].kind \in ToolKinds => Verified(new, a, v, e, d, n + 1)
<1> DEFINE more(kinds) == IF new[id].kind \in kinds THEN 1 ELSE 0
<1>0. ASSUME NEW kinds
      PROVE  Cardinality(Passed(new, a, kinds)) = Cardinality(Passed(ops, a, kinds)) + more(kinds)
  BY PassedMore
<1> HIDE DEF more
<1>1. /\ Cardinality(Passed(new, a, {"validation"})) = v + more({"validation"})
      /\ Cardinality(Passed(new, a, {"evaluation"})) = e + more({"evaluation"})
      /\ Cardinality(Passed(new, a, {"domain"})) = d + more({"domain"})
      /\ Cardinality(Passed(new, a, ToolKinds)) = n + more(ToolKinds)
  BY <1>0 DEF Verified
<1>2. v \in Nat /\ e \in Nat /\ d \in Nat /\ n \in Nat
  BY PassedFinite DEF Verified
<1>3. QED
  BY <1>1, <1>2 DEF Verified, ToolKinds, more

\* Nothing has passed since an operation that is the last and no check or tool.
LEMMA VerifiedNothing ==
    ASSUME NEW ops, NEW a \in Ids, ops[a].kind = "generation",
           \A j \in Ids : a < j => ops[j].status = "absent"
    PROVE  Verified(ops, a, 0, 0, 0, 0)
<1>1. ASSUME NEW kinds, "generation" \notin kinds PROVE Passed(ops, a, kinds) = {}
  BY <1>1, ExecutionAssumption DEF Passed, Ids
<1>2. Cardinality({}) = 0
  BY FS_EmptySet
<1>3. QED
  BY <1>1, <1>2 DEF Verified, ToolKinds
-----------------------------------------------------------------------------
(* Every step stays on the course.                                         *)

LEMMA HaltGoes ==
    ASSUME NEW r \in Run, NEW status, status # "SUCCEEDED", NEW ops, NEW l
    PROVE  Goes(Halt(r, status), ops, l)
  BY DEF Goes, OnCourse, Halt, Run

LEMMA StatusForFails == ASSUME NEW f PROVE StatusFor(f) # "SUCCEEDED"
  BY DEF StatusFor

LEMMA AdmitGives ==
    ASSUME NEW r \in Run, NEW kind
    PROVE  LET q == AdmitAt(r, kind)
           IN  /\ q.pc = "admit" /\ q.kind = kind /\ q.failure = "none" /\ q.actual = Unknown
               /\ ~q.dispatched /\ q.id = r.id /\ q.attempt = r.attempt /\ q.tool = r.tool
               /\ q.evaluator = r.evaluator /\ q.verdict = r.verdict
               /\ q.budgetUnavailable = r.budgetUnavailable
  BY DEF AdmitAt, Run

\* From one point outside an attempt to another.
Outside == {"preflight", "classify", "route", "loop", "recover", "reroute"}

LEMMA OutsideGoes ==
    ASSUME NEW r, NEW q, NEW ops, NEW l, Goes(r, ops, l), r.pc \in Outside,
           \/ q.pc \in Outside
           \/ q.pc = "admit" /\ q.kind \in {"classification", "generation"},
           \/ q.pc \in {"recover", "reroute"}
           \/ q.evaluator = 0
           \/ r.pc \notin {"recover", "reroute"} /\ q.evaluator = r.evaluator,
           q.verdict = r.verdict, q.budgetUnavailable = r.budgetUnavailable
    PROVE  Goes(q, ops, l)
<1>1. q.verdict # "SUCCEEDED"
  BY DEF Goes
<1> SUFFICES ASSUME OnCourse(q) PROVE Course(q, ops, l)
  BY <1>1 DEF Goes
<1>2. Course(r, ops, l)
  BY DEF Goes, OnCourse, Outside, Ended
<1>3. Steered(q)
  BY <1>2 DEF Course, Steered, Outside, InOperation
<1>4. Progressed(q, ops) /\ Answered(q, ops)
  BY DEF Progressed, Answered, Outside, InOperation, Attempting, UsingTools, Unverified, Evaluating,
         DomainDue, AttemptPassed, ToolKinds, ChecksWithinAttempt
<1>5. ~Attempting(r) /\ ~Attempting(q) /\ r.pc \notin InOperation /\ q.pc \notin InOperation
  BY DEF Attempting, Outside, InOperation, ChecksWithinAttempt
<1>6. Booked(q, ops, l)
  BY <1>2, <1>5 DEF Course, Booked, Pending, InOperation
<1>7. QED
  BY <1>3, <1>4, <1>6 DEF Course

LEMMA PreflightKeepsSound == ASSUME Inv, AccountInv, SoundInv, Preflight PROVE SoundInv'
<1>1. Running /\ run \in Run /\ run.pc = "preflight" /\ Quiet /\ UNCHANGED <<task, row, journal>>
        /\ Goes(run, task.ops, ledger)
  BY DEF Preflight, Running, Ended, Inv, TypeOK, SoundInv
<1>2. CASE run' = Halt(run, "BLOCKED") \/ \E f \in CheckpointOutcomes \ {"none"} : run' = Halt(run, StatusFor(f))
  BY <1>1, <1>2, HaltGoes, StatusForFails, QuietKeepsSound
<1>3. CASE run' = AdmitAt(run, "classification")
  BY <1>1, <1>3, AdmitGives, OutsideGoes, QuietKeepsSound DEF Outside
<1>4. CASE run' = [run EXCEPT !.pc = "classify"]
  <2>1. /\ run'.pc = "classify" /\ run'.evaluator = run.evaluator /\ run'.verdict = run.verdict
        /\ run'.budgetUnavailable = run.budgetUnavailable
    BY <1>1, <1>4 DEF Run
  <2>2. QED
    BY <1>1, <2>1, OutsideGoes, QuietKeepsSound DEF Outside
<1>5. QED
  BY <1>2, <1>3, <1>4 DEF Preflight

LEMMA ClassifyKeepsSound == ASSUME Inv, AccountInv, SoundInv, Classify PROVE SoundInv'
<1>1. Running /\ run \in Run /\ run.pc = "classify" /\ Quiet /\ Goes(run, task.ops, ledger)
  BY DEF Classify, Running, Ended, Inv, TypeOK, SoundInv
<1>2. CASE \E status \in {"FAILED", "BLOCKED"} :
             run' = Halt(run, status) /\ UNCHANGED <<task, row, journal>>
  BY <1>1, <1>2, HaltGoes, QuietKeepsSound
<1>3. CASE Save([task EXCEPT !.status = "CLASSIFIED"], [run EXCEPT !.pc = "route"])
  <2> DEFINE q == [run EXCEPT !.pc = "route"]
  <2>1. /\ q.pc = "route" /\ q.evaluator = run.evaluator /\ q.verdict = run.verdict
        /\ q.budgetUnavailable = run.budgetUnavailable
    BY <1>1 DEF Run
  <2>2. Save([task EXCEPT !.status = "CLASSIFIED"], q)
    BY <1>3
  <2> HIDE DEF q
  <2>3. Goes(q, task.ops, ledger)
    BY <1>1, <2>1, OutsideGoes DEF Outside
  <2>4. QED
    BY <1>1, <2>2, <2>3, StatusSaveKeepsSound DEF Statuses
<1>4. QED
  BY <1>2, <1>3 DEF Classify

LEMMA RouteKeepsSound ==
    ASSUME Inv, AccountInv, SoundInv, NEW rejected \in BOOLEAN, Route(rejected) PROVE SoundInv'
<1> DEFINE loop == [run EXCEPT !.pc = "loop"]
           q == IF rejected THEN Halt(run, "FAILED") ELSE loop
<1>1. Running /\ run \in Run /\ run.pc = "route" /\ Quiet /\ Goes(run, task.ops, ledger)
  BY DEF Route, Running, Ended, Inv, TypeOK, SoundInv
<1>2. /\ loop.pc = "loop" /\ loop.evaluator = run.evaluator /\ loop.verdict = run.verdict
      /\ loop.budgetUnavailable = run.budgetUnavailable
  BY <1>1 DEF Run
<1>3. Save([task EXCEPT !.status = "ROUTED"], q)
  BY DEF Route
<1> HIDE DEF loop
<1>4. Goes(q, task.ops, ledger)
  BY <1>1, <1>2, OutsideGoes, HaltGoes DEF Outside
<1> HIDE DEF q
<1>5. QED
  BY <1>1, <1>3, <1>4, StatusSaveKeepsSound DEF Statuses

LEMMA LoopKeepsSound == ASSUME Inv, AccountInv, SoundInv, Loop PROVE SoundInv'
<1>1. Running /\ run \in Run /\ run.pc = "loop" /\ Quiet /\ UNCHANGED <<task, row, journal>>
        /\ Goes(run, task.ops, ledger)
  BY DEF Loop, Running, Ended, Inv, TypeOK, SoundInv
<1>2. CASE run' = Halt(run, "BLOCKED") \/ \E f \in CheckpointOutcomes \ {"none"} : run' = Halt(run, StatusFor(f))
  BY <1>1, <1>2, HaltGoes, StatusForFails, QuietKeepsSound
<1>3. CASE run' = AdmitAt(run, "generation")
  BY <1>1, <1>3, AdmitGives, OutsideGoes, QuietKeepsSound DEF Outside
<1>4. QED
  BY <1>2, <1>3 DEF Loop

LEMMA EnvironmentKeepsSound ==
    ASSUME Inv, AccountInv, SoundInv, EnvironmentChanged PROVE SoundInv'
<1>1. Running /\ run \in Run /\ Quiet /\ UNCHANGED <<task, row, journal>> /\ run' = Halt(run, "BLOCKED")
  BY DEF EnvironmentChanged, Running, Ended, Inv, TypeOK
<1>2. QED
  BY <1>1, HaltGoes, QuietKeepsSound

LEMMA GiveUpKeepsSound == ASSUME Inv, AccountInv, SoundInv, GiveUp PROVE SoundInv'
<1>1. Running /\ run \in Run /\ Quiet /\ UNCHANGED <<task, row, journal>>
        /\ (run' = Halt(run, "FAILED") \/ run' = Halt(run, StatusFor(run.failure)))
  BY DEF GiveUp, Running, Ended, Inv, TypeOK
<1>2. QED
  BY <1>1, HaltGoes, StatusForFails, QuietKeepsSound

LEMMA RecoverKeepsSound ==
    ASSUME Inv, AccountInv, SoundInv, NEW again \in BOOLEAN, Recover(again) PROVE SoundInv'
<1> DEFINE reroute == [run EXCEPT !.pc = "reroute"]
           q == IF again THEN reroute ELSE Halt(run, "FAILED")
<1>1. Running /\ run \in Run /\ run.pc = "recover" /\ Quiet /\ Goes(run, task.ops, ledger)
  BY DEF Recover, Running, Ended, Inv, TypeOK, SoundInv
<1>2. /\ reroute.pc = "reroute" /\ reroute.verdict = run.verdict
      /\ reroute.budgetUnavailable = run.budgetUnavailable
  BY <1>1 DEF Run
<1>3. Save([task EXCEPT !.status = "RECOVERING"], q)
  BY DEF Recover
<1> HIDE DEF reroute
<1>4. Goes(q, task.ops, ledger)
  BY <1>1, <1>2, OutsideGoes, HaltGoes DEF Outside
<1> HIDE DEF q
<1>5. QED
  BY <1>1, <1>3, <1>4, StatusSaveKeepsSound DEF Statuses

LEMMA RerouteKeepsSound ==
    ASSUME Inv, AccountInv, SoundInv, NEW rejected \in BOOLEAN, Reroute(rejected) PROVE SoundInv'
<1> DEFINE e == IF run.failure = "quality" THEN task.escalations + 1 ELSE task.escalations
           n == IF run.failure = "infrastructure" THEN task.retries + 1 ELSE task.retries
           t == [task EXCEPT !.status = "ROUTED", !.escalations = e, !.retries = n]
           loop == [run EXCEPT !.pc = "loop", !.evaluator = 0, !.retry = 0]
           q == IF rejected THEN Halt(run, "FAILED") ELSE loop
<1>1. Running /\ run \in Run /\ task \in TaskResult /\ run.pc = "reroute" /\ Quiet
        /\ Goes(run, task.ops, ledger)
  BY DEF Reroute, Running, Ended, Inv, TypeOK, SoundInv
<1>2. e \in Nat /\ n \in Nat
  BY <1>1 DEF TaskResult
<1>3. Save(t, q)
  BY DEF Reroute
<1> HIDE DEF e, n
<1>4. t \in TaskResult /\ t.ops = task.ops /\ t.status = "ROUTED"
  BY <1>1, <1>2 DEF TaskResult, Statuses
<1> HIDE DEF t
<1>5. /\ loop.pc = "loop" /\ loop.evaluator = 0 /\ loop.verdict = run.verdict
      /\ loop.budgetUnavailable = run.budgetUnavailable
  BY <1>1 DEF Run
<1> HIDE DEF loop
<1>6. Goes(q, task.ops, ledger)
  BY <1>1, <1>5, OutsideGoes, HaltGoes DEF Outside
<1> HIDE DEF q
<1>7. QED
  BY <1>1, <1>3, <1>4, <1>6, SaveKeepsSound DEF Sound

SameWay(r, q) == /\ q.attempt = r.attempt /\ q.evaluator = r.evaluator /\ q.tool = r.tool
                 /\ q.verdict = r.verdict /\ q.budgetUnavailable = r.budgetUnavailable

\* The next point of an attempt or of the tools, between two operations.
Follows(r, q) ==
    \/ r.pc = "validating" /\ q.pc = "admit" /\ q.kind = "validation"
    \/ r.pc = "retry_evaluation" /\ q.pc = "admit" /\ q.kind = "evaluation"
    \/ /\ r.pc = "admit" /\ r.kind \in ChecksWithinAttempt
       /\ q.pc = "finish_attempt" /\ q.failure # "none"
    \/ r.pc = "recover_tool" /\ q.pc = "replay_tool" /\ r.kind \in ToolKinds /\ q.kind \in ToolKinds
    \/ r.pc = "replay_tool" /\ q.pc = "admit" /\ r.kind \in ToolKinds /\ q.kind \in ToolKinds

LEMMA FollowsGoes ==
    ASSUME NEW r, NEW q, NEW ops, NEW l, Goes(r, ops, l), SameWay(r, q), Follows(r, q)
    PROVE  Goes(q, ops, l)
<1>1. q.verdict # "SUCCEEDED"
  BY DEF Goes, SameWay
<1> SUFFICES ASSUME OnCourse(q) PROVE Course(q, ops, l)
  BY <1>1 DEF Goes
<1>2. Course(r, ops, l)
  BY DEF Goes, OnCourse, SameWay, Follows, Ended
<1>3. Steered(q)
  BY <1>2 DEF Course, Steered, SameWay, Follows, InOperation, ToolKinds
<1>4. Progressed(q, ops)
  BY <1>2 DEF Course, SameWay, Follows, Progressed, InOperation, Attempting, UsingTools, Unverified,
              Evaluating, DomainDue, AttemptPassed, ToolKinds, ChecksWithinAttempt
<1>5. Answered(q, ops)
  BY <1>2 DEF Course, SameWay, Follows, Answered, InOperation, ToolKinds, ChecksWithinAttempt
<1>6. (Attempting(r) <=> Attempting(q)) /\ r.pc \notin InOperation /\ q.pc \notin InOperation
  BY DEF Follows, Attempting, InOperation, ChecksWithinAttempt, ToolKinds
<1>7. Booked(q, ops, l)
  BY <1>2, <1>6 DEF Course, Booked, Pending, InOperation, SameWay
<1>8. QED
  BY <1>3, <1>4, <1>5, <1>7 DEF Course

LEMMA RefuseKeepsSound ==
    ASSUME Inv, AccountInv, SoundInv, NEW f \in Failures, Refuse(f) PROVE SoundInv'
<1>1. Running /\ run \in Run /\ run.pc = "admit" /\ Quiet /\ UNCHANGED <<task, row, journal>>
        /\ run' = Refused(run, f) /\ Goes(run, task.ops, ledger) /\ f # "none"
  BY DEF Refuse, Running, Ended, Inv, TypeOK, SoundInv
<1>2. \/ run' = [run EXCEPT !.pc = "finish_attempt", !.failure = f]
            /\ run.kind \in ChecksWithinAttempt
      \/ \E status \in Terminal \ {"SUCCEEDED"} : run' = Halt(run, status)
  BY <1>1, StatusForType, StatusForFails DEF Refused, Terminal
<1>3. CASE \E status \in Terminal \ {"SUCCEEDED"} : run' = Halt(run, status)
  BY <1>1, <1>3, HaltGoes, QuietKeepsSound
<1>4. CASE /\ run' = [run EXCEPT !.pc = "finish_attempt", !.failure = f]
           /\ run.kind \in ChecksWithinAttempt
  <2>1. SameWay(run, run') /\ run'.pc = "finish_attempt" /\ run'.failure = f
    BY <1>1, <1>4 DEF Run, SameWay
  <2>2. QED
    BY <1>1, <1>4, <2>1, FollowsGoes, QuietKeepsSound DEF Follows
<1>5. QED
  BY <1>2, <1>3, <1>4

LEMMA ValidatingKeepsSound == ASSUME Inv, AccountInv, SoundInv, Validating PROVE SoundInv'
<1> DEFINE q == AdmitAt(run, "validation")
<1>1. Running /\ run \in Run /\ run.pc = "validating" /\ Quiet /\ Goes(run, task.ops, ledger)
  BY DEF Validating, Running, Ended, Inv, TypeOK, SoundInv
<1>2. Save([task EXCEPT !.status = "VALIDATING"], q)
  BY DEF Validating
<1>3. SameWay(run, q) /\ q.pc = "admit" /\ q.kind = "validation"
  BY <1>1, AdmitGives DEF SameWay
<1> HIDE DEF q
<1>4. Goes(q, task.ops, ledger)
  BY <1>1, <1>3, FollowsGoes DEF Follows
<1>5. QED
  BY <1>1, <1>2, <1>4, StatusSaveKeepsSound DEF Statuses

LEMMA RetryEvaluationKeepsSound ==
    ASSUME Inv, AccountInv, SoundInv, RetryEvaluation PROVE SoundInv'
<1> DEFINE n == run.retry + 1
           r == [run EXCEPT !.retry = n]
           q == AdmitAt(r, "evaluation")
<1>1. /\ Running /\ run \in Run /\ run.pc = "retry_evaluation" /\ Quiet
      /\ Goes(run, task.ops, ledger) /\ task \in TaskResult /\ Open(task)
  BY DEF RetryEvaluation, Running, Ended, Inv, TypeOK, SoundInv, AccountInv, InStep
<1>2. Save(task, q)
  BY DEF RetryEvaluation
<1>3. n \in Nat
  BY <1>1 DEF Run
<1> HIDE DEF n
<1>4. r \in Run /\ SameWay(run, r)
  BY <1>1, <1>3 DEF Run, SameWay
<1> HIDE DEF r
<1>5. SameWay(run, q) /\ q.pc = "admit" /\ q.kind = "evaluation"
  BY <1>4, AdmitGives DEF SameWay
<1> HIDE DEF q
<1>6. Goes(q, task.ops, ledger)
  BY <1>1, <1>5, FollowsGoes DEF Follows
<1>7. Sound(task, ledger)
  BY <1>1 DEF Sound, Open, Terminal
<1>8. QED
  BY <1>1, <1>2, <1>6, <1>7, SaveKeepsSound

LEMMA RecoverToolKeepsSound == ASSUME Inv, AccountInv, SoundInv, RecoverTool PROVE SoundInv'
<1>1. /\ Running /\ run \in Run /\ run.pc = "recover_tool" /\ Quiet /\ run.kind \in ToolKinds
      /\ Goes(run, task.ops, ledger)
  BY DEF RecoverTool, Running, Ended, Inv, TypeOK, SoundInv, AccountInv, Tracked, ToolsTracked
<1>2. PICK q \in AfterToolFailure : Save([task EXCEPT !.status = "RECOVERING"], q)
  BY DEF RecoverTool
<1> DEFINE same == [run EXCEPT !.pc = "replay_tool"]
           other == [run EXCEPT !.pc = "replay_tool", !.kind = "alternate_tool"]
<1>3. q \in {Halt(run, "FAILED"), Halt(run, "BLOCKED")} \/ q \in {same, other}
  BY DEF AfterToolFailure
<1>4. CASE q \in {Halt(run, "FAILED"), Halt(run, "BLOCKED")}
  BY <1>1, <1>2, <1>4, HaltGoes, StatusSaveKeepsSound DEF Statuses
<1>5. CASE q \in {same, other}
  <2>1. q.pc = "replay_tool" /\ q.kind \in ToolKinds /\ SameWay(run, q)
    BY <1>1, <1>5 DEF Run, ToolKinds, SameWay
  <2>2. Goes(q, task.ops, ledger)
    BY <1>1, <2>1, FollowsGoes DEF Follows
  <2>3. QED
    BY <1>1, <1>2, <2>2, StatusSaveKeepsSound DEF Statuses
<1>6. QED
  BY <1>3, <1>4, <1>5

LEMMA ReplayToolKeepsSound == ASSUME Inv, AccountInv, SoundInv, ReplayTool PROVE SoundInv'
<1> DEFINE n == task.recoveries + 1
           r == [run EXCEPT !.replay = TRUE]
<1>1. /\ Running /\ run \in Run /\ task \in TaskResult /\ run.pc = "replay_tool" /\ Quiet
      /\ run.kind \in ToolKinds /\ Goes(run, task.ops, ledger) /\ UNCHANGED <<row, journal>>
  BY DEF ReplayTool, Running, Ended, Inv, TypeOK, SoundInv, AccountInv, Tracked, ToolsTracked
<1>2. task' = [task EXCEPT !.recoveries = n, !.status = "VALIDATING"]
        /\ run' = AdmitAt(r, run.kind)
  BY DEF ReplayTool
<1> HIDE DEF n
<1>3. task'.ops = task.ops /\ ledger' = ledger
  BY <1>1, <1>2 DEF TaskResult, Quiet
<1>4. r \in Run /\ SameWay(run, r)
  BY <1>1 DEF Run, SameWay
<1> HIDE DEF r
<1>5. SameWay(run, run') /\ run'.pc = "admit" /\ run'.kind = run.kind
  BY <1>2, <1>4, AdmitGives DEF SameWay
<1>6. Goes(run', task.ops, ledger)
  BY <1>1, <1>5, FollowsGoes DEF Follows
<1>7. QED
  BY <1>1, <1>3, <1>6, MoveKeepsSound
-----------------------------------------------------------------------------
(* One operation.                                                          *)

LEMMA ReserveUnavailableKeepsSound ==
    ASSUME Inv, AccountInv, SoundInv, NEW id \in Ids, ReserveUnavailable(id) PROVE SoundInv'
<1> DEFINE r == [run EXCEPT !.budgetUnavailable = TRUE]
<1>1. /\ Running /\ run \in Run /\ run.pc = "admit" /\ UNCHANGED <<task, row, journal>>
      /\ run.verdict # "SUCCEEDED" /\ run' = Refused(r, "terminal")
  BY DEF ReserveUnavailable, Running, Ended, Inv, TypeOK, SoundInv, Goes
<1>2. r \in Run /\ r.budgetUnavailable /\ r.verdict = run.verdict
  BY <1>1 DEF Run
<1> HIDE DEF r
<1>3. \/ run' = [r EXCEPT !.pc = "finish_attempt", !.failure = "terminal"]
      \/ \E status \in Terminal \ {"SUCCEEDED"} : run' = Halt(r, status)
  BY <1>1, StatusForType, StatusForFails DEF Refused, Terminal, Failures
<1>4. Goes(run', task'.ops, ledger')
  <2>1. CASE \E status \in Terminal \ {"SUCCEEDED"} : run' = Halt(r, status)
    BY <1>2, <2>1, HaltGoes
  <2>2. CASE run' = [r EXCEPT !.pc = "finish_attempt", !.failure = "terminal"]
    BY <1>1, <1>2, <2>2 DEF Goes, OnCourse, Run
  <2>3. QED
    BY <1>3, <2>1, <2>2
<1>5. QED
  BY <1>1, <1>4, MoveKeepsSound

\* The call, and what withdraws it.
LEMMA RecheckGoes ==
    ASSUME NEW r, NEW q, NEW t, NEW l, Goes(r, t.ops, l), OpTracked(r, t), SameWay(r, q),
           r.pc = "recheck", q.pc \in {"evidence", "settle"}, q.id = r.id, q.kind = r.kind,
           q.failure = "none" => q.dispatched,
           q.pc = "settle" /\ q.kind = "generation" => q.failure # "none" /\ q.actual # Unknown
    PROVE  Goes(q, t.ops, l)
<1>1. q.verdict # "SUCCEEDED"
  BY DEF Goes, SameWay
<1> SUFFICES ASSUME OnCourse(q) PROVE Course(q, t.ops, l)
  BY <1>1 DEF Goes
<1>2. Course(r, t.ops, l)
  BY DEF Goes, OnCourse, SameWay, Ended
<1>3. Steered(q)
  BY <1>2 DEF Course, Steered, SameWay, InOperation
<1>4. Progressed(q, t.ops)
  BY <1>2 DEF Course, SameWay, Progressed, InOperation, Attempting, UsingTools, Unverified,
              Evaluating, DomainDue, AttemptPassed, ToolKinds, ChecksWithinAttempt
<1>5. Answered(q, t.ops)
  BY <1>2 DEF Course, SameWay, Answered, InOperation, ChecksWithinAttempt, OpTracked
<1>6. (Attempting(r) <=> Attempting(q)) /\ r.pc \in InOperation /\ q.pc \in InOperation
  BY DEF Attempting, InOperation, ChecksWithinAttempt
<1>7. Booked(q, t.ops, l)
  BY <1>2, <1>6 DEF Course, Booked, Pending, SameWay
<1>8. QED
  BY <1>3, <1>4, <1>5, <1>7 DEF Course

LEMMA WithdrawKeepsSound ==
    ASSUME Inv, AccountInv, SoundInv, NEW f \in Failures, Withdraw(f) PROVE SoundInv'
<1>1. /\ Running /\ run \in Run /\ run.pc = "recheck" /\ Quiet /\ UNCHANGED <<task, row, journal>>
      /\ Goes(run, task.ops, ledger) /\ OpTracked(run, task) /\ f # "none"
  BY DEF Withdraw, Running, Ended, Inv, TypeOK, SoundInv, AccountInv, Tracked
<1>2. CASE run' = Halt(run, "BLOCKED")
  BY <1>1, <1>2, HaltGoes, QuietKeepsSound
<1>3. CASE run' # Halt(run, "BLOCKED")
  <2> DEFINE pc == IF run.kind = "classification" THEN "evidence" ELSE "settle"
             g == IF run.kind = "classification" THEN "terminal" ELSE f
  <2>1. run' = [run EXCEPT !.pc = pc, !.failure = g, !.actual = 0]
    BY <1>3 DEF Withdraw
  <2>2. pc \in {"evidence", "settle"} /\ g # "none"
    BY <1>1
  <2> HIDE DEF pc, g
  <2>3. /\ run'.pc = pc /\ run'.kind = run.kind /\ run'.id = run.id /\ SameWay(run, run')
        /\ run'.failure = g /\ run'.actual = 0 /\ 0 # Unknown
    BY <1>1, <2>1 DEF Run, SameWay, Unknown
  <2>4. Goes(run', task.ops, ledger)
    BY <1>1, <2>2, <2>3, RecheckGoes
  <2>5. QED
    BY <1>1, <2>4, QuietKeepsSound
<1>4. QED
  BY <1>2, <1>3

LEMMA LiveRefusalKeepsSound == ASSUME Inv, AccountInv, SoundInv, LiveRefusal PROVE SoundInv'
<1>1. /\ Running /\ run \in Run /\ run.pc = "recheck" /\ Quiet /\ UNCHANGED <<task, row, journal>>
      /\ Goes(run, task.ops, ledger) /\ OpTracked(run, task)
  BY DEF LiveRefusal, Running, Ended, Inv, TypeOK, SoundInv, AccountInv, Tracked
<1>2. /\ run'.pc = "evidence" /\ run'.kind = run.kind /\ run'.id = run.id /\ SameWay(run, run')
      /\ run'.failure = "terminal"
  BY <1>1 DEF LiveRefusal, Run, SameWay
<1>3. Goes(run', task.ops, ledger)
  BY <1>1, <1>2, RecheckGoes
<1>4. QED
  BY <1>1, <1>3, QuietKeepsSound

LEMMA DispatchKeepsSound ==
    ASSUME Inv, AccountInv, SoundInv, NEW f \in Failures, NEW actual \in Costs \cup {Unknown},
           Dispatch(f, actual)
    PROVE  SoundInv'
<1>1. /\ Running /\ run \in Run /\ run.pc = "recheck" /\ UNCHANGED <<task, row, journal, ledger>>
      /\ Goes(run, task.ops, ledger) /\ OpTracked(run, task)
  BY DEF Dispatch, Running, Ended, Inv, TypeOK, SoundInv, AccountInv, Tracked
<1>2. /\ run'.pc = (IF run.kind \in Observed THEN "evidence" ELSE "settle")
      /\ run'.kind = run.kind /\ run'.id = run.id /\ SameWay(run, run') /\ run'.dispatched
  BY <1>1 DEF Dispatch, Run, SameWay
<1>3. Goes(run', task.ops, ledger)
  BY <1>1, <1>2, RecheckGoes DEF Observed
<1>4. QED
  BY <1>1, <1>3, MoveKeepsSound

\* The operation that is reserved is named by no record.
LEMMA ReserveKeepsSound ==
    ASSUME Inv, AccountInv, SoundInv, NEW id \in Ids, Reserve(id) PROVE SoundInv'
<1>1. /\ Running /\ run \in Run /\ run.pc = "admit" /\ UNCHANGED <<row, journal>>
      /\ Goes(run, task.ops, ledger) /\ Fresh(id) /\ ledger' = Held(id) /\ task \in TaskResult
      /\ ledger \in [Ids -> Reservation]
  BY DEF Reserve, CanReserve, Running, Ended, Inv, TypeOK, SoundInv
<1>2. /\ run'.pc = "intent" /\ run'.id = id /\ run'.kind = run.kind /\ run'.tool = run.tool
      /\ run'.attempt = (IF run.kind = "generation" THEN id ELSE run.attempt)
      /\ run'.evaluator = run.evaluator /\ run'.verdict = run.verdict
      /\ run'.budgetUnavailable = run.budgetUnavailable
  BY <1>1 DEF Reserve, Run
<1>3. task'.ops = task.ops
  BY <1>1 DEF Reserve, TaskResult
<1>4. task.ops[id].status = "absent" /\ \A i \in Ids : i # id => ledger'[i] = ledger[i]
  BY <1>1 DEF AccountInv, Funded, AllFunded, Fresh, Held
<1>5. run'.verdict # "SUCCEEDED"
  BY <1>1, <1>2 DEF Goes
<1>6. ASSUME OnCourse(run') PROVE Course(run', task.ops, ledger')
  <2>1. Course(run, task.ops, ledger)
    BY <1>1, <1>2, <1>6 DEF Goes, OnCourse, Ended
  <2>2. Steered(run')
    BY <1>1, <1>2, <2>1 DEF Course, Steered, InOperation
  <2>3. Progressed(run', task.ops)
    BY <1>1, <1>2, <2>1 DEF Course, Progressed, InOperation, Attempting, UsingTools, Unverified,
              Evaluating, DomainDue, AttemptPassed, ToolKinds, ChecksWithinAttempt
  <2>4. Answered(run', task.ops)
    BY <1>1, <1>2, <2>1 DEF Course, Answered, InOperation, ChecksWithinAttempt
  <2>5. (Attempting(run) <=> Attempting(run')) /\ run.pc \notin InOperation
          /\ (Attempting(run) => run'.attempt = run.attempt /\ run.attempt \in Ids
                                   /\ task.ops[run.attempt].status # "absent")
    BY <1>1, <1>2, <2>1 DEF Attempting, InOperation, ChecksWithinAttempt, Course, Progressed, LastAttempt
  <2>6. Booked(run', task.ops, ledger')
    BY <1>1, <1>2, <1>4, <2>1, <2>5 DEF Course, Booked, Pending, InOperation
  <2>7. QED
    BY <2>2, <2>3, <2>4, <2>6 DEF Course
<1>7. QED
  BY <1>1, <1>3, <1>5, <1>6, MoveKeepsSound DEF Goes
-----------------------------------------------------------------------------
(* Steps that change a record.                                             *)

LEMMA OffCourseGoes ==
    ASSUME NEW q, q.budgetUnavailable, q.verdict # "SUCCEEDED", NEW ops, NEW l
    PROVE  Goes(q, ops, l)
  BY DEF Goes, OnCourse

LEMMA LastAttemptSame ==
    ASSUME NEW ops, NEW new, NEW id, \A i \in Ids : i # id => new[i] = ops[i],
           ops[id].status # "absent", new[id].status # "absent", new[id].kind = ops[id].kind,
           NEW a \in Ids, LastAttempt(ops, a)
    PROVE  LastAttempt(new, a)
  BY DEF LastAttempt

\* The started record of an operation is the last one.
LEMMA IntentGoes ==
    ASSUME NEW r, NEW q, NEW ops, NEW new, NEW l, Goes(r, ops, l), SameWay(r, q),
           r.pc = "intent", q.pc = "recheck", q.id = r.id, q.kind = r.kind, r.id \in Ids,
           ops[r.id].status = "absent", \A j \in Ids : r.id < j => ops[j].status = "absent",
           \A i \in Ids : i # r.id => new[i] = ops[i],
           new[r.id].status = "started", new[r.id].kind = r.kind,
           l[r.id].amount = Estimate[r.kind]
    PROVE  Goes(q, new, l)
<1>1. q.verdict # "SUCCEEDED"
  BY DEF Goes, SameWay
<1> SUFFICES ASSUME OnCourse(q) PROVE Course(q, new, l)
  BY <1>1 DEF Goes
<1>2. Course(r, ops, l)
  BY DEF Goes, OnCourse, SameWay, Ended
<1>3. Steered(q)
  BY <1>2 DEF Course, Steered, SameWay, InOperation
<1>4. ASSUME NEW v, NEW e, NEW d, NEW n, Verified(ops, r.attempt, v, e, d, n)
      PROVE  Verified(new, r.attempt, v, e, d, n)
  BY <1>4, VerifiedSame
<1>5. CASE r.kind = "generation"
  <2>1. q.attempt = r.id
    BY <1>2, <1>5 DEF Course, Steered, SameWay, InOperation
  <2>2. \A j \in Ids : r.id < j => new[j].status = "absent"
    BY ExecutionAssumption DEF Ids
  <2>3. LastAttempt(new, r.id)
    BY <1>5, <2>2, ExecutionAssumption DEF LastAttempt, Ids
  <2>4. Verified(new, r.id, 0, 0, 0, 0)
    BY <1>5, <2>2, VerifiedNothing
  <2>5. Progressed(q, new) /\ Answered(q, new)
    BY <1>5, <2>1, <2>3, <2>4 DEF Progressed, Answered, InOperation, Attempting, UsingTools,
       Unverified, Evaluating, DomainDue, AttemptPassed, ToolKinds, ChecksWithinAttempt
  <2>6. ~Attempting(r) /\ Attempting(q) /\ r.pc \in InOperation /\ q.pc \in InOperation
    BY <1>5 DEF Attempting, InOperation, ChecksWithinAttempt
  <2>7. Booked(q, new, l)
    BY <1>2, <1>5, <2>1, <2>6 DEF Course, Booked, Pending
  <2>8. QED
    BY <1>3, <2>5, <2>7 DEF Course
<1>6. CASE r.kind # "generation"
  <2>1. (Attempting(r) <=> Attempting(q)) /\ (UsingTools(r) <=> UsingTools(q))
          /\ r.pc \in InOperation /\ q.pc \in InOperation
    BY <1>6 DEF Attempting, UsingTools, InOperation, ChecksWithinAttempt
  <2>2. Attempting(r) \/ UsingTools(r) => /\ r.attempt \in Ids /\ r.attempt # r.id
                                          /\ LastAttempt(ops, r.attempt)
    BY <1>2 DEF Course, Progressed, LastAttempt
  <2>3. Attempting(r) \/ UsingTools(r) => LastAttempt(new, r.attempt)
    BY <1>6, <2>2 DEF LastAttempt
  <2>4. Progressed(q, new)
    BY <1>2, <1>4, <1>6, <2>1, <2>2, <2>3 DEF Course, Progressed, InOperation, SameWay, Attempting,
       UsingTools, Unverified, Evaluating, DomainDue, AttemptPassed, ChecksWithinAttempt
  <2>5. Answered(q, new)
    BY <1>2, <1>6, <2>1, <2>2 DEF Course, Answered, InOperation, SameWay, Attempting,
       ChecksWithinAttempt
  <2>6. Booked(q, new, l)
    BY <1>2, <1>6, <2>1, <2>2 DEF Course, Booked, Pending, SameWay
  <2>7. QED
    BY <1>3, <2>4, <2>5, <2>6 DEF Course
<1>7. QED
  BY <1>5, <1>6

LEMMA IntentKeepsSound == ASSUME Inv, AccountInv, SoundInv, Intent PROVE SoundInv'
<1> DEFINE t == WithOp(task, run.id, "started", Unknown)
           op == [kind |-> run.kind, step |-> run.tool, status |-> "started", actual |-> Unknown]
           u == IF run.kind = "generation"
                THEN [t EXCEPT !.status = "RUNNING", !.generations = @ + 1] ELSE t
           q == [run EXCEPT !.pc = "recheck"]
<1>1. /\ run.id \in Ids /\ run \in Run /\ task \in TaskResult /\ Running /\ Quiet
      /\ OpTracked(run, task) /\ run.pc = "intent" /\ Open(task) /\ Goes(run, task.ops, ledger)
  BY DEF Intent, Inv, RunOK, TypeOK, InOperation, Ended, AccountInv, Running, InStep, Tracked, SoundInv
<1>2. "started" \in OpStatuses /\ Unknown \in Nat \cup {Unknown}
  BY DEF OpStatuses
<1>3. /\ op.kind = run.kind /\ op.status = "started"
      /\ t \in TaskResult /\ t.ops = [task.ops EXCEPT ![run.id] = op] /\ t.status = task.status
  BY <1>1, <1>2, WithOpFields
<1>4. Save(u, q)
  BY DEF Intent
<1> HIDE DEF t, op
<1>5. u \in TaskResult /\ u.ops = t.ops /\ u.status # "SUCCEEDED"
  BY <1>1, <1>3, StartedFields DEF Open, Terminal
<1> HIDE DEF u
<1>6. SameWay(run, q) /\ q.pc = "recheck" /\ q.id = run.id /\ q.kind = run.kind
  BY <1>1 DEF Run, SameWay
<1> HIDE DEF q
<1>7. /\ task.ops[run.id].status = "absent" /\ ledger[run.id].amount = Estimate[run.kind]
      /\ \A j \in Ids : run.id < j => task.ops[j].status = "absent"
  BY <1>1 DEF OpTracked, AccountInv, LedgerOK, Funded, AllFunded
<1>8. u.ops[run.id] = op /\ \A i \in Ids : i # run.id => u.ops[i] = task.ops[i]
  BY <1>1, <1>3, <1>5 DEF TaskResult
<1>9. Goes(q, u.ops, ledger)
  BY <1>1, <1>3, <1>6, <1>7, <1>8, IntentGoes
<1>10. QED
  BY <1>1, <1>4, <1>5, <1>9, SaveKeepsSound DEF Sound

LEMMA EvidenceGoes ==
    ASSUME NEW r, NEW q, NEW ops, NEW new, NEW l, Goes(r, ops, l), SameWay(r, q),
           r.pc = "evidence", q.pc = "settle", q.id = r.id, q.kind = r.kind, r.id \in Ids,
           q.failure = r.failure, q.actual = r.actual, q.dispatched = r.dispatched,
           ops[r.id].status = "started", ops[r.id].kind = r.kind,
           \A i \in Ids : i # r.id => new[i] = ops[i],
           new[r.id].status = "observed", new[r.id].kind = r.kind, new[r.id].actual = r.actual
    PROVE  Goes(q, new, l)
<1>1. q.verdict # "SUCCEEDED"
  BY DEF Goes, SameWay
<1> SUFFICES ASSUME OnCourse(q) PROVE Course(q, new, l)
  BY <1>1 DEF Goes
<1>2. Course(r, ops, l)
  BY DEF Goes, OnCourse, SameWay, Ended
<1>3. Steered(q)
  BY <1>2 DEF Course, Steered, SameWay, InOperation
<1>4. ASSUME NEW v, NEW e, NEW d, NEW n, Verified(ops, r.attempt, v, e, d, n)
      PROVE  Verified(new, r.attempt, v, e, d, n)
  BY <1>4, VerifiedSame
<1>5. (Attempting(r) <=> Attempting(q)) /\ (UsingTools(r) <=> UsingTools(q))
        /\ r.pc \in InOperation /\ q.pc \in InOperation
  BY DEF Attempting, UsingTools, InOperation, ChecksWithinAttempt
<1>6. Attempting(r) \/ UsingTools(r) => r.attempt \in Ids /\ LastAttempt(new, r.attempt)
  BY <1>2, LastAttemptSame DEF Course, Progressed
<1>7. Progressed(q, new)
  BY <1>2, <1>4, <1>5, <1>6 DEF Course, Progressed, InOperation, SameWay,
     UsingTools, Unverified, Evaluating, DomainDue, AttemptPassed
<1>8. Answered(q, new)
  BY <1>2, <1>5, <1>6 DEF Course, Answered, Steered, InOperation, SameWay, Attempting, ChecksWithinAttempt
<1>9. Booked(q, new, l)
  <2>1. Booked(r, ops, l) /\ q.attempt = r.attempt
    BY <1>2 DEF Course, SameWay
  <2>2. \A i \in Ids : Pending(q, i) <=> Pending(r, i)
    BY <1>5, <2>1 DEF Pending
  <2>3. \A i \in Ids : new[i].status # "absent" => l[i].amount = Estimate[new[i].kind]
    BY <2>1 DEF Booked
  <2>4. \A i \in Ids : new[i].status # "absent" /\ ~Pending(q, i) =>
                        new[i].status \in Final /\ Owed(l[i], new[i].actual)
    BY <1>5, <2>1, <2>2 DEF Booked, Pending
  <2>5. Attempting(q) /\ r.kind # "generation" => r.attempt # r.id /\ new[r.attempt] = ops[r.attempt]
    BY <1>5, <1>6 DEF LastAttempt
  <2>6. QED
    BY <1>5, <2>1, <2>3, <2>4, <2>5 DEF Booked
<1>10. QED
  BY <1>3, <1>7, <1>8, <1>9 DEF Course

LEMMA EvidenceKeepsSound == ASSUME Inv, AccountInv, SoundInv, Evidence PROVE SoundInv'
<1> DEFINE t == WithOp(task, run.id, "observed", run.actual)
           op == [kind |-> run.kind, step |-> run.tool, status |-> "observed", actual |-> run.actual]
           q == [run EXCEPT !.pc = "settle"]
<1>1. /\ run.id \in Ids /\ run \in Run /\ task \in TaskResult /\ Running /\ Quiet
      /\ OpTracked(run, task) /\ run.pc = "evidence" /\ Open(task) /\ Goes(run, task.ops, ledger)
      /\ run.actual \in Nat \cup {Unknown}
  BY DEF Evidence, Inv, RunOK, Run, TypeOK, InOperation, Ended, AccountInv, Running, InStep, Tracked,
         SoundInv
<1>2. "observed" \in OpStatuses
  BY DEF OpStatuses
<1>3. /\ op.kind = run.kind /\ op.status = "observed" /\ op.actual = run.actual
      /\ t \in TaskResult /\ t.ops = [task.ops EXCEPT ![run.id] = op] /\ t.status = task.status
  BY <1>1, <1>2, WithOpFields
<1>4. Save(t, q)
  BY DEF Evidence
<1> HIDE DEF t, op
<1>5. /\ SameWay(run, q) /\ q.pc = "settle" /\ q.id = run.id /\ q.kind = run.kind
      /\ q.failure = run.failure /\ q.actual = run.actual /\ q.dispatched = run.dispatched
  BY <1>1 DEF Run, SameWay
<1> HIDE DEF q
<1>6. task.ops[run.id].status = "started" /\ task.ops[run.id].kind = run.kind
  BY <1>1 DEF OpTracked
<1>7. /\ t.ops[run.id].status = "observed" /\ t.ops[run.id].kind = run.kind
      /\ t.ops[run.id].actual = run.actual /\ \A i \in Ids : i # run.id => t.ops[i] = task.ops[i]
  BY <1>1, <1>3 DEF TaskResult
<1>8. Goes(q, t.ops, ledger)
  <2> DEFINE ops == task.ops
             new == t.ops
  <2>1. Goes(run, ops, ledger) /\ ops[run.id].status = "started" /\ ops[run.id].kind = run.kind
    BY <1>1, <1>6
  <2>2. /\ new[run.id].status = "observed" /\ new[run.id].kind = run.kind
        /\ new[run.id].actual = run.actual /\ \A i \in Ids : i # run.id => new[i] = ops[i]
    BY <1>7
  <2> HIDE DEF ops, new
  <2>3. Goes(q, new, ledger)
    BY <1>1, <1>5, <2>1, <2>2, EvidenceGoes
  <2>4. QED
    BY <2>3 DEF new
<1>9. Sound(t, ledger)
  BY <1>1, <1>3 DEF Sound, Open, Terminal
<1>10. QED
  BY <1>1, <1>3, <1>4, <1>8, <1>9, SaveKeepsSound
-----------------------------------------------------------------------------
(* Where an operation or an attempt may lead.                              *)

\* Every record but that of the attempt a has ended and is settled if and only
\* if its cost is known.
Kept(ops, l, a) ==
    \A i \in Ids : ops[i].status # "absent" =>
        /\ l[i].amount = Estimate[ops[i].kind]
        /\ i # a => ops[i].status \in Final /\ Owed(l[i], ops[i].actual)

\* The attempt of run r is open, and so is nothing else.
Stands(r, ops, l) ==
    /\ r.attempt \in Ids /\ LastAttempt(ops, r.attempt) /\ Kept(ops, l, r.attempt)
    /\ IF ops[r.attempt].status = "observed" THEN Owed(l[r.attempt], ops[r.attempt].actual)
                                             ELSE l[r.attempt].state # "held"

LEMMA AttemptGoes ==
    ASSUME NEW q, NEW ops, NEW l, q.verdict # "SUCCEEDED", ~q.budgetUnavailable => Stands(q, ops, l),
           ~q.budgetUnavailable =>
             \/ q.pc = "finish_attempt" /\ q.failure # "none"
             \/ /\ ops[q.attempt].status = "observed"
                /\ \/ q.pc = "finish_attempt" /\ Verified(ops, q.attempt, 1, Evaluators, Domains, 0)
                   \/ q.pc = "validating" /\ q.evaluator = 0 /\ Verified(ops, q.attempt, 0, 0, 0, 0)
                   \/ q.pc = "retry_evaluation" /\ Verified(ops, q.attempt, 1, q.evaluator, 0, 0)
                   \/ /\ q.pc = "admit" /\ q.kind = "evaluation"
                      /\ Verified(ops, q.attempt, 1, q.evaluator, 0, 0)
                   \/ /\ q.pc = "admit" /\ q.kind = "domain"
                      /\ Verified(ops, q.attempt, 1, Evaluators, 0, 0)
    PROVE  Goes(q, ops, l)
<1> SUFFICES ASSUME OnCourse(q) PROVE Course(q, ops, l)
  BY DEF Goes
<1>1. /\ q.attempt \in Ids /\ LastAttempt(ops, q.attempt) /\ Stands(q, ops, l)
      /\ q.pc \in {"finish_attempt", "validating", "retry_evaluation", "admit"}
      /\ q.pc = "admit" => q.kind \in {"evaluation", "domain"}
  BY DEF OnCourse, Stands
<1>2. Steered(q)
  BY <1>1 DEF OnCourse, Steered, InOperation
<1>3. Progressed(q, ops)
  BY <1>1 DEF OnCourse, Progressed, InOperation, Attempting, UsingTools, Unverified,
              Evaluating, DomainDue, AttemptPassed, ToolKinds, ChecksWithinAttempt
<1>4. Answered(q, ops)
  BY <1>1 DEF OnCourse, Answered, InOperation, ChecksWithinAttempt
<1>5. Attempting(q) /\ q.pc \notin InOperation
  BY <1>1 DEF Attempting, InOperation, ChecksWithinAttempt
<1>6. \A i \in Ids : Pending(q, i) <=> i = q.attempt
  BY <1>5 DEF Pending
<1>7. Booked(q, ops, l)
  BY <1>1, <1>5, <1>6 DEF Stands, Kept, Booked, InOperation
<1>8. QED
  BY <1>2, <1>3, <1>4, <1>7 DEF Course

LEMMA ToolGoes ==
    ASSUME NEW q, NEW ops, NEW l, q.verdict # "SUCCEEDED", ~q.budgetUnavailable =>
             /\ q.attempt \in Ids /\ LastAttempt(ops, q.attempt) /\ Kept(ops, l, 0)
             /\ ops[q.attempt].status = "succeeded"
             /\ \/ /\ q.pc \in {"admit", "recover_tool"} /\ q.kind \in ToolKinds
                   /\ Verified(ops, q.attempt, 1, Evaluators, Domains, q.tool - 1)
                \/ q.pc = "complete" /\ Verified(ops, q.attempt, 1, Evaluators, Domains, Tools)
    PROVE  Goes(q, ops, l)
<1> SUFFICES ASSUME OnCourse(q) PROVE Course(q, ops, l)
  BY DEF Goes
<1>1. /\ q.attempt \in Ids /\ LastAttempt(ops, q.attempt) /\ Kept(ops, l, 0)
      /\ q.pc \in {"admit", "recover_tool", "complete"}
      /\ q.pc # "complete" => q.kind \in ToolKinds
  BY DEF OnCourse
<1>2. Steered(q)
  BY <1>1 DEF Steered, InOperation, ToolKinds
<1>3. Progressed(q, ops)
  BY <1>1 DEF OnCourse, Progressed, InOperation, Attempting, UsingTools, Unverified,
              Evaluating, DomainDue, AttemptPassed, ToolKinds, ChecksWithinAttempt
<1>4. Answered(q, ops)
  BY <1>1 DEF Answered, InOperation, ChecksWithinAttempt, ToolKinds
<1>5. ~Attempting(q) /\ q.pc \notin InOperation
  BY <1>1 DEF Attempting, InOperation, ChecksWithinAttempt, ToolKinds
<1>6. \A i \in Ids : ~Pending(q, i) /\ i # 0
  BY <1>5, ExecutionAssumption DEF Pending, Ids
<1>7. Booked(q, ops, l)
  BY <1>1, <1>5, <1>6 DEF Kept, Booked, InOperation
<1>8. QED
  BY <1>2, <1>3, <1>4, <1>7 DEF Course

LEMMA OutsideStands ==
    ASSUME NEW q, NEW ops, NEW l, q.verdict # "SUCCEEDED", ~q.budgetUnavailable =>
             /\ Kept(ops, l, 0)
             /\ q.pc = "recover" \/ (q.pc = "classify" /\ q.evaluator = 0)
    PROVE  Goes(q, ops, l)
<1> SUFFICES ASSUME OnCourse(q) PROVE Course(q, ops, l)
  BY DEF Goes
<1>1. Kept(ops, l, 0) /\ q.pc \in {"recover", "classify"} /\ (q.pc = "classify" => q.evaluator = 0)
  BY DEF OnCourse
<1>2. Steered(q)
  BY <1>1 DEF Steered, InOperation
<1>3. Progressed(q, ops) /\ Answered(q, ops)
  BY <1>1 DEF Progressed, Answered, InOperation, Attempting, UsingTools, Unverified,
              Evaluating, DomainDue, AttemptPassed, ToolKinds, ChecksWithinAttempt
<1>4. ~Attempting(q) /\ q.pc \notin InOperation
  BY <1>1 DEF Attempting, InOperation, ChecksWithinAttempt
<1>5. \A i \in Ids : ~Pending(q, i) /\ i # 0
  BY <1>4, ExecutionAssumption DEF Pending, Ids
<1>6. Booked(q, ops, l)
  BY <1>1, <1>4, <1>5 DEF Kept, Booked, InOperation
<1>7. QED
  BY <1>2, <1>3, <1>6 DEF Course

LEMMA NextVerificationGoes ==
    ASSUME NEW r \in Run, NEW ops, NEW l, r.verdict # "SUCCEEDED", r.evaluator <= Evaluators,
           ~r.budgetUnavailable =>
             /\ Stands(r, ops, l) /\ ops[r.attempt].status = "observed"
             /\ Verified(ops, r.attempt, 1, r.evaluator, 0, 0)
    PROVE  Goes(NextVerification(r), ops, l)
<1> DEFINE q == NextVerification(r)
<1>1. r.evaluator \in Nat /\ Evaluators \in Nat /\ Domain \in BOOLEAN
  BY ExecutionAssumption DEF Run
<1>2. ASSUME NEW q2, q2.attempt = r.attempt, Stands(r, ops, l) PROVE Stands(q2, ops, l)
  BY <1>2 DEF Stands
<1>3. CASE r.evaluator < Evaluators
  <2>1. q = AdmitAt(r, "evaluation")
    BY <1>1, <1>3 DEF NextVerification
  <2>2. q.pc = "admit" /\ q.kind = "evaluation" /\ q.attempt = r.attempt /\ q.evaluator = r.evaluator
          /\ q.verdict = r.verdict /\ q.budgetUnavailable = r.budgetUnavailable
    BY <2>1, AdmitGives
  <2> HIDE DEF q
  <2>3. Goes(q, ops, l)
    BY <1>2, <2>2, AttemptGoes
  <2>4. QED
    BY <2>3 DEF q
<1>4. CASE r.evaluator = Evaluators /\ Domain
  <2>1. q = AdmitAt(r, "domain")
    BY <1>1, <1>4 DEF NextVerification
  <2>2. q.pc = "admit" /\ q.kind = "domain" /\ q.attempt = r.attempt
          /\ q.verdict = r.verdict /\ q.budgetUnavailable = r.budgetUnavailable
    BY <2>1, AdmitGives
  <2> HIDE DEF q
  <2>3. Goes(q, ops, l)
    BY <1>2, <1>4, <2>2, AttemptGoes
  <2>4. QED
    BY <2>3 DEF q
<1>5. CASE r.evaluator = Evaluators /\ ~Domain
  <2>1. q = [r EXCEPT !.pc = "finish_attempt"]
    BY <1>1, <1>5 DEF NextVerification
  <2>2. q.pc = "finish_attempt" /\ q.attempt = r.attempt
          /\ q.verdict = r.verdict /\ q.budgetUnavailable = r.budgetUnavailable
    BY <2>1 DEF Run
  <2>3. Domains = 0
    BY <1>5 DEF Domains
  <2> HIDE DEF q
  <2>4. Goes(q, ops, l)
    BY <1>2, <1>5, <2>2, <2>3, AttemptGoes
  <2>5. QED
    BY <2>4 DEF q
<1>6. QED
  BY <1>1, <1>3, <1>4, <1>5

LEMMA NextToolGoes ==
    ASSUME NEW r \in Run, NEW ops, NEW l, r.verdict # "SUCCEEDED", r.tool <= Tools,
           ~r.budgetUnavailable =>
             /\ r.attempt \in Ids /\ LastAttempt(ops, r.attempt) /\ Kept(ops, l, 0)
             /\ ops[r.attempt].status = "succeeded"
             /\ Verified(ops, r.attempt, 1, Evaluators, Domains, r.tool)
    PROVE  Goes(NextTool(r), ops, l)
<1> DEFINE q == NextTool(r)
           n == r.tool + 1
           u == [r EXCEPT !.tool = n, !.replay = FALSE]
<1>1. r.tool \in Nat /\ Tools \in Nat /\ n \in Nat /\ n - 1 = r.tool
  BY ExecutionAssumption DEF Run, Tools
<1>2. CASE r.tool < Tools
  <2>1. q = AdmitAt(u, "tool")
    BY <1>2 DEF NextTool
  <2> HIDE DEF n
  <2>2. u \in Run /\ u.tool = n /\ u.attempt = r.attempt /\ u.verdict = r.verdict
          /\ u.budgetUnavailable = r.budgetUnavailable
    BY <1>1 DEF Run
  <2> HIDE DEF u
  <2>3. q.pc = "admit" /\ q.kind \in ToolKinds /\ q.attempt = r.attempt /\ q.tool - 1 = r.tool
          /\ q.verdict = r.verdict /\ q.budgetUnavailable = r.budgetUnavailable
    BY <1>1, <2>1, <2>2, AdmitGives DEF ToolKinds
  <2> HIDE DEF q
  <2>4. Goes(q, ops, l)
    BY <2>3, ToolGoes
  <2>5. QED
    BY <2>4 DEF q
<1>3. CASE r.tool = Tools
  <2>1. q = [r EXCEPT !.pc = "complete"]
    BY <1>1, <1>3 DEF NextTool
  <2>2. q.pc = "complete" /\ q.attempt = r.attempt
          /\ q.verdict = r.verdict /\ q.budgetUnavailable = r.budgetUnavailable
    BY <2>1 DEF Run
  <2> HIDE DEF q
  <2>3. Goes(q, ops, l)
    BY <1>3, <2>2, ToolGoes
  <2>4. QED
    BY <2>3 DEF q
<1>4. QED
  BY <1>1, <1>2, <1>3
-----------------------------------------------------------------------------
(* Settling.                                                               *)

\* What the settlement of the operation of r makes of the records and the ledger.
Settles(r, ops, new, l, m) ==
    /\ \A i \in Ids : i # r.id => new[i] = ops[i] /\ m[i] = l[i]
    /\ m[r.id].amount = l[r.id].amount /\ Owed(m[r.id], r.actual)
    /\ ops[r.id].status \notin Final \cup {"absent"} /\ ops[r.id].kind = r.kind
    /\ IF r.kind \in {"validation", "domain"}
       THEN new[r.id].kind = r.kind /\ new[r.id].status = FinalStatus(r) /\ new[r.id].actual = r.actual
       ELSE new[r.id] = ops[r.id]

LEMMA SettledStands ==
    ASSUME NEW r, NEW ops, NEW new, NEW l, NEW m, r.id \in Ids, r.pc = "settle",
           r.kind \in {"generation", "validation", "domain"},
           Course(r, ops, l), Settles(r, ops, new, l, m)
    PROVE  Stands(r, new, m)
<1>1. Attempting(r) /\ r.pc \in InOperation /\ FinalStatus(r) \in Final
  BY DEF Attempting, InOperation, ChecksWithinAttempt, FinalStatus, Final
<1>2. r.attempt \in Ids /\ LastAttempt(ops, r.attempt)
  BY <1>1 DEF Course, Progressed
<1>3. new[r.id].kind = ops[r.id].kind /\ new[r.id].status # "absent" /\ ops[r.id].status # "absent"
  BY <1>1 DEF Settles, Final
<1>4. \A i \in Ids : i # r.id => new[i] = ops[i] /\ m[i] = l[i]
  BY DEF Settles
<1>5. LastAttempt(new, r.attempt)
  <2>1. \A i \in Ids : i # r.id => new[i] = ops[i]
    BY <1>4
  <2>2. QED
    BY <1>2, <1>3, <2>1, LastAttemptSame
<1>6. r.kind = "generation" => r.attempt = r.id
  BY <1>1 DEF Course, Steered
<1>7. r.kind # "generation" => r.attempt # r.id
  BY <1>2 DEF LastAttempt, Settles
<1>8. \A i \in Ids : new[i].status # "absent" => m[i].amount = Estimate[new[i].kind]
  BY <1>3, <1>4 DEF Course, Booked, Settles
<1>9. \A i \in Ids : i # r.id /\ i # r.attempt => ~Pending(r, i)
  BY DEF Pending
<1>10. ASSUME NEW i \in Ids, new[i].status # "absent", i # r.attempt
       PROVE  new[i].status \in Final /\ Owed(m[i], new[i].actual)
  <2>1. CASE i = r.id
    BY <1>1, <1>6, <1>10, <2>1 DEF Settles
  <2>2. CASE i # r.id
    BY <1>4, <1>9, <1>10, <2>2 DEF Course, Booked
  <2>3. QED
    BY <2>1, <2>2
<1>11. Kept(new, m, r.attempt)
  BY <1>8, <1>10 DEF Kept
<1>12. IF new[r.attempt].status = "observed" THEN Owed(m[r.attempt], new[r.attempt].actual)
                                             ELSE m[r.attempt].state # "held"
  <2>1. CASE r.kind = "generation"
    <3>1. new[r.id] = ops[r.id] /\ Owed(m[r.id], r.actual)
      BY <2>1 DEF Settles
    <3>2. IF ops[r.id].status = "observed" THEN ops[r.id].actual = r.actual ELSE r.actual # Unknown
      BY <2>1 DEF Course, Answered
    <3>3. QED
      BY <1>6, <2>1, <3>1, <3>2 DEF Owed
  <2>2. CASE r.kind # "generation"
    BY <1>1, <1>2, <1>4, <1>7, <2>2 DEF Course, Booked
  <2>3. QED
    BY <2>1, <2>2
<1>13. QED
  BY <1>2, <1>5, <1>11, <1>12 DEF Stands

\* The operation is settled, and its final record is saved next.
LEMMA FinishGoes ==
    ASSUME NEW r, NEW q, NEW ops, NEW new, NEW l, NEW m, r.id \in Ids, r.pc = "settle",
           r.verdict # "SUCCEEDED", ~r.budgetUnavailable => Course(r, ops, l),
           Settles(r, ops, new, l, m), r.kind \notin {"generation", "validation"},
           r.kind = "domain" => r.dispatched /\ Domain,
           r.kind \in WithinAttempt /\ ~r.budgetUnavailable => r.attempt <= r.id,
           SameWay(r, q), q.pc = "finish", q.id = r.id, q.kind = r.kind, q.actual = r.actual,
           q.failure = r.failure, q.dispatched = r.dispatched
    PROVE  Goes(q, new, m)
<1>0. q.verdict # "SUCCEEDED"
  BY DEF SameWay
<1> SUFFICES ASSUME OnCourse(q) PROVE Course(q, new, m)
  BY <1>0 DEF Goes
<1>1. Course(r, ops, l) /\ ~r.budgetUnavailable
  BY DEF OnCourse, SameWay
<1>2. Steered(q)
  BY <1>1 DEF Course, Steered, SameWay, InOperation
<1>3. \A i \in Ids : i # r.id => new[i] = ops[i] /\ m[i] = l[i]
  BY DEF Settles
<1>4. new[r.id].kind = ops[r.id].kind /\ new[r.id].status # "absent" /\ ops[r.id].status # "absent"
  BY DEF Settles, Final, FinalStatus
<1>5. /\ Attempting(r) <=> Attempting(q)
      /\ UsingTools(r) <=> UsingTools(q)
      /\ r.pc \in InOperation /\ q.pc \in InOperation /\ q.pc # "complete"
  BY DEF Attempting, UsingTools, InOperation, ChecksWithinAttempt
<1>6. Attempting(r) \/ UsingTools(r) =>
          /\ r.attempt \in Ids /\ LastAttempt(ops, r.attempt) /\ LastAttempt(new, r.attempt)
          /\ r.attempt # r.id /\ new[r.attempt] = ops[r.attempt] /\ m[r.attempt] = l[r.attempt]
  <2> SUFFICES ASSUME Attempting(r) \/ UsingTools(r)
               PROVE  /\ r.attempt \in Ids /\ LastAttempt(ops, r.attempt) /\ LastAttempt(new, r.attempt)
                      /\ r.attempt # r.id /\ new[r.attempt] = ops[r.attempt]
                      /\ m[r.attempt] = l[r.attempt]
    OBVIOUS
  <2>1. r.attempt \in Ids /\ LastAttempt(ops, r.attempt)
    BY <1>1 DEF Course, Progressed
  <2>2. LastAttempt(new, r.attempt)
    BY <1>3, <1>4, <2>1, LastAttemptSame
  <2>3. r.attempt # r.id
    BY <2>1 DEF LastAttempt, Settles
  <2>4. QED
    BY <1>3, <2>1, <2>2, <2>3
<1>7. Progressed(q, new)
  <2>1. CASE r.kind = "domain"
    <3>1. Verified(ops, r.attempt, 1, Evaluators, 0, 0) /\ Attempting(r)
      BY <1>1, <2>1 DEF Course, Progressed, DomainDue, InOperation, Attempting, ChecksWithinAttempt
    <3>2. ASSUME q.failure = "none" PROVE Verified(new, r.attempt, 1, Evaluators, Domains, 0)
      <4>1. new[r.id].status = "succeeded" /\ new[r.id].kind = "domain" /\ ops[r.id].status # "succeeded"
        BY <2>1, <3>2 DEF Settles, FinalStatus, Final
      <4>2. r.attempt <= r.id /\ r.attempt \in Int
        BY <1>1, <1>6, <2>1, <3>1, ExecutionAssumption DEF WithinAttempt, Kinds, Ids
      <4>3. Verified(new, r.attempt, 1, Evaluators, 0 + 1, 0)
        BY <1>3, <3>1, <4>1, <4>2, VerifiedMore
      <4>4. QED
        BY <2>1, <4>3 DEF Domains
    <3>3. QED
      BY <1>5, <1>6, <2>1, <3>1, <3>2 DEF Progressed, UsingTools, Unverified, Evaluating, DomainDue,
                                   AttemptPassed, ToolKinds, InOperation, SameWay
  <2>2. CASE r.kind # "domain"
    <3>1. new[r.id] = ops[r.id]
      BY <2>2 DEF Settles
    <3>2. \A v, e, d, n : Verified(ops, r.attempt, v, e, d, n) => Verified(new, r.attempt, v, e, d, n)
      <4>1. /\ \A i \in Ids : i # r.id => new[i] = ops[i]
            /\ new[r.id].kind = ops[r.id].kind /\ new[r.id].status = ops[r.id].status
        BY <1>3, <3>1
      <4>2. QED
        BY <4>1, VerifiedSame
    <3>3. QED
      BY <1>1, <1>5, <1>6, <2>2, <3>2 DEF Course, Progressed, UsingTools, Unverified, Evaluating,
                                   DomainDue, AttemptPassed, InOperation, SameWay
  <2>3. QED
    BY <2>1, <2>2
<1>8. Answered(q, new)
  <2>1. r.kind \in ChecksWithinAttempt => Attempting(r) /\ ops[r.attempt].status = "observed"
    BY <1>1 DEF Course, Answered, InOperation, Attempting
  <2>2. new[q.id].status \in Final <=> q.kind = "domain"
    BY DEF Settles, FinalStatus, Final
  <2>3. QED
    BY <1>6, <2>1, <2>2 DEF Answered, SameWay, ChecksWithinAttempt
<1>9. Booked(q, new, m)
  <2>1. Booked(r, ops, l) /\ q.attempt = r.attempt
    BY <1>1 DEF Course, SameWay
  <2>2. \A i \in Ids : Pending(q, i) <=> Pending(r, i)
    BY <1>5, <2>1 DEF Pending
  <2>3. \A i \in Ids : new[i].status # "absent" => m[i].amount = Estimate[new[i].kind]
    BY <1>3, <1>4, <2>1 DEF Booked, Settles
  <2>4. \A i \in Ids : new[i].status # "absent" /\ ~Pending(q, i) =>
                        new[i].status \in Final /\ Owed(m[i], new[i].actual)
    BY <1>3, <1>5, <2>1, <2>2 DEF Booked, Pending
  <2>5. Owed(m[q.id], q.actual)
    BY DEF Settles
  <2>6. Attempting(q) => IF new[q.attempt].status = "observed"
                         THEN Owed(m[q.attempt], new[q.attempt].actual)
                         ELSE m[q.attempt].state # "held"
    BY <1>5, <1>6, <2>1 DEF Booked
  <2>7. QED
    BY <2>3, <2>4, <2>5, <2>6 DEF Booked
<1>10. QED
  BY <1>2, <1>7, <1>8, <1>9 DEF Course

LEMMA AfterSettleGoes ==
    ASSUME NEW r \in Run, NEW ops, NEW new, NEW l, NEW m, r.id \in Ids, r.pc = "settle",
           r.verdict # "SUCCEEDED", ~r.budgetUnavailable => Course(r, ops, l),
           Settles(r, ops, new, l, m), r.kind = "domain" => Domain,
           r.kind \in WithinAttempt /\ ~r.budgetUnavailable => r.attempt <= r.id
    PROVE  Goes(AfterSettle(r), new, m)
<1> DEFINE q == AfterSettle(r)
<1>1. r.kind \in {"generation", "validation", "domain"} /\ ~r.budgetUnavailable => Stands(r, new, m)
  BY SettledStands
<1>2. ASSUME NEW u, u.attempt = r.attempt, Stands(r, new, m) PROVE Stands(u, new, m)
  BY <1>2 DEF Stands
<1>3. \A i \in Ids : i # r.id => new[i] = ops[i]
  BY DEF Settles
<1>4. CASE r.kind = "generation" /\ r.failure = "none"
  <2>1. q = [r EXCEPT !.pc = "validating"]
    BY <1>4 DEF AfterSettle
  <2>2. SameWay(r, q) /\ q.pc = "validating"
    BY <2>1 DEF Run, SameWay
  <2> HIDE DEF q
  <2>3. ASSUME ~r.budgetUnavailable
        PROVE  /\ new[r.attempt].status = "observed" /\ r.evaluator = 0
               /\ Verified(new, r.attempt, 0, 0, 0, 0)
    <3>1. r.attempt = r.id /\ r.evaluator = 0 /\ ops[r.attempt].status = "observed"
            /\ Verified(ops, r.attempt, 0, 0, 0, 0)
      BY <1>4, <2>3 DEF Course, Steered, Answered, Progressed, Unverified, InOperation
    <3>2. new[r.id] = ops[r.id]
      BY <1>4 DEF Settles
    <3>3. Verified(new, r.attempt, 0, 0, 0, 0)
      BY <1>3, <3>1, <3>2, VerifiedSame
    <3>4. QED
      BY <3>1, <3>2, <3>3
  <2>4. Goes(q, new, m)
    BY <1>1, <1>2, <1>4, <2>2, <2>3, AttemptGoes DEF SameWay
  <2>5. QED
    BY <2>4 DEF q
<1>5. CASE r.kind = "validation" /\ r.failure = "none"
  <2>1. AfterSettle(r) = NextVerification(r)
    BY <1>5 DEF AfterSettle
  <2>2. ASSUME ~r.budgetUnavailable
        PROVE  /\ new[r.attempt].status = "observed" /\ r.evaluator = 0
               /\ Verified(new, r.attempt, 1, r.evaluator, 0, 0)
    <3>1. /\ Attempting(r) /\ r.evaluator = 0 /\ ops[r.attempt].status = "observed"
          /\ Verified(ops, r.attempt, 0, 0, 0, 0)
      BY <1>5, <2>2 DEF Course, Steered, Answered, Progressed, Unverified, InOperation, Attempting,
                        ChecksWithinAttempt
    <3>2. r.attempt \in Ids /\ r.attempt # r.id
      BY <1>5, <2>2, <3>1 DEF Course, Progressed, LastAttempt, Settles
    <3>3. /\ new[r.id].status = "succeeded" /\ new[r.id].kind = "validation"
          /\ ops[r.id].status # "succeeded"
      BY <1>5 DEF Settles, FinalStatus, Final
    <3>4. r.attempt <= r.id /\ r.attempt \in Int
      BY <1>5, <2>2, <3>2, ExecutionAssumption DEF WithinAttempt, Kinds, Ids
    <3>5. Verified(new, r.attempt, 0 + 1, 0, 0, 0)
      BY <1>3, <3>1, <3>3, <3>4, VerifiedMore
    <3>6. QED
      BY <1>3, <3>1, <3>2, <3>5
  <2>3. ~r.budgetUnavailable => r.evaluator = 0
    BY <2>2
  <2>4. CASE r.budgetUnavailable
    <3>1. NextVerification(r).verdict = r.verdict
            /\ NextVerification(r).budgetUnavailable = r.budgetUnavailable
      BY DEF NextVerification, AdmitAt, Run
    <3>2. QED
      BY <2>1, <2>4, <3>1, OffCourseGoes
  <2>5. CASE ~r.budgetUnavailable
    <3>1. r.evaluator <= Evaluators
      BY <2>3, <2>5, ExecutionAssumption
    <3>2. QED
      BY <1>1, <1>5, <2>1, <2>2, <3>1, NextVerificationGoes
  <2>6. QED
    BY <2>4, <2>5
<1>6. CASE \/ r.kind \in {"generation", "validation"} /\ r.failure # "none"
           \/ r.kind = "domain" /\ ~r.dispatched
  <2>1. q = [r EXCEPT !.pc = "finish_attempt"]
    BY <1>6 DEF AfterSettle
  <2>2. SameWay(r, q) /\ q.pc = "finish_attempt" /\ q.failure = r.failure
    BY <2>1 DEF Run, SameWay
  <2> HIDE DEF q
  <2>3. ~r.budgetUnavailable => r.failure # "none"
    BY <1>6 DEF Course, Steered
  <2>4. Goes(q, new, m)
    BY <1>1, <1>2, <1>6, <2>2, <2>3, AttemptGoes DEF SameWay
  <2>5. QED
    BY <2>4 DEF q
<1>7. CASE /\ r.kind \notin {"generation", "validation"}
           /\ ~(r.kind = "domain" /\ ~r.dispatched)
  <2>1. q = [r EXCEPT !.pc = "finish"]
    BY <1>7 DEF AfterSettle
  <2>2. /\ SameWay(r, q) /\ q.pc = "finish" /\ q.id = r.id /\ q.kind = r.kind /\ q.actual = r.actual
        /\ q.failure = r.failure /\ q.dispatched = r.dispatched
    BY <2>1 DEF Run, SameWay
  <2> HIDE DEF q
  <2>3. Goes(q, new, m)
    BY <1>7, <2>2, FinishGoes
  <2>4. QED
    BY <2>3 DEF q
<1>8. QED
  BY <1>4, <1>5, <1>6, <1>7

LEMMA ChargedOps ==
    ASSUME task \in TaskResult, run.id \in Ids, NEW settled \in BOOLEAN
    PROVE  /\ Charge(settled).ops[run.id] =
                 IF run.kind \in {"validation", "domain"}
                 THEN [kind |-> run.kind, step |-> run.tool,
                       status |-> FinalStatus(run), actual |-> run.actual]
                 ELSE task.ops[run.id]
           /\ \A i \in Ids : i # run.id => Charge(settled).ops[i] = task.ops[i]
<1> DEFINE known == IF run.actual = Unknown THEN task.known ELSE task.known + run.actual
           reserved == IF settled THEN task.reserved - Estimate[run.kind] ELSE task.reserved
           complete == task.complete /\ run.actual # Unknown
           op == IF run.kind \in {"validation", "domain"}
                 THEN [kind |-> run.kind, step |-> run.tool,
                       status |-> FinalStatus(run), actual |-> run.actual]
                 ELSE task.ops[run.id]
           ops == [task.ops EXCEPT ![run.id] = op]
<1>1. Charge(settled) = [task EXCEPT !.known = known, !.reserved = reserved,
                                     !.complete = complete, !.ops = ops]
  BY DEF Charge
<1> HIDE DEF known, reserved, complete, op
<1>2. Charge(settled).ops = ops
  BY <1>1 DEF TaskResult
<1>3. ops[run.id] = op /\ \A i \in Ids : i # run.id => ops[i] = task.ops[i]
  BY DEF TaskResult
<1>4. QED
  BY <1>2, <1>3 DEF op

LEMMA ChargeKeepsSound ==
    ASSUME Inv, AccountInv, BoundInv, SoundInv, run.pc = "settle", NEW settled \in BOOLEAN,
           task' = Charge(settled),
           ledger' = IF run.actual = Unknown THEN ledger ELSE Settled,
           run' = AfterSettle([run EXCEPT !.costViolation = @ \/ Overran]),
           UNCHANGED <<row, journal>>
    PROVE  SoundInv'
<1> DEFINE violation == run.costViolation \/ Overran
           r == [run EXCEPT !.costViolation = violation]
           op == IF run.kind \in {"validation", "domain"}
                 THEN [kind |-> run.kind, step |-> run.tool,
                       status |-> FinalStatus(run), actual |-> run.actual]
                 ELSE task.ops[run.id]
<1>1. /\ run.pc = "settle" /\ Running /\ run.id \in Ids /\ run \in Run /\ task \in TaskResult
      /\ run.actual \in Nat \cup {Unknown} /\ Goes(run, task.ops, ledger) /\ OpTracked(run, task)
      /\ UNCHANGED <<row, journal>> /\ ledger \in [Ids -> Reservation]
  BY DEF Running, Ended, Inv, TypeOK, RunOK, Run, InOperation, SoundInv, AccountInv, Tracked
<1>2. violation \in BOOLEAN /\ run' = AfterSettle(r)
  BY <1>1
<1>3. /\ op = IF run.kind \in {"validation", "domain"}
              THEN [kind |-> run.kind, step |-> run.tool,
                    status |-> FinalStatus(run), actual |-> run.actual]
              ELSE task.ops[run.id]
  OBVIOUS
<1> HIDE DEF violation, op, r
<1>5. task'.ops[run.id] = op /\ \A i \in Ids : i # run.id => task'.ops[i] = task.ops[i]
  BY <1>1, <1>3, ChargedOps
<1>6. /\ r \in Run /\ r.id = run.id /\ r.pc = "settle" /\ r.kind = run.kind /\ r.actual = run.actual
      /\ r.failure = run.failure /\ r.dispatched = run.dispatched /\ SameWay(run, r)
  BY <1>1, <1>2 DEF Run, SameWay, r
<1>7. FinalStatus(r) = FinalStatus(run)
  BY <1>6 DEF FinalStatus
<1>8. /\ ledger'[run.id].amount = ledger[run.id].amount /\ Owed(ledger'[run.id], run.actual)
      /\ \A i \in Ids : i # run.id => ledger'[i] = ledger[i]
  <2>1. ledger[run.id].state = "held"
    BY <1>1 DEF AccountInv, LedgerOK
  <2>2. CASE run.actual = Unknown
    BY <1>1, <2>1, <2>2 DEF Owed
  <2>3. CASE run.actual # Unknown
    BY <1>1, <2>3 DEF Settled, Owed, Reservation
  <2>4. QED
    BY <2>2, <2>3
<1>9. task.ops[run.id].status \notin Final \cup {"absent"} /\ task.ops[run.id].kind = run.kind
  BY <1>1 DEF OpTracked
<1>10. Settles(r, task.ops, task'.ops, ledger, ledger')
  <2>1. CASE run.kind \in {"validation", "domain"}
    <3>1. op.kind = run.kind /\ op.status = FinalStatus(run) /\ op.actual = run.actual
      BY <1>3, <2>1
    <3>2. QED
      BY <1>5, <1>6, <1>7, <1>8, <1>9, <2>1, <3>1 DEF Settles
  <2>2. CASE run.kind \notin {"validation", "domain"}
    BY <1>3, <1>5, <1>6, <1>8, <1>9, <2>2 DEF Settles
  <2>3. QED
    BY <2>1, <2>2
<1>11. r.verdict # "SUCCEEDED"
  BY <1>1, <1>6 DEF Goes, SameWay
<1>12. ASSUME ~r.budgetUnavailable PROVE Course(r, task.ops, ledger)
  <2>1. Course(run, task.ops, ledger)
    BY <1>1, <1>6, <1>12 DEF Goes, OnCourse, SameWay, Ended
  <2>2. Steered(r) /\ Answered(r, task.ops)
    BY <1>1, <1>6, <2>1 DEF Course, Steered, Answered, SameWay
  <2>3. (Attempting(r) <=> Attempting(run)) /\ (UsingTools(r) <=> UsingTools(run))
    BY <1>1, <1>6 DEF Attempting, UsingTools
  <2>4. Progressed(r, task.ops)
    BY <1>1, <1>6, <2>1, <2>3 DEF Course, Progressed, SameWay, Unverified, Evaluating, DomainDue, AttemptPassed
  <2>5. Booked(r, task.ops, ledger)
    BY <1>1, <1>6, <2>1, <2>3 DEF Course, Booked, Pending, SameWay
  <2>6. QED
    BY <2>2, <2>4, <2>5 DEF Course
<1>13. r.kind = "domain" => Domain
  BY <1>1, <1>6 DEF BoundInv, Paced, WithinLimits
<1>14. ASSUME r.kind \in WithinAttempt, ~r.budgetUnavailable PROVE r.attempt <= r.id
  <2>1. Attempting(r) \/ UsingTools(r)
    BY <1>6, <1>14 DEF Attempting, UsingTools, WithinAttempt, Kinds, InOperation, ChecksWithinAttempt, ToolKinds
  <2>2. r.attempt \in Ids /\ task.ops[r.attempt].status # "absent"
    BY <1>12, <1>14, <2>1 DEF Course, Progressed, LastAttempt
  <2>3. ~(r.id < r.attempt)
    BY <1>1, <1>6, <2>2 DEF AccountInv, Funded, AllFunded, LedgerOK
  <2>4. r.attempt \in Int /\ r.id \in Int
    BY <1>1, <1>6, <2>2, ExecutionAssumption DEF Ids
  <2>5. QED
    BY <2>3, <2>4
<1>15. Goes(run', task'.ops, ledger')
  BY <1>1, <1>2, <1>6, <1>10, <1>11, <1>12, <1>13, <1>14, AfterSettleGoes
<1>16. QED
  BY <1>1, <1>15, MoveKeepsSound

LEMMA SettleKeepsSound == ASSUME Inv, AccountInv, BoundInv, SoundInv, Settle PROVE SoundInv'
<1>1. (run.actual # Unknown) \in BOOLEAN
  OBVIOUS
<1>2. QED
  BY <1>1, ChargeKeepsSound DEF Settle

\* settle() raised: the execution cannot succeed any more.
LEMMA SettleUnavailableKeepsSound ==
    ASSUME Inv, AccountInv, SoundInv, SettleUnavailable PROVE SoundInv'
<1> DEFINE violation == run.costViolation \/ Overran
           r == [run EXCEPT !.costViolation = violation, !.budgetUnavailable = TRUE]
<1>1. /\ run.pc = "settle" /\ Running /\ run \in Run /\ UNCHANGED <<row, journal>>
      /\ run.verdict # "SUCCEEDED" /\ run' = AfterSettle(r)
  BY DEF SettleUnavailable, Running, Ended, Inv, TypeOK, SoundInv, Goes
<1>2. violation \in BOOLEAN
  BY <1>1
<1> HIDE DEF violation
<1>3. r \in Run /\ r.budgetUnavailable /\ r.verdict = run.verdict
  BY <1>1, <1>2 DEF Run
<1> HIDE DEF r
<1>4. run'.budgetUnavailable = r.budgetUnavailable /\ run'.verdict = r.verdict
  <2>1. NextVerification(r).verdict = r.verdict
            /\ NextVerification(r).budgetUnavailable = r.budgetUnavailable
    BY <1>3 DEF NextVerification, AdmitAt, Run
  <2>2. ASSUME NEW pc PROVE /\ [r EXCEPT !.pc = pc].verdict = r.verdict
                            /\ [r EXCEPT !.pc = pc].budgetUnavailable = r.budgetUnavailable
    BY <1>3 DEF Run
  <2>3. AfterSettle(r) = NextVerification(r) \/ \E pc : AfterSettle(r) = [r EXCEPT !.pc = pc]
    BY DEF AfterSettle
  <2>4. QED
    BY <1>1, <2>1, <2>2, <2>3
<1>5. QED
  BY <1>1, <1>3, <1>4, OffCourseGoes, MoveKeepsSound
-----------------------------------------------------------------------------
(* The final record of an operation.                                       *)

Finishes(r, ops, new) ==
    /\ \A i \in Ids : i # r.id => new[i] = ops[i]
    /\ ops[r.id].status # "absent" /\ ops[r.id].kind = r.kind
    /\ ops[r.id].status \in Final => ops[r.id].status = FinalStatus(r)
    /\ new[r.id].kind = r.kind /\ new[r.id].status = FinalStatus(r) /\ new[r.id].actual = r.actual

LEMMA FinishedStands ==
    ASSUME NEW r, NEW ops, NEW new, NEW l, r.id \in Ids, r.pc = "finish", r.kind # "generation",
           Course(r, ops, l), Finishes(r, ops, new)
    PROVE  /\ Attempting(r) => Stands(r, new, l)
           /\ ~Attempting(r) => Kept(new, l, 0)
           /\ Attempting(r) \/ UsingTools(r) =>
                 /\ r.attempt \in Ids /\ LastAttempt(new, r.attempt)
                 /\ r.attempt # r.id /\ new[r.attempt] = ops[r.attempt]
<1>1. r.pc \in InOperation /\ FinalStatus(r) \in Final /\ FinalStatus(r) # "absent"
  BY DEF InOperation, FinalStatus, Final
<1>2. \A i \in Ids : i # r.id => new[i] = ops[i]
  BY DEF Finishes
<1>3. new[r.id].kind = ops[r.id].kind /\ new[r.id].status # "absent" /\ ops[r.id].status # "absent"
  BY <1>1 DEF Finishes
<1>4. ASSUME Attempting(r) \/ UsingTools(r)
      PROVE  /\ r.attempt \in Ids /\ LastAttempt(new, r.attempt)
             /\ r.attempt # r.id /\ new[r.attempt] = ops[r.attempt]
  <2>1. r.attempt \in Ids /\ LastAttempt(ops, r.attempt)
    BY <1>4 DEF Course, Progressed
  <2>2. LastAttempt(new, r.attempt)
    BY <1>2, <1>3, <2>1, LastAttemptSame
  <2>3. r.attempt # r.id
    BY <2>1 DEF LastAttempt, Finishes
  <2>4. QED
    BY <1>2, <2>1, <2>2, <2>3
<1>5. \A i \in Ids : new[i].status # "absent" => l[i].amount = Estimate[new[i].kind]
  BY <1>2, <1>3 DEF Course, Booked
<1>6. ASSUME NEW i \in Ids, new[i].status # "absent", ~(Attempting(r) /\ i = r.attempt)
      PROVE  new[i].status \in Final /\ Owed(l[i], new[i].actual)
  <2>1. CASE i = r.id
    BY <1>1, <2>1 DEF Finishes, Course, Booked
  <2>2. CASE i # r.id
    BY <1>2, <1>6, <2>2 DEF Course, Booked, Pending
  <2>3. QED
    BY <2>1, <2>2
<1>7. ASSUME Attempting(r) PROVE Stands(r, new, l)
  <2>1. Kept(new, l, r.attempt)
    BY <1>5, <1>6, <1>7 DEF Kept
  <2>2. IF ops[r.attempt].status = "observed" THEN Owed(l[r.attempt], ops[r.attempt].actual)
                                              ELSE l[r.attempt].state # "held"
    BY <1>7 DEF Course, Booked
  <2>3. QED
    BY <1>4, <1>7, <2>1, <2>2 DEF Stands
<1>8. ASSUME ~Attempting(r) PROVE Kept(new, l, 0)
  BY <1>5, <1>6, <1>8 DEF Kept
<1>9. QED
  BY <1>4, <1>7, <1>8

LEMMA AfterFinishGoes ==
    ASSUME NEW r \in Run, NEW ops, NEW new, NEW l, r.id \in Ids, r.pc = "finish",
           r.verdict # "SUCCEEDED", ~r.budgetUnavailable => Course(r, ops, l),
           Finishes(r, ops, new), ToolsTracked(r), r.tool <= Tools,
           r.kind = "evaluation" => r.evaluator < Evaluators, NEW q \in AfterFinish(r)
    PROVE  Goes(q, new, l)
<1>1. r.kind \in Kinds /\ r.kind \notin {"generation", "validation"}
  BY DEF Run, ToolsTracked
<1>2. ASSUME ~r.budgetUnavailable
      PROVE  /\ Attempting(r) => Stands(r, new, l)
             /\ ~Attempting(r) => Kept(new, l, 0)
             /\ Attempting(r) \/ UsingTools(r) =>
                   /\ r.attempt \in Ids /\ LastAttempt(new, r.attempt)
                   /\ r.attempt # r.id /\ new[r.attempt] = ops[r.attempt]
  BY <1>1, <1>2, FinishedStands
<1>3. ASSUME NEW u, u.attempt = r.attempt, Stands(r, new, l) PROVE Stands(u, new, l)
  BY <1>3 DEF Stands
<1>4. ASSUME NEW f, q = [r EXCEPT !.pc = "finish_attempt", !.failure = f], Attempting(r),
             ~r.budgetUnavailable => f # "none"
      PROVE  Goes(q, new, l)
  <2>1. SameWay(r, q) /\ q.pc = "finish_attempt" /\ q.failure = f
    BY <1>4 DEF Run, SameWay
  <2>2. QED
    BY <1>2, <1>3, <1>4, <2>1, AttemptGoes DEF SameWay
<1>5. ASSUME FinalStatus(r) # "succeeded", ~r.budgetUnavailable, Attempting(r) \/ UsingTools(r)
      PROVE  \A v, e, d, n : Verified(ops, r.attempt, v, e, d, n) => Verified(new, r.attempt, v, e, d, n)
  <2>1. ops[r.id].status # "succeeded" /\ new[r.id].status # "succeeded"
          /\ \A i \in Ids : i # r.id => new[i] = ops[i]
    BY <1>5 DEF Finishes, Final
  <2>2. QED
    BY <2>1, VerifiedSame
<1>6. ASSUME r.failure = "none", ~r.budgetUnavailable, r.kind \in WithinAttempt \ {"domain"},
             Attempting(r) \/ UsingTools(r)
      PROVE  /\ r.attempt \in Int /\ r.attempt <= r.id
             /\ \A i \in Ids : i # r.id => new[i] = ops[i]
             /\ ops[r.id].status # "succeeded" /\ new[r.id].status = "succeeded"
             /\ new[r.id].kind = r.kind
  <2>1. r.dispatched /\ r.attempt <= r.id
    BY <1>6 DEF Course, Steered
  <2>2. ops[r.id].status \notin Final
    BY <1>6 DEF Course, Answered
  <2>3. r.attempt \in Int
    BY <1>2, <1>6, ExecutionAssumption DEF Ids
  <2>4. QED
    BY <1>6, <2>1, <2>2, <2>3 DEF Finishes, FinalStatus, Final
<1>7. CASE r.kind = "classification"
  <2>1. q = [r EXCEPT !.pc = "classify"] \/ q = Halt(r, "FAILED")
    BY <1>7 DEF AfterFinish
  <2>2. CASE q = Halt(r, "FAILED")
    BY <2>2, HaltGoes
  <2>3. CASE q = [r EXCEPT !.pc = "classify"]
    <3>1. SameWay(r, q) /\ q.pc = "classify"
      BY <2>3 DEF Run, SameWay
    <3>2. ~Attempting(r) /\ (~r.budgetUnavailable => r.evaluator = 0)
      BY <1>7 DEF Attempting, ChecksWithinAttempt, Course, Steered, InOperation
    <3>3. QED
      BY <1>2, <3>1, <3>2, OutsideStands DEF SameWay
  <2>4. QED
    BY <2>1, <2>2, <2>3
<1>8. CASE r.kind = "evaluation"
  <2> DEFINE attempt(f) == [r EXCEPT !.pc = "finish_attempt", !.failure = f]
             n == r.evaluator + 1
             next == [r EXCEPT !.evaluator = n, !.retry = 0]
             again == [r EXCEPT !.pc = "retry_evaluation"]
  <2>1. Attempting(r) /\ (~r.budgetUnavailable /\ r.failure = "none" => r.dispatched)
          /\ (~r.budgetUnavailable => /\ ops[r.attempt].status = "observed"
                                      /\ Verified(ops, r.attempt, 1, r.evaluator, 0, 0))
    BY <1>8 DEF Attempting, ChecksWithinAttempt, InOperation, Course, Steered, Answered, Progressed,
                Evaluating
  <2>2. \/ \E f : q = attempt(f) /\ (f # "none" \/ (~r.dispatched /\ f = r.failure))
        \/ q = NextVerification(next) /\ r.failure = "none"
        \/ q = again /\ r.failure # "none"
    BY <1>8 DEF AfterFinish
  <2>3. CASE \E f : q = attempt(f) /\ (f # "none" \/ (~r.dispatched /\ f = r.failure))
    BY <1>4, <2>1, <2>3
  <2>4. CASE q = again /\ r.failure # "none"
    <3>1. SameWay(r, q) /\ q.pc = "retry_evaluation" /\ FinalStatus(r) # "succeeded"
      BY <2>4 DEF Run, SameWay, FinalStatus
    <3>2. QED
      BY <1>2, <1>3, <1>5, <2>1, <3>1, AttemptGoes DEF SameWay
  <2>5. CASE q = NextVerification(next) /\ r.failure = "none"
    <3>1. n \in Nat /\ n <= Evaluators /\ n = r.evaluator + 1
      BY <1>8, ExecutionAssumption DEF Run
    <3>2. q = NextVerification(next)
      BY <2>5
    <3> HIDE DEF n
    <3>3. next \in Run /\ next.evaluator = n /\ next.attempt = r.attempt /\ next.verdict = r.verdict
            /\ next.budgetUnavailable = r.budgetUnavailable
      BY <3>1 DEF Run
    <3> HIDE DEF next, attempt, again
    <3>4. ASSUME ~r.budgetUnavailable
          PROVE  Verified(new, r.attempt, 1, n, 0, 0) /\ new[r.attempt].status = "observed"
      <4>1. /\ r.attempt \in Int /\ r.attempt <= r.id
            /\ \A i \in Ids : i # r.id => new[i] = ops[i]
            /\ ops[r.id].status # "succeeded" /\ new[r.id].status = "succeeded"
            /\ new[r.id].kind = "evaluation"
        BY <1>6, <1>8, <2>1, <2>5, <3>4 DEF WithinAttempt, Kinds
      <4>2. Verified(new, r.attempt, 1, r.evaluator + 1, 0, 0)
        BY <2>1, <3>4, <4>1, VerifiedMore
      <4>3. QED
        BY <1>2, <2>1, <3>1, <3>4, <4>2
    <3>5. QED
      BY <1>2, <1>3, <2>1, <3>1, <3>2, <3>3, <3>4, NextVerificationGoes
  <2> HIDE DEF next, attempt, again, n
  <2>6. QED
    BY <2>2, <2>3, <2>4, <2>5
<1>9. CASE r.kind = "domain"
  <2>1. q = [r EXCEPT !.pc = "finish_attempt"]
    BY <1>9 DEF AfterFinish
  <2>2. SameWay(r, q) /\ q.pc = "finish_attempt" /\ q.failure = r.failure
    BY <2>1 DEF Run, SameWay
  <2>3. Attempting(r) /\ (~r.budgetUnavailable =>
           /\ ops[r.attempt].status = "observed" /\ ops[r.id].status = FinalStatus(r)
           /\ r.failure = "none" => Verified(ops, r.attempt, 1, Evaluators, Domains, 0))
    BY <1>9 DEF Attempting, ChecksWithinAttempt, InOperation, Course, Answered, Progressed,
                AttemptPassed, Finishes
  <2>4. ASSUME ~r.budgetUnavailable, r.failure = "none"
        PROVE  Verified(new, r.attempt, 1, Evaluators, Domains, 0)
    <3>1. /\ \A i \in Ids : i # r.id => new[i] = ops[i]
          /\ new[r.id].kind = ops[r.id].kind /\ new[r.id].status = ops[r.id].status
      BY <2>3, <2>4 DEF Finishes
    <3>2. QED
      BY <2>3, <2>4, <3>1, VerifiedSame
  <2>5. QED
    BY <1>2, <1>3, <2>2, <2>3, <2>4, AttemptGoes DEF SameWay
<1>10. CASE r.kind \in ToolKinds
  <2>1. ~Attempting(r) /\ UsingTools(r) /\ (~r.budgetUnavailable =>
           /\ ops[r.attempt].status = "succeeded"
           /\ Verified(ops, r.attempt, 1, Evaluators, Domains, r.tool - 1))
    BY <1>10 DEF Attempting, ChecksWithinAttempt, InOperation, Course, Progressed, UsingTools, ToolKinds
  <2>2. \/ q = NextTool(r) /\ r.failure = "none"
        \/ q = [r EXCEPT !.pc = "recover_tool"] /\ r.failure # "none"
        \/ q = Halt(r, StatusFor(r.failure))
    <3>1. CASE r.failure = "none"
      BY <1>10, <3>1 DEF AfterFinish, ToolKinds
    <3>2. CASE r.failure # "none" /\ r.dispatched
      BY <1>10, <3>2 DEF AfterFinish, ToolKinds
    <3>3. CASE r.failure # "none" /\ ~r.dispatched
      BY <1>10, <3>3 DEF AfterFinish, ToolKinds
    <3>4. QED
      BY <3>1, <3>2, <3>3
  <2>3. CASE q = Halt(r, StatusFor(r.failure))
    BY <2>3, HaltGoes, StatusForFails
  <2>4. CASE q = [r EXCEPT !.pc = "recover_tool"] /\ r.failure # "none"
    <3>1. /\ SameWay(r, q) /\ q.pc = "recover_tool" /\ q.kind = r.kind
          /\ FinalStatus(r) # "succeeded"
      BY <2>4 DEF Run, SameWay, FinalStatus
    <3>2. QED
      BY <1>2, <1>5, <1>10, <2>1, <3>1, ToolGoes DEF SameWay
  <2>5. CASE q = NextTool(r) /\ r.failure = "none"
    <3>1. ASSUME ~r.budgetUnavailable
          PROVE  Verified(new, r.attempt, 1, Evaluators, Domains, r.tool)
      <4>1. /\ r.attempt \in Int /\ r.attempt <= r.id
            /\ \A i \in Ids : i # r.id => new[i] = ops[i]
            /\ ops[r.id].status # "succeeded" /\ new[r.id].status = "succeeded"
            /\ new[r.id].kind \in ToolKinds
        BY <1>6, <1>10, <2>1, <2>5, <3>1 DEF WithinAttempt, Kinds, ToolKinds
      <4>2. Verified(new, r.attempt, 1, Evaluators, Domains, r.tool - 1 + 1)
        BY <2>1, <3>1, <4>1, VerifiedMore
      <4>3. r.tool - 1 + 1 = r.tool
        BY DEF Run
      <4>4. QED
        BY <4>2, <4>3
    <3>2. QED
      BY <1>2, <2>1, <2>5, <3>1, NextToolGoes
  <2>6. QED
    BY <2>2, <2>3, <2>4, <2>5
<1>11. QED
  BY <1>1, <1>7, <1>8, <1>9, <1>10 DEF Kinds, ToolKinds

LEMMA FinishOperationKeepsSound ==
    ASSUME Inv, AccountInv, BoundInv, SoundInv, FinishOperation PROVE SoundInv'
<1> DEFINE t == WithOp(task, run.id, FinalStatus(run), run.actual)
           op == [kind |-> run.kind, step |-> run.tool, status |-> FinalStatus(run),
                  actual |-> run.actual]
<1>1. PICK q \in AfterFinish(run) : Save(t, q)
  BY DEF FinishOperation
<1>2. /\ run.id \in Ids /\ run \in Run /\ task \in TaskResult /\ Running /\ Quiet
      /\ Tracked(run, task) /\ run.pc = "finish" /\ Open(task)
      /\ run.actual \in Nat \cup {Unknown} /\ Goes(run, task.ops, ledger) /\ WithinLimits(run, task)
  BY DEF FinishOperation, Inv, RunOK, Run, TypeOK, InOperation, Ended, AccountInv, Running, InStep,
         SoundInv, BoundInv, Paced
<1>3. FinalStatus(run) \in OpStatuses
  BY DEF OpStatuses, FinalStatus
<1>4. /\ op.kind = run.kind /\ op.status = FinalStatus(run) /\ op.actual = run.actual
      /\ t \in TaskResult /\ t.ops = [task.ops EXCEPT ![run.id] = op] /\ t.status = task.status
  BY <1>2, <1>3, WithOpFields
<1> HIDE DEF t, op
<1>5. t.ops[run.id] = op /\ \A i \in Ids : i # run.id => t.ops[i] = task.ops[i]
  BY <1>2, <1>4 DEF TaskResult
<1>6. Finishes(run, task.ops, t.ops)
  BY <1>2, <1>4, <1>5 DEF Finishes, Tracked, OpTracked
<1>7. run.verdict # "SUCCEEDED" /\ (~run.budgetUnavailable => Course(run, task.ops, ledger))
  BY <1>2 DEF Goes, OnCourse, Ended
<1>8. ToolsTracked(run) /\ run.tool <= Tools /\ (run.kind = "evaluation" => run.evaluator < Evaluators)
  BY <1>2 DEF Tracked, WithinLimits, InOperation
<1>9. Goes(q, t.ops, ledger)
  BY <1>2, <1>6, <1>7, <1>8, AfterFinishGoes
<1>10. Sound(t, ledger)
  BY <1>2, <1>4 DEF Sound, Open, Terminal
<1>11. QED
  BY <1>1, <1>2, <1>4, <1>9, <1>10, SaveKeepsSound
-----------------------------------------------------------------------------
(* The end of an attempt and of the task.                                  *)

LEMMA FinishAttemptKeepsSound ==
    ASSUME Inv, AccountInv, BoundInv, SoundInv, NEW f \in Failures, FinishAttempt(f) PROVE SoundInv'
<1> DEFINE old == task.ops[run.attempt]
           called == old.status = "observed"
           op == [kind |-> "generation", step |-> 0,
                  status |-> CASE ~called -> "cancelled"
                               [] called /\ f = "none" -> "succeeded"
                               [] OTHER -> "failed",
                  actual |-> IF called THEN old.actual ELSE 0]
           ops == [task.ops EXCEPT ![run.attempt] = op]
           t == [task EXCEPT !.ops = ops]
           failed == [run EXCEPT !.pc = "recover", !.failure = f]
           r == IF f = "none" THEN NextTool(run) ELSE failed
<1>1. /\ task \in TaskResult /\ Running /\ run \in Run /\ run.attempt \in Ids /\ Quiet
      /\ Tracked(run, task) /\ run.pc = "finish_attempt" /\ Open(task) /\ WithinLimits(run, task)
      /\ Goes(run, task.ops, ledger)
  BY DEF FinishAttempt, Inv, RunOK, TypeOK, AttemptPoints, Ended, AccountInv, Running, InStep,
         BoundInv, Paced, SoundInv
<1>2. OpenOp(old) /\ old \in Op /\ run.tool = 0 /\ run.tool <= Tools
  BY <1>1 DEF Tracked, Attempting, TaskResult, ToolsTracked, LoopPoints, WithinLimits
<1>3. Save(t, r) /\ (f = "none" => run.failure = "none")
  BY DEF FinishAttempt
<1>4. /\ op \in Op /\ op.kind = "generation" /\ op.status \in Final
      /\ called /\ f = "none" => op.status = "succeeded"
      /\ op.actual = IF called THEN old.actual ELSE 0
  BY <1>2 DEF Op, Kinds, OpStatuses, Final
<1> HIDE DEF op
<1>5. ops \in [Ids -> Op] /\ ops[run.attempt] = op
        /\ \A i \in Ids : i # run.attempt => ops[i] = task.ops[i]
  BY <1>1, <1>4 DEF TaskResult
<1> HIDE DEF ops
<1>6. t \in TaskResult /\ t.ops = ops /\ t.status = task.status
  BY <1>1, <1>5 DEF TaskResult
<1> HIDE DEF t
<1>7. ASSUME ~run.budgetUnavailable PROVE LastAttempt(ops, run.attempt) /\ Kept(ops, ledger, 0)
  <2>1. Course(run, task.ops, ledger) /\ Attempting(run) /\ run.pc \notin InOperation
    BY <1>1, <1>7 DEF Goes, OnCourse, Ended, Attempting, InOperation
  <2>2. old.kind = "generation" /\ old.status # "absent" /\ op.status # "absent"
    BY <1>2, <1>4 DEF OpenOp, Final
  <2>3. LastAttempt(ops, run.attempt)
    <3>1. LastAttempt(task.ops, run.attempt)
      BY <2>1 DEF Course, Progressed
    <3>2. QED
      BY <1>1, <1>4, <1>5, <2>2, <3>1, LastAttemptSame
  <2>4. \A i \in Ids : ops[i].status # "absent" => ledger[i].amount = Estimate[ops[i].kind]
    BY <1>4, <1>5, <2>1, <2>2 DEF Course, Booked
  <2>5. \A i \in Ids : i # run.attempt => ~Pending(run, i)
    BY <2>1 DEF Pending
  <2>6. Owed(ledger[run.attempt], op.actual)
    BY <1>4, <2>1 DEF Course, Booked, Owed, Unknown
  <2>7. \A i \in Ids : ops[i].status # "absent" =>
                           ops[i].status \in Final /\ Owed(ledger[i], ops[i].actual)
    BY <1>4, <1>5, <2>1, <2>5, <2>6 DEF Course, Booked
  <2>8. QED
    BY <2>3, <2>4, <2>7 DEF Kept
<1>8. CASE f = "none"
  <2>1. ASSUME ~run.budgetUnavailable
        PROVE  ops[run.attempt].status = "succeeded" /\ Verified(ops, run.attempt, 1, Evaluators, Domains, 0)
    <3>1. called /\ Verified(task.ops, run.attempt, 1, Evaluators, Domains, 0)
      BY <1>1, <1>3, <1>8, <2>1 DEF Goes, OnCourse, Ended, Course, Answered, Progressed, AttemptPassed
    <3>2. ops[run.attempt].kind = task.ops[run.attempt].kind /\ task.ops[run.attempt].kind = "generation"
      BY <1>2, <1>4, <1>5 DEF OpenOp
    <3>3. Verified(ops, run.attempt, 1, Evaluators, Domains, 0)
      BY <1>5, <3>1, <3>2, VerifiedSame
    <3>4. QED
      BY <1>4, <1>5, <1>8, <3>1, <3>3
  <2>2. Goes(NextTool(run), ops, ledger)
    BY <1>1, <1>2, <1>7, <2>1, NextToolGoes DEF Goes
  <2>3. QED
    BY <1>1, <1>3, <1>6, <1>8, <2>2, SaveKeepsSound DEF Sound, Open, Terminal
<1>9. CASE f # "none"
  <2>1. SameWay(run, failed) /\ failed.pc = "recover"
    BY <1>1 DEF Run, SameWay
  <2>2. Save(t, failed)
    BY <1>3, <1>9
  <2> HIDE DEF failed, r
  <2>3. Goes(failed, ops, ledger)
    BY <1>1, <1>7, <2>1, OutsideStands DEF SameWay, Goes
  <2>4. QED
    BY <1>1, <1>6, <2>2, <2>3, SaveKeepsSound DEF Sound, Open, Terminal
<1>10. QED
  BY <1>8, <1>9

\* Every step but the last one leaves what was reserved named and balanced.
LEMMA OwedIsHeld ==
    ASSUME Inv, HeldInv, Running, ~run.budgetUnavailable, run.pc # "intent", Kept(task.ops, ledger, 0)
    PROVE  task.reserved = Total(OwedBy(task.ops), Ids)
<1> DEFINE h == HeldOf(ledger)
           o == OwedBy(task.ops)
<1>1. ledger \in [Ids -> Reservation] /\ task \in TaskResult /\ IsFiniteSet(Ids)
  BY ExecutionAssumption, FS_Interval DEF Inv, TypeOK, Ids
<1>2. IsNatOn(h, Ids)
  BY <1>1 DEF HeldOf, Reservation, IsNatOn
<1>3. ASSUME NEW i \in Ids PROVE o[i] = h[i]
  <2>1. CASE task.ops[i].status = "absent"
    <3>1. ledger[i].state = "free"
      BY <2>1 DEF HeldInv, Counted, Recorded
    <3>2. QED
      BY <2>1, <3>1 DEF OwedBy, HeldOf
  <2>2. CASE task.ops[i].status # "absent"
    <3>1. i # 0
      BY ExecutionAssumption DEF Ids
    <3>2. ledger[i].amount = Estimate[task.ops[i].kind] /\ Owed(ledger[i], task.ops[i].actual)
      BY <2>2, <3>1 DEF Kept
    <3>3. QED
      BY <2>2, <3>2 DEF Owed, OwedBy, HeldOf
  <2>3. QED
    BY <2>1, <2>2
<1>4. Total(h, Ids) = task.reserved
  BY DEF HeldInv
<1> HIDE DEF h, o
<1>5. Total(o, Ids) = Total(h, Ids)
  BY <1>1, <1>2, <1>3, SumSame DEF Total
<1>6. QED
  BY <1>4, <1>5 DEF o

LEMMA CompleteKeepsSound ==
    ASSUME Inv, AccountInv, HeldInv, SoundInv, NEW f \in Failures, Complete(f) PROVE SoundInv'
<1>1. /\ Running /\ run \in Run /\ run.pc = "complete" /\ Quiet /\ task \in TaskResult
      /\ Goes(run, task.ops, ledger) /\ ledger \in [Ids -> Reservation]
  BY DEF Complete, Running, Ended, Inv, TypeOK, SoundInv
<1>2. CASE f # "none"
  BY <1>1, <1>2, HaltGoes, StatusForFails, QuietKeepsSound DEF Complete
<1>3. CASE f = "none"
  <2> DEFINE t == [task EXCEPT !.status = "SUCCEEDED"]
  <2>1. Save(t, EndedRun("returned")) /\ ~run.budgetUnavailable /\ ~run.costViolation /\ ~UnknownLiveCost
    BY <1>3 DEF Complete, CheckpointOutcomes
  <2>2. t \in TaskResult /\ t.ops = task.ops /\ t.reserved = task.reserved
    BY <1>1 DEF TaskResult, Statuses, Terminal
  <2> HIDE DEF t
  <2>3. Course(run, task.ops, ledger)
    BY <1>1, <2>1 DEF Goes, OnCourse, Ended
  <2>4. ~Attempting(run) /\ run.pc \notin InOperation
    BY <1>1 DEF Attempting, InOperation
  <2>5. Kept(task.ops, ledger, 0)
    BY <2>3, <2>4 DEF Course, Booked, Pending, Kept
  <2>6. \E a \in Ids : /\ LastAttempt(task.ops, a) /\ task.ops[a].status = "succeeded"
                       /\ Verified(task.ops, a, 1, Evaluators, Domains, Tools)
    BY <1>1, <2>3 DEF Course, Progressed
  <2>7. ASSUME NEW i \in Ids, task.ops[i].status # "absent"
        PROVE  task.ops[i].status \in Final /\ Excess(ledger[i]) = 0
    <3>1. i # 0
      BY ExecutionAssumption DEF Ids
    <3>2. ~(Overrun(i) > 0)
      BY <1>1, <2>1 DEF AccountInv, OverrunRemembered
    <3>3. Excess(ledger[i]) = 0
      BY <1>1, <3>2 DEF Overrun, Excess, Reservation
    <3>4. QED
      BY <2>5, <2>7, <3>1, <3>3 DEF Kept
  <2>8. task.reserved = Total(OwedBy(task.ops), Ids)
    BY <1>1, <2>1, <2>5, OwedIsHeld
  <2>9. Live => \A i \in Ids :
          task.ops[i].status # "absent" /\ task.ops[i].kind \in {"classification", "generation"}
            => task.ops[i].actual # Unknown
    BY <2>1, <2>7 DEF UnknownLiveCost, Final
  <2>10. Sound(t, ledger)
    BY <2>2, <2>6, <2>7, <2>8, <2>9 DEF Sound, Succeeds
  <2>11. Goes(EndedRun("returned"), t.ops, ledger)
    BY EndedGoes DEF Ended
  <2>12. QED
    BY <1>1, <2>1, <2>2, <2>10, <2>11, SaveKeepsSound
<1>4. QED
  BY <1>2, <1>3

LEMMA StopKeepsSound == ASSUME Inv, AccountInv, SoundInv, Stop PROVE SoundInv'
<1>1. Quiet /\ run.verdict \in Statuses \ {"SUCCEEDED"}
  BY DEF Stop, Inv, TypeOK, Run, Statuses, Terminal, SoundInv, Goes
<1>2. QED
  BY <1>1, StatusSaveKeepsSound, EndedGoes DEF Stop, Ended

LEMMA CrashKeepsSound == ASSUME SoundInv, Crash PROVE SoundInv'
<1>1. UNCHANGED <<row, journal, ledger>> /\ run' = EndedRun("crashed")
  BY DEF Crash, Quiet
<1>2. QED
  BY <1>1, EndedGoes DEF SoundInv, Ended

LEMMA NewTaskGoes ==
    ASSUME NEW r, r.pc \in {"idle", "preflight"}, r.verdict # "SUCCEEDED", r.evaluator = 0, NEW l
    PROVE  Goes(r, NewTask.ops, l) /\ Goes(r, NoTask.ops, l)
<1>1. NewTask.ops = NoTask.ops /\ \A i \in Ids : NoTask.ops[i].status = "absent"
  BY DEF NewTask, NoTask, NoOp
<1>2. Steered(r)
  BY DEF Steered, InOperation
<1>3. Progressed(r, NoTask.ops) /\ Answered(r, NoTask.ops)
  BY DEF Progressed, Answered, InOperation, Attempting, UsingTools, Unverified, Evaluating,
         DomainDue, AttemptPassed, ChecksWithinAttempt
<1>4. Booked(r, NoTask.ops, l)
  BY <1>1 DEF Booked, Attempting, InOperation, ChecksWithinAttempt
<1>5. QED
  BY <1>1, <1>2, <1>3, <1>4 DEF Goes, Course

LEMMA CreateKeepsSound ==
    ASSUME SoundInv, NEW c \in Callers, Create(c) PROVE SoundInv'
<1>1. CASE row.status = "absent"
  <2>1. /\ row' = NewTask /\ task' = NewTask /\ UNCHANGED <<journal, ledger>>
        /\ run' = [NoRun EXCEPT !.pc = "preflight"]
    BY <1>1 DEF Create
  <2>2. /\ run'.pc = "preflight" /\ run'.verdict # "SUCCEEDED" /\ run'.evaluator = 0
        /\ NewTask.status # "SUCCEEDED"
    BY <2>1 DEF NoRun, NewTask, NoTask
  <2> DEFINE r == [NoRun EXCEPT !.pc = "preflight"]
  <2>3. r.pc \in {"idle", "preflight"} /\ r.verdict # "SUCCEEDED" /\ r.evaluator = 0
          /\ run' = r
    BY <2>1 DEF NoRun
  <2> HIDE DEF r
  <2>4. Goes(r, NewTask.ops, ledger)
    BY <2>3, NewTaskGoes
  <2>5. Goes(run, task.ops, ledger)'
    BY <2>1, <2>3, <2>4
  <2>6. Sound(row, ledger)' /\ Sound(journal, ledger)'
    BY <2>1, <2>2 DEF SoundInv, Sound
  <2>7. QED
    BY <2>5, <2>6 DEF SoundInv
<1>2. CASE row.status # "absent"
  <2>1. UNCHANGED <<run, task, row, journal, ledger>>
    BY <1>2 DEF Create
  <2>2. QED
    BY <2>1 DEF SoundInv
<1>3. QED
  BY <1>1, <1>2

LEMMA CreateUnavailableKeepsSound ==
    ASSUME SoundInv, NEW c \in Callers, CreateUnavailable(c) PROVE SoundInv'
<1>1. UNCHANGED <<run, task, journal, ledger>> /\ (row' = row \/ row' = NewTask)
  BY DEF CreateUnavailable
<1>2. NewTask.status # "SUCCEEDED"
  BY DEF NewTask, NoTask
<1>3. QED
  BY <1>1, <1>2 DEF SoundInv, Sound

LEMMA ReconcileKeepsSound == ASSUME SoundInv, Reconcile PROVE SoundInv'
<1>1. UNCHANGED <<run, task, ledger>> /\ row' = journal /\ journal' = NoTask
  BY DEF Reconcile
<1>2. NoTask.status # "SUCCEEDED"
  BY DEF NoTask
<1>3. QED
  BY <1>1, <1>2 DEF SoundInv, Sound

LEMMA InitSound == Init => SoundInv
<1>1. NoTask.status # "SUCCEEDED" /\ NoRun.pc = "idle" /\ NoRun.verdict # "SUCCEEDED" /\ NoRun.evaluator = 0
  BY DEF NoTask, NoRun
<1>2. QED
  BY <1>1, NewTaskGoes DEF Init, SoundInv, Sound

LEMMA StepKeepsSound ==
    ASSUME Inv, AccountInv, BoundInv, HeldInv, SoundInv, Step PROVE SoundInv'
  BY PreflightKeepsSound, ClassifyKeepsSound, EnvironmentKeepsSound, LoopKeepsSound,
     RouteKeepsSound, RerouteKeepsSound, ReserveKeepsSound, ReserveUnavailableKeepsSound,
     RefuseKeepsSound, WithdrawKeepsSound, FinishAttemptKeepsSound, CompleteKeepsSound,
     IntentKeepsSound, LiveRefusalKeepsSound, DispatchKeepsSound, EvidenceKeepsSound,
     SettleKeepsSound, SettleUnavailableKeepsSound, FinishOperationKeepsSound,
     ValidatingKeepsSound, RetryEvaluationKeepsSound, GiveUpKeepsSound, RecoverKeepsSound,
     RecoverToolKeepsSound, ReplayToolKeepsSound, StopKeepsSound DEF Step

LEMMA NextSound ==
    Inv /\ AccountInv /\ BoundInv /\ HeldInv /\ SoundInv /\ [Next]_vars => SoundInv'
<1> SUFFICES ASSUME Inv, AccountInv, BoundInv, HeldInv, SoundInv, [Next]_vars PROVE SoundInv'
  OBVIOUS
<1>1. CASE UNCHANGED vars
  BY <1>1 DEF vars, SoundInv
<1>2. QED
  BY <1>1, StepKeepsSound, CreateKeepsSound, CreateUnavailableKeepsSound, CrashKeepsSound,
     ReconcileKeepsSound DEF Next
-----------------------------------------------------------------------------
(* What the task calls reserved is what the authority holds.               *)

LEMMA HeldTypes ==
    ASSUME NEW l \in [Ids -> Reservation]
    PROVE  IsFiniteSet(Ids) /\ IsNatOn(HeldOf(l), Ids) /\ Total(HeldOf(l), Ids) \in Nat
<1>1. IsFiniteSet(Ids)
  BY ExecutionAssumption, FS_Interval DEF Ids
<1>2. IsNatOn(HeldOf(l), Ids)
  BY DEF HeldOf, Reservation, IsNatOn
<1>3. QED
  BY <1>1, <1>2, SumType DEF Total

LEMMA SameHeld ==
    ASSUME HeldInv, UNCHANGED ledger, Running \/ ~Running',
           Running' => /\ run'.budgetUnavailable = run.budgetUnavailable
                       /\ task'.reserved = task.reserved
                       /\ Counted \subseteq Counted'
    PROVE  HeldInv'
  BY DEF HeldInv

LEMMA IntentIsNext == ASSUME Step, run.pc = "intent" PROVE Intent
  BY DEF Step, Preflight, Classify, EnvironmentChanged, Loop, Route, Reroute, Reserve,
         ReserveUnavailable, Refuse, Withdraw, FinishAttempt, Complete, LiveRefusal, Dispatch,
         Evidence, Settle, SettleUnavailable, FinishOperation, Validating, RetryEvaluation,
         GiveUp, Recover, RecoverTool, ReplayTool, Stop, CanReserve

LEMMA QuietKeepsHeld == ASSUME HeldInv, QuietStep, run.pc # "intent" PROVE HeldInv'
<1>1. /\ UNCHANGED <<task, ledger>> /\ Running /\ run'.pc # "intent"
      /\ run'.budgetUnavailable = run.budgetUnavailable
  BY DEF QuietStep, Keeps
<1>2. Counted' = Counted
  BY <1>1 DEF Counted, Recorded
<1>3. QED
  BY <1>1, <1>2, SameHeld

LEMMA SaveKeepsHeld ==
    ASSUME Inv, AccountInv, HeldInv, NEW t, NEW r, SavesAs(t, r) PROVE HeldInv'
<1> DEFINE n == [t EXCEPT !.revision = @ + 1]
<1>1. n.ops = t.ops /\ n.reserved = task.reserved
  BY DEF SavesAs, TaskResult
<1>2. (task' = n /\ run' = r) \/ run' = EndedRun("raised")
  BY RevisionAccepted DEF SavesAs, Save
<1> HIDE DEF n
<1>3. Running /\ UNCHANGED ledger
  BY DEF SavesAs
<1>4. Recorded(n) = Counted
  <2>1. \A i \in Ids : t.ops[i].status # "absent" <=>
                          task.ops[i].status # "absent" \/ (run.pc = "intent" /\ i = run.id)
    BY DEF SavesAs
  <2>2. run.pc = "intent" => run.id \in Ids
    BY DEF Inv, RunOK, InOperation
  <2>3. QED
    BY <1>1, <2>1, <2>2 DEF Recorded, Counted
<1>5. CASE ~Running'
  BY <1>3, <1>5, SameHeld
<1>6. CASE Running'
  <2>1. run' = r /\ task' = n
    BY <1>2, <1>6, EndedOK DEF Running, Ended
  <2>2. r.pc # "intent" /\ r.budgetUnavailable = run.budgetUnavailable
    BY <1>6, <2>1 DEF SavesAs, Keeps, Running
  <2>3. Counted' = Counted
    BY <1>4, <2>1, <2>2 DEF Counted, Recorded
  <2>4. QED
    BY <1>1, <1>3, <2>1, <2>2, <2>3, SameHeld
<1>7. QED
  BY <1>5, <1>6

LEMMA ReserveKeepsHeld ==
    ASSUME Inv, AccountInv, HeldInv, NEW id \in Ids, Reserve(id) PROVE HeldInv'
<1> DEFINE h == HeldOf(ledger)
           k == HeldOf(ledger')
           est == Estimate[run.kind]
<1>1. /\ Fresh(id) /\ ledger' = Held(id) /\ run.pc = "admit" /\ ~run.budgetUnavailable /\ Running
      /\ run \in Run /\ task \in TaskResult /\ ledger \in [Ids -> Reservation] /\ est \in Nat
  BY ExecutionAssumption
     DEF Reserve, CanReserve, CheckpointOutcomes, Running, Ended, Inv, TypeOK, Run
<1>2. run'.pc = "intent" /\ run'.id = id
  BY <1>1 DEF Reserve, Run
<1>3. task'.reserved = task.reserved + est /\ task'.ops = task.ops
  BY <1>1 DEF Reserve, TaskResult
<1>4. /\ ledger'[id] = [state |-> "held", amount |-> est, actual |-> 0]
      /\ \A i \in Ids : i # id => ledger'[i] = ledger[i]
      /\ ledger' \in [Ids -> Reservation]
      /\ ledger[id].state = "free"
  BY <1>1 DEF Held, Reservation, Fresh
<1>5. h[id] = 0 /\ k[id] = est /\ \A i \in Ids : i # id => k[i] = h[i]
  BY <1>4 DEF HeldOf
<1>6. IsFiniteSet(Ids) /\ IsNatOn(h, Ids) /\ IsNatOn(k, Ids)
        /\ Total(h, Ids) \in Nat /\ Total(k, Ids) \in Nat
  BY <1>1, <1>4, HeldTypes
<1>7. Total(h, Ids) = task.reserved /\ \A i \in Ids : ledger[i].state # "free" => i \in Recorded(task)
  BY <1>1 DEF HeldInv, Counted
<1> HIDE DEF h, k, est
<1>8. Total(k, Ids) + 0 = Total(h, Ids) + est
  BY <1>5, <1>6, SumUpdate DEF Total
<1>9. Total(k, Ids) = task'.reserved
  BY <1>3, <1>6, <1>7, <1>8
<1>10. Counted' = Recorded(task) \cup {id}
  BY <1>2, <1>3 DEF Counted, Recorded
<1>11. \A i \in Ids : ledger'[i].state # "free" => i \in Counted'
  BY <1>4, <1>7, <1>10
<1>12. QED
  BY <1>9, <1>11 DEF HeldInv, k

LEMMA ReserveUnavailableKeepsHeld ==
    ASSUME Inv, AccountInv, NEW id \in Ids, ReserveUnavailable(id) PROVE HeldInv'
<1> DEFINE r == [run EXCEPT !.budgetUnavailable = TRUE]
<1>1. run.pc = "admit" /\ Running /\ RunOK(run) /\ Tracked(run, task)
  BY DEF ReserveUnavailable, Running, Ended, Inv, AccountInv
<1>2. /\ RunOK(r) /\ r.pc = "admit" /\ r.kind = run.kind /\ r.tool = run.tool
      /\ r.attempt = run.attempt /\ r.budgetUnavailable
  BY <1>1 DEF RunOK, Run
<1>3. run' = Refused(r, "terminal") /\ "terminal" \in Failures
  BY DEF ReserveUnavailable, Failures
<1> HIDE DEF r
<1>4. ToolsTracked(r) /\ (r.kind \in ChecksWithinAttempt => OpenOp(task.ops[r.attempt]))
  BY <1>1, <1>2 DEF Tracked, ToolsTracked, Attempting
<1>5. run'.budgetUnavailable
  BY <1>1, <1>2, <1>3, <1>4, RefusedTracked DEF SameFlags
<1>6. QED
  BY <1>5 DEF HeldInv

LEMMA ChargeReserved ==
    ASSUME Inv, AccountInv, run.pc = "settle", run'.pc # "intent",
           NEW settled \in BOOLEAN, task' = Charge(settled)
    PROVE  /\ task'.reserved = (IF settled THEN task.reserved - Estimate[run.kind] ELSE task.reserved)
           /\ Counted' = Counted
<1> DEFINE op == IF run.kind \in {"validation", "domain"}
                 THEN [kind |-> run.kind, step |-> run.tool,
                       status |-> FinalStatus(run), actual |-> run.actual]
                 ELSE task.ops[run.id]
           t == Charge(settled)
<1>1. /\ Tracked(run, task) /\ run.id \in Ids /\ run \in Run
      /\ task \in TaskResult /\ run.actual \in Nat \cup {Unknown}
      /\ Estimate[run.kind] \in Nat
  BY ExecutionAssumption
     DEF Inv, TypeOK, RunOK, Run, InOperation, AccountInv, Running, Ended
<1>2. /\ t = Charge(settled) /\ task' = t
      /\ op = IF run.kind \in {"validation", "domain"}
              THEN [kind |-> run.kind, step |-> run.tool,
                    status |-> FinalStatus(run), actual |-> run.actual]
              ELSE task.ops[run.id]
  OBVIOUS
<1> HIDE DEF t, op
<1>3. /\ op \in Op /\ task'.ops = [task.ops EXCEPT ![run.id] = op]
      /\ task'.known = (IF run.actual = Unknown THEN task.known ELSE task.known + run.actual)
      /\ task'.reserved = (IF settled THEN task.reserved - Estimate[run.kind] ELSE task.reserved)
  BY <1>1, <1>2, ChargeFields
<1>4. task.ops[run.id].status # "absent" /\ op.status # "absent"
  BY <1>1 DEF Tracked, OpTracked, FinalStatus, op
<1>5. \A i \in Ids : task'.ops[i].status # "absent" <=> task.ops[i].status # "absent"
  BY <1>1, <1>3, <1>4 DEF TaskResult
<1>6. QED
  BY <1>1, <1>3, <1>5 DEF Counted, Recorded

LEMMA SettleKeepsHeld == ASSUME Inv, AccountInv, HeldInv, Settle PROVE HeldInv'
<1> DEFINE violation == run.costViolation \/ Overran
           h == HeldOf(ledger)
           k == HeldOf(ledger')
           est == Estimate[run.kind]
<1>1. /\ Running /\ run.id \in Ids /\ run \in Run /\ task \in TaskResult /\ run.pc = "settle"
      /\ est \in Nat /\ ledger \in [Ids -> Reservation]
      /\ ledger[run.id].state = "held" /\ ledger[run.id].amount = est
      /\ run.actual \in Nat \cup {Unknown}
  BY ExecutionAssumption
     DEF Settle, Inv, TypeOK, RunOK, Run, InOperation, AccountInv, LedgerOK, Running, Ended
<1>2. run'.pc # "intent" /\ run'.budgetUnavailable = run.budgetUnavailable
  <2>1. violation \in BOOLEAN /\ run.budgetUnavailable \in BOOLEAN
    BY <1>1 DEF Run
  <2>2. [run EXCEPT !.costViolation = violation]
          = [run EXCEPT !.costViolation = violation,
                        !.budgetUnavailable = run.budgetUnavailable]
    BY <1>1 DEF Run
  <2>3. run' = AfterSettle([run EXCEPT !.costViolation = violation,
                                       !.budgetUnavailable = run.budgetUnavailable])
    BY <2>2 DEF Settle
  <2> HIDE DEF violation
  <2>4. QED
    BY <1>1, <2>1, <2>3, AfterSettleFlags
<1> HIDE DEF violation
<1>3. /\ task'.reserved = (IF run.actual # Unknown THEN task.reserved - est ELSE task.reserved)
      /\ Counted' = Counted
  <2>1. task' = Charge(run.actual # Unknown) /\ (run.actual # Unknown) \in BOOLEAN
    BY DEF Settle
  <2>2. QED
    BY <1>1, <1>2, <2>1, ChargeReserved
<1>4. CASE run.actual = Unknown
  BY <1>1, <1>2, <1>3, <1>4, SameHeld DEF Settle
<1>5. CASE run.actual # Unknown /\ ~run.budgetUnavailable
  <2>1. /\ ledger'[run.id].state = "settled" /\ \A i \in Ids : i # run.id => ledger'[i] = ledger[i]
        /\ ledger' \in [Ids -> Reservation]
    BY <1>1, <1>5 DEF Settle, Settled, Reservation
  <2>2. h[run.id] = est /\ k[run.id] = 0 /\ \A i \in Ids : i # run.id => k[i] = h[i]
    BY <1>1, <2>1 DEF HeldOf
  <2>3. IsFiniteSet(Ids) /\ IsNatOn(h, Ids) /\ IsNatOn(k, Ids)
          /\ Total(h, Ids) \in Nat /\ Total(k, Ids) \in Nat
    BY <1>1, <2>1, HeldTypes
  <2>4. Total(h, Ids) = task.reserved /\ \A i \in Ids : ledger[i].state # "free" => i \in Counted
    BY <1>1, <1>5 DEF HeldInv
  <2>5. \A i \in Ids : ledger'[i].state # "free" => i \in Counted'
    BY <1>1, <1>3, <2>1, <2>4
  <2> HIDE DEF h, k, est
  <2>6. Total(k, Ids) + est = Total(h, Ids) + 0
    BY <1>1, <2>2, <2>3, SumUpdate DEF Total
  <2>7. Total(k, Ids) = task'.reserved
    BY <1>1, <1>3, <1>5, <2>3, <2>4, <2>6
  <2>8. QED
    BY <2>5, <2>7 DEF HeldInv, k
<1>6. CASE run.budgetUnavailable
  BY <1>2, <1>6 DEF HeldInv
<1>7. QED
  BY <1>4, <1>5, <1>6

LEMMA SettleUnavailableKeepsHeld == ASSUME Inv, AccountInv, SettleUnavailable PROVE HeldInv'
<1> DEFINE violation == run.costViolation \/ Overran
<1>1. violation \in BOOLEAN /\ TRUE \in BOOLEAN /\ run.pc = "settle"
  BY DEF Inv, TypeOK, Run, SettleUnavailable
<1>2. run' = AfterSettle([run EXCEPT !.costViolation = violation, !.budgetUnavailable = TRUE])
  BY DEF SettleUnavailable
<1> HIDE DEF violation
<1>3. run'.budgetUnavailable
  BY <1>1, <1>2, AfterSettleFlags
<1>4. QED
  BY <1>3 DEF HeldInv

LEMMA DispatchKeepsHeld ==
    ASSUME Inv, HeldInv, NEW f \in Failures, NEW actual \in Costs \cup {Unknown},
           Dispatch(f, actual)
    PROVE  HeldInv'
<1>1. RunOK(run) /\ Running /\ run.pc = "recheck" /\ UNCHANGED <<task, ledger>>
  BY DEF Inv, Dispatch, Running, Ended
<1>2. run'.pc # "intent" /\ run'.budgetUnavailable = run.budgetUnavailable
  BY <1>1 DEF Dispatch, RunOK, Run
<1>3. Counted' = Counted
  BY <1>1, <1>2 DEF Counted, Recorded
<1>4. QED
  BY <1>1, <1>2, <1>3, SameHeld

LEMMA ReplayToolKeepsHeld == ASSUME Inv, HeldInv, ReplayTool PROVE HeldInv'
<1> DEFINE n == task.recoveries + 1
           r == [run EXCEPT !.replay = TRUE]
<1>1. RunOK(run) /\ Running /\ run.pc = "replay_tool" /\ task \in TaskResult /\ UNCHANGED ledger
  BY DEF Inv, TypeOK, ReplayTool, Quiet, Running, Ended
<1>2. task' = [task EXCEPT !.recoveries = n, !.status = "VALIDATING"]
        /\ run' = AdmitAt(r, run.kind)
  BY DEF ReplayTool
<1> HIDE DEF n
<1>3. task'.ops = task.ops /\ task'.reserved = task.reserved
  BY <1>1, <1>2 DEF TaskResult
<1>4. run'.pc = "admit" /\ run'.budgetUnavailable = run.budgetUnavailable
  BY <1>1, <1>2 DEF AdmitAt, RunOK, Run
<1>5. Counted' = Counted
  BY <1>1, <1>3, <1>4 DEF Counted, Recorded
<1>6. QED
  BY <1>1, <1>3, <1>4, <1>5, SameHeld

LEMMA CreateKeepsHeld ==
    ASSUME Inv, AccountInv, HeldInv, NEW c \in Callers, Create(c) PROVE HeldInv'
<1>1. CASE row.status = "absent"
  <2>1. task' = NewTask /\ UNCHANGED ledger /\ \A i \in Ids : ledger[i].state = "free"
    BY <1>1 DEF Create, AccountInv, Unclaimed
  <2>2. \A i \in Ids : HeldOf(ledger)[i] = 0
    BY <2>1 DEF HeldOf
  <2>3. Total(HeldOf(ledger), Ids) = 0
    BY <2>2, HeldTypes, SumZero DEF Total, Inv, TypeOK
  <2>4. NewTask.reserved = 0
    BY DEF NewTask, NoTask
  <2>5. QED
    BY <2>1, <2>3, <2>4 DEF HeldInv
<1>2. CASE row.status # "absent"
  <2>1. UNCHANGED <<run, task, ledger>>
    BY <1>2 DEF Create
  <2>2. QED
    BY <2>1 DEF HeldInv, Counted, Recorded, Running
<1>3. QED
  BY <1>1, <1>2

LEMMA OutsideKeepsHeld ==
    ASSUME AccountInv, HeldInv,
           \/ Crash \/ Reconcile \/ (\E c \in Callers : CreateUnavailable(c)) \/ UNCHANGED vars
    PROVE  HeldInv'
<1>1. CASE Crash
  BY <1>1, EndedOK DEF Crash, Ended, Running, HeldInv
<1>2. CASE UNCHANGED <<run, task, ledger>>
  BY <1>2 DEF HeldInv, Counted, Recorded, Running
<1>3. QED
  BY <1>1, <1>2 DEF Reconcile, CreateUnavailable, vars

LEMMA NextHeld == Inv /\ AccountInv /\ HeldInv /\ [Next]_vars => HeldInv'
<1> SUFFICES ASSUME Inv, AccountInv, HeldInv, [Next]_vars PROVE HeldInv'
  OBVIOUS
<1>1. CASE Step /\ run.pc = "intent"
  BY <1>1, IntentIsNext, IntentShape, SaveKeepsHeld
<1>2. CASE Step /\ run.pc # "intent"
  BY <1>2, StepShapes, QuietKeepsHeld, SaveKeepsHeld, ReserveKeepsHeld,
     ReserveUnavailableKeepsHeld, DispatchKeepsHeld, SettleKeepsHeld,
     SettleUnavailableKeepsHeld, ReplayToolKeepsHeld
<1>3. QED
  BY <1>1, <1>2, CreateKeepsHeld, OutsideKeepsHeld DEF Next

LEMMA InitHeld == Init => HeldInv
  BY DEF Init, NoRun, Running, HeldInv


-----------------------------------------------------------------------------
(* What SoundInv says of a stored success is what SuccessIsSound says.     *)

LEMMA OwedStated ==
    ASSUME NEW t \in TaskResult
    PROVE  SumOver({i \in Recorded(t) : t.ops[i].actual = Unknown},
                   LAMBDA i : Estimate[t.ops[i].kind])
             = Total(OwedBy(t.ops), Ids)
<1> DEFINE T == {i \in Recorded(t) : t.ops[i].actual = Unknown}
           o == OwedBy(t.ops)
           g == [i \in T |-> Estimate[t.ops[i].kind]]
<1>1. IsFiniteSet(Ids) /\ T \subseteq Ids
  BY ExecutionAssumption, FS_Interval DEF Ids, Recorded
<1>2. IsNatOn(o, Ids)
  BY ExecutionAssumption DEF OwedBy, IsNatOn, TaskResult, Op
<1>3. (\A i \in T : g[i] = o[i]) /\ \A i \in Ids \ T : o[i] = 0
  BY DEF OwedBy, Recorded
<1>4. DOMAIN g = T
  OBVIOUS
<1> HIDE DEF T
<1>5. SumFunctionOnSet(g, T) = Total(o, Ids)
  <2> HIDE DEF g, o
  <2>1. QED
    BY <1>1, <1>2, <1>3, SumSupport DEF Total
<1>6. QED
  BY <1>4, <1>5 DEF SumOver, SumFunction, T

LEMMA SoundIsStated == ASSUME Inv, SoundInv PROVE SuccessIsSound
<1> SUFFICES ASSUME row.status = "SUCCEEDED" PROVE SuccessIsSound
  BY DEF SuccessIsSound
<1> DEFINE ids == Recorded(row)
           generations == {i \in ids : row.ops[i].kind = "generation"}
           last == CHOOSE i \in generations : \A j \in generations : j <= i
           found(kinds) == {i \in ids : /\ i >= last
                                        /\ row.ops[i].kind \in kinds
                                        /\ row.ops[i].status = "succeeded"}
<1>1. row \in TaskResult /\ Succeeds(row.ops, row.reserved, ledger)
  BY DEF Inv, TypeOK, SoundInv, Sound
<1>2. PICK a \in Ids : /\ LastAttempt(row.ops, a) /\ row.ops[a].status = "succeeded"
                       /\ Verified(row.ops, a, 1, Evaluators, Domains, Tools)
  BY <1>1 DEF Succeeds
<1>3. last = a
  <2>1. a \in generations /\ (\A j \in generations : j <= a) /\ generations \subseteq Nat
    BY <1>2, ExecutionAssumption DEF LastAttempt, Recorded, Ids
  <2> HIDE DEF generations
  <2>2. last \in generations /\ \A j \in generations : j <= last
    BY <2>1
  <2> HIDE DEF last
  <2>3. last <= a /\ a <= last /\ last \in Nat /\ a \in Nat
    BY <2>1, <2>2
  <2>4. QED
    BY <2>3
<1> HIDE DEF last
<1>4. ASSUME NEW kinds PROVE found(kinds) = Passed(row.ops, a, kinds)
  BY <1>3 DEF Passed, Recorded
<1>5. found({"generation"}) = {a}
  <2>1. ASSUME NEW i \in found({"generation"}) PROVE i = a
    <3>1. i \in Ids /\ i >= a /\ i <= a
      BY <1>2, <1>3 DEF LastAttempt, Recorded
    <3>2. i \in Nat /\ a \in Nat
      BY <3>1, ExecutionAssumption DEF Ids
    <3>3. QED
      BY <3>1, <3>2
  <2>2. a \in found({"generation"})
    <3>1. a \in Nat
      BY ExecutionAssumption DEF Ids
    <3>2. QED
      BY <1>2, <1>3, <3>1 DEF LastAttempt, Recorded
  <2>3. QED
    BY <2>1, <2>2
<1>6. Cardinality(found({"generation"})) = 1
  BY <1>5, FS_Singleton
<1>7. /\ Cardinality(found({"validation"})) = 1
      /\ Cardinality(found({"evaluation"})) = Evaluators
      /\ Cardinality(found({"domain"})) = IF Domain THEN 1 ELSE 0
      /\ Cardinality(found(ToolKinds)) = Tools
  BY <1>2, <1>4 DEF Verified, Domains
<1>8. \A i \in ids : /\ row.ops[i].status \in {"succeeded", "failed", "cancelled"}
                     /\ Overrun(i) = 0
  BY <1>1 DEF Succeeds, Recorded, Final, Overrun, Excess
<1>9. row.reserved = SumOver({i \in ids : row.ops[i].actual = Unknown},
                             LAMBDA i : Estimate[row.ops[i].kind])
  BY <1>1, OwedStated DEF Succeeds
<1>10. Live => \A i \in ids : row.ops[i].kind \in {"classification", "generation"}
                                => row.ops[i].actual # Unknown
  BY <1>1 DEF Succeeds, Recorded
<1>11. QED
  BY <1>6, <1>7, <1>8, <1>9, <1>10 DEF SuccessIsSound, last

\* complete() is reached only through every check of the last attempt: a stored
\* SUCCEEDED row records, from its last generation on, one generation, one
\* validation, each evaluation, the domain validation and each tool as succeeded;
\* every operation has ended and none cost more than was reserved for it; and the
\* row's reserved amount is the estimates of exactly the operations whose cost is
\* unknown, of which a live run leaves no classification and no generation.
THEOREM SuccessesAreSound == Spec => []SuccessIsSound
<1>1. Inv /\ SoundInv => SuccessIsSound
  BY SoundIsStated
<1>2. QED
  BY <1>1, InitInv, NextInv, InitAccount, NextAccount, InitBound, NextBound, InitHeld, NextHeld,
     InitSound, NextSound, PTL DEF Spec
=============================================================================
