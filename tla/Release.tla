------------------------------- MODULE Release -------------------------------
(***************************************************************************)
(* A release is activated into a receipt, served under it, and tried by    *)
(* paid canaries.  Meanwhile the operator edits the manifest and what it   *)
(* references, time passes, the environment changes, and any process dies  *)
(* at any point: in the middle of writing a receipt, or between a paid     *)
(* call, its settlement and the report of it.                              *)
(*                                                                         *)
(* The money of a call is reserved in a durable allocation (BudgetLedger); *)
(* here the allocation keeps its ceilings and what it debits and, for the  *)
(* properties, what was really paid and by how much calls overran their    *)
(* reservations.  The paid calls of a task and the checks right before     *)
(* them are one step, their settlement is another.                         *)
(***************************************************************************)
EXTENDS ReleaseGate

CONSTANTS
    Manifests,      \* release_sha256 -> the release it is of
    Disks,          \* what the release directory may hold: the manifest of sha, and
                    \* whether the files it references are what it says
    Worlds,         \* name -> an environment of the processes
    Receipts,       \* paths of activation receipts
    Reports,        \* paths of canary reports
    Caps,           \* aggregate cost caps an operator gives
    Application,    \* the canary application
    MaxCost,        \* bound: what the calls of one task may really cost
    Horizon,        \* bound: the last moment
    MaxChanges      \* bound: edits, changes of the environment, altered receipts

Hashes == DOMAIN Manifests
Limits(sha) == Manifests[sha].limits
Allocations == {Limits(sha).allocation : sha \in Hashes}

Processes == {"serve", "canary"}

ASSUME ReleaseAssumption ==
    /\ \A sha \in Hashes : /\ ReleaseValid(Manifests[sha])
                           /\ {Limits(sha).app, Limits(sha).task} \subseteq Nat
                           /\ DOMAIN Manifests[sha].models \cap OwnComponents = {}
    /\ Disks \subseteq [sha : Hashes, intact : BOOLEAN]
    /\ {Horizon, MaxChanges, MaxCost} \subseteq Nat /\ Caps \subseteq Nat \ {0}
    /\ None \notin [app : Nat, task : Nat]

VARIABLES
    now, world, disk, changes,
    receipts,       \* path -> the activation receipt in the file
    written,        \* the receipts activate has written, whole
    procs,          \* process -> the receipt it was built with, and so its release
    rows,           \* allocation -> its ceilings once it exists
    debit, paid,    \* allocation -> what it debits, and what was really paid
    over,           \* allocation -> what its calls cost above their reservations
    reports,        \* path -> the last snapshot in the canary report
    run             \* the canary run: its report, its next case and its call

vars == <<now, world, disk, changes, receipts, written, procs, rows, debit, paid,
          over, reports, run>>

files == <<receipts, written, reports>>
money == <<rows, debit, paid, over>>
environment == <<now, world, disk, changes>>

Torn == [torn |-> TRUE]

Init ==
    /\ now = 0 /\ world \in DOMAIN Worlds /\ disk \in Disks /\ changes = 0
    /\ receipts = [p \in Receipts |-> None] /\ written = {}
    /\ procs = [p \in Processes |-> None]
    /\ rows = [a \in Allocations |-> None]
    /\ debit = [a \in Allocations |-> 0] /\ paid = [a \in Allocations |-> 0]
    /\ over = [a \in Allocations |-> 0]
    /\ reports = [p \in Reports |-> None] /\ run = None

-----------------------------------------------------------------------------
\* Past the horizon every piece of evidence stays as old as it is at the horizon.
Tick ==
    /\ now' = IF now < Horizon THEN now + 1 ELSE now
    /\ UNCHANGED <<world, disk, changes, files, procs, money, run>>

Change ==
    /\ changes < MaxChanges /\ changes' = changes + 1
    /\ \/ \E w \in DOMAIN Worlds \ {world} : world' = w /\ UNCHANGED <<disk, receipts>>
       \/ \E d \in Disks \ {disk} : disk' = d /\ UNCHANGED <<world, receipts>>
       \/ \E p \in Receipts, t \in 0..now :
            /\ receipts[p] \notin {None, Torn} /\ receipts[p].at # t
            /\ receipts' = [receipts EXCEPT ![p].at = t]
            /\ UNCHANGED <<world, disk>>
    /\ UNCHANGED <<now, written, procs, money, reports, run>>

-----------------------------------------------------------------------------
Passes(sha) == Ready(Manifests[sha], Worlds[world], now)

\* The hash of what a receipt says of the activation.
Identity(rc) == [sha |-> rc.sha, at |-> rc.at, ops |-> rc.ops, checks |-> rc.checks]

Receipt(sha) ==
    LET rc == [sha |-> sha, at |-> now, ops |-> Manifests[sha].ops,
               checks |-> Checks(Manifests[sha]), id |-> None]
    IN [rc EXCEPT !.id = Identity(rc)]

\* A file that exists is never written again, even one that a failed write left torn.
Activate(path) ==
    LET sha == Load(disk) IN
    /\ sha # None /\ receipts[path] = None /\ Passes(sha)
    /\ \/ /\ receipts' = [receipts EXCEPT ![path] = Receipt(sha)]
          /\ written' = written \cup {Receipt(sha)}
       \/ /\ receipts' = [receipts EXCEPT ![path] = Torn] /\ UNCHANGED written
    /\ UNCHANGED <<environment, procs, money, reports, run>>

\* The receipt repeats the hash, the name and the whole manifest of the release.
MatchesRelease(rc, sha) == rc.sha = sha

Unaltered(rc, sha) ==
    /\ rc.id = Identity(rc) /\ rc.at <= now
    /\ rc.ops = Manifests[sha].ops /\ rc.checks = Checks(Manifests[sha])

Ceilings(sha) == [app |-> Limits(sha).app, task |-> Limits(sha).task]

AllocationAgreesAlways(sha) == TRUE

\* An allocation keeps the ceilings it was created with.
AllocationAgrees(sha) == rows[Limits(sha).allocation] \in {None, Ceilings(sha)}

\* Building the application creates its allocation, whatever comes of the process.
BuildApp(path) ==
    LET sha == Load(disk)  rc == receipts[path] IN
    /\ sha # None /\ rc \notin {None, Torn}
    /\ MatchesRelease(rc, sha) /\ Unaltered(rc, sha) /\ AllocationAgrees(sha)
    /\ Passes(sha)
    /\ rows' = [rows EXCEPT ![Limits(sha).allocation] = Ceilings(sha)]

Serve(path) ==
    /\ procs["serve"] = None /\ BuildApp(path)
    /\ procs' = [procs EXCEPT !["serve"] = receipts[path]]
    /\ UNCHANGED <<environment, files, debit, paid, over, run>>

\* The process is gone; a canary that had not returned leaves the report as it is.
Die(proc) ==
    /\ procs[proc] # None
    /\ procs' = [procs EXCEPT ![proc] = None]
    /\ run' = IF proc = "canary" THEN None ELSE run
    /\ UNCHANGED <<environment, files, money>>

-----------------------------------------------------------------------------
CheckLoaded(proc) == Passes(procs[proc].sha)

\* Before every paid call the release is loaded again and all of preflight is repeated.
Check(proc) == Load(disk) # None /\ Load(disk) = procs[proc].sha /\ Passes(Load(disk))

Allocation(proc) == Limits(procs[proc].sha).allocation

Above(cost, reserved) == IF cost > reserved THEN cost - reserved ELSE 0

\* What the paid calls of one task come to: `known` is the recorded cost, of calls held
\* at `bound` when the last of them is made; `hidden` is what a last call cost that did
\* not report it, and `hold` its reservation.  After a recorded cost above its bound, or
\* an unknown one, nothing more is called and the task does not succeed.
Calls(task) ==
    {c \in [bound : 0..task, hold : 0..task, known : 0..MaxCost, hidden : 0..MaxCost,
            reported : BOOLEAN, status : {"succeeded", "failed"}] :
        /\ c.bound + c.hold <= task /\ c.known + c.hidden <= MaxCost
        /\ c.known > 0 => c.bound > 0
        /\ c.hidden > 0 => c.hold > 0
        /\ IF c.reported THEN c.hold = 0 ELSE c.known = c.bound
        /\ c.status = "succeeded" => c.reported /\ c.known <= c.bound}

Reserved(call) == call.bound + call.hold
Cost(call) == call.known + call.hidden
Excess(call) == Above(call.known, call.bound) + Above(call.hidden, call.hold)

\* A call is made when its reservation fits what is left of the allocation.
Fits(proc, call) ==
    LET a == Allocation(proc) IN debit[a] + Reserved(call) <= rows[a].app

Pay(a, call) ==
    /\ paid' = [paid EXCEPT ![a] = @ + Cost(call)]
    /\ over' = [over EXCEPT ![a] = @ + Excess(call)]

\* A request makes its paid calls, on an enabled model or for its classification.  The
\* recorded cost replaces its reservation unless the settlement fails; a cost that is
\* not recorded keeps holding what was reserved.
Execute ==
    /\ procs["serve"] # None /\ "execute" \in procs["serve"].ops
    /\ Enabled(Manifests[procs["serve"].sha]) # {} \/ "live_classifier" \in procs["serve"].ops
    /\ Check("serve")
    /\ \E call \in Calls(Limits(procs["serve"].sha).task) :
        LET a == Allocation("serve") IN
        /\ Fits("serve", call) /\ Pay(a, call)
        /\ \E d \in {call.known, call.bound} :
            debit' = [debit EXCEPT ![a] = @ + d + call.hold]
    /\ UNCHANGED <<environment, files, procs, rows, run>>

-----------------------------------------------------------------------------
\* One canary for each enabled model, and one from classification to answer.
Cases(r) == Cardinality(Enabled(r)) + 1

Running(path, step) == [report |-> path, step |-> step, call |-> None]

\* The release may be tried at all, under the cap.
Admitted(cap) ==
    LET sha == Load(disk) IN
    /\ Worlds[world].optIn /\ sha # None /\ Limits(sha).app <= cap
    /\ {"live_provider", "live_classifier"} \subseteq Manifests[sha].ops

Authorized ==
    /\ Application \in Credentials(Manifests[Load(disk)], Worlds[world])
    /\ "execute" \in Worlds[world].apps[Application].scopes

\* The report keeps, for the properties, what the run has really paid, how much of that
\* exceeded its reservations and how much was lost with an unrecorded classification.
StartCanary(receipt, path, cap) ==
    /\ procs["canary"] = None /\ Admitted(cap) /\ BuildApp(receipt)
    /\ Authorized /\ reports[path] = None
    /\ procs' = [procs EXCEPT !["canary"] = receipts[receipt]]
    /\ reports' = [reports EXCEPT ![path] =
            [allocation |-> Limits(Load(disk)).allocation, cap |-> cap, status |-> "blocked",
             known |-> 0, complete |-> TRUE, tasks |-> 0, of |-> Cases(Manifests[Load(disk)]),
             returned |-> FALSE, paid |-> 0, over |-> 0, lost |-> 0]]
    /\ run' = Running(path, "access")
    /\ UNCHANGED <<environment, receipts, written, debit, paid, over>>

\* The application was built, and its allocation with it, before the run is refused.
RefuseCanary(receipt, path, cap) ==
    /\ procs["canary"] = None /\ Admitted(cap) /\ BuildApp(receipt)
    /\ ~Authorized \/ reports[path] # None
    /\ UNCHANGED <<environment, files, procs, debit, paid, over, run>>

Return(snapshot) ==
    /\ reports' = [reports EXCEPT ![run.report] = [snapshot EXCEPT !.returned = TRUE]]
    /\ run' = None /\ procs' = [procs EXCEPT !["canary"] = None]

\* Every model answers a retrieval, or the run is over before anything is paid.
VerifyAccess(ok) ==
    /\ run # None /\ run.step = "access"
    /\ IF ok THEN run' = Running(run.report, "next") /\ UNCHANGED <<reports, procs>>
             ELSE Return(reports[run.report])
    /\ UNCHANGED <<environment, receipts, written, money>>

NoCall == [bound |-> 0, hold |-> 0, known |-> 0, hidden |-> 0, reported |-> TRUE,
           status |-> "failed"]

\* execute() of one canary makes its paid calls if preflight passes and they fit, or
\* fails with nothing paid: preflight, admission or the reservation refused the first.
CallCanary ==
    /\ run # None /\ run.step = "next"
    /\ \/ /\ Check("canary")
          /\ \E call \in Calls(Limits(procs["canary"].sha).task) :
            LET a == Allocation("canary") IN
            /\ Fits("canary", call) /\ Pay(a, call)
            /\ debit' = [debit EXCEPT ![a] = @ + Reserved(call)]
            /\ reports' = [reports EXCEPT ![run.report].paid = @ + Cost(call),
                                         ![run.report].over = @ + Excess(call)]
            /\ run' = [run EXCEPT !.step = "settle", !.call = call]
       \/ /\ run' = [run EXCEPT !.step = "record", !.call = NoCall]
          /\ UNCHANGED <<debit, paid, over, reports>>
    /\ UNCHANGED <<environment, receipts, written, procs, rows>>

\* charge() goes on when the settlement fails, whether or not it was committed, and the
\* task can no longer succeed.
SettleCanary ==
    /\ run # None /\ run.step = "settle"
    /\ LET a == Allocation("canary")
           settled == debit[a] - run.call.bound + run.call.known
       IN \/ /\ debit' = [debit EXCEPT ![a] = settled]
             /\ run' = [run EXCEPT !.step = "record"]
          \/ /\ \E d \in {settled, debit[a]} : debit' = [debit EXCEPT ![a] = d]
             /\ run' = [run EXCEPT !.step = "record", !.call.status = "failed"]
    /\ UNCHANGED <<environment, files, procs, rows, paid, over>>

EndToEnd == reports[run.report].tasks + 1 = reports[run.report].of

\* Preflight is repeated to price a classification that has been paid.  When it no longer
\* passes, the task is blocked before the call is saved or charged: it returns a total
\* cost of zero, and the reservation stays.
LoseClassification ==
    /\ run # None /\ run.step = "settle" /\ EndToEnd /\ ~Check("canary")
    /\ reports' = [reports EXCEPT ![run.report].lost = Cost(run.call)]
    /\ run' = [run EXCEPT !.step = "record", !.call = NoCall]
    /\ UNCHANGED <<environment, receipts, written, procs, money>>

UncertainKept(snapshot) == [snapshot EXCEPT !.status = "blocked_on_uncertain_execution"]

\* execute() raised: nothing is known of what it paid.
Uncertain(snapshot) ==
    [snapshot EXCEPT !.status = "blocked_on_uncertain_execution", !.complete = FALSE]

Recorded(snapshot, call) ==
    [snapshot EXCEPT
        !.tasks = @ + 1, !.known = @ + call.known, !.complete = @ /\ call.reported,
        !.status = CASE ~call.reported -> "blocked_on_unknown_cost"
                     [] call.reported /\ call.status # "succeeded" -> "failed"
                     [] OTHER -> IF snapshot.tasks + 1 = snapshot.of THEN "passed" ELSE "running"]

RaiseCanary ==
    /\ run # None /\ run.step \in {"settle", "record"}
    /\ Return(Uncertain(reports[run.report]))
    /\ UNCHANGED <<environment, receipts, written, money>>

\* The task is appended to the report; any but a known success ends the run.
RecordCanary ==
    /\ run # None /\ run.step = "record"
    /\ LET snapshot == Recorded(reports[run.report], run.call) IN
       IF snapshot.status = "running"
       THEN /\ reports' = [reports EXCEPT ![run.report] = snapshot]
            /\ run' = Running(run.report, "next") /\ UNCHANGED procs
       ELSE Return(snapshot)
    /\ UNCHANGED <<environment, receipts, written, money>>

Next ==
    \/ Tick \/ Change
    \/ \E path \in Receipts : Activate(path) \/ Serve(path)
    \/ \E proc \in Processes : Die(proc)
    \/ Execute
    \/ \E receipt \in Receipts, path \in Reports, cap \in Caps :
        StartCanary(receipt, path, cap) \/ RefuseCanary(receipt, path, cap)
    \/ \E ok \in BOOLEAN : VerifyAccess(ok)
    \/ CallCanary \/ SettleCanary \/ LoseClassification \/ RaiseCanary \/ RecordCanary

Spec == Init /\ [][Next]_vars

-----------------------------------------------------------------------------
\* But for calls that cost more than was reserved for them, what an operator ever caps a
\* canary at bounds everything its allocation pays, over all runs, restarts, releases and
\* the service that draws on the same allocation.
CanarySpendWithinCap ==
    \A p \in Reports : reports[p] # None =>
        paid[reports[p].allocation] <= reports[p].cap + over[reports[p].allocation]

\* A report never claims more than was paid and, wherever the process died, lacks at most
\* what one task may reserve and its overrun.  A returned report that calls its cost
\* complete has all of it but for a classification lost to a failing preflight, which
\* only a failed end-to-end case can have lost; "passed" means every case succeeded at a
\* known cost within its reservations.
ReportTruthful ==
    \A p \in Reports : reports[p] # None =>
        LET rep == reports[p] IN
        /\ rep.known <= rep.paid
        /\ rep.paid - rep.known <= rows[rep.allocation].task + rep.over
        /\ rep.returned /\ rep.complete =>
            /\ rep.known + rep.lost = rep.paid
            /\ rep.lost > 0 => rep.status = "failed" /\ rep.tasks = rep.of
        /\ rep.status = "passed" => /\ rep.returned /\ rep.complete /\ rep.tasks = rep.of
                                    /\ rep.known = rep.paid /\ rep.over = 0

\* Money leaves only through a process whose receipt activate wrote for exactly the
\* release that is on disk at that moment, while the account evidence is still valid
\* and is of the credential in use.
PaidCallCovered ==
    [][paid' # paid =>
        LET r == Manifests[disk.sha] IN
        /\ disk.intact
        /\ \E p \in Processes : procs[p] \in written /\ procs[p].sha = disk.sha
        /\ now < r.evidence.at + r.freshness
        /\ Worlds[world].reachable /\ Worlds[world].key = r.evidence.key]_vars
=============================================================================
