---------------------------- MODULE ReleaseProofs ----------------------------
(***************************************************************************)
(* For every set of manifests, receipts, reports and caps: what the        *)
(* release pays is covered by a preflight that has just been repeated;     *)
(* but for overruns it stays within every cap a canary was started with;   *)
(* and it is what the report of the canary says, wherever a process died,  *)
(* but for a classification lost to a failing preflight.  The invariant    *)
(* follows a receipt from the file to the process that was built with it,  *)
(* and the money of a call from its reservation to its settlement.         *)
(***************************************************************************)
EXTENDS Release, TLAPS

Row == [app : Nat, task : Nat]

Groups == {"service", "execution", "live", "classifier"}

Identities == [sha : Hashes, at : Nat, ops : SUBSET Operations, checks : SUBSET Groups]

ReceiptType == [sha : Hashes, at : Nat, ops : SUBSET Operations, checks : SUBSET Groups,
                id : Identities]

ReportStatuses == {"blocked", "running", "passed", "failed", "blocked_on_unknown_cost",
                   "blocked_on_uncertain_execution"}

Snapshot == [allocation : Allocations, cap : Caps, status : ReportStatuses, known : Nat,
             complete : BOOLEAN, tasks : Nat, of : {Cases(Manifests[sha]) : sha \in Hashes},
             returned : BOOLEAN, paid : Nat, over : Nat, lost : Nat]

Call == [bound : Nat, hold : Nat, known : Nat, hidden : Nat, reported : BOOLEAN,
         status : {"succeeded", "failed"}]

RunType == [report : Reports, step : {"access", "next", "settle", "record"},
            call : Call \cup {None}]

Types ==
    /\ now \in Nat /\ disk \in Disks
    /\ receipts \in [Receipts -> ReceiptType \cup {None, Torn}]
    /\ written \subseteq ReceiptType
    /\ procs \in [Processes -> ReceiptType \cup {None}]
    /\ rows \in [Allocations -> Row \cup {None}]
    /\ debit \in [Allocations -> Int] /\ paid \in [Allocations -> Nat]
    /\ over \in [Allocations -> Nat]
    /\ reports \in [Reports -> Snapshot \cup {None}]
    /\ run \in RunType \cup {None}

\* But for the time an operator put into it, a receipt is one that activate wrote.
ReceiptsWritten ==
    \A p \in Receipts : receipts[p] \notin {None, Torn} =>
        [receipts[p] EXCEPT !.at = receipts[p].id.at] \in written

\* A process was built with a receipt that activate wrote, and its allocation has the
\* ceilings of its release.
BuiltFrom(rc) ==
    /\ rc \in written /\ rc.ops = Manifests[rc.sha].ops
    /\ rows[Limits(rc.sha).allocation] = Ceilings(rc.sha)

ProcessesBuilt ==
    /\ \A p \in Processes : procs[p] # None => BuiltFrom(procs[p])
    /\ procs["canary"] # None => {"live_provider", "live_classifier"} \subseteq procs["canary"].ops

\* What the reservation of the canary's call and its overrun leave above its cost, until
\* it is settled.
Outstanding(a) ==
    IF run # None /\ run.step = "settle" /\ a = Allocation("canary")
    THEN Reserved(run.call) + Excess(run.call) - Cost(run.call) ELSE 0

Covered == \A a \in Allocations : paid[a] + Outstanding(a) <= debit[a] + over[a]

Capped == \A a \in Allocations : /\ rows[a] = None => paid[a] = 0
                                 /\ rows[a] # None => paid[a] <= rows[a].app + over[a]

TrueReport(rep) ==
    /\ rep \in Snapshot
    /\ rows[rep.allocation] \in Row /\ rows[rep.allocation].app <= rep.cap
    /\ rep.known <= rep.paid
    /\ rep.paid - rep.known <= rows[rep.allocation].task + rep.over
    /\ rep.returned /\ rep.complete =>
        /\ rep.known + rep.lost = rep.paid
        /\ rep.lost > 0 => rep.status = "failed" /\ rep.tasks = rep.of
    /\ rep.status = "passed" => /\ rep.returned /\ rep.complete /\ rep.tasks = rep.of
                                /\ rep.known = rep.paid /\ rep.over = 0

ReportsTrue == \A p \in Reports : reports[p] # None => TrueReport(reports[p])

\* The report of the run in progress lacks the call in progress, or the classification
\* that it lost, and no other.
InProgress(rep) ==
    /\ TrueReport(rep) /\ rep.allocation = Allocation("canary")
    /\ ~rep.returned /\ rep.complete /\ rep.status \in {"blocked", "running"}
    /\ IF run.step \in {"settle", "record"}
       THEN /\ run.call \in Calls(Limits(procs["canary"].sha).task)
            /\ rep.paid = rep.known + Cost(run.call) + rep.lost
            /\ rep.lost > 0 => /\ run.step = "record" /\ run.call = NoCall
                               /\ rep.tasks + 1 = rep.of
            /\ run.call.status = "succeeded" => rep.over = 0
       ELSE rep.paid = rep.known /\ rep.over = 0 /\ rep.lost = 0

RunTrue == run # None => procs["canary"] # None /\ InProgress(reports[run.report])

Inv == Types /\ ReceiptsWritten /\ ProcessesBuilt /\ Covered /\ Capped /\ ReportsTrue /\ RunTrue
-----------------------------------------------------------------------------
(* Manifests, the disk and receipts.                                       *)

LEMMA ManifestFacts ==
    ASSUME NEW sha \in Hashes
    PROVE  /\ Limits(sha).app \in Nat /\ Limits(sha).task \in Nat
           /\ Limits(sha).allocation \in Allocations
           /\ Ceilings(sha) \in Row /\ Ceilings(sha) # None
           /\ Ceilings(sha).app = Limits(sha).app /\ Ceilings(sha).task = Limits(sha).task
           /\ Manifests[sha].ops \subseteq Operations /\ Checks(Manifests[sha]) \subseteq Groups
           /\ SurfaceValid(Manifests[sha].ops)
<1>1. /\ Limits(sha).app \in Nat /\ Limits(sha).task \in Nat /\ ReleaseValid(Manifests[sha])
      /\ None \notin Row
  BY ReleaseAssumption DEF Row
<1>2. Limits(sha).allocation \in Allocations
  BY DEF Allocations
<1>3. Manifests[sha].ops \subseteq Operations /\ SurfaceValid(Manifests[sha].ops)
  BY <1>1 DEF ReleaseValid
<1>4. Ceilings(sha) \in Row /\ Ceilings(sha).app = Limits(sha).app
        /\ Ceilings(sha).task = Limits(sha).task
  BY <1>1 DEF Ceilings, Row
<1>5. Checks(Manifests[sha]) \subseteq Groups
  BY DEF Checks, Groups
<1>6. QED
  BY <1>1, <1>2, <1>3, <1>4, <1>5

LEMMA LoadFacts ==
    ASSUME Types, Load(disk) # None
    PROVE  disk.intact /\ Load(disk) = disk.sha /\ disk.sha \in Hashes
  BY ReleaseAssumption DEF Types, Load

\* A receipt whose hash is right is as activate wrote it.
LEMMA BuildFacts ==
    ASSUME Inv, NEW path \in Receipts, BuildApp(path), NEW rc, rc = receipts[path]
    PROVE  /\ rc # None /\ rc \in ReceiptType /\ rc \in written /\ rc.sha = Load(disk) /\ rc.sha \in Hashes
           /\ rc.ops = Manifests[rc.sha].ops
           /\ rows[Limits(rc.sha).allocation] \in {None, Ceilings(rc.sha)}
           /\ rows' = [rows EXCEPT ![Limits(rc.sha).allocation] = Ceilings(rc.sha)]
<1>1. /\ Load(disk) # None /\ rc \notin {None, Torn} /\ rc.sha = Load(disk)
      /\ rc.id = Identity(rc) /\ rc.ops = Manifests[rc.sha].ops
      /\ rows[Limits(rc.sha).allocation] \in {None, Ceilings(rc.sha)}
      /\ rows' = [rows EXCEPT ![Limits(rc.sha).allocation] = Ceilings(rc.sha)]
  BY DEF BuildApp, MatchesRelease, Unaltered, AllocationAgrees
<1>2. rc.sha \in Hashes
  BY <1>1, LoadFacts DEF Inv
<1>3. rc \in ReceiptType
  BY <1>1 DEF Inv, Types
<1>4. rc.id.at = rc.at
  BY <1>1 DEF Identity
<1>5. [rc EXCEPT !.at = rc.id.at] = rc
  BY <1>3, <1>4 DEF ReceiptType
<1>6. rc \in written
  BY <1>1, <1>5 DEF Inv, ReceiptsWritten
<1>7. QED
  BY <1>1, <1>2, <1>3, <1>6

\* An allocation keeps its ceilings.
RowsKept == \A a \in Allocations : rows[a] \in Row => rows'[a] = rows[a]

LEMMA BuildKeepsRows ==
    ASSUME Inv, NEW path \in Receipts, BuildApp(path), UNCHANGED <<paid, over>>
    PROVE  /\ rows' \in [Allocations -> Row \cup {None}]
           /\ RowsKept /\ Capped'
<1> DEFINE rc == receipts[path]
           b == Limits(rc.sha).allocation
           c == Ceilings(rc.sha)
<1>1. /\ rc \in ReceiptType /\ rc.sha \in Hashes /\ rows[b] \in {None, c}
      /\ rows' = [rows EXCEPT ![b] = c]
  BY BuildFacts
<1>2. b \in Allocations /\ c \in Row /\ c # None /\ c.app \in Nat
  BY <1>1, ManifestFacts DEF Row
<1>3. rows \in [Allocations -> Row \cup {None}] /\ None \notin Row /\ over \in [Allocations -> Nat]
  BY ReleaseAssumption DEF Inv, Types, Row
<1> HIDE DEF rc, b, c
<1>4. /\ rows' \in [Allocations -> Row \cup {None}]
      /\ rows'[b] = c /\ \A a \in Allocations : a # b => rows'[a] = rows[a]
  BY <1>1, <1>2, <1>3
<1>5. RowsKept
  BY <1>1, <1>2, <1>3, <1>4 DEF RowsKept
<1>6. Capped'
  <2> SUFFICES ASSUME NEW a \in Allocations
               PROVE  /\ rows'[a] = None => paid[a] = 0
                      /\ rows'[a] # None => paid[a] <= rows'[a].app + over[a]
    BY DEF Capped
  <2>1. /\ rows[a] = None => paid[a] = 0
        /\ rows[a] # None => paid[a] <= rows[a].app + over[a]
        /\ over[a] \in Nat
    BY <1>3 DEF Inv, Capped
  <2>2. CASE a # b
    BY <1>4, <2>1, <2>2
  <2>3. CASE a = b
    BY <1>1, <1>2, <1>4, <2>1, <2>3
  <2>4. QED
    BY <2>2, <2>3
<1>7. QED
  BY <1>4, <1>5, <1>6

-----------------------------------------------------------------------------
(* What a step leaves alone.                                               *)

LEMMA MoneyAside ==
    ASSUME Inv, UNCHANGED <<procs, rows, debit, paid, over, reports, run>>, written \subseteq written'
    PROVE  ProcessesBuilt' /\ Covered' /\ Capped' /\ ReportsTrue' /\ RunTrue'
<1>1. ProcessesBuilt'
  BY DEF Inv, ProcessesBuilt, BuiltFrom
<1>2. Covered' /\ Capped'
  BY DEF Inv, Covered, Capped, Outstanding, Allocation
<1>3. ReportsTrue' /\ RunTrue'
  BY DEF Inv, ReportsTrue, RunTrue, TrueReport, InProgress, Allocation
<1>4. QED
  BY <1>1, <1>2, <1>3

LEMMA BuiltStays ==
    ASSUME Types, NEW rc, BuiltFrom(rc), written \subseteq written', RowsKept
    PROVE  BuiltFrom(rc)'
<1>1. rc.sha \in Hashes
  BY DEF Types, BuiltFrom, ReceiptType
<1>2. QED
  BY <1>1, ManifestFacts DEF BuiltFrom, RowsKept

LEMMA TrueStays ==
    ASSUME NEW rep, TrueReport(rep), RowsKept PROVE TrueReport(rep)'
<1>1. rows'[rep.allocation] = rows[rep.allocation]
  BY DEF TrueReport, Snapshot, RowsKept
<1>2. QED
  BY <1>1 DEF TrueReport

LEMMA ReportsStay ==
    ASSUME Inv, RowsKept, UNCHANGED reports PROVE ReportsTrue'
  BY TrueStays DEF Inv, ReportsTrue

LEMMA RunStays ==
    ASSUME Inv, RowsKept, UNCHANGED <<reports, run>>, procs'["canary"] = procs["canary"]
    PROVE  RunTrue'
<1> SUFFICES ASSUME run # None
             PROVE  procs["canary"] # None /\ InProgress(reports[run.report])'
  BY DEF RunTrue
<1> DEFINE rep == reports[run.report]
<1>1. procs["canary"] # None /\ InProgress(rep)
  BY DEF Inv, RunTrue
<1>2. TrueReport(rep)'
  BY <1>1, TrueStays DEF InProgress
<1> HIDE DEF rep
<1>3. QED
  BY <1>1, <1>2 DEF InProgress, Allocation, rep

\* What is outstanding is never negative.
LEMMA CanaryFacts ==
    ASSUME Inv, run # None
    PROVE  /\ run \in RunType /\ procs["canary"] \in ReceiptType
           /\ procs["canary"].sha \in Hashes /\ Allocation("canary") \in Allocations
           /\ rows[Allocation("canary")] = Ceilings(procs["canary"].sha)
           /\ rows[Allocation("canary")] \in Row
           /\ rows[Allocation("canary")].task = Limits(procs["canary"].sha).task
           /\ InProgress(reports[run.report])
<1>1. procs["canary"] # None /\ InProgress(reports[run.report]) /\ run \in RunType
  BY DEF Inv, Types, RunTrue
<1>2. procs["canary"] \in ReceiptType /\ BuiltFrom(procs["canary"])
  BY <1>1 DEF Inv, Types, ProcessesBuilt, Processes
<1>3. procs["canary"].sha \in Hashes
  BY <1>2 DEF ReceiptType
<1>4. QED
  BY <1>1, <1>2, <1>3, ManifestFacts DEF BuiltFrom, Allocation

\* What a reservation and the overrun cover: the whole cost and, with the recorded cost
\* in place of its reservation, what is not recorded.
LEMMA CallFacts ==
    ASSUME NEW task \in Nat, NEW c \in Calls(task)
    PROVE  /\ c \in Call /\ Reserved(c) \in Nat /\ Reserved(c) <= task
           /\ Cost(c) \in Nat /\ Excess(c) \in Nat /\ Cost(c) <= Reserved(c) + Excess(c)
           /\ c.hidden <= c.hold + Excess(c)
           /\ c.known <= c.bound + Excess(c)
           /\ c.reported => c.hidden = 0
           /\ c.status = "succeeded" => c.reported /\ Excess(c) = 0
           /\ [c EXCEPT !.status = "failed"] \in Calls(task)
<1>1. MaxCost \in Nat
  BY ReleaseAssumption
<1>2. /\ c \in Call /\ c.bound \in Nat /\ c.hold \in Nat /\ c.known \in Nat /\ c.hidden \in Nat
      /\ c.bound + c.hold <= task /\ (c.hidden > 0 => c.hold > 0)
      /\ (c.reported => c.hold = 0)
      /\ c.status = "succeeded" => c.reported /\ c.known <= c.bound
  BY <1>1 DEF Calls, Call
<1>3. [c EXCEPT !.status = "failed"] \in Calls(task)
  BY DEF Calls
<1>4. /\ Reserved(c) = c.bound + c.hold /\ Cost(c) = c.known + c.hidden
      /\ Excess(c) = (IF c.known > c.bound THEN c.known - c.bound ELSE 0)
                     + (IF c.hidden > c.hold THEN c.hidden - c.hold ELSE 0)
  BY DEF Reserved, Cost, Excess, Above
<1>5. QED
  BY <1>2, <1>3, <1>4

LEMMA NoCallFacts ==
    ASSUME NEW task \in Nat
    PROVE  NoCall \in Calls(task) /\ NoCall \in Call /\ Cost(NoCall) = 0 /\ NoCall.known = 0
           /\ NoCall.reported /\ NoCall.status = "failed"
  BY ReleaseAssumption DEF NoCall, Calls, Call, Cost

LEMMA OutstandingNat == ASSUME Inv PROVE \A a \in Allocations : Outstanding(a) \in Nat
<1> SUFFICES ASSUME NEW a \in Allocations, run # None, run.step = "settle", a = Allocation("canary")
             PROVE  Reserved(run.call) + Excess(run.call) - Cost(run.call) \in Nat
  BY DEF Outstanding
<1>1. /\ procs["canary"].sha \in Hashes
      /\ run.call \in Calls(Limits(procs["canary"].sha).task)
  BY CanaryFacts DEF InProgress
<1>2. Limits(procs["canary"].sha).task \in Nat
  BY <1>1, ManifestFacts
<1>3. /\ Reserved(run.call) \in Nat /\ Excess(run.call) \in Nat /\ Cost(run.call) \in Nat
      /\ Cost(run.call) <= Reserved(run.call) + Excess(run.call)
  BY <1>1, <1>2, CallFacts
<1>4. QED
  BY <1>3

LEMMA CoveredStays ==
    ASSUME Inv, UNCHANGED <<debit, paid, over>>,
           \A a \in Allocations : Outstanding(a)' \in {0, Outstanding(a)}
    PROVE  Covered'
<1> SUFFICES ASSUME NEW a \in Allocations PROVE paid[a] + Outstanding(a)' <= debit[a] + over[a]
  BY DEF Covered
<1>1. /\ paid[a] \in Nat /\ debit[a] \in Int /\ over[a] \in Nat /\ Outstanding(a) \in Nat
      /\ paid[a] + Outstanding(a) <= debit[a] + over[a] /\ Outstanding(a)' \in {0, Outstanding(a)}
  BY OutstandingNat DEF Inv, Types, Covered
<1>2. QED
  BY <1>1
-----------------------------------------------------------------------------
(* Every action keeps the invariant.                                       *)

LEMMA TickKeepsInv == ASSUME Inv, Tick PROVE Inv'
<1>1. /\ UNCHANGED <<procs, rows, debit, paid, over, reports, run>> /\ written \subseteq written'
      /\ UNCHANGED <<receipts, written, disk>>
  BY DEF Tick, files, money
<1>2. now' \in Nat
  BY DEF Tick, Inv, Types
<1>3. Types' /\ ReceiptsWritten'
  BY <1>1, <1>2 DEF Inv, Types, ReceiptsWritten
<1>4. QED
  BY <1>1, <1>3, MoneyAside DEF Inv

LEMMA ChangeKeepsInv == ASSUME Inv, Change PROVE Inv'
<1>1. /\ UNCHANGED <<procs, rows, debit, paid, over, reports, run>> /\ written \subseteq written'
      /\ UNCHANGED <<now, written>> /\ disk' \in Disks
  BY DEF Change, money, Inv, Types
<1>2. CASE UNCHANGED receipts
  BY <1>1, <1>2, MoneyAside DEF Inv, Types, ReceiptsWritten
<1>3. CASE \E p \in Receipts, t \in 0..now :
             receipts[p] \notin {None, Torn} /\ receipts' = [receipts EXCEPT ![p].at = t]
  <2>1. PICK p \in Receipts, t \in 0..now :
             receipts[p] \notin {None, Torn} /\ receipts' = [receipts EXCEPT ![p].at = t]
    BY <1>3
  <2> DEFINE rc == receipts[p]
             n == [rc EXCEPT !.at = t]
  <2>2. rc \in ReceiptType /\ t \in Nat /\ [rc EXCEPT !.at = rc.id.at] \in written
    BY <2>1 DEF Inv, Types, ReceiptsWritten
  <2>3. n \in ReceiptType /\ [n EXCEPT !.at = n.id.at] = [rc EXCEPT !.at = rc.id.at]
    BY <2>2 DEF ReceiptType
  <2>4. receipts \in [Receipts -> ReceiptType \cup {None, Torn}] /\ receipts' = [receipts EXCEPT ![p] = n]
    BY <2>1 DEF Inv, Types
  <2> HIDE DEF n
  <2>5. receipts' \in [Receipts -> ReceiptType \cup {None, Torn}]
    BY <2>3, <2>4
  <2>6. receipts'[p] = n /\ \A q \in Receipts : q # p => receipts'[q] = receipts[q]
    BY <2>4
  <2>7. ReceiptsWritten'
    <3> SUFFICES ASSUME NEW q \in Receipts, receipts'[q] \notin {None, Torn}
                 PROVE  [receipts'[q] EXCEPT !.at = receipts'[q].id.at] \in written
      BY <1>1 DEF ReceiptsWritten
    <3>1. CASE q = p
      BY <2>2, <2>3, <2>6, <3>1
    <3>2. CASE q # p
      BY <2>6, <3>2 DEF Inv, ReceiptsWritten
    <3>3. QED
      BY <3>1, <3>2
  <2>8. Types'
    BY <1>1, <2>5 DEF Inv, Types
  <2>9. QED
    BY <1>1, <2>7, <2>8, MoneyAside DEF Inv
<1>4. QED
  BY <1>2, <1>3 DEF Change

LEMMA ReceiptFacts ==
    ASSUME Types, NEW sha \in Hashes
    PROVE  Receipt(sha) \in ReceiptType /\ Receipt(sha).id.at = Receipt(sha).at
<1> DEFINE ops == Manifests[sha].ops
           checks == Checks(Manifests[sha])
           id == [sha |-> sha, at |-> now, ops |-> ops, checks |-> checks]
<1>1. now \in Nat /\ ops \in SUBSET Operations /\ checks \in SUBSET Groups
  BY ManifestFacts DEF Types
<1>2. Receipt(sha) = [sha |-> sha, at |-> now, ops |-> ops, checks |-> checks, id |-> id]
  BY DEF Receipt, Identity
<1> HIDE DEF ops, checks
<1>3. QED
  BY <1>1, <1>2 DEF ReceiptType, Identities

LEMMA ActivateKeepsInv == ASSUME Inv, NEW path \in Receipts, Activate(path) PROVE Inv'
<1>1. /\ UNCHANGED <<procs, rows, debit, paid, over, reports, run>> /\ written \subseteq written'
      /\ UNCHANGED <<now, disk>>
  BY DEF Activate, environment, money
<1> DEFINE sha == Load(disk)
           rc == Receipt(sha)
<1>2. sha \in Hashes
  BY LoadFacts DEF Activate, Inv
<1>3. rc \in ReceiptType /\ rc.id.at = rc.at
  BY <1>2, ReceiptFacts DEF Inv
<1>4. \/ receipts' = [receipts EXCEPT ![path] = rc] /\ written' = written \cup {rc}
      \/ receipts' = [receipts EXCEPT ![path] = Torn] /\ written' = written
  BY DEF Activate
<1> HIDE DEF sha, rc
<1>5. [rc EXCEPT !.at = rc.id.at] = rc
  BY <1>3 DEF ReceiptType
<1>6. receipts \in [Receipts -> ReceiptType \cup {None, Torn}] /\ written \subseteq ReceiptType
  BY DEF Inv, Types
<1>7. receipts' \in [Receipts -> ReceiptType \cup {None, Torn}] /\ written' \subseteq ReceiptType
  BY <1>3, <1>4, <1>6
<1>8. \A q \in Receipts : \/ receipts'[q] = receipts[q]
                          \/ receipts'[q] = Torn
                          \/ receipts'[q] = rc /\ rc \in written'
  BY <1>4, <1>6
<1>9. ReceiptsWritten'
  BY <1>1, <1>5, <1>8 DEF Inv, ReceiptsWritten
<1>10. Types'
  BY <1>1, <1>7 DEF Inv, Types
<1>11. QED
  BY <1>1, <1>9, <1>10, MoneyAside DEF Inv

LEMMA ServeKeepsInv == ASSUME Inv, NEW path \in Receipts, Serve(path) PROVE Inv'
<1>1. /\ BuildApp(path) /\ UNCHANGED <<now, disk, receipts, written, reports, debit, paid, over, run>>
      /\ "serve" \in Processes /\ "canary" \in Processes
      /\ procs' = [procs EXCEPT !["serve"] = receipts[path]]
  BY DEF Serve, environment, files, Processes
<1> DEFINE rc == receipts[path]
<1>2. /\ rc \in ReceiptType /\ rc \in written /\ rc.sha \in Hashes
      /\ rc.ops = Manifests[rc.sha].ops /\ procs' = [procs EXCEPT !["serve"] = rc]
      /\ rows' = [rows EXCEPT ![Limits(rc.sha).allocation] = Ceilings(rc.sha)]
  BY <1>1, BuildFacts
<1>3. /\ rows' \in [Allocations -> Row \cup {None}] /\ procs' \in [Processes -> ReceiptType \cup {None}]
      /\ RowsKept /\ Capped'
  BY <1>1, <1>2, BuildKeepsRows DEF Inv, Types
<1>4. /\ rows \in [Allocations -> Row \cup {None}] /\ procs \in [Processes -> ReceiptType \cup {None}]
      /\ Limits(rc.sha).allocation \in Allocations /\ Types
  BY <1>2, ManifestFacts DEF Inv, Types
<1>5. /\ rc \in written' /\ rc.ops = Manifests[rc.sha].ops
      /\ rows'[Limits(rc.sha).allocation] = Ceilings(rc.sha)
  BY <1>1, <1>2, <1>4
<1> HIDE DEF rc
<1>6. procs'["serve"] = rc /\ procs'["canary"] = procs["canary"]
  BY <1>1, <1>2, <1>4
<1>7. ProcessesBuilt'
  <2>1. ASSUME NEW k, k = procs["canary"], k # None PROVE BuiltFrom(k)'
    BY <1>1, <1>3, <1>4, <2>1, BuiltStays DEF Inv, ProcessesBuilt
  <2>2. QED
    BY <1>5, <1>6, <2>1 DEF Inv, ProcessesBuilt, BuiltFrom, Processes
<1>8. Covered'
  <2>1. \A a \in Allocations : Outstanding(a)' = Outstanding(a)
    BY <1>1, <1>3, <1>6, CanaryFacts DEF Outstanding, Allocation, RowsKept
  <2>2. QED
    BY <1>1, <2>1, CoveredStays
<1>9. ReportsTrue' /\ RunTrue'
  BY <1>1, <1>3, <1>6, ReportsStay, RunStays
<1>10. Types' /\ ReceiptsWritten'
  BY <1>1, <1>3 DEF Inv, Types, ReceiptsWritten
<1>11. QED
  BY <1>3, <1>7, <1>8, <1>9, <1>10 DEF Inv

LEMMA DieKeepsInv == ASSUME Inv, NEW proc \in Processes, Die(proc) PROVE Inv'
<1>1. /\ UNCHANGED <<now, disk, receipts, written, reports, rows, debit, paid, over>>
      /\ procs' = [procs EXCEPT ![proc] = None] /\ RowsKept
      /\ run' = IF proc = "canary" THEN None ELSE run
  BY DEF Die, environment, files, money, RowsKept
<1>2. procs \in [Processes -> ReceiptType \cup {None}] /\ "canary" \in Processes
  BY DEF Inv, Types, Processes
<1>3. /\ procs' \in [Processes -> ReceiptType \cup {None}]
      /\ \A q \in Processes : procs'[q] \in {None, procs[q]}
      /\ proc # "canary" => procs'["canary"] = procs["canary"]
  BY <1>1, <1>2
<1>4. ProcessesBuilt'
  BY <1>1, <1>2, <1>3 DEF Inv, ProcessesBuilt, BuiltFrom
<1>5. \A a \in Allocations : Outstanding(a)' \in {0, Outstanding(a)}
  BY <1>1, <1>3 DEF Outstanding, Allocation
<1>6. Covered' /\ Capped'
  BY <1>1, <1>5, CoveredStays DEF Inv, Capped
<1>7. RunTrue'
  <2>1. CASE proc = "canary"
    BY <1>1, <2>1 DEF RunTrue
  <2>2. CASE proc # "canary"
    BY <1>1, <1>3, <2>2, RunStays
  <2>3. QED
    BY <2>1, <2>2
<1>8. Types' /\ ReceiptsWritten'
  BY <1>1, <1>3 DEF Inv, Types, ReceiptsWritten
<1>9. QED
  BY <1>1, <1>4, <1>6, <1>7, <1>8, ReportsStay DEF Inv

\* The calls of a task cost what was reserved for them and their overrun.
LEMMA PayKeepsCapped ==
    ASSUME Inv, NEW a \in Allocations, rows[a] \in Row, NEW task \in Nat, NEW call \in Calls(task),
           debit[a] + Reserved(call) <= rows[a].app, Pay(a, call), UNCHANGED rows
    PROVE  /\ paid' \in [Allocations -> Nat] /\ over' \in [Allocations -> Nat] /\ Capped'
           /\ paid'[a] = paid[a] + Cost(call) /\ over'[a] = over[a] + Excess(call)
           /\ \A b \in Allocations : b # a => paid'[b] = paid[b] /\ over'[b] = over[b]
<1>1. /\ Reserved(call) \in Nat /\ Cost(call) \in Nat /\ Excess(call) \in Nat
      /\ Cost(call) <= Reserved(call) + Excess(call)
  BY CallFacts
<1>2. paid \in [Allocations -> Nat] /\ over \in [Allocations -> Nat] /\ debit \in [Allocations -> Int]
  BY DEF Inv, Types
<1>3. /\ paid' = [paid EXCEPT ![a] = @ + Cost(call)] /\ over' = [over EXCEPT ![a] = @ + Excess(call)]
  BY DEF Pay
<1>4. /\ paid' \in [Allocations -> Nat] /\ over' \in [Allocations -> Nat]
      /\ paid'[a] = paid[a] + Cost(call) /\ over'[a] = over[a] + Excess(call)
      /\ \A b \in Allocations : b # a => paid'[b] = paid[b] /\ over'[b] = over[b]
  BY <1>1, <1>2, <1>3
<1>5. /\ paid[a] <= debit[a] + over[a] /\ rows[a] # None /\ rows[a].app \in Nat
  <2>1. paid[a] + Outstanding(a) <= debit[a] + over[a] /\ Outstanding(a) \in Nat
    BY OutstandingNat DEF Inv, Covered
  <2>2. QED
    BY <1>2, <2>1, ReleaseAssumption DEF Row
<1>6. Capped'
  <2> SUFFICES ASSUME NEW b \in Allocations
               PROVE  /\ rows[b] = None => paid'[b] = 0
                      /\ rows[b] # None => paid'[b] <= rows[b].app + over'[b]
    BY DEF Capped
  <2>1. CASE b = a
    BY <1>1, <1>2, <1>4, <1>5, <2>1
  <2>2. CASE b # a
    BY <1>4, <2>2 DEF Inv, Capped
  <2>3. QED
    BY <2>1, <2>2
<1>7. QED
  BY <1>4, <1>6

\* What the service debits and overruns covers what it pays.
LEMMA ExecuteKeepsInv == ASSUME Inv, Execute PROVE Inv'
<1>1. /\ UNCHANGED <<now, disk, receipts, written, reports, procs, rows, run>> /\ RowsKept
      /\ procs["serve"] # None /\ "serve" \in Processes
  BY DEF Execute, environment, files, Processes, RowsKept
<1> DEFINE a == Allocation("serve")
           task == Limits(procs["serve"].sha).task
<1>2. PICK call \in Calls(task), d \in Nat :
         /\ Fits("serve", call) /\ Pay(a, call) /\ d \in {call.known, call.bound}
         /\ debit' = [debit EXCEPT ![a] = @ + d + call.hold]
  <2>1. PICK call \in Calls(task) :
         /\ Fits("serve", call) /\ Pay(a, call)
         /\ \E d \in {call.known, call.bound} : debit' = [debit EXCEPT ![a] = @ + d + call.hold]
    BY DEF Execute
  <2>2. call.known \in Nat /\ call.bound \in Nat
    BY <2>1, ReleaseAssumption DEF Calls
  <2>3. QED
    BY <2>1, <2>2
<1>3. procs["serve"].sha \in Hashes /\ BuiltFrom(procs["serve"])
  BY <1>1 DEF Inv, Types, ProcessesBuilt, ReceiptType
<1>4. /\ a \in Allocations /\ rows[a] \in Row /\ task \in Nat
      /\ debit[a] + Reserved(call) <= rows[a].app
  BY <1>2, <1>3, ManifestFacts DEF BuiltFrom, Allocation, Fits
<1> HIDE DEF a, task
<1>5. /\ paid' \in [Allocations -> Nat] /\ over' \in [Allocations -> Nat] /\ Capped'
      /\ paid'[a] = paid[a] + Cost(call) /\ over'[a] = over[a] + Excess(call)
      /\ \A b \in Allocations : b # a => paid'[b] = paid[b] /\ over'[b] = over[b]
  BY <1>1, <1>2, <1>4, PayKeepsCapped
<1>6. /\ call.known \in Nat /\ call.hidden \in Nat /\ call.hold \in Nat /\ call.bound \in Nat
      /\ Excess(call) \in Nat
      /\ call.hidden <= call.hold + Excess(call) /\ Cost(call) = call.known + call.hidden
      /\ Cost(call) <= call.bound + call.hold + Excess(call)
  BY <1>4, CallFacts DEF Cost, Reserved, Call
<1>7. Cost(call) <= d + call.hold + Excess(call) /\ Cost(call) \in Nat
  BY <1>2, <1>6
<1>8. debit \in [Allocations -> Int] /\ paid \in [Allocations -> Nat] /\ over \in [Allocations -> Nat]
  BY DEF Inv, Types
<1>9. /\ debit' \in [Allocations -> Int] /\ debit'[a] = debit[a] + d + call.hold
      /\ \A b \in Allocations : b # a => debit'[b] = debit[b]
  BY <1>2, <1>4, <1>6, <1>8
<1>10. Covered'
  <2> SUFFICES ASSUME NEW b \in Allocations PROVE paid'[b] + Outstanding(b) <= debit'[b] + over'[b]
    BY <1>1 DEF Covered, Outstanding, Allocation
  <2>1. Outstanding(b) \in Nat /\ paid[b] + Outstanding(b) <= debit[b] + over[b]
    BY OutstandingNat DEF Inv, Covered
  <2>2. CASE b = a
    BY <1>4, <1>5, <1>6, <1>7, <1>8, <1>9, <2>1, <2>2
  <2>3. CASE b # a
    BY <1>5, <1>9, <2>1, <2>3
  <2>4. QED
    BY <2>2, <2>3
<1>11. ProcessesBuilt' /\ ReceiptsWritten'
  BY <1>1 DEF Inv, ProcessesBuilt, BuiltFrom, ReceiptsWritten
<1>12. Types'
  BY <1>1, <1>5, <1>9 DEF Inv, Types
<1>13. QED
  BY <1>1, <1>5, <1>10, <1>11, <1>12, ReportsStay, RunStays DEF Inv

\* A canary that is refused leaves the allocation that was created for it.
LEMMA RefuseCanaryKeepsInv ==
    ASSUME Inv, NEW receipt \in Receipts, NEW path \in Reports, NEW cap \in Caps,
           RefuseCanary(receipt, path, cap)
    PROVE  Inv'
<1>1. /\ BuildApp(receipt) /\ "canary" \in Processes
      /\ UNCHANGED <<now, disk, receipts, written, reports, procs, debit, paid, over, run>>
  BY DEF RefuseCanary, environment, files, Processes
<1>2. rows' \in [Allocations -> Row \cup {None}] /\ RowsKept /\ Capped'
  BY <1>1, BuildKeepsRows
<1>3. ProcessesBuilt'
  <2>1. ASSUME NEW p \in Processes, NEW k, k = procs[p], k # None PROVE BuiltFrom(k)'
    BY <1>1, <1>2, <2>1, BuiltStays DEF Inv, ProcessesBuilt
  <2>2. QED
    BY <1>1, <2>1 DEF Inv, ProcessesBuilt
<1>4. Covered'
  <2>1. \A a \in Allocations : Outstanding(a)' = Outstanding(a)
    BY <1>1 DEF Outstanding, Allocation
  <2>2. QED
    BY <1>1, <2>1, CoveredStays
<1>5. ReportsTrue' /\ RunTrue'
  BY <1>1, <1>2, ReportsStay, RunStays
<1>6. Types' /\ ReceiptsWritten'
  BY <1>1, <1>2 DEF Inv, Types, ReceiptsWritten
<1>7. QED
  BY <1>2, <1>3, <1>4, <1>5, <1>6 DEF Inv

LEMMA StartCanaryKeepsInv ==
    ASSUME Inv, NEW receipt \in Receipts, NEW path \in Reports, NEW cap \in Caps,
           StartCanary(receipt, path, cap)
    PROVE  Inv'
<1> DEFINE rc == receipts[receipt]
           r == Manifests[rc.sha]
           a == Limits(rc.sha).allocation
           rep == [allocation |-> a, cap |-> cap, status |-> "blocked", known |-> 0,
                   complete |-> TRUE, tasks |-> 0, of |-> Cases(r), returned |-> FALSE, paid |-> 0,
                   over |-> 0, lost |-> 0]
<1>1. /\ BuildApp(receipt) /\ UNCHANGED <<now, disk, receipts, written, debit, paid, over>>
      /\ procs' = [procs EXCEPT !["canary"] = rc]
      /\ run' = Running(path, "access") /\ "serve" \in Processes /\ "canary" \in Processes
  BY DEF StartCanary, environment, Processes
<1>2. /\ rc \in ReceiptType /\ rc \in written /\ rc.sha = Load(disk) /\ rc.sha \in Hashes
      /\ rc # None /\ rc.ops = r.ops
      /\ rows' = [rows EXCEPT ![a] = Ceilings(rc.sha)]
  BY <1>1, BuildFacts
<1>3. /\ reports' = [reports EXCEPT ![path] = rep] /\ Limits(rc.sha).app <= cap
      /\ {"live_provider", "live_classifier"} \subseteq rc.ops
  BY <1>2 DEF StartCanary, Admitted
<1>4. rc # None
  BY <1>2
<1>5. /\ rows' \in [Allocations -> Row \cup {None}] /\ procs' \in [Processes -> ReceiptType \cup {None}]
      /\ RowsKept /\ Capped'
  BY <1>1, <1>2, BuildKeepsRows DEF Inv, Types
<1>6. /\ rows \in [Allocations -> Row \cup {None}] /\ procs \in [Processes -> ReceiptType \cup {None}]
      /\ reports \in [Reports -> Snapshot \cup {None}]
      /\ a \in Allocations /\ Types /\ Ceilings(rc.sha) \in Row /\ Limits(rc.sha).task \in Nat
      /\ Ceilings(rc.sha).app = Limits(rc.sha).app /\ Ceilings(rc.sha).task = Limits(rc.sha).task
  BY <1>2, ManifestFacts DEF Inv, Types
<1>7. /\ rows'[a] = Ceilings(rc.sha) /\ procs'["canary"] = rc
      /\ procs'["serve"] = procs["serve"]
  BY <1>1, <1>2, <1>6
<1>8. Cases(r) \in {Cases(Manifests[sha]) : sha \in Hashes}
  BY <1>2
<1>9. rep \in Snapshot
  BY <1>6, <1>8 DEF Snapshot, ReportStatuses
<1>10. /\ rep.allocation = a /\ rep.cap = cap /\ rep.status = "blocked" /\ rep.known = 0
       /\ rep.paid = 0 /\ rep.complete = TRUE /\ rep.returned = FALSE
       /\ rep.over = 0 /\ rep.lost = 0
  OBVIOUS
<1> HIDE DEF rep, r
<1>11. /\ reports' \in [Reports -> Snapshot \cup {None}] /\ reports'[path] = rep
       /\ \A p \in Reports : p # path => reports'[p] = reports[p]
  BY <1>3, <1>6, <1>9
<1>12. ASSUME NEW k, k = rep PROVE TrueReport(k)'
  BY <1>3, <1>6, <1>7, <1>9, <1>10, <1>12 DEF TrueReport
<1>13. ReportsTrue'
  <2> SUFFICES ASSUME NEW p \in Reports, NEW k, k = reports'[p], k # None PROVE TrueReport(k)'
    BY DEF ReportsTrue
  <2>1. CASE p = path
    BY <1>11, <1>12, <2>1
  <2>2. CASE p # path
    BY <1>5, <1>11, <2>2, TrueStays DEF Inv, ReportsTrue
  <2>3. QED
    BY <2>1, <2>2
<1>14. run' \in RunType /\ run'.step = "access" /\ run'.report = path
  BY <1>1 DEF Running, RunType
<1>15. RunTrue'
  <2>1. ASSUME NEW k, k = rep PROVE InProgress(k)'
    BY <1>7, <1>10, <1>12, <1>14, <2>1 DEF InProgress, Allocation
  <2>2. QED
    BY <1>4, <1>7, <1>11, <1>14, <2>1 DEF RunTrue
<1>16. Covered'
  <2>1. \A b \in Allocations : Outstanding(b)' = 0
    BY <1>14 DEF Outstanding
  <2>2. QED
    BY <1>1, <2>1, CoveredStays
<1>17. ProcessesBuilt'
  <2>1. ASSUME NEW k, k = procs["serve"], k # None PROVE BuiltFrom(k)'
    BY <1>1, <1>5, <1>6, <2>1, BuiltStays DEF Inv, ProcessesBuilt
  <2>2. rc.ops = Manifests[rc.sha].ops
    BY <1>2 DEF r
  <2> HIDE DEF rc, a
  <2>3. QED
    BY <1>1, <1>2, <1>3, <1>7, <2>1, <2>2 DEF ProcessesBuilt, BuiltFrom, Processes, a
<1>18. Types' /\ ReceiptsWritten'
  BY <1>1, <1>5, <1>11, <1>14 DEF Inv, Types, ReceiptsWritten
<1>19. QED
  BY <1>5, <1>13, <1>15, <1>16, <1>17, <1>18 DEF Inv

\* The run ends: its report says so, and the process is gone.
LEMMA ReturnKeepsInv ==
    ASSUME Inv, run # None, NEW s \in Snapshot, Return(s), TrueReport([s EXCEPT !.returned = TRUE]),
           UNCHANGED <<now, disk, receipts, written, rows, debit, paid, over>>
    PROVE  Inv'
<1> DEFINE rep == [s EXCEPT !.returned = TRUE]
<1>1. run.report \in Reports /\ RowsKept /\ "canary" \in Processes
  BY CanaryFacts DEF RunType, RowsKept, Processes
<1>2. /\ reports' = [reports EXCEPT ![run.report] = rep] /\ run' = None
      /\ procs' = [procs EXCEPT !["canary"] = None]
  BY DEF Return
<1>3. rep \in Snapshot
  BY DEF Snapshot
<1>4. TrueReport(rep)
  OBVIOUS
<1> HIDE DEF rep
<1>5. procs \in [Processes -> ReceiptType \cup {None}] /\ reports \in [Reports -> Snapshot \cup {None}]
  BY DEF Inv, Types
<1>6. /\ procs' \in [Processes -> ReceiptType \cup {None}] /\ procs'["canary"] = None
      /\ \A q \in Processes : procs'[q] \in {None, procs[q]}
      /\ reports' \in [Reports -> Snapshot \cup {None}] /\ reports'[run.report] = rep
      /\ \A p \in Reports : p # run.report => reports'[p] = reports[p]
  BY <1>1, <1>2, <1>3, <1>5
<1>7. ReportsTrue'
  <2> SUFFICES ASSUME NEW p \in Reports, NEW k, k = reports'[p], k # None PROVE TrueReport(k)'
    BY DEF ReportsTrue
  <2>1. TrueReport(k)
    BY <1>4, <1>6 DEF Inv, ReportsTrue
  <2>2. QED
    BY <1>1, <2>1, TrueStays
<1>8. RunTrue' /\ Covered'
  <2>1. \A b \in Allocations : Outstanding(b)' = 0
    BY <1>2 DEF Outstanding
  <2>2. QED
    BY <1>2, <2>1, CoveredStays DEF RunTrue
<1>9. ProcessesBuilt' /\ Capped' /\ ReceiptsWritten'
  BY <1>6 DEF Inv, ProcessesBuilt, BuiltFrom, Capped, ReceiptsWritten
<1>10. Types'
  BY <1>2, <1>6 DEF Inv, Types
<1>11. QED
  BY <1>7, <1>8, <1>9, <1>10 DEF Inv

\* A snapshot that replaces that of the run in progress.
LEMMA SnapshotStep ==
    ASSUME Inv, run # None, NEW rep, TrueReport(rep), UNCHANGED rows,
           reports' = [reports EXCEPT ![run.report] = rep]
    PROVE  /\ reports' \in [Reports -> Snapshot \cup {None}]
           /\ reports'[run.report] = rep /\ ReportsTrue' /\ TrueReport(rep)'
<1>1. /\ run.report \in Reports /\ RowsKept /\ rep \in Snapshot
      /\ reports \in [Reports -> Snapshot \cup {None}]
  BY CanaryFacts DEF RunType, RowsKept, TrueReport, Inv, Types
<1>2. /\ reports' \in [Reports -> Snapshot \cup {None}] /\ reports'[run.report] = rep
      /\ \A p \in Reports : p # run.report => reports'[p] = reports[p]
  BY <1>1
<1>3. ReportsTrue'
  <2> SUFFICES ASSUME NEW p \in Reports, NEW k, k = reports'[p], k # None PROVE TrueReport(k)'
    BY DEF ReportsTrue
  <2>1. TrueReport(k)
    BY <1>2 DEF Inv, ReportsTrue
  <2>2. QED
    BY <1>1, <2>1, TrueStays
<1>4. QED
  BY <1>1, <1>2, <1>3, TrueStays

LEMMA VerifyAccessKeepsInv == ASSUME Inv, NEW ok \in BOOLEAN, VerifyAccess(ok) PROVE Inv'
<1> DEFINE rep == reports[run.report]
<1>1. /\ run # None /\ run.step = "access"
      /\ UNCHANGED <<now, disk, receipts, written, rows, debit, paid, over>>
  BY DEF VerifyAccess, environment, money
<1>2. /\ InProgress(rep) /\ TrueReport(rep) /\ rep \in Snapshot /\ run.report \in Reports
      /\ rep.paid = rep.known /\ rep.over = 0 /\ rep.lost = 0 /\ RowsKept /\ procs["canary"] # None
  BY <1>1, CanaryFacts DEF InProgress, TrueReport, RunType, RowsKept, Inv, RunTrue
<1>3. CASE ok
  <2>1. run' = Running(run.report, "next") /\ UNCHANGED <<reports, procs>>
    BY <1>3 DEF VerifyAccess
  <2>2. run' \in RunType /\ run'.step = "next" /\ run'.report = run.report
    BY <1>2, <2>1 DEF Running, RunType
  <2>3. ASSUME NEW k, k = rep PROVE InProgress(k)'
    <3>1. InProgress(k) /\ TrueReport(k) /\ k.paid = k.known /\ k.over = 0 /\ k.lost = 0
      BY <1>2, <2>3
    <3>2. TrueReport(k)'
      BY <1>2, <3>1, TrueStays
    <3>3. QED
      BY <2>1, <2>2, <3>1, <3>2 DEF InProgress, Allocation
  <2>4. RunTrue'
    BY <1>2, <2>1, <2>2, <2>3 DEF RunTrue
  <2>5. Covered'
    <3>1. \A b \in Allocations : Outstanding(b)' = 0
      BY <2>2 DEF Outstanding
    <3>2. QED
      BY <1>1, <3>1, CoveredStays
  <2>6. ReportsTrue' /\ ProcessesBuilt' /\ Capped' /\ ReceiptsWritten'
    BY <1>1, <1>2, <2>1, ReportsStay DEF Inv, ProcessesBuilt, BuiltFrom, Capped, ReceiptsWritten
  <2>7. Types'
    BY <1>1, <2>1, <2>2 DEF Inv, Types
  <2>8. QED
    BY <2>4, <2>5, <2>6, <2>7 DEF Inv
<1>4. CASE ~ok
  <2>1. Return(rep)
    BY <1>4 DEF VerifyAccess
  <2>2. TrueReport([rep EXCEPT !.returned = TRUE])
    <3> DEFINE e == [rep EXCEPT !.returned = TRUE]
    <3>1. /\ e \in Snapshot /\ e.allocation = rep.allocation /\ e.cap = rep.cap
          /\ e.paid = rep.paid /\ e.known = rep.known /\ e.over = rep.over /\ e.lost = rep.lost
          /\ e.status = rep.status /\ rep.known \in Nat
      BY <1>2 DEF Snapshot
    <3>2. rep.status # "passed"
      BY <1>2 DEF InProgress
    <3> HIDE DEF e, rep
    <3>3. TrueReport(e)
      BY <1>2, <3>1, <3>2 DEF TrueReport
    <3>4. QED
      BY <3>3 DEF e
  <2>3. QED
    BY <1>1, <1>2, <2>1, <2>2, ReturnKeepsInv
<1>5. QED
  BY <1>3, <1>4

\* The reservation of the task is made with its calls, and nothing else is.
LEMMA PaidCanaryKeepsInv ==
    ASSUME Inv, run # None, run.step = "next",
           NEW call \in Calls(Limits(procs["canary"].sha).task), NEW a, a = Allocation("canary"),
           Fits("canary", call), Pay(a, call),
           debit' = [debit EXCEPT ![a] = @ + Reserved(call)],
           reports' = [reports EXCEPT ![run.report].paid = @ + Cost(call),
                                      ![run.report].over = @ + Excess(call)],
           run' = [run EXCEPT !.step = "settle", !.call = call],
           UNCHANGED <<now, disk, receipts, written, procs, rows>>
    PROVE  Inv'
<1> DEFINE old == reports[run.report]
           rep == [old EXCEPT !.paid = @ + Cost(call), !.over = @ + Excess(call)]
           task == Limits(procs["canary"].sha).task
<1>1. /\ InProgress(old) /\ TrueReport(old) /\ old \in Snapshot /\ run \in RunType
      /\ old.paid = old.known /\ old.over = 0 /\ old.lost = 0
      /\ RowsKept /\ procs["canary"] # None /\ old.allocation = a
      /\ run.report \in Reports
  BY CanaryFacts DEF InProgress, TrueReport, RunType, RowsKept, Inv, RunTrue
<1>2. /\ a \in Allocations /\ rows[a] \in Row /\ rows[a].task = task /\ task \in Nat
      /\ debit[a] + Reserved(call) <= rows[a].app
  BY CanaryFacts DEF Row, Fits
<1>3. /\ call \in Call /\ Reserved(call) \in Nat /\ Reserved(call) <= task /\ Cost(call) \in Nat
      /\ Excess(call) \in Nat /\ Cost(call) <= Reserved(call) + Excess(call)
      /\ call.status = "succeeded" => Excess(call) = 0
  BY <1>2, CallFacts
<1>4. /\ debit \in [Allocations -> Int] /\ paid \in [Allocations -> Nat] /\ over \in [Allocations -> Nat]
      /\ reports \in [Reports -> Snapshot \cup {None}]
  BY DEF Inv, Types
<1>5. /\ paid' \in [Allocations -> Nat] /\ over' \in [Allocations -> Nat] /\ Capped'
      /\ paid'[a] = paid[a] + Cost(call) /\ over'[a] = over[a] + Excess(call)
      /\ \A b \in Allocations : b # a => paid'[b] = paid[b] /\ over'[b] = over[b]
  BY <1>2, PayKeepsCapped
<1>6. /\ debit' \in [Allocations -> Int] /\ debit'[a] = debit[a] + Reserved(call)
      /\ \A b \in Allocations : b # a => debit'[b] = debit[b]
  BY <1>2, <1>3, <1>4
<1>7. run' \in RunType /\ run'.step = "settle" /\ run'.report = run.report /\ run'.call = call
  BY <1>1, <1>3 DEF RunType
<1>8. reports' = [reports EXCEPT ![run.report] = rep]
  BY <1>1, <1>4 DEF Snapshot
<1>9. /\ rep \in Snapshot /\ rep.paid = old.known + Cost(call) /\ rep.known = old.known
      /\ rep.over = Excess(call) /\ rep.lost = 0
      /\ rep.allocation = a /\ rep.cap = old.cap /\ rep.status = old.status
      /\ rep.complete = old.complete /\ rep.returned = old.returned
  <2>1. old.known \in Nat /\ old.paid + Cost(call) \in Nat /\ old.over + Excess(call) \in Nat
    BY <1>1, <1>3 DEF Snapshot
  <2>2. old.over + Excess(call) = Excess(call)
    BY <1>1, <1>3
  <2>3. rep = [old EXCEPT !.paid = old.paid + Cost(call), !.over = old.over + Excess(call)]
    OBVIOUS
  <2> HIDE DEF old, rep
  <2>4. QED
    BY <1>1, <2>1, <2>2, <2>3 DEF Snapshot
<1>10. TrueReport(rep)
  <2>1. /\ rows[a] \in Row /\ rows[a].app <= old.cap /\ old.known \in Nat
        /\ old.status # "passed" /\ old.returned = FALSE
    BY <1>1 DEF TrueReport, InProgress, Snapshot
  <2> HIDE DEF rep, old, task
  <2>2. QED
    BY <1>2, <1>3, <1>9, <2>1 DEF TrueReport
<1> HIDE DEF rep
<1>11. /\ reports' \in [Reports -> Snapshot \cup {None}] /\ reports'[run.report] = rep /\ ReportsTrue'
  BY <1>8, <1>10, SnapshotStep
<1>12. RunTrue'
  <2>1. ASSUME NEW k, k = rep PROVE InProgress(k)'
    <3>1. TrueReport(k)'
      BY <1>1, <1>10, <2>1, TrueStays
    <3>2. /\ k.allocation = Allocation("canary")' /\ ~k.returned /\ k.complete
          /\ k.status \in {"blocked", "running"}
      BY <1>1, <1>9, <2>1 DEF InProgress, Allocation
    <3>3. k.lost = 0 /\ (call.status = "succeeded" => k.over = 0) /\ ~(k.lost > 0)
      BY <1>3, <1>9, <2>1
    <3>4. k.paid = k.known + Cost(call) + k.lost
      <4>1. k.known \in Nat
        BY <1>9, <2>1 DEF Snapshot
      <4>2. QED
        BY <1>3, <1>9, <2>1, <3>3, <4>1
    <3>5. QED
      BY <1>7, <3>1, <3>2, <3>3, <3>4 DEF InProgress, Cost
  <2>2. QED
    BY <1>1, <1>7, <1>11, <2>1 DEF RunTrue
<1>13. Covered'
  <2> SUFFICES ASSUME NEW b \in Allocations
               PROVE  paid'[b] + Outstanding(b)' <= debit'[b] + over'[b]
    BY DEF Covered
  <2>1. /\ Outstanding(b) = 0 /\ paid[b] + Outstanding(b) <= debit[b] + over[b]
        /\ paid[b] \in Nat /\ debit[b] \in Int /\ over[b] \in Nat
    BY <1>4 DEF Inv, Covered, Outstanding
  <2>2. CASE b = a
    <3>1. Outstanding(b)' \in {0, Reserved(call) + Excess(call) - Cost(call)}
      BY <1>7 DEF Outstanding, Reserved, Excess, Cost
    <3> HIDE DEF task
    <3>2. QED
      BY <1>3, <1>5, <1>6, <2>1, <2>2, <3>1
  <2>3. CASE b # a
    <3>1. Outstanding(b)' = 0
      BY <2>3 DEF Outstanding, Allocation
    <3>2. QED
      BY <1>5, <1>6, <2>1, <2>3, <3>1
  <2>4. QED
    BY <2>2, <2>3
<1>14. ProcessesBuilt' /\ ReceiptsWritten'
  BY DEF Inv, ProcessesBuilt, BuiltFrom, ReceiptsWritten
<1>15. Types'
  BY <1>5, <1>6, <1>7, <1>11 DEF Inv, Types
<1>16. QED
  BY <1>5, <1>11, <1>12, <1>13, <1>14, <1>15 DEF Inv

\* The gates refuse: the task fails with nothing paid.
LEMMA RefusedCanaryKeepsInv ==
    ASSUME Inv, run # None, run.step = "next",
           run' = [run EXCEPT !.step = "record", !.call = NoCall],
           UNCHANGED <<now, disk, receipts, written, procs, rows, debit, paid, over, reports>>
    PROVE  Inv'
<1> DEFINE rep == reports[run.report]
<1>1. /\ InProgress(rep) /\ TrueReport(rep) /\ rep \in Snapshot /\ run \in RunType
      /\ rep.paid = rep.known /\ rep.over = 0 /\ rep.lost = 0
      /\ RowsKept /\ procs["canary"] # None
      /\ Limits(procs["canary"].sha).task \in Nat
  BY CanaryFacts, ManifestFacts DEF InProgress, TrueReport, RunType, RowsKept, Inv, RunTrue
<1>2. NoCall \in Call /\ NoCall \in Calls(Limits(procs["canary"].sha).task) /\ Cost(NoCall) = 0
  BY <1>1, NoCallFacts
<1>3. run' \in RunType /\ run'.step = "record" /\ run'.report = run.report /\ run'.call = NoCall
  BY <1>1, <1>2 DEF RunType
<1>4. RunTrue'
  <2>1. ASSUME NEW k, k = rep PROVE InProgress(k)'
    <3>1. /\ InProgress(k) /\ TrueReport(k) /\ k.paid = k.known /\ k.known \in Nat
          /\ k.over = 0 /\ k.lost = 0
      BY <1>1, <2>1 DEF Snapshot
    <3>2. TrueReport(k)'
      BY <1>1, <3>1, TrueStays
    <3>3. k.paid = k.known + Cost(NoCall) + k.lost /\ ~(k.lost > 0)
      BY <1>2, <3>1
    <3>4. QED
      BY <1>2, <1>3, <3>1, <3>2, <3>3 DEF InProgress, Allocation, Cost
  <2>2. QED
    BY <1>1, <1>3, <2>1 DEF RunTrue
<1>5. Covered'
  <2>1. \A b \in Allocations : Outstanding(b)' = 0
    BY <1>3 DEF Outstanding
  <2>2. QED
    BY <2>1, CoveredStays
<1>6. ReportsTrue' /\ ProcessesBuilt' /\ Capped' /\ ReceiptsWritten'
  BY <1>1, ReportsStay DEF Inv, ProcessesBuilt, BuiltFrom, Capped, ReceiptsWritten
<1>7. Types'
  BY <1>3 DEF Inv, Types
<1>8. QED
  BY <1>4, <1>5, <1>6, <1>7 DEF Inv

LEMMA CallCanaryKeepsInv == ASSUME Inv, CallCanary PROVE Inv'
<1>1. /\ run # None /\ run.step = "next" /\ UNCHANGED <<now, disk, receipts, written, procs, rows>>
  BY DEF CallCanary, environment
<1>2. CASE \E call \in Calls(Limits(procs["canary"].sha).task) :
            LET a == Allocation("canary") IN
            /\ Fits("canary", call) /\ Pay(a, call)
            /\ debit' = [debit EXCEPT ![a] = @ + Reserved(call)]
            /\ reports' = [reports EXCEPT ![run.report].paid = @ + Cost(call),
                                         ![run.report].over = @ + Excess(call)]
            /\ run' = [run EXCEPT !.step = "settle", !.call = call]
  BY <1>1, <1>2, PaidCanaryKeepsInv
<1>3. CASE /\ run' = [run EXCEPT !.step = "record", !.call = NoCall]
           /\ UNCHANGED <<debit, paid, over, reports>>
  BY <1>1, <1>3, RefusedCanaryKeepsInv
<1>4. QED
  BY <1>2, <1>3 DEF CallCanary

\* The debit that a settlement leaves, or does not reach, covers what was paid.
LEMMA SettleCanaryKeepsInv == ASSUME Inv, SettleCanary PROVE Inv'
<1> DEFINE rep == reports[run.report]
           a == Allocation("canary")
           c == run.call
           settled == debit[a] - c.bound + c.known
<1>1. /\ run # None /\ run.step = "settle"
      /\ UNCHANGED <<now, disk, receipts, written, reports, procs, rows, paid, over>>
  BY DEF SettleCanary, environment, files
<1>2. /\ InProgress(rep) /\ TrueReport(rep) /\ run \in RunType /\ RowsKept
      /\ procs["canary"] # None /\ c \in Calls(rows[a].task) /\ rows[a].task \in Nat
      /\ a \in Allocations /\ rows[a].task = Limits(procs["canary"].sha).task
  BY <1>1, CanaryFacts DEF InProgress, TrueReport, RowsKept, Inv, RunTrue, Row
<1>3. PICK d \in {settled, debit[a]}, n \in {c, [c EXCEPT !.status = "failed"]} :
        debit' = [debit EXCEPT ![a] = d] /\ run' = [run EXCEPT !.step = "record", !.call = n]
  <2>1. CASE debit' = [debit EXCEPT ![a] = settled] /\ run' = [run EXCEPT !.step = "record"]
    <3>1. run' = [run EXCEPT !.step = "record", !.call = c]
      BY <1>2, <2>1 DEF RunType
    <3>2. QED
      BY <2>1, <3>1
  <2>2. CASE /\ \E d \in {settled, debit[a]} : debit' = [debit EXCEPT ![a] = d]
             /\ run' = [run EXCEPT !.step = "record", !.call.status = "failed"]
    <3>1. run' = [run EXCEPT !.step = "record", !.call = [c EXCEPT !.status = "failed"]]
      BY <1>2, <2>2 DEF RunType
    <3>2. QED
      BY <2>2, <3>1
  <2>3. QED
    BY <2>1, <2>2 DEF SettleCanary
<1>4. /\ c \in Call /\ c.bound \in Nat /\ c.hold \in Nat /\ c.known \in Nat /\ c.hidden \in Nat
      /\ Excess(c) \in Nat /\ c.hidden <= c.hold + Excess(c)
      /\ Cost(c) = c.known + c.hidden /\ Reserved(c) = c.bound + c.hold
      /\ Cost(c) <= Reserved(c) + Excess(c)
  BY <1>2, CallFacts DEF Call, Cost, Reserved
<1>5. n \in Calls(rows[a].task) /\ n \in Call /\ Cost(n) = Cost(c)
      /\ (n.status = "succeeded" => c.status = "succeeded")
  <2>1. n \in Calls(rows[a].task)
    BY <1>2, <1>3, CallFacts
  <2>2. n \in Call /\ n.known = c.known /\ n.hidden = c.hidden /\ (n.status = "succeeded" => n = c)
    BY <1>2, <1>3, <1>4, <2>1, CallFacts DEF Call
  <2>3. QED
    BY <2>1, <2>2 DEF Cost
<1>6. debit \in [Allocations -> Int] /\ paid \in [Allocations -> Nat] /\ over \in [Allocations -> Nat]
  BY DEF Inv, Types
<1>7. paid[a] + (Reserved(c) + Excess(c) - Cost(c)) <= debit[a] + over[a]
  BY <1>1, <1>2 DEF Inv, Covered, Outstanding
<1>8. debit[a] \in Int /\ paid[a] \in Nat /\ over[a] \in Nat
  BY <1>2, <1>6
<1>9. d \in Int /\ paid[a] <= d + over[a]
  BY <1>3, <1>4, <1>7, <1>8
<1> HIDE DEF settled
<1>10. /\ debit' \in [Allocations -> Int] /\ debit'[a] = d
       /\ \A b \in Allocations : b # a => debit'[b] = debit[b]
  BY <1>2, <1>3, <1>6, <1>9
<1>11. run' \in RunType /\ run'.step = "record" /\ run'.report = run.report /\ run'.call = n
  BY <1>2, <1>3, <1>5 DEF RunType
<1>12. RunTrue'
  <2>1. ASSUME NEW k, k = rep PROVE InProgress(k)'
    <3>1. InProgress(k) /\ TrueReport(k)
      BY <1>2, <2>1
    <3>2. TrueReport(k)'
      BY <1>2, <3>1, TrueStays
    <3>3. /\ k.paid = k.known + Cost(n) + k.lost /\ ~(k.lost > 0)
          /\ (n.status = "succeeded" => k.over = 0)
      BY <1>1, <1>5, <3>1 DEF InProgress
    <3>4. QED
      BY <1>1, <1>2, <1>5, <1>11, <3>1, <3>2, <3>3 DEF InProgress, Allocation, Cost
  <2>2. QED
    BY <1>1, <1>2, <1>11, <2>1 DEF RunTrue
<1>13. Covered'
  <2> SUFFICES ASSUME NEW b \in Allocations PROVE paid[b] <= debit'[b] + over[b]
    <3>1. \A b \in Allocations : Outstanding(b)' = 0
      BY <1>11 DEF Outstanding
    <3>2. QED
      BY <1>1, <1>6, <3>1 DEF Covered
  <2>1. Outstanding(b) \in Nat /\ paid[b] + Outstanding(b) <= debit[b] + over[b]
    BY OutstandingNat DEF Inv, Covered
  <2>2. CASE b = a
    BY <1>9, <1>10, <2>2
  <2>3. CASE b # a
    BY <1>6, <1>10, <2>1, <2>3
  <2>4. QED
    BY <2>2, <2>3
<1>14. ReportsTrue' /\ ProcessesBuilt' /\ Capped' /\ ReceiptsWritten'
  BY <1>1, <1>2, ReportsStay DEF Inv, ProcessesBuilt, BuiltFrom, Capped, ReceiptsWritten
<1>15. Types'
  BY <1>1, <1>10, <1>11 DEF Inv, Types
<1>16. QED
  BY <1>12, <1>13, <1>14, <1>15 DEF Inv

\* What a lost classification cost is all that the report then lacks.
LEMMA LoseClassificationKeepsInv == ASSUME Inv, LoseClassification PROVE Inv'
<1> DEFINE old == reports[run.report]
           rep == [old EXCEPT !.lost = Cost(run.call)]
           task == Limits(procs["canary"].sha).task
<1>1. /\ run # None /\ run.step = "settle" /\ old.tasks + 1 = old.of
      /\ reports' = [reports EXCEPT ![run.report].lost = Cost(run.call)]
      /\ run' = [run EXCEPT !.step = "record", !.call = NoCall]
      /\ UNCHANGED <<now, disk, receipts, written, procs, rows, debit, paid, over>>
  BY DEF LoseClassification, EndToEnd, environment, money
<1>2. /\ InProgress(old) /\ TrueReport(old) /\ old \in Snapshot /\ run \in RunType
      /\ RowsKept /\ procs["canary"] # None /\ old.allocation = Allocation("canary")
      /\ run.report \in Reports /\ task \in Nat /\ run.call \in Calls(task)
      /\ old.paid = old.known + Cost(run.call) + old.lost /\ ~(old.lost > 0)
  BY <1>1, CanaryFacts, ManifestFacts DEF InProgress, TrueReport, RunType, RowsKept, Inv, RunTrue
<1>3. /\ Cost(run.call) \in Nat /\ NoCall \in Call /\ NoCall \in Calls(task) /\ Cost(NoCall) = 0
      /\ NoCall.status = "failed"
  BY <1>2, CallFacts, NoCallFacts
<1>4. run' \in RunType /\ run'.step = "record" /\ run'.report = run.report /\ run'.call = NoCall
  BY <1>1, <1>2, <1>3 DEF RunType
<1>5. reports' = [reports EXCEPT ![run.report] = rep]
  BY <1>1, <1>2 DEF Inv, Types
<1>6. /\ rep \in Snapshot /\ rep.paid = old.paid /\ rep.known = old.known /\ rep.over = old.over
      /\ rep.lost = Cost(run.call) /\ rep.tasks = old.tasks /\ rep.of = old.of
      /\ rep.allocation = old.allocation /\ rep.cap = old.cap /\ rep.status = old.status
      /\ rep.complete = old.complete /\ rep.returned = old.returned
  BY <1>2, <1>3 DEF Snapshot
<1>7. /\ ~old.returned /\ old.complete /\ old.status \in {"blocked", "running"}
      /\ old.known \in Nat /\ old.lost \in Nat
  BY <1>2 DEF InProgress, Snapshot
<1> HIDE DEF rep
<1>8. TrueReport(rep)
  BY <1>2, <1>6, <1>7 DEF TrueReport
<1>9. /\ reports' \in [Reports -> Snapshot \cup {None}] /\ reports'[run.report] = rep /\ ReportsTrue'
  BY <1>1, <1>5, <1>8, SnapshotStep
<1>10. RunTrue'
  <2>1. ASSUME NEW k, k = rep PROVE InProgress(k)'
    <3>1. TrueReport(k)'
      BY <1>2, <1>8, <2>1, TrueStays
    <3>2. k.paid = k.known + Cost(NoCall) + k.lost
      BY <1>2, <1>3, <1>6, <1>7, <2>1
    <3>3. QED
      BY <1>1, <1>2, <1>3, <1>4, <1>6, <1>7, <2>1, <3>1, <3>2 DEF InProgress, Allocation, Cost
  <2>2. QED
    BY <1>1, <1>2, <1>4, <1>9, <2>1 DEF RunTrue
<1>11. Covered'
  <2>1. \A b \in Allocations : Outstanding(b)' = 0
    BY <1>4 DEF Outstanding
  <2>2. QED
    BY <1>1, <2>1, CoveredStays
<1>12. ProcessesBuilt' /\ Capped' /\ ReceiptsWritten'
  BY <1>1 DEF Inv, ProcessesBuilt, BuiltFrom, Capped, ReceiptsWritten
<1>13. Types'
  BY <1>1, <1>4, <1>9 DEF Inv, Types
<1>14. QED
  BY <1>9, <1>10, <1>11, <1>12, <1>13 DEF Inv

LEMMA RaiseCanaryKeepsInv == ASSUME Inv, RaiseCanary PROVE Inv'
<1> DEFINE rep == reports[run.report]
           s == Uncertain(rep)
<1>1. /\ run # None /\ Return(s) /\ UNCHANGED <<now, disk, receipts, written, rows, debit, paid, over>>
  BY DEF RaiseCanary, environment, money
<1>2. TrueReport(rep) /\ rep \in Snapshot
  BY <1>1, CanaryFacts DEF InProgress, TrueReport
<1>3. s \in Snapshot
  BY <1>2 DEF Uncertain, Snapshot, ReportStatuses
<1>4. TrueReport([s EXCEPT !.returned = TRUE])
  BY <1>2 DEF TrueReport, Uncertain, Snapshot, ReportStatuses
<1>5. QED
  BY <1>1, <1>3, <1>4, ReturnKeepsInv

\* With the call recorded the report lacks nothing but what no one knows the cost of and
\* what a lost classification cost.
LEMMA RecordedIsTrue ==
    ASSUME Inv, run # None, run.step = "record", NEW s,
           s = Recorded(reports[run.report], run.call)
    PROVE  /\ s \in Snapshot /\ TrueReport([s EXCEPT !.returned = TRUE])
           /\ s.status = "running" => /\ TrueReport(s) /\ s.complete /\ ~s.returned
                                      /\ s.paid = s.known /\ s.over = 0 /\ s.lost = 0
                                      /\ s.allocation = Allocation("canary")
<1> DEFINE rep == reports[run.report]
           c == run.call
           e == [s EXCEPT !.returned = TRUE]
           task == Limits(procs["canary"].sha).task
<1>1. /\ TrueReport(rep) /\ rep \in Snapshot /\ c \in Calls(task) /\ task \in Nat
      /\ rep.paid = rep.known + Cost(c) + rep.lost /\ rep.complete /\ ~rep.returned
      /\ rep.lost > 0 => c = NoCall /\ rep.tasks + 1 = rep.of
      /\ c.status = "succeeded" => rep.over = 0
      /\ rep.allocation = Allocation("canary") /\ rows[rep.allocation].task = task
  BY CanaryFacts, ManifestFacts DEF InProgress, TrueReport
<1>2. /\ c \in Call /\ c.known \in Nat /\ c.hidden \in Nat /\ Cost(c) = c.known + c.hidden
      /\ (c.reported => c.hidden = 0) /\ c.reported \in BOOLEAN
      /\ (c.status = "succeeded" => c.reported)
      /\ (rep.lost > 0 => c.reported /\ c.status = "failed")
  BY <1>1, CallFacts, NoCallFacts DEF Call, Cost
<1>3. /\ rep.tasks \in Nat /\ rep.known \in Nat /\ rep.complete \in BOOLEAN /\ rep.paid \in Nat
      /\ rep.over \in Nat /\ rep.lost \in Nat
  BY <1>1 DEF Snapshot
<1>4. /\ s \in Snapshot /\ s.allocation = rep.allocation /\ s.cap = rep.cap /\ s.paid = rep.paid
      /\ s.over = rep.over /\ s.lost = rep.lost
      /\ s.known = rep.known + c.known /\ s.complete = (rep.complete /\ c.reported)
      /\ s.tasks = rep.tasks + 1 /\ s.of = rep.of /\ s.returned = rep.returned
      /\ s.status \in {"passed", "running"} => c.reported /\ c.status = "succeeded"
      /\ c.reported /\ c.status = "failed" => s.status = "failed"
      /\ s.status = "passed" => s.tasks = s.of
  <2> DEFINE st == CASE ~c.reported -> "blocked_on_unknown_cost"
                     [] c.reported /\ c.status # "succeeded" -> "failed"
                     [] OTHER -> IF rep.tasks + 1 = rep.of THEN "passed" ELSE "running"
  <2>1. /\ st \in ReportStatuses
        /\ st \in {"passed", "running"} => c.reported /\ c.status = "succeeded"
        /\ c.reported /\ c.status = "failed" => st = "failed"
        /\ st = "passed" => rep.tasks + 1 = rep.of
    BY <1>2 DEF ReportStatuses
  <2>2. s = [rep EXCEPT !.tasks = @ + 1, !.known = @ + c.known,
                        !.complete = @ /\ c.reported, !.status = st]
    BY DEF Recorded
  <2>3. /\ rep.tasks + 1 \in Nat /\ rep.known + c.known \in Nat
        /\ (rep.complete /\ c.reported) \in BOOLEAN
    BY <1>2, <1>3
  <2> HIDE DEF st, rep, c
  <2>4. QED
    BY <1>1, <2>1, <2>2, <2>3 DEF Snapshot
<1>5. /\ e \in Snapshot /\ e.allocation = rep.allocation /\ e.cap = rep.cap /\ e.paid = rep.paid
      /\ e.known = s.known /\ e.complete = s.complete /\ e.tasks = s.tasks /\ e.of = s.of
      /\ e.status = s.status /\ e.returned = TRUE /\ e.over = s.over /\ e.lost = s.lost
  BY <1>4 DEF Snapshot
<1>6. /\ rows[rep.allocation] \in Row /\ rows[rep.allocation].app <= rep.cap
      /\ rep.paid - rep.known <= task + rep.over
  BY <1>1 DEF TrueReport
<1> HIDE DEF rep, c, e, task
<1>7. /\ s.known <= s.paid /\ s.paid - s.known <= task + s.over
      /\ s.complete => s.known + s.lost = s.paid
      /\ s.lost > 0 => s.status = "failed" /\ s.tasks = s.of
      /\ s.status \in {"passed", "running"} =>
            s.complete /\ s.lost = 0 /\ s.over = 0 /\ s.known = s.paid
  BY <1>1, <1>2, <1>3, <1>4, <1>6
<1>8. TrueReport(e)
  BY <1>1, <1>4, <1>5, <1>6, <1>7 DEF TrueReport
<1>9. ASSUME s.status = "running"
      PROVE  TrueReport(s) /\ s.complete /\ s.paid = s.known /\ s.over = 0 /\ s.lost = 0
  BY <1>1, <1>2, <1>4, <1>6, <1>7, <1>9 DEF TrueReport
<1>10. QED
  BY <1>1, <1>4, <1>8, <1>9 DEF e

LEMMA RecordCanaryKeepsInv == ASSUME Inv, RecordCanary PROVE Inv'
<1> DEFINE s == Recorded(reports[run.report], run.call)
<1>1. /\ run # None /\ run.step = "record"
      /\ UNCHANGED <<now, disk, receipts, written, rows, debit, paid, over>>
  BY DEF RecordCanary, environment, money
<1>2. /\ s \in Snapshot /\ TrueReport([s EXCEPT !.returned = TRUE])
      /\ s.status = "running" => /\ TrueReport(s) /\ s.complete /\ ~s.returned
                                 /\ s.paid = s.known /\ s.over = 0 /\ s.lost = 0
                                 /\ s.allocation = Allocation("canary")
  BY <1>1, RecordedIsTrue
<1>3. IF s.status = "running"
      THEN /\ reports' = [reports EXCEPT ![run.report] = s]
           /\ run' = Running(run.report, "next") /\ UNCHANGED procs
      ELSE Return(s)
  BY DEF RecordCanary
<1> HIDE DEF s
<1>4. CASE s.status = "running"
  <2>1. /\ reports' = [reports EXCEPT ![run.report] = s] /\ run.report \in Reports
        /\ run' = Running(run.report, "next") /\ UNCHANGED procs /\ procs["canary"] # None
    BY <1>1, <1>3, <1>4, CanaryFacts DEF RunType, Inv, RunTrue
  <2>2. run' \in RunType /\ run'.step = "next" /\ run'.report = run.report
    BY <2>1 DEF Running, RunType
  <2>3. /\ reports' \in [Reports -> Snapshot \cup {None}] /\ reports'[run.report] = s /\ ReportsTrue'
    BY <1>1, <1>2, <1>4, <2>1, SnapshotStep
  <2>4. RunTrue'
    <3>1. ASSUME NEW k, k = s PROVE InProgress(k)'
      <4>1. TrueReport(k)'
        BY <1>1, <1>2, <1>4, <3>1, TrueStays DEF RowsKept
      <4>2. QED
        BY <1>2, <1>4, <2>1, <2>2, <3>1, <4>1 DEF InProgress, Allocation
    <3>2. QED
      BY <2>1, <2>2, <2>3, <3>1 DEF RunTrue
  <2>5. Covered'
    <3>1. \A b \in Allocations : Outstanding(b)' = 0
      BY <2>2 DEF Outstanding
    <3>2. QED
      BY <1>1, <3>1, CoveredStays
  <2>6. ProcessesBuilt' /\ Capped' /\ ReceiptsWritten'
    BY <1>1, <2>1 DEF Inv, ProcessesBuilt, BuiltFrom, Capped, ReceiptsWritten
  <2>7. Types'
    BY <1>1, <2>1, <2>2, <2>3 DEF Inv, Types
  <2>8. QED
    BY <2>3, <2>4, <2>5, <2>6, <2>7 DEF Inv
<1>5. CASE s.status # "running"
  BY <1>1, <1>2, <1>3, <1>5, ReturnKeepsInv
<1>6. QED
  BY <1>4, <1>5
-----------------------------------------------------------------------------
LEMMA InitInv == Init => Inv
<1> SUFFICES ASSUME Init PROVE Inv
  OBVIOUS
<1>1. Types
  BY DEF Init, Types
<1>2. ReceiptsWritten /\ ProcessesBuilt /\ ReportsTrue /\ RunTrue
  BY DEF Init, ReceiptsWritten, ProcessesBuilt, ReportsTrue, RunTrue, Processes
<1>3. Covered /\ Capped
  BY DEF Init, Covered, Capped, Outstanding
<1>4. QED
  BY <1>1, <1>2, <1>3 DEF Inv

LEMMA NextInv == Inv /\ [Next]_vars => Inv'
<1> SUFFICES ASSUME Inv, [Next]_vars PROVE Inv'
  OBVIOUS
<1>1. CASE Tick
  BY <1>1, TickKeepsInv
<1>2. CASE Change
  BY <1>2, ChangeKeepsInv
<1>3. CASE \E path \in Receipts : Activate(path) \/ Serve(path)
  BY <1>3, ActivateKeepsInv, ServeKeepsInv
<1>4. CASE \E proc \in Processes : Die(proc)
  BY <1>4, DieKeepsInv
<1>5. CASE Execute
  BY <1>5, ExecuteKeepsInv
<1>6. CASE \E receipt \in Receipts, path \in Reports, cap \in Caps :
             StartCanary(receipt, path, cap) \/ RefuseCanary(receipt, path, cap)
  BY <1>6, StartCanaryKeepsInv, RefuseCanaryKeepsInv
<1>7. CASE \E ok \in BOOLEAN : VerifyAccess(ok)
  BY <1>7, VerifyAccessKeepsInv
<1>8. CASE CallCanary \/ SettleCanary \/ LoseClassification \/ RaiseCanary \/ RecordCanary
  BY <1>8, CallCanaryKeepsInv, SettleCanaryKeepsInv, LoseClassificationKeepsInv,
     RaiseCanaryKeepsInv, RecordCanaryKeepsInv
<1>9. CASE UNCHANGED vars
  <2>1. /\ UNCHANGED <<now, disk, receipts, written>>
        /\ UNCHANGED <<procs, rows, debit, paid, over, reports, run>> /\ written \subseteq written'
    BY <1>9 DEF vars
  <2>2. Types' /\ ReceiptsWritten'
    BY <2>1 DEF Inv, Types, ReceiptsWritten
  <2>3. QED
    BY <2>1, <2>2, MoneyAside DEF Inv
<1>10. QED
  BY <1>1, <1>2, <1>3, <1>4, <1>5, <1>6, <1>7, <1>8, <1>9 DEF Next

LEMMA InvHolds == Spec => []Inv
<1>1. QED
  BY InitInv, NextInv, PTL DEF Spec

\* But for calls that cost more than was reserved for them, the allocation a report names
\* never pays more than the cap of any canary on it: a call was paid only when what had
\* been paid, and its own reservation, fitted the ceiling the allocation was created with.
THEOREM CanaryWithinCap == Spec => []CanarySpendWithinCap
<1>1. Inv => CanarySpendWithinCap
  <2> SUFFICES ASSUME Inv, NEW p \in Reports, reports[p] # None
               PROVE  paid[reports[p].allocation] <= reports[p].cap + over[reports[p].allocation]
    BY DEF CanarySpendWithinCap
  <2> DEFINE rep == reports[p]
             a == rep.allocation
  <2>1. rep \in Snapshot /\ rows[a] \in Row /\ rows[a].app <= rep.cap
    BY DEF Inv, ReportsTrue, TrueReport
  <2>2. a \in Allocations /\ rows[a] # None /\ rows[a].app \in Nat /\ rep.cap \in Nat
    BY <2>1, ReleaseAssumption DEF Snapshot, Row
  <2>3. paid[a] \in Nat /\ over[a] \in Nat /\ paid[a] <= rows[a].app + over[a]
    BY <2>2 DEF Inv, Types, Capped
  <2> HIDE DEF rep, a
  <2>4. QED
    BY <2>1, <2>2, <2>3 DEF rep, a
<1>2. QED
  BY <1>1, InvHolds, PTL

\* A report written after every task, by a process that may die at any step, never
\* claims what was not paid; it is complete when it says so, but for a classification
\* that preflight no longer let the failed end-to-end case price.
THEOREM ReportsAreTruthful == Spec => []ReportTruthful
<1>1. Inv => ReportTruthful
  BY DEF Inv, ReportsTrue, TrueReport, ReportTruthful
<1>2. QED
  BY <1>1, InvHolds, PTL
-----------------------------------------------------------------------------
(* Paid calls.                                                             *)

\* Preflight without a blocker has seen the database, the key and evidence that still
\* names a provider.
LEMMA PreflightCovers ==
    ASSUME NEW r, NEW w, NEW t, Ready(r, w, t), Live(r),
           DOMAIN r.models \cap OwnComponents = {},
           Enabled(r) # {} \/ "live_classifier" \in r.ops
    PROVE  w.reachable /\ w.key = r.evidence.key /\ t < r.evidence.at + r.freshness
<1> DEFINE e == CollectEvidence(r, w, t)
           failing(checks) == {c \in DOMAIN checks : ~checks[c]}
           live == LiveChecks(r, w, e, t)
           service == ServiceChecks(r, w, e, t)
<1>1. "live" \in Checks(r) /\ "service" \in Checks(r)
  BY DEF Checks
<1>2. Group("live", r, w, e, t) = live /\ Group("service", r, w, e, t) = service
  BY DEF Group
<1>3. UNION {failing(Group(g, r, w, e, t)) : g \in Checks(r)} = {}
  BY DEF Ready, Blockers
<1> HIDE DEF live, service, e
<1>4. failing(live) = {} /\ failing(service) = {}
  BY <1>1, <1>2, <1>3
<1>5. /\ r.evidence # None /\ w.key = r.evidence.key /\ Enabled(r) \subseteq e.components
      /\ "live_classifier" \in r.ops => "classifier" \in e.components
  <2>1. /\ {"live_credential_evidence", "live_health"} \subseteq DOMAIN live
        /\ live["live_credential_evidence"] = (r.evidence # None /\ w.key = r.evidence.key)
        /\ live["live_health"] = (/\ Enabled(r) \subseteq e.components
                                  /\ "live_classifier" \in r.ops => "classifier" \in e.components)
    BY DEF live, LiveChecks
  <2>2. QED
    BY <1>4, <2>1
<1>6. e.reachable
  <2>1. /\ "database_connectivity" \in DOMAIN service
        /\ service["database_connectivity"] = (e.reachable /\ e.dialect \in r.dialects)
    BY DEF service, ServiceChecks
  <2>2. QED
    BY <1>4, <2>1
<1> DEFINE seen == {"configuration", "database"} \cup ObservedModels(r, t)
                   \cup (IF StorageReady(r, w) THEN {"telemetry"} ELSE {})
                   \cup (IF ObservedModels(r, t) # {} /\ "live_classifier" \in r.ops
                         THEN {"classifier"} ELSE {})
<1>7. w.reachable /\ e.components = seen
  BY <1>6 DEF e, CollectEvidence
<1>8. ObservedModels(r, t) # {}
  <2>1. CASE "live_classifier" \in r.ops
    BY <1>5, <1>7, <2>1
  <2>2. CASE "live_classifier" \notin r.ops
    <3>1. PICK m \in Enabled(r) : m \in seen
      BY <1>5, <1>7, <2>2
    <3>2. m \notin OwnComponents
      BY DEF Enabled
    <3>3. QED
      BY <3>1, <3>2 DEF OwnComponents
  <2>3. QED
    BY <2>1, <2>2
<1>9. t < r.evidence.at + r.freshness
  BY <1>8 DEF ObservedModels
<1>10. QED
  BY <1>5, <1>7, <1>9

\* What holds at a paid call of a process.
LEMMA PaidByCovers ==
    ASSUME Inv, NEW p \in Processes, procs[p] # None, Check(p), "live_provider" \in procs[p].ops,
           \/ Enabled(Manifests[procs[p].sha]) # {}
           \/ "live_classifier" \in procs[p].ops
    PROVE  LET r == Manifests[disk.sha] IN
           /\ disk.intact
           /\ procs[p] \in written /\ procs[p].sha = disk.sha
           /\ now < r.evidence.at + r.freshness
           /\ Worlds[world].reachable /\ Worlds[world].key = r.evidence.key
<1> DEFINE r == Manifests[disk.sha]
<1>1. /\ disk.intact /\ Load(disk) = disk.sha /\ disk.sha \in Hashes /\ procs[p].sha = disk.sha
      /\ Ready(r, Worlds[world], now)
  BY LoadFacts DEF Inv, Check, Passes
<1>2. procs[p] \in written /\ procs[p].ops = r.ops
  BY <1>1 DEF Inv, ProcessesBuilt, BuiltFrom
<1>3. Live(r) /\ DOMAIN r.models \cap OwnComponents = {}
  BY <1>1, <1>2, ReleaseAssumption DEF Live
<1>4. Enabled(r) # {} \/ "live_classifier" \in r.ops
  BY <1>1, <1>2
<1> HIDE DEF r
<1>5. /\ Worlds[world].reachable /\ Worlds[world].key = r.evidence.key
      /\ now < r.evidence.at + r.freshness
  BY <1>1, <1>3, <1>4, PreflightCovers
<1>6. QED
  BY <1>1, <1>2, <1>5 DEF r

\* Money leaves only through a process whose receipt activate wrote for the release on
\* disk at that moment, under evidence that is still valid and of the key in use: the
\* repeated preflight covers it whatever was edited, aged or changed since activation.
THEOREM PaidCallsAreCovered == Spec => PaidCallCovered
<1> DEFINE r == Manifests[disk.sha]
           covered == /\ disk.intact
                      /\ \E p \in Processes : procs[p] \in written /\ procs[p].sha = disk.sha
                      /\ now < r.evidence.at + r.freshness
                      /\ Worlds[world].reachable /\ Worlds[world].key = r.evidence.key
<1>1. Inv /\ [Next]_vars => [paid' # paid => covered]_vars
  <2> SUFFICES ASSUME Inv, Next, paid' # paid PROVE covered
    BY DEF vars
  <2>1. Execute \/ CallCanary
    BY DEF Next, Tick, Change, Activate, Serve, Die, StartCanary, VerifyAccess, SettleCanary,
           RefuseCanary, LoseClassification, RaiseCanary, RecordCanary, money
  <2>2. CASE Execute
    <3>1. /\ "serve" \in Processes /\ procs["serve"] # None /\ Check("serve")
          /\ "execute" \in procs["serve"].ops
          /\ \/ Enabled(Manifests[procs["serve"].sha]) # {}
             \/ "live_classifier" \in procs["serve"].ops
      BY <2>2 DEF Execute, Processes
    <3>2. procs["serve"].ops = Manifests[procs["serve"].sha].ops /\ procs["serve"].sha \in Hashes
      BY <3>1 DEF Inv, Types, ProcessesBuilt, BuiltFrom, ReceiptType
    <3>3. "live_provider" \in procs["serve"].ops
      BY <3>1, <3>2, ManifestFacts DEF SurfaceValid
    <3>4. QED
      BY <3>1, <3>3, PaidByCovers
  <2>3. CASE CallCanary
    <3>1. run # None /\ Check("canary") /\ "canary" \in Processes
      BY <2>3 DEF CallCanary, Processes
    <3>2. procs["canary"] # None /\ {"live_provider", "live_classifier"} \subseteq procs["canary"].ops
      BY <3>1 DEF Inv, RunTrue, ProcessesBuilt
    <3>3. QED
      BY <3>1, <3>2, PaidByCovers
  <2>4. QED
    BY <2>1, <2>2, <2>3
<1>2. Spec => [][paid' # paid => covered]_vars
  BY <1>1, InvHolds, PTL DEF Spec
<1>3. QED
  BY <1>2 DEF PaidCallCovered
=============================================================================
