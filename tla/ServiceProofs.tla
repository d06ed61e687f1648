--------------------------- MODULE ServiceProofs ---------------------------
(***************************************************************************)
(* Proofs about three parts of the service, each in a section of its own:  *)
(* routing previews (Preview), health circuits (HealthCircuit) and shadow  *)
(* experiments (Shadow), for every value of their constants.               *)
(***************************************************************************)
EXTENDS Preview, HealthCircuit, Shadow, SumTheorems, FiniteSetTheorems, TLAPS

-----------------------------------------------------------------------------
(***************************************************************************)
(* Preview.  A step of a submission touches only its own state x, record   *)
(* r, reservation l and number of calls n, so the invariant is mostly      *)
(* about these: Accounted is what must survive a crash at any point, and   *)
(* Stage what the submission knows at each point.  Only UniqueKeys relates *)
(* two submissions, and only a claim can disturb it.                       *)
(***************************************************************************)

Before(r, status, cost, l, state) ==
    r.status = status /\ r.cost = cost /\ l.state = state

SettleStage(x, r, n) ==
    /\ r.status = "accounted"
    /\ r.actual = x.actual /\ r.actual \in Nat
    /\ \/ r.cost = "known" /\ n = 1
       \/ r.cost = "not_incurred" /\ n = 0 /\ x.failed

Paid(r, l, n) ==
    /\ l = [state |-> "settled", actual |-> r.actual]
    /\ r.actual \in Nat /\ r.cost = "known" /\ r.status = "accounted" /\ n = 1

Stage(x, r, l, n) ==
    /\ x.pc \in {"new", "claim", "decide"} => Before(r, "absent", "not_incurred", l, "free") /\ n = 0
    /\ x.pc \in {"pin", "admit"} => Before(r, "claimed", "not_incurred", l, "free") /\ n = 0
    /\ x.pc = "intent" => Before(r, "claimed", "not_incurred", l, "held") /\ n = 0
    /\ x.pc = "recheck" => Before(r, "started", "unknown", l, "held") /\ n = 0
    /\ x.pc = "account" => Before(r, "started", "unknown", l, "held") /\ n = 1
    /\ x.pc = "settle" => SettleStage(x, r, n) /\ l.state = "held"
    /\ x.pc = "settled" => /\ SettleStage(x, r, n)
                           /\ l = [state |-> "settled", actual |-> r.actual]
    /\ x.pc \in {"classified", "route"} => Paid(r, l, n) /\ r.settled
    /\ x.pc = "stop" => /\ r.status # "absent"
                        /\ n > 0 => r.status # "claimed"
                        /\ x.verdict = "blocked" => l.state # "held"
    /\ x.pc \in Owning \ {"stop"} => x.verdict = "blocked"

\* The part of the properties that is about one submission.
Accounted(r, l, n) ==
    /\ n > 0 => n = 1 /\ l.state # "free" /\ r.status \notin {"absent", "claimed"}
    /\ l.state = "settled" => r.actual = l.actual /\ r.cost # "unknown"
    /\ r.cost = "not_incurred" => n = 0
    /\ r.cost = "known" => n = 1
    /\ r.status \in {"blocked", "completed"} => l.state # "held"
    /\ r.status = "completed" => n = 1 /\ r.settled /\ r.actual <= Estimate

Local(x, r, l, n) == Stage(x, r, l, n) /\ Accounted(r, l, n)

UniqueKeys ==
    \A s, t \in Submissions :
        (row[s].status # "absent" /\ row[t].status # "absent" /\ SameKey(s, t)) => s = t

Inv == /\ TypeOK
       /\ \A s \in Submissions : Local(sub[s], row[s], ledger[s], calls[s])
       /\ UniqueKeys
-----------------------------------------------------------------------------
\* A step that gives one submission a coherent state, record, reservation and
\* count, and creates a record only under a new key, keeps the invariant.
LEMMA StepKeepsInv ==
    ASSUME Inv, NEW s \in Submissions,
           NEW x \in Sub, NEW r \in Record, NEW l \in Reservation, NEW n \in Nat,
           sub' = [sub EXCEPT ![s] = x], row' = [row EXCEPT ![s] = r],
           ledger' = [ledger EXCEPT ![s] = l], calls' = [calls EXCEPT ![s] = n],
           lock' \in [Allocations -> Submissions \cup {NoSubmission}],
           Local(x, r, l, n),
           \/ r.status = "absent" \/ row[s].status # "absent"
           \/ \A t \in Existing : ~SameKey(s, t)
    PROVE  Inv'
<1>1. TypeOK'
  BY DEF Inv, TypeOK
<1>2. ASSUME NEW t \in Submissions PROVE Local(sub[t], row[t], ledger[t], calls[t])'
  <2>1. Local(sub[t], row[t], ledger[t], calls[t]) BY DEF Inv
  <2>2. CASE t = s
    <3>1. sub'[t] = x /\ row'[t] = r /\ ledger'[t] = l /\ calls'[t] = n
      BY <2>2 DEF Inv, TypeOK
    <3>2. Local(sub'[t], row'[t], ledger'[t], calls'[t]) BY <3>1
    <3> QED BY <3>2 DEF Local, Stage, Accounted, SettleStage, Paid, Before
  <2>3. CASE t # s
    <3>1. sub'[t] = sub[t] /\ row'[t] = row[t] /\ ledger'[t] = ledger[t] /\ calls'[t] = calls[t]
      BY <2>3 DEF Inv, TypeOK
    <3>2. Local(sub'[t], row'[t], ledger'[t], calls'[t]) BY <2>1, <3>1
    <3> QED BY <3>2 DEF Local, Stage, Accounted, SettleStage, Paid, Before
  <2> QED BY <2>2, <2>3
<1>3. UniqueKeys'
  <2> SUFFICES ASSUME NEW t \in Submissions, NEW u \in Submissions,
                      row'[t].status # "absent", row'[u].status # "absent", SameKey(t, u)
               PROVE  t = u
    BY DEF UniqueKeys, SameKey
  <2>1. CASE r.status = "absent" \/ row[s].status # "absent"
    <3>1. row[t].status # "absent" /\ row[u].status # "absent"
      BY <2>1 DEF Inv, TypeOK
    <3> QED BY <3>1 DEF Inv, UniqueKeys
  <2>2. CASE \A v \in Existing : ~SameKey(s, v)
    <3>1. \A v \in Submissions \ {s} : row'[v] = row[v]
      BY DEF Inv, TypeOK
    <3>2. CASE t = s
      BY <2>2, <3>1, <3>2 DEF Existing
    <3>3. CASE u = s
      BY <2>2, <3>1, <3>3 DEF Existing, SameKey
    <3>4. CASE t # s /\ u # s
      BY <3>1, <3>4 DEF Inv, UniqueKeys
    <3> QED BY <3>2, <3>3, <3>4
  <2> QED BY <2>1, <2>2
<1> QED BY <1>1, <1>2, <1>3 DEF Inv

\* What a step leaves alone is an update to what it was.
LEMMA Same ==
    ASSUME Inv, NEW s \in Submissions
    PROVE  /\ sub[s] \in Sub /\ sub = [sub EXCEPT ![s] = sub[s]]
           /\ row[s] \in Record /\ row = [row EXCEPT ![s] = row[s]]
           /\ ledger[s] \in Reservation /\ ledger = [ledger EXCEPT ![s] = ledger[s]]
           /\ calls[s] \in Nat /\ calls = [calls EXCEPT ![s] = calls[s]]
           /\ lock \in [Allocations -> Submissions \cup {NoSubmission}]
           /\ Stage(sub[s], row[s], ledger[s], calls[s])
           /\ Accounted(row[s], ledger[s], calls[s])
  BY DEF Inv, TypeOK, Local

\* A step that only moves a submission.
LEMMA MoveKeepsInv ==
    ASSUME Inv, NEW s \in Submissions, NEW x \in Sub,
           sub' = [sub EXCEPT ![s] = x], UNCHANGED <<row, ledger, calls>>,
           lock' \in [Allocations -> Submissions \cup {NoSubmission}],
           Stage(x, row[s], ledger[s], calls[s])
    PROVE  Inv'
<1>1. PICK r \in Record, l \in Reservation, n \in Nat :
           r = row[s] /\ l = ledger[s] /\ n = calls[s]
  BY Same
<1>2. Local(x, r, l, n) BY <1>1, Same DEF Local
<1>3. /\ row' = [row EXCEPT ![s] = r]
      /\ ledger' = [ledger EXCEPT ![s] = l]
      /\ calls' = [calls EXCEPT ![s] = n]
  BY <1>1, Same
<1>4. r.status = "absent" \/ row[s].status # "absent" BY <1>1
<1> QED BY <1>2, <1>3, <1>4, StepKeepsInv

\* The points at which nothing is known of the record any more.
Ended == {"answered", "conflict", "full", "refused", "returned", "raised", "crashed"}

LEMMA EndedStage ==
    ASSUME NEW point \in Ended, NEW r, NEW l, NEW n
    PROVE  [NewSub EXCEPT !.pc = point] \in Sub /\ Stage([NewSub EXCEPT !.pc = point], r, l, n)
  BY DEF Ended, NewSub, Sub, Points, Stage, Owning

\* A submission that ends, unlocked or not.
LEMMA EndKeepsInv ==
    ASSUME Inv, NEW s \in Submissions, NEW point \in Ended, End(s, point),
           Unlock(s) \/ UNCHANGED lock, UNCHANGED <<row, ledger, calls>>
    PROVE  Inv'
<1>1. lock' \in [Allocations -> Submissions \cup {NoSubmission}]
  BY Same DEF Unlock
<1> QED BY <1>1, EndedStage, MoveKeepsInv DEF End

\* A record that is true of the reservation and the calls is saved, or not,
\* by its owner.
LEMMA SaveKeepsInv ==
    ASSUME Inv, NEW s \in Submissions, NEW r \in Record, NEW next \in Sub,
           Save(s, r, next), row[s].status # "absent",
           Stage(next, r, ledger[s], calls[s]), Accounted(r, ledger[s], calls[s])
    PROVE  Inv'
<1>1. /\ ledger' = [ledger EXCEPT ![s] = ledger[s]]
      /\ calls' = [calls EXCEPT ![s] = calls[s]]
      /\ lock' \in [Allocations -> Submissions \cup {NoSubmission}]
      /\ ledger[s] \in Reservation /\ calls[s] \in Nat
  BY Same DEF Save
<1>2. ASSUME NEW x \in Sub, row' = [row EXCEPT ![s] = r], sub' = [sub EXCEPT ![s] = x],
             Stage(x, r, ledger[s], calls[s])
      PROVE  Inv'
  <2>1. Local(x, r, ledger[s], calls[s]) BY <1>2 DEF Local
  <2> QED BY <1>1, <1>2, <2>1, StepKeepsInv
<1>3. CASE row' = [row EXCEPT ![s] = r] /\ sub' = [sub EXCEPT ![s] = next]
  BY <1>2, <1>3
<1>4. CASE row' = row /\ End(s, "raised")
  BY <1>4, EndKeepsInv DEF Save, Ended
<1>5. CASE row' = [row EXCEPT ![s] = r] /\ End(s, "raised")
  BY <1>2, <1>5, EndedStage DEF End, Ended
<1> QED BY <1>3, <1>4, <1>5 DEF Save
-----------------------------------------------------------------------------
\* Where a submission goes when it leaves its record as it is.
LEMMA GoToKeepsInv ==
    ASSUME Inv, NEW s \in Submissions, NEW point \in Points, GoTo(s, point),
           UNCHANGED <<row, ledger, calls>>,
           lock' \in [Allocations -> Submissions \cup {NoSubmission}],
           Stage([sub[s] EXCEPT !.pc = point], row[s], ledger[s], calls[s])
    PROVE  Inv'
<1>1. [sub[s] EXCEPT !.pc = point] \in Sub BY Same DEF Sub
<1>2. sub' = [sub EXCEPT ![s] = [sub[s] EXCEPT !.pc = point]] BY DEF GoTo
<1> QED BY <1>1, <1>2, MoveKeepsInv

\* A preview is stopped as blocked only with no funds held.
LEMMA StopKeepsInv ==
    ASSUME Inv, NEW s \in Submissions, NEW verdict \in {"blocked", "uncertain"},
           StopWith(s, verdict), UNCHANGED <<lock, row, ledger, calls>>,
           row[s].status # "absent",
           verdict = "blocked" => ledger[s].state # "held"
    PROVE  Inv'
<1> DEFINE x == [sub[s] EXCEPT !.pc = "stop", !.verdict = verdict]
<1>1. x \in Sub BY Same DEF Sub, Points
<1>2. Stage(x, row[s], ledger[s], calls[s])
  <2>1. calls[s] > 0 => row[s].status # "claimed" BY Same DEF Accounted
  <2>2. x.pc = "stop" /\ x.verdict = verdict BY Same DEF Sub
  <2> HIDE DEF x
  <2> QED BY <2>1, <2>2 DEF Stage, Owning
<1>3. sub' = [sub EXCEPT ![s] = x] BY DEF StopWith
<1> HIDE DEF x
<1> QED BY <1>1, <1>2, <1>3, Same, MoveKeepsInv

LEMMA InitInv == Init => Inv
<1> SUFFICES ASSUME Init PROVE Inv
  OBVIOUS
<1>1. TypeOK
  BY DEF Init, TypeOK, NewSub, Sub, Points, NoRecord, Record, Reservation
<1>2. ASSUME NEW s \in Submissions PROVE Local(sub[s], row[s], ledger[s], calls[s])
  BY DEF Init, NewSub, NoRecord, Local, Stage, Accounted, SettleStage, Paid, Before, Owning
<1>3. UniqueKeys
  BY DEF Init, NoRecord, UniqueKeys
<1> QED BY <1>1, <1>2, <1>3 DEF Inv
-----------------------------------------------------------------------------
LEMMA ClaimKeepsInv ==
    ASSUME Inv, NEW s \in Submissions, NEW acknowledged \in BOOLEAN, Claim(s, acknowledged)
    PROVE  Inv'
<1> DEFINE point == IF acknowledged THEN "pin" ELSE "raised"
           x == [NewSub EXCEPT !.pc = point]
           r == [row[s] EXCEPT !.status = "claimed"]
<1>1. Before(row[s], "absent", "not_incurred", ledger[s], "free") /\ calls[s] = 0
  BY Same DEF Claim, At, Stage
<1>2. x \in Sub /\ r \in Record
  <2>1. point \in Points BY DEF Points
  <2>2. x \in Sub
    <3> HIDE DEF point
    <3> QED BY <2>1 DEF NewSub, Sub
  <2>3. r \in Record BY Same DEF Record
  <2> QED BY <2>2, <2>3
<1>3. Local(x, r, ledger[s], calls[s])
  <2>1. x.pc \in {"pin", "raised"} /\ x.verdict = "blocked" BY DEF NewSub
  <2>2. Before(r, "claimed", "not_incurred", ledger[s], "free")
    BY <1>1, Same DEF Before, Record
  <2> HIDE DEF x, r
  <2>3. Stage(x, r, ledger[s], calls[s])
    BY <1>1, <2>1, <2>2 DEF Stage, Owning
  <2>4. Accounted(r, ledger[s], calls[s])
    BY <1>1, <2>2 DEF Accounted, Before
  <2> QED BY <2>3, <2>4 DEF Local
<1>4. \A t \in Existing : ~SameKey(s, t)
  BY DEF Claim, Claims, Clashes
<1>5. sub' = [sub EXCEPT ![s] = x] /\ row' = [row EXCEPT ![s] = r]
  BY DEF Claim, End
<1>6. /\ ledger' = [ledger EXCEPT ![s] = ledger[s]] /\ ledger[s] \in Reservation
      /\ calls' = [calls EXCEPT ![s] = calls[s]] /\ calls[s] \in Nat
      /\ lock' \in [Allocations -> Submissions \cup {NoSubmission}]
  BY Same DEF Claim, Unlock
<1> HIDE DEF x, r
<1> QED BY <1>2, <1>3, <1>4, <1>5, <1>6, StepKeepsInv

LEMMA ClaimStepKeepsInv ==
    ASSUME Inv, NEW s \in Submissions, ClaimStep(s)
    PROVE  Inv'
<1>1. CASE Refuse(s)
  BY <1>1, EndKeepsInv DEF Refuse, Ended
<1>2. CASE LockAllocation(s)
  <2>1. lock' \in [Allocations -> Submissions \cup {NoSubmission}]
    BY <1>2, Same DEF LockAllocation
  <2>2. Stage([sub[s] EXCEPT !.pc = "claim"], row[s], ledger[s], calls[s])
    BY <1>2, Same DEF LockAllocation, At, Sub, Stage, Owning
  <2> QED BY <1>2, <2>1, <2>2, GoToKeepsInv DEF LockAllocation, Points
<1>3. CASE ReadRecords(s)
  <2> DEFINE x == [sub[s] EXCEPT !.pc = "decide", !.seen = Existing]
  <2>1. x \in Sub BY Same DEF Sub, Points, Existing
  <2>2. Stage(x, row[s], ledger[s], calls[s])
    BY <1>3, Same DEF ReadRecords, At, Sub, Stage, Owning
  <2>3. sub' = [sub EXCEPT ![s] = x] BY <1>3 DEF ReadRecords
  <2> HIDE DEF x
  <2> QED BY <1>3, <2>1, <2>2, <2>3, Same, MoveKeepsInv DEF ReadRecords
<1>4. ASSUME NEW acknowledged \in BOOLEAN, Claim(s, acknowledged) PROVE Inv'
  BY <1>4, ClaimKeepsInv
<1>5. CASE ClaimAnswered(s)
  <2>1. Answer(s) \in Ended BY DEF Answer, Ended
  <2> QED BY <1>5, <2>1, EndKeepsInv DEF ClaimAnswered
<1>6. CASE ClaimFails(s)
  BY <1>6, EndKeepsInv DEF ClaimFails, Ended
<1> QED BY <1>1, <1>2, <1>3, <1>4, <1>5, <1>6 DEF ClaimStep

LEMMA CrashKeepsInv ==
    ASSUME Inv, NEW s \in Submissions, Crash(s)
    PROVE  Inv'
  BY EndKeepsInv DEF Crash, Ended
-----------------------------------------------------------------------------
\* The owner's actions.
LEMMA PinKeepsInv == ASSUME Inv, NEW s \in Submissions, Pin(s) PROVE Inv'
<1>1. Before(row[s], "claimed", "not_incurred", ledger[s], "free") /\ sub[s].verdict = "blocked"
      /\ calls[s] = 0
  BY Same DEF Pin, At, Stage, Owning
<1>2. CASE GoTo(s, "admit")
  <2>1. Stage([sub[s] EXCEPT !.pc = "admit"], row[s], ledger[s], calls[s])
    BY <1>1, Same DEF Sub, Stage, Owning
  <2> QED BY <1>2, <2>1, Same, GoToKeepsInv DEF Pin, Points
<1>3. CASE End(s, "raised")
  BY <1>3, EndKeepsInv DEF Pin, Ended
<1>4. CASE StopWith(s, "blocked")
  BY <1>1, <1>4, StopKeepsInv DEF Pin, Before
<1> QED BY <1>2, <1>3, <1>4 DEF Pin

LEMMA RejectKeepsInv == ASSUME Inv, NEW s \in Submissions, Reject(s) PROVE Inv'
<1>1. Before(row[s], "claimed", "not_incurred", ledger[s], "free")
  BY Same DEF Reject, At, Stage
<1> QED BY <1>1, StopKeepsInv DEF Reject, Before

LEMMA ReserveKeepsInv == ASSUME Inv, NEW s \in Submissions, Reserve(s) PROVE Inv'
<1> DEFINE l == [ledger[s] EXCEPT !.state = "held"]
<1>1. /\ Before(row[s], "claimed", "not_incurred", ledger[s], "free") /\ calls[s] = 0
      /\ sub[s].verdict = "blocked"
  BY Same DEF Reserve, At, Stage, Owning
<1>2. l \in Reservation /\ Before(row[s], "claimed", "not_incurred", l, "held")
  BY <1>1, Same DEF Reservation, Before
<1>3. Accounted(row[s], l, calls[s])
  BY <1>1, <1>2 DEF Accounted, Before
<1>4. ASSUME NEW x \in Sub, sub' = [sub EXCEPT ![s] = x], ledger' = [ledger EXCEPT ![s] = l],
             Stage(x, row[s], l, calls[s])
      PROVE  Inv'
  <2> HIDE DEF l
  <2>1. Local(x, row[s], l, calls[s]) BY <1>3, <1>4 DEF Local
  <2>2. row' = [row EXCEPT ![s] = row[s]] /\ calls' = [calls EXCEPT ![s] = calls[s]]
    BY Same DEF Reserve
  <2>3. row[s] \in Record /\ calls[s] \in Nat
        /\ lock' \in [Allocations -> Submissions \cup {NoSubmission}]
    BY Same DEF Reserve
  <2>4. row[s].status # "absent" BY <1>1 DEF Before
  <2> QED BY <1>2, <1>4, <2>1, <2>2, <2>3, <2>4, StepKeepsInv
<1>5. CASE ledger' = [ledger EXCEPT ![s] = l] /\ GoTo(s, "intent")
  <2> DEFINE x == [sub[s] EXCEPT !.pc = "intent"]
  <2>1. x \in Sub /\ x.pc = "intent" /\ x.verdict = "blocked"
    BY <1>1, Same DEF Sub, Points
  <2>2. sub' = [sub EXCEPT ![s] = x] BY <1>5 DEF GoTo
  <2> HIDE DEF x, l
  <2>3. Stage(x, row[s], l, calls[s])
    BY <1>1, <1>2, <2>1 DEF Stage, Owning
  <2> QED BY <1>4, <1>5, <2>1, <2>2, <2>3
<1>6. CASE ledger' = [ledger EXCEPT ![s] = l] /\ End(s, "raised")
  <2> HIDE DEF l
  <2> QED BY <1>4, <1>6, EndedStage DEF End, Ended
<1>7. CASE ledger' = ledger /\ End(s, "raised")
  BY <1>7, EndKeepsInv DEF Reserve, Ended
<1> QED BY <1>5, <1>6, <1>7 DEF Reserve

LEMMA IntentKeepsInv == ASSUME Inv, NEW s \in Submissions, Intent(s) PROVE Inv'
<1> DEFINE r == [row[s] EXCEPT !.status = "started", !.cost = "unknown"]
           x == [sub[s] EXCEPT !.pc = "recheck"]
<1>1. /\ Before(row[s], "claimed", "not_incurred", ledger[s], "held") /\ calls[s] = 0
      /\ sub[s].verdict = "blocked"
  BY Same DEF Intent, At, Stage, Owning
<1>2. r \in Record /\ Before(r, "started", "unknown", ledger[s], "held")
  BY <1>1, Same DEF Record, Before
<1>3. x \in Sub /\ x.pc = "recheck" /\ x.verdict = "blocked"
  BY <1>1, Same DEF Sub, Points
<1>4. Save(s, r, x) BY DEF Intent
<1> HIDE DEF r, x
<1>5. Stage(x, r, ledger[s], calls[s]) BY <1>1, <1>2, <1>3 DEF Stage, Owning
<1>6. Accounted(r, ledger[s], calls[s]) BY <1>1, <1>2 DEF Accounted, Before
<1> QED BY <1>1, <1>2, <1>3, <1>4, <1>5, <1>6, SaveKeepsInv DEF Before

LEMMA WithdrawKeepsInv == ASSUME Inv, NEW s \in Submissions, Withdraw(s) PROVE Inv'
<1> DEFINE r == [row[s] EXCEPT !.status = "accounted", !.cost = "not_incurred", !.actual = 0]
           x == [sub[s] EXCEPT !.pc = "settle", !.actual = 0, !.failed = TRUE]
<1>1. /\ Before(row[s], "started", "unknown", ledger[s], "held") /\ calls[s] = 0
      /\ sub[s].verdict = "blocked"
  BY Same DEF Withdraw, At, Stage, Owning
<1>2. /\ r \in Record /\ Before(r, "accounted", "not_incurred", ledger[s], "held")
      /\ r.actual = 0
  BY <1>1, Same DEF Record, Before
<1>3. x \in Sub /\ x.pc = "settle" /\ x.verdict = "blocked" /\ x.actual = 0 /\ x.failed
  <2>1. x \in Sub BY Same DEF Sub, Points
  <2>2. x.pc = "settle" /\ x.verdict = "blocked" /\ x.actual = 0 BY <1>1, Same DEF Sub
  <2>3. x.failed BY Same DEF Sub
  <2> QED BY <2>1, <2>2, <2>3
<1>4. Save(s, r, x) BY DEF Withdraw
<1> HIDE DEF r, x
<1>5. Stage(x, r, ledger[s], calls[s])
  BY <1>1, <1>2, <1>3 DEF Stage, SettleStage, Before, Owning
<1>6. Accounted(r, ledger[s], calls[s]) BY <1>1, <1>2 DEF Accounted, Before
<1> QED BY <1>1, <1>2, <1>3, <1>4, <1>5, <1>6, SaveKeepsInv DEF Before

\* A call after the intent is the only one, whatever becomes of it.
LEMMA CallKeepsInv ==
    ASSUME Inv, NEW s \in Submissions, NEW x \in Sub, At(s, "recheck"),
           sub' = [sub EXCEPT ![s] = x], calls' = [calls EXCEPT ![s] = @ + 1],
           UNCHANGED <<lock, row, ledger>>, Stage(x, row[s], ledger[s], 1)
    PROVE  Inv'
<1>1. Before(row[s], "started", "unknown", ledger[s], "held") /\ calls[s] = 0
  BY Same DEF At, Stage
<1>2. Accounted(row[s], ledger[s], 1) BY <1>1 DEF Accounted, Before
<1>3. PICK r \in Record, l \in Reservation, n \in Nat :
           r = row[s] /\ l = ledger[s] /\ n = 1
  BY Same
<1>4. Local(x, r, l, n) BY <1>2, <1>3 DEF Local
<1>5. /\ row' = [row EXCEPT ![s] = r]
      /\ ledger' = [ledger EXCEPT ![s] = l]
      /\ calls' = [calls EXCEPT ![s] = n]
      /\ lock' \in [Allocations -> Submissions \cup {NoSubmission}]
  BY <1>1, <1>3, Same
<1>6. row[s].status # "absent" BY <1>1 DEF Before
<1> QED BY <1>4, <1>5, <1>6, StepKeepsInv

LEMMA DispatchKeepsInv ==
    ASSUME Inv, NEW s \in Submissions, NEW fails \in BOOLEAN,
           NEW actual \in Costs \cup {Unknown}, Dispatch(s, fails, actual)
    PROVE  Inv'
<1> DEFINE x == [sub[s] EXCEPT !.pc = "account", !.failed = fails, !.actual = actual]
<1>1. Before(row[s], "started", "unknown", ledger[s], "held") /\ sub[s].verdict = "blocked"
  BY Same DEF Dispatch, At, Stage, Owning
<1>2. x \in Sub
  <2>1. sub[s] \in Sub
    BY Same
  <2>2. "account" \in Points /\ actual \in Nat \cup {Unknown}
    BY PreviewAssumption DEF Points
  <2>3. QED
    BY <2>1, <2>2 DEF Sub
<1>3. x.pc = "account" /\ x.verdict = "blocked" BY <1>1, Same DEF Sub
<1>4. sub' = [sub EXCEPT ![s] = x] BY DEF Dispatch
<1> HIDE DEF x
<1>5. Stage(x, row[s], ledger[s], 1) BY <1>1, <1>3 DEF Stage, Owning
<1> QED BY <1>2, <1>4, <1>5, CallKeepsInv DEF Dispatch

LEMMA DispatchLostKeepsInv == ASSUME Inv, NEW s \in Submissions, DispatchLost(s) PROVE Inv'
<1> DEFINE x == [sub[s] EXCEPT !.pc = "stop", !.verdict = "uncertain"]
<1>1. Before(row[s], "started", "unknown", ledger[s], "held")
  BY Same DEF DispatchLost, At, Stage
<1>2. x \in Sub /\ x.pc = "stop" /\ x.verdict = "uncertain" BY Same DEF Sub, Points
<1>3. sub' = [sub EXCEPT ![s] = x] BY DEF DispatchLost, StopWith
<1> HIDE DEF x
<1>4. Stage(x, row[s], ledger[s], 1) BY <1>1, <1>2 DEF Stage, Before, Owning
<1> QED BY <1>2, <1>3, <1>4, CallKeepsInv DEF DispatchLost

LEMMA AccountKeepsInv == ASSUME Inv, NEW s \in Submissions, Account(s) PROVE Inv'
<1> DEFINE cost == IF sub[s].actual = Unknown THEN "unknown" ELSE "known"
           r == [row[s] EXCEPT !.status = "accounted", !.actual = sub[s].actual, !.cost = cost]
           x == AfterAccount(sub[s])
<1>1. /\ Before(row[s], "started", "unknown", ledger[s], "held") /\ calls[s] = 1
      /\ sub[s].verdict = "blocked"
  BY Same DEF Account, At, Stage, Owning
<1>2. sub[s].actual \in Nat \cup {Unknown} BY Same DEF Sub
<1>3. /\ r \in Record /\ Before(r, "accounted", cost, ledger[s], "held")
      /\ r.actual = sub[s].actual
  BY <1>1, <1>2, Same DEF Record, Before
<1>4. x \in Sub /\ x.actual = sub[s].actual
  BY Same DEF AfterAccount, Sub, Points
<1>5. /\ x.actual = Unknown => x.pc = "stop" /\ x.verdict = "uncertain"
      /\ x.actual # Unknown => x.pc = "settle" /\ x.verdict = "blocked"
  BY <1>1, Same DEF AfterAccount, Sub
<1>6. Save(s, r, x) BY DEF Account
<1> HIDE DEF r, x
<1>7. Stage(x, r, ledger[s], calls[s])
  BY <1>1, <1>2, <1>3, <1>4, <1>5 DEF Stage, SettleStage, Before, Owning
<1>8. Accounted(r, ledger[s], calls[s])
  BY <1>1, <1>3 DEF Accounted, Before
<1> QED BY <1>1, <1>3, <1>4, <1>6, <1>7, <1>8, SaveKeepsInv DEF Before

LEMMA SettleKeepsInv == ASSUME Inv, NEW s \in Submissions, Settle(s) PROVE Inv'
<1> DEFINE l == [state |-> "settled", actual |-> sub[s].actual]
<1>1. /\ SettleStage(sub[s], row[s], calls[s])
      /\ sub[s].verdict = "blocked"
  BY Same DEF Settle, At, Stage, Owning
<1>2. l \in Reservation /\ l = [state |-> "settled", actual |-> row[s].actual]
  BY <1>1 DEF SettleStage, Reservation
<1>3. Accounted(row[s], l, calls[s])
  BY <1>1 DEF Accounted, SettleStage
<1>4. ASSUME NEW x \in Sub, sub' = [sub EXCEPT ![s] = x], ledger' = [ledger EXCEPT ![s] = l],
             Stage(x, row[s], l, calls[s])
      PROVE  Inv'
  <2> HIDE DEF l
  <2>1. Local(x, row[s], l, calls[s]) BY <1>3, <1>4 DEF Local
  <2>2. row' = [row EXCEPT ![s] = row[s]] /\ calls' = [calls EXCEPT ![s] = calls[s]]
    BY Same DEF Settle
  <2>3. row[s] \in Record /\ calls[s] \in Nat
        /\ lock' \in [Allocations -> Submissions \cup {NoSubmission}]
    BY Same DEF Settle
  <2>4. row[s].status # "absent" BY <1>1 DEF SettleStage
  <2> QED BY <1>2, <1>4, <2>1, <2>2, <2>3, <2>4, StepKeepsInv
<1>5. CASE ledger' = [ledger EXCEPT ![s] = l] /\ GoTo(s, "settled")
  <2> DEFINE x == [sub[s] EXCEPT !.pc = "settled"]
  <2>1. x \in Sub /\ x.pc = "settled" /\ x.verdict = "blocked"
    BY <1>1, Same DEF Sub, Points
  <2>2. SettleStage(x, row[s], calls[s])
    BY <1>1, Same DEF SettleStage, Sub
  <2>3. sub' = [sub EXCEPT ![s] = x] BY <1>5 DEF GoTo
  <2> HIDE DEF x, l
  <2>4. Stage(x, row[s], l, calls[s])
    BY <1>2, <2>1, <2>2 DEF Stage, Owning
  <2> QED BY <1>4, <1>5, <2>1, <2>3, <2>4
<1>6. CASE ledger' = [ledger EXCEPT ![s] = l] /\ End(s, "raised")
  <2> HIDE DEF l
  <2> QED BY <1>4, <1>6, EndedStage DEF End, Ended
<1>7. CASE ledger' = ledger /\ End(s, "raised")
  BY <1>7, EndKeepsInv DEF Settle, Ended
<1> QED BY <1>5, <1>6, <1>7 DEF Settle

LEMMA SettledKeepsInv == ASSUME Inv, NEW s \in Submissions, Settled(s) PROVE Inv'
<1> DEFINE r == [row[s] EXCEPT !.settled = TRUE]
           x == [sub[s] EXCEPT !.pc = IF sub[s].failed THEN "stop" ELSE "classified"]
<1>1. /\ SettleStage(sub[s], row[s], calls[s])
      /\ ledger[s] = [state |-> "settled", actual |-> row[s].actual]
      /\ sub[s].verdict = "blocked"
  BY Same DEF Settled, At, Stage, Owning
<1>2. /\ r \in Record /\ r.status = row[s].status /\ r.cost = row[s].cost
      /\ r.actual = row[s].actual
  BY Same DEF Record
<1>3. r.settled BY Same DEF Record
<1>4. x \in Sub /\ x.verdict = "blocked"
  BY <1>1, Same DEF Sub, Points
<1>5. CASE sub[s].failed
  <2>1. x.pc = "stop" BY <1>5, Same DEF Sub
  <2>2. Save(s, r, x) BY DEF Settled
  <2> HIDE DEF r, x
  <2>3. Stage(x, r, ledger[s], calls[s])
    BY <1>1, <1>2, <1>4, <2>1 DEF Stage, SettleStage, Owning
  <2>4. Accounted(r, ledger[s], calls[s])
    BY <1>1, <1>2 DEF Accounted, SettleStage
  <2> QED BY <1>1, <1>2, <1>4, <2>2, <2>3, <2>4, SaveKeepsInv DEF SettleStage
<1>6. CASE ~sub[s].failed
  <2>1. x.pc = "classified" BY <1>6, Same DEF Sub
  <2>2. Save(s, r, x) BY DEF Settled
  <2>3. Paid(row[s], ledger[s], calls[s]) BY <1>1, <1>6 DEF SettleStage, Paid
  <2> HIDE DEF r, x
  <2>4. Paid(r, ledger[s], calls[s]) BY <1>2, <2>3 DEF Paid
  <2>5. Stage(x, r, ledger[s], calls[s])
    BY <1>3, <1>4, <2>1, <2>4 DEF Stage, Owning
  <2>6. Accounted(r, ledger[s], calls[s])
    BY <2>4 DEF Accounted, Paid
  <2> QED BY <1>1, <1>2, <1>4, <2>2, <2>5, <2>6, SaveKeepsInv DEF SettleStage
<1> QED BY <1>5, <1>6

LEMMA ClassifiedKeepsInv == ASSUME Inv, NEW s \in Submissions, Classified(s) PROVE Inv'
<1> DEFINE x == [sub[s] EXCEPT !.pc = "route"]
<1>1. Paid(row[s], ledger[s], calls[s]) /\ row[s].settled /\ sub[s].verdict = "blocked"
  BY Same DEF Classified, At, Stage, Owning
<1>2. CASE StopWith(s, "blocked") /\ UNCHANGED <<lock, row, ledger, calls>>
  BY <1>1, <1>2, StopKeepsInv DEF Paid
<1>3. CASE Save(s, row[s], x)
  <2>1. x \in Sub /\ x.pc = "route" /\ x.verdict = "blocked" BY <1>1, Same DEF Sub, Points
  <2> HIDE DEF x
  <2>2. Stage(x, row[s], ledger[s], calls[s]) BY <1>1, <2>1 DEF Stage, Owning
  <2>3. row[s] \in Record /\ row[s].status # "absent" BY <1>1, Same DEF Paid
  <2> QED BY <1>3, <2>1, <2>2, <2>3, Same, SaveKeepsInv
<1> QED BY <1>2, <1>3 DEF Classified

LEMMA RouteKeepsInv == ASSUME Inv, NEW s \in Submissions, Route(s) PROVE Inv'
<1> DEFINE x == [NewSub EXCEPT !.pc = "returned"]
           r == [row[s] EXCEPT !.status = "completed"]
<1>1. Paid(row[s], ledger[s], calls[s]) /\ row[s].settled
  BY Same DEF Route, At, Stage
<1>2. ASSUME NEW verdict \in {"blocked", "uncertain"}, StopWith(s, verdict),
             UNCHANGED <<lock, row, ledger, calls>>
      PROVE  Inv'
  BY <1>1, <1>2, StopKeepsInv DEF Paid
<1>3. CASE ~Overran(s) /\ Save(s, r, x)
  <2>1. x \in Sub /\ Stage(x, r, ledger[s], calls[s]) BY EndedStage DEF Ended
  <2>2. r \in Record /\ r.status = "completed" /\ r.cost = row[s].cost /\ r.actual = row[s].actual
    BY Same DEF Record
  <2>3. r.settled BY <1>1, Same DEF Record
  <2>4. r.actual <= Estimate
    BY <1>1, <1>3, <2>2, PreviewAssumption DEF Overran, Paid
  <2>5. row[s].status # "absent" BY <1>1 DEF Paid
  <2> HIDE DEF r, x
  <2>6. Accounted(r, ledger[s], calls[s])
    BY <1>1, <2>2, <2>3, <2>4 DEF Accounted, Paid
  <2> QED BY <1>3, <2>1, <2>2, <2>5, <2>6, SaveKeepsInv
<1> QED BY <1>2, <1>3 DEF Route

LEMMA StopActionKeepsInv == ASSUME Inv, NEW s \in Submissions, Stop(s) PROVE Inv'
<1> DEFINE x == [NewSub EXCEPT !.pc = "returned"]
           r == [row[s] EXCEPT !.status = sub[s].verdict]
<1>1. /\ row[s].status # "absent"
      /\ sub[s].verdict = "blocked" => ledger[s].state # "held"
      /\ sub[s].verdict \in {"blocked", "uncertain"}
  BY Same DEF Stop, At, Stage, Sub
<1>2. x \in Sub /\ Stage(x, r, ledger[s], calls[s]) BY EndedStage DEF Ended
<1>3. /\ r \in Record /\ r.status = sub[s].verdict
      /\ r.cost = row[s].cost /\ r.actual = row[s].actual
  BY <1>1, Same DEF Record
<1>4. Save(s, r, x) BY DEF Stop
<1> HIDE DEF r, x
<1>5. Accounted(r, ledger[s], calls[s])
  BY <1>1, <1>3, Same DEF Accounted
<1> QED BY <1>1, <1>2, <1>3, <1>4, <1>5, SaveKeepsInv

LEMMA OwnerStepKeepsInv == ASSUME Inv, NEW s \in Submissions, OwnerStep(s) PROVE Inv'
  BY PinKeepsInv, RejectKeepsInv, ReserveKeepsInv, IntentKeepsInv, WithdrawKeepsInv,
     DispatchKeepsInv, DispatchLostKeepsInv, AccountKeepsInv, SettleKeepsInv,
     SettledKeepsInv, ClassifiedKeepsInv, RouteKeepsInv, StopActionKeepsInv
  DEF OwnerStep
-----------------------------------------------------------------------------
LEMMA NextKeepsInv == Inv /\ [Next]_vars => Inv'
<1> SUFFICES ASSUME Inv, [Next]_vars PROVE Inv'
  OBVIOUS
<1>1. CASE Next
  BY <1>1, ClaimStepKeepsInv, OwnerStepKeepsInv, CrashKeepsInv DEF Next
<1>2. CASE UNCHANGED vars
  BY <1>2 DEF vars, Inv, TypeOK, Local, Stage, Accounted, SettleStage, Paid, Before, UniqueKeys
<1> QED BY <1>1, <1>2

\* The inductive invariant holds for any submissions, whatever they ask,
\* however they interleave and wherever they fail.
THEOREM Invariance == Spec => []Inv
  BY InitInv, NextKeepsInv, PTL DEF Spec

\* Every submission, record and reservation stays well formed; in particular
\* a settlement never records an unknown cost.
THEOREM TypeCorrect == Spec => []TypeOK
<1>1. Inv => TypeOK BY DEF Inv
<1> QED BY <1>1, Invariance, PTL

\* One key is paid for at most once, and only after the funds are reserved
\* and the started intent is stored, across retries and crashes.
THEOREM PaysOnce == Spec => []PaidOnce
<1>1. ASSUME Inv PROVE PaidOnce
  <2> SUFFICES ASSUME NEW s \in Submissions, calls[s] > 0
               PROVE  /\ calls[s] = 1
                      /\ ledger[s].state # "free"
                      /\ row[s].status \notin {"absent", "claimed"}
                      /\ \A t \in Submissions : (SameKey(s, t) /\ calls[t] > 0) => t = s
    BY DEF PaidOnce
  <2>1. \A t \in Submissions : calls[t] > 0 => row[t].status # "absent"
    BY <1>1, Same DEF Accounted
  <2>2. ASSUME NEW t \in Submissions, SameKey(s, t), calls[t] > 0 PROVE t = s
    BY <1>1, <2>1, <2>2 DEF Inv, UniqueKeys
  <2> QED BY <1>1, <2>2, Same DEF Accounted
<1> QED BY <1>1, Invariance, PTL

\* What the authority settled is what the stored record says, although the
\* record and the settlement are separate transactions.
THEOREM SettlementsAreRecorded == Spec => []SettlementIsRecorded
<1>1. Inv => SettlementIsRecorded BY Same DEF Accounted, SettlementIsRecorded
<1> QED BY <1>1, Invariance, PTL

\* The stored cost status is the truth about the call at every moment.
THEOREM CostStatusesAreTrue == Spec => []CostStatusIsTrue
<1>1. Inv => CostStatusIsTrue BY Same DEF Accounted, CostStatusIsTrue
<1> QED BY <1>1, Invariance, PTL

\* A blocked or completed preview holds no funds, and a completed one cost no
\* more than it reserved.
THEOREM FinalsAreReconciled == Spec => []FinalIsReconciled
<1>1. Inv => FinalIsReconciled BY Same DEF Accounted, FinalIsReconciled
<1> QED BY <1>1, Invariance, PTL

-----------------------------------------------------------------------------
(***************************************************************************)
(* HealthCircuit.  Reports come from ordinary calls and from probes alike, *)
(* in any order, and the circuit does not know whose report it is.  What   *)
(* keeps a recovery within its bound is that the results it still awaits   *)
(* and those it counted are among the probes it admitted, and that every   *)
(* step that ends a recovery makes its probes late.                        *)
(***************************************************************************)

\* The circuit, whatever the failures it recorded.
CircuitShape ==
    \E fs : circuit \in [state : {"closed", "open", "half_open"}, failures : {fs}, openFor : Nat,
                         admitted : Nat, pending : Nat, successes : Nat]

AdmittedOf(ps) == {p \in Probers : ps[p] = "admitted"}

\* A circuit c and probes ps that keep to the bound.
Within(c, ps) ==
    /\ c.state = "half_open" =>
          /\ c.admitted \in 1..HalfOpenMax
          /\ c.pending + c.successes <= c.admitted
          /\ c.successes < RecoveryThreshold
    /\ IsFiniteSet(AdmittedOf(ps))
    /\ Cardinality(AdmittedOf(ps)) <= IF c.state = "half_open" THEN c.admitted ELSE 0

CircuitInv ==
    /\ CircuitShape
    /\ probe \in [Probers -> ProbeStates]
    /\ Within(circuit, probe)

LEMMA CircuitInvIsBounded == CircuitInv => RecoveryBounded
  BY DEF CircuitInv, Within, RecoveryBounded, AdmittedOf

LEMMA CircuitInit == HealthInit => CircuitInv
<1> SUFFICES ASSUME HealthInit PROVE CircuitInv
  OBVIOUS
<1>1. CircuitShape
  <2>1. circuit \in [state : {"closed", "open", "half_open"}, failures : {<<>>}, openFor : Nat,
                     admitted : Nat, pending : Nat, successes : Nat]
    BY DEF HealthInit, ClosedCircuit
  <2>2. QED
    BY <2>1 DEF CircuitShape
<1>2. probe \in [Probers -> ProbeStates] /\ AdmittedOf(probe) = {}
  BY DEF HealthInit, ProbeStates, AdmittedOf
<1>3. circuit.state = "closed"
  BY DEF HealthInit, ClosedCircuit
<1>4. QED
  BY <1>1, <1>2, <1>3, FS_EmptySet DEF CircuitInv, Within

\* Fewer admitted probes are still within the bound.
LEMMA FewerAdmitted ==
    ASSUME NEW c, c.admitted \in Nat, NEW ps, Within(c, ps),
           NEW qs, AdmittedOf(qs) \subseteq AdmittedOf(ps)
    PROVE  Within(c, qs)
<1>1. /\ IsFiniteSet(AdmittedOf(qs))
      /\ Cardinality(AdmittedOf(qs)) \in Nat /\ Cardinality(AdmittedOf(ps)) \in Nat
      /\ Cardinality(AdmittedOf(qs)) <= Cardinality(AdmittedOf(ps))
  BY FS_Subset, FS_CardinalityType DEF Within
<1>2. QED
  BY <1>1 DEF Within

\* What a report does to a circuit: the recovery in progress counts it or ends,
\* and no report starts a recovery.
LEMMA AfterResultShape ==
    ASSUME HealthAssumption, NEW outcome,
           CircuitShape,
           circuit.state = "half_open" => circuit.successes < RecoveryThreshold
    PROVE  LET c == AfterResult(circuit, outcome) IN
           /\ \E fs : c \in [state : {"closed", "open", "half_open"}, failures : {fs},
                             openFor : Nat, admitted : Nat, pending : Nat, successes : Nat]
           /\ c.state = "half_open" =>
                 /\ circuit.state = "half_open"
                 /\ c.admitted = circuit.admitted
                 /\ c.pending + c.successes <= circuit.pending + circuit.successes
                 /\ c.successes < RecoveryThreshold
<1> DEFINE Shape(fs) == [state : {"closed", "open", "half_open"}, failures : {fs}, openFor : Nat,
                         admitted : Nat, pending : Nat, successes : Nat]
<1>1. PICK fs : circuit \in Shape(fs)
  BY DEF CircuitShape
<1>2. PICK gs : /\ Counted(circuit, outcome) \in Shape(gs)
                /\ Counted(circuit, outcome) = [circuit EXCEPT !.failures = gs]
  <2>1. CASE outcome = "infrastructure"
    BY <1>1, <2>1 DEF Counted, WithFailure
  <2>2. CASE outcome # "infrastructure"
    BY <1>1, <2>2 DEF Counted
  <2>3. QED
    BY <2>1, <2>2
<1>3. CASE AwaitsProbe(circuit)
  <2> DEFINE d == [circuit EXCEPT !.pending = @ - 1]
  <2>1. /\ d \in Shape(fs) /\ circuit.state = "half_open" /\ d.state = "half_open"
        /\ d.pending = circuit.pending - 1 /\ d.successes = circuit.successes
        /\ d.admitted = circuit.admitted
    BY <1>1, <1>3 DEF AwaitsProbe
  <2>2. AfterResult(circuit, outcome) = ProbeResult(circuit, outcome)
    BY <1>3 DEF AfterResult
  <2>3. CASE outcome = "success" /\ d.successes + 1 >= RecoveryThreshold
    <3>1. AfterResult(circuit, outcome) = ClosedCircuit
      BY <2>2, <2>3 DEF ProbeResult
    <3>2. ClosedCircuit \in Shape(<<>>) /\ ClosedCircuit.state = "closed"
      BY DEF ClosedCircuit
    <3>3. QED
      BY <3>1, <3>2
  <2>4. CASE outcome = "success" /\ ~(d.successes + 1 >= RecoveryThreshold)
    <3>1. AfterResult(circuit, outcome) = [d EXCEPT !.successes = @ + 1]
      BY <2>2, <2>4 DEF ProbeResult
    <3>2. [d EXCEPT !.successes = @ + 1] \in Shape(fs)
      <4> HIDE DEF d
      <4>1. d.successes + 1 \in Nat
        BY <2>1
      <4>2. QED
        BY <2>1, <4>1
    <3>3. RecoveryThreshold \in Nat /\ circuit.successes \in Nat /\ circuit.pending \in Nat
      BY <1>1 DEF HealthAssumption
    <3>4. LET c == [d EXCEPT !.successes = @ + 1] IN
            /\ c.admitted = circuit.admitted /\ c.pending = circuit.pending - 1
            /\ c.successes = circuit.successes + 1 /\ c.successes < RecoveryThreshold
      BY <2>1, <2>4, <3>3
    <3> HIDE DEF d
    <3>5. QED
      BY <2>1, <3>1, <3>2, <3>3, <3>4
  <2>5. CASE outcome # "success"
    <3>1. AfterResult(circuit, outcome) = Opened(Counted(d, outcome))
      BY <2>2, <2>5 DEF ProbeResult
    <3>2. PICK hs : Counted(d, outcome) \in Shape(hs)
      <4>1. CASE outcome = "infrastructure"
        BY <2>1, <4>1 DEF Counted, WithFailure
      <4>2. CASE outcome # "infrastructure"
        BY <2>1, <4>2 DEF Counted
      <4>3. QED
        BY <4>1, <4>2
    <3>3. Opened(Counted(d, outcome)) \in Shape(hs) /\ Opened(Counted(d, outcome)).state = "open"
      BY <3>2 DEF Opened
    <3>4. QED
      BY <3>1, <3>3
  <2>6. QED
    BY <2>3, <2>4, <2>5
<1>4. CASE ~AwaitsProbe(circuit)
  <2> DEFINE d == Counted(circuit, outcome)
  <2>1. AfterResult(circuit, outcome) = OrdinaryResult(circuit, outcome)
    BY <1>4 DEF AfterResult
  <2>2. /\ d.state = circuit.state /\ d.admitted = circuit.admitted
        /\ d.pending = circuit.pending /\ d.successes = circuit.successes
    BY <1>1, <1>2
  <2>3. Opened(d) \in Shape(gs) /\ Opened(d).state = "open"
    BY <1>2 DEF Opened
  <2>4. AfterResult(circuit, outcome) \in {d, Opened(d)}
    BY <2>1 DEF OrdinaryResult
  <2>5. circuit.pending \in Nat /\ circuit.successes \in Nat
    BY <1>1
  <2> HIDE DEF d
  <2>6. QED
    BY <1>2, <2>2, <2>3, <2>4, <2>5 DEF d
<1>5. QED
  BY <1>3, <1>4

LEMMA ObserveKeepsBound ==
    ASSUME HealthAssumption, CircuitInv, NEW outcome, NEW ps \in [Probers -> ProbeStates],
           AdmittedOf(ps) \subseteq AdmittedOf(probe), Observe(outcome, ps)
    PROVE  CircuitInv'
<1>0. circuit.admitted \in Nat
  BY DEF CircuitInv, CircuitShape
<1>1. CASE outcome = "unrelated"
  <2>1. probe' = ps /\ circuit' = circuit
    BY <1>1 DEF Observe
  <2>2. Within(circuit, ps)
    BY <1>0, FewerAdmitted DEF CircuitInv
  <2>3. QED
    BY <2>1, <2>2 DEF CircuitInv, CircuitShape
<1>2. CASE outcome # "unrelated"
  <2> DEFINE c == AfterResult(circuit, outcome)
  <2>1. /\ circuit' = c
        /\ probe' = IF circuit.state = "half_open" /\ c.state # "half_open"
                    THEN Outdated(ps) ELSE ps
    BY <1>2 DEF Observe
  <2>2. circuit.state = "half_open" => circuit.successes < RecoveryThreshold
    BY DEF CircuitInv, Within
  <2>3. CircuitShape
    BY DEF CircuitInv
  <2>4. /\ CircuitShape'
        /\ c.state = "half_open" =>
              /\ circuit.state = "half_open"
              /\ c.admitted = circuit.admitted
              /\ c.pending + c.successes <= circuit.pending + circuit.successes
              /\ c.successes < RecoveryThreshold
    <3>1. \E fs : c \in [state : {"closed", "open", "half_open"}, failures : {fs},
                         openFor : Nat, admitted : Nat, pending : Nat, successes : Nat]
      BY <2>2, <2>3, AfterResultShape
    <3>2. CircuitShape'
      BY <2>1, <3>1 DEF CircuitShape
    <3>3. QED
      BY <2>2, <2>3, <3>2, AfterResultShape
  <2>5. probe' \in [Probers -> ProbeStates]
    BY <2>1 DEF Outdated, ProbeStates
  <2>6. AdmittedOf(Outdated(ps)) = {}
    BY DEF AdmittedOf, Outdated
  <2>7. Within(circuit, ps)
    BY <1>0, FewerAdmitted DEF CircuitInv
  <2>8. Within(c, probe')
    <3>1. CASE c.state = "half_open"
      <4>1. probe' = ps
        BY <2>1, <3>1
      <4>2. /\ circuit.pending \in Nat /\ circuit.successes \in Nat
            /\ c.pending \in Nat /\ c.successes \in Nat /\ c.admitted = circuit.admitted
        BY <2>1, <2>3, <2>4, <3>1 DEF CircuitShape
      <4> HIDE DEF c
      <4>3. QED
        BY <1>0, <2>4, <2>7, <3>1, <4>1, <4>2 DEF Within
    <3>2. CASE c.state # "half_open" /\ circuit.state = "half_open"
      <4>1. AdmittedOf(probe') = {}
        BY <2>1, <2>6, <3>2
      <4> HIDE DEF c
      <4>2. QED
        BY <3>2, <4>1, FS_EmptySet DEF Within
    <3>3. CASE c.state # "half_open" /\ circuit.state # "half_open"
      <4>1. probe' = ps
        BY <2>1, <3>3
      <4> HIDE DEF c
      <4>2. QED
        BY <2>7, <3>3, <4>1 DEF Within
    <3>4. QED
      BY <3>1, <3>2, <3>3
  <2> HIDE DEF c
  <2>9. QED
    BY <2>1, <2>4, <2>5, <2>8 DEF CircuitInv
<1>3. QED
  BY <1>1, <1>2

LEMMA AdmitKeepsBound ==
    ASSUME HealthAssumption, CircuitInv, NEW p \in Probers, AdmitProbe(p)
    PROVE  CircuitInv'
<1> DEFINE c == IF circuit.state = "open" /\ circuit.openFor >= Cooldown
                THEN [circuit EXCEPT !.state = "half_open", !.admitted = 0,
                                     !.pending = 0, !.successes = 0]
                ELSE circuit
<1>1. /\ probe[p] = "idle" /\ c.state = "half_open" /\ c.admitted < HalfOpenMax
      /\ circuit' = [c EXCEPT !.admitted = @ + 1, !.pending = @ + 1]
      /\ probe' = [probe EXCEPT ![p] = "admitted"]
  BY DEF AdmitProbe
<1>2. PICK fs : circuit \in [state : {"closed", "open", "half_open"}, failures : {fs},
                             openFor : Nat, admitted : Nat, pending : Nat, successes : Nat]
  BY DEF CircuitInv, CircuitShape
<1>3. c \in [state : {"closed", "open", "half_open"}, failures : {fs},
             openFor : Nat, admitted : Nat, pending : Nat, successes : Nat]
  BY <1>2
<1>4. /\ c.admitted \in 0..HalfOpenMax
      /\ c.pending + c.successes <= c.admitted /\ c.successes < RecoveryThreshold
      /\ Cardinality(AdmittedOf(probe)) <= c.admitted
  <2>1. CASE c = circuit
    BY <1>1, <1>2, <2>1 DEF CircuitInv, Within, HealthAssumption
  <2>2. CASE circuit.state = "open" /\ circuit.openFor >= Cooldown
    <3>1. c.admitted = 0 /\ c.pending = 0 /\ c.successes = 0
      BY <1>2, <2>2
    <3> HIDE DEF c
    <3>2. QED
      BY <2>2, <3>1 DEF CircuitInv, Within, HealthAssumption
  <2>3. QED
    BY <2>1, <2>2
<1> HIDE DEF c
<1>5. /\ CircuitShape' /\ circuit'.state = "half_open"
      /\ circuit'.admitted = c.admitted + 1 /\ circuit'.pending = c.pending + 1
      /\ circuit'.successes = c.successes
  <2>1. c.admitted + 1 \in Nat /\ c.pending + 1 \in Nat
    BY <1>3
  <2>2. circuit' \in [state : {"closed", "open", "half_open"}, failures : {fs},
                      openFor : Nat, admitted : Nat, pending : Nat, successes : Nat]
    BY <1>1, <1>3, <2>1
  <2>3. CircuitShape'
    BY <2>2 DEF CircuitShape
  <2>4. QED
    BY <1>1, <1>3, <2>3
<1>6. probe' \in [Probers -> ProbeStates]
  BY <1>1 DEF CircuitInv, ProbeStates
<1>7. AdmittedOf(probe') = AdmittedOf(probe) \cup {p} /\ p \notin AdmittedOf(probe)
  BY <1>1 DEF AdmittedOf, CircuitInv
<1>8. /\ IsFiniteSet(AdmittedOf(probe'))
      /\ Cardinality(AdmittedOf(probe')) = Cardinality(AdmittedOf(probe)) + 1
      /\ Cardinality(AdmittedOf(probe)) \in Nat
  BY <1>7, FS_AddElement, FS_CardinalityType DEF CircuitInv, Within
<1>9. /\ circuit'.admitted \in 1..HalfOpenMax
      /\ circuit'.pending + circuit'.successes <= circuit'.admitted
      /\ circuit'.successes < RecoveryThreshold
      /\ Cardinality(AdmittedOf(probe')) <= circuit'.admitted
  BY <1>1, <1>3, <1>4, <1>5, <1>8 DEF HealthAssumption
<1>10. QED
  BY <1>5, <1>6, <1>8, <1>9 DEF CircuitInv, Within

LEMMA CircuitNext == HealthAssumption /\ CircuitInv /\ [HealthNext]_healthVars => CircuitInv'
<1> SUFFICES ASSUME HealthAssumption, CircuitInv, [HealthNext]_healthVars PROVE CircuitInv'
  OBVIOUS
<1>1. CASE UNCHANGED healthVars
  BY <1>1 DEF CircuitInv, CircuitShape, healthVars
<1>2. CASE Tick
  <2>1. PICK fs : circuit \in [state : {"closed", "open", "half_open"}, failures : {fs},
                               openFor : Nat, admitted : Nat, pending : Nat, successes : Nat]
    BY DEF CircuitInv, CircuitShape
  <2> DEFINE gs == circuit'.failures
             since == IF circuit.state = "open" /\ circuit.openFor < Cooldown
                      THEN circuit.openFor + 1 ELSE circuit.openFor
  <2>2. /\ circuit' \in [state : {"closed", "open", "half_open"}, failures : {gs},
                          openFor : Nat, admitted : Nat, pending : Nat, successes : Nat]
        /\ circuit'.state = circuit.state /\ circuit'.admitted = circuit.admitted
        /\ circuit'.pending = circuit.pending /\ circuit'.successes = circuit.successes
    <3>1. since \in Nat
      BY <2>1
    <3>2. PICK hs : circuit' = [circuit EXCEPT !.failures = hs, !.openFor = since]
      BY <1>2, Zenon DEF Tick
    <3> HIDE DEF since
    <3>3. QED
      BY <2>1, <3>1, <3>2
  <2>4. probe' = probe
    BY <1>2 DEF Tick
  <2>5. CircuitShape'
    BY <2>2 DEF CircuitShape
  <2>6. QED
    BY <2>2, <2>4, <2>5 DEF CircuitInv, Within
<1>3. ASSUME NEW p \in Probers, ProbeUnadmitted(p) PROVE CircuitInv'
  <2>1. probe' = [probe EXCEPT ![p] = "unadmitted"] /\ circuit' = circuit
    BY <1>3 DEF ProbeUnadmitted
  <2>2. /\ AdmittedOf(probe') \subseteq AdmittedOf(probe)
        /\ probe' \in [Probers -> ProbeStates] /\ circuit.admitted \in Nat
    BY <2>1 DEF AdmittedOf, CircuitInv, ProbeStates, CircuitShape
  <2>3. Within(circuit, probe')
    BY <2>2, FewerAdmitted DEF CircuitInv
  <2>4. QED
    BY <2>1, <2>2, <2>3 DEF CircuitInv, CircuitShape
<1>4. ASSUME NEW p \in Probers, AdmitProbe(p) PROVE CircuitInv'
  BY <1>4, AdmitKeepsBound
<1>5. ASSUME NEW p \in Probers, NEW outcome \in ProbeOutcomes, ProbeReports(p, outcome)
      PROVE  CircuitInv'
  <2> DEFINE ps == [probe EXCEPT ![p] = "idle"]
  <2>1. ps \in [Probers -> ProbeStates] /\ AdmittedOf(ps) \subseteq AdmittedOf(probe)
    BY DEF AdmittedOf, CircuitInv, ProbeStates
  <2>2. Observe(outcome, ps)
    BY <1>5 DEF ProbeReports
  <2> HIDE DEF ps
  <2>3. QED
    BY <2>1, <2>2, ObserveKeepsBound
<1>6. ASSUME NEW t \in Callers, CallBegins(t) PROVE CircuitInv'
  BY <1>6 DEF CallBegins, CircuitInv, CircuitShape
<1>7. ASSUME NEW t \in Callers, NEW outcome \in CallOutcomes, CallReports(t, outcome)
      PROVE  CircuitInv'
  BY <1>7, ObserveKeepsBound DEF CallReports, CircuitInv
<1>8. QED
  BY <1>1, <1>2, <1>3, <1>4, <1>5, <1>6, <1>7 DEF HealthNext, Prober, Caller

\* Whatever the thresholds, however many probers and callers there are and in whatever
\* order their reports arrive, no recovery counts more results than the probes it
\* admitted or runs more probes than half_open_max_probes (observe, admit_probe).
THEOREM RecoveryIsBounded == HealthSpec => []RecoveryBounded
<1>1. HealthInit => CircuitInv
  BY CircuitInit
<1>2. CircuitInv /\ [HealthNext]_healthVars => CircuitInv'
  BY CircuitNext, HealthAssumption
<1>3. CircuitInv => RecoveryBounded
  BY CircuitInvIsBounded
<1>4. QED
  BY <1>1, <1>2, <1>3, PTL DEF HealthSpec

-----------------------------------------------------------------------------
(***************************************************************************)
(* Shadow.  A step changes one task, so the parts of the invariant that    *)
(* are about a run (Progress, Calls, RowsKept) have to be shown for that   *)
(* task only.  The service's debits are totals of a table, one amount for  *)
(* each task and action (Books), of which a step changes at most one: a    *)
(* reservation puts the action's bound there, which the ceilings still     *)
(* admit, and accounting replaces that bound by what the call reported.    *)
(* Of every amount the ceilings cover the part within its bound            *)
(* (WithinBounds), which never grows after the reservation.                *)
(***************************************************************************)
\* Tables of amounts, a row of actions per task, and their totals.

IsTable(M) == \A t \in Tasks : /\ DOMAIN M[t] = Names
                               /\ \A a \in Names : M[t][a] \in Nat

Grand(M) == Total([t \in Tasks |-> Total(M[t])])

LEMMA NamesFinite ==
    ASSUME ShadowAssumption
    PROVE  /\ IsFiniteSet(Tasks) /\ IsFiniteSet(Names)
           /\ Len(Actions) \in Nat /\ Len(Actions) >= 2
           /\ \A a \in Names : Bound[a] \in Nat
           /\ Actions \in Surjection(1..Len(Actions), Names)
           /\ Actions \in Injection(1..Len(Actions), Names)
<1>1. /\ Len(Actions) \in Nat /\ DOMAIN Actions = 1..Len(Actions)
      /\ Actions \in [1..Len(Actions) -> STRING]
  <2>1. Actions \in Seq(STRING)
    BY Zenon DEF ShadowAssumption
  <2>2. QED
    BY ONLY <2>1
<1>2. Actions \in Surjection(1..Len(Actions), Names)
  <2>1. \A i \in 1..Len(Actions) : Actions[i] \in Names
    BY Zenon DEF Names
  <2>2. Actions \in [1..Len(Actions) -> Names]
    BY <1>1, <2>1, Zenon
  <2>3. \A a \in Names : \E i \in 1..Len(Actions) : Actions[i] = a
    BY Zenon DEF Names
  <2>4. QED
    BY <2>2, <2>3, Zenon DEF Surjection
<1>3. IsFiniteSet(1..Len(Actions)) /\ Cardinality(1..Len(Actions)) = Len(Actions)
  BY <1>1, FS_Interval DEF ShadowAssumption
<1>4. IsFiniteSet(Names) /\ Actions \in Injection(1..Len(Actions), Names)
  BY <1>2, <1>3, FS_Surjection DEF ShadowAssumption
<1>5. QED
  BY <1>1, <1>2, <1>4 DEF ShadowAssumption

LEMMA TotalType ==
    ASSUME ShadowAssumption, NEW f, DOMAIN f = Names, \A a \in Names : f[a] \in Nat
    PROVE  Total(f) \in Nat /\ Total(f) = SumFunctionOnSet(f, Names) /\ IsNatOn(f, Names)
<1>1. IsNatOn(f, Names) /\ IsFiniteSet(Names)
  BY NamesFinite DEF IsNatOn
<1>2. Total(f) = SumFunctionOnSet(f, Names)
  BY DEF Total, SumFunction
<1>3. QED
  BY <1>1, <1>2, SumType

LEMMA GrandType ==
    ASSUME ShadowAssumption, NEW M, IsTable(M)
    PROVE  LET sums == [t \in Tasks |-> Total(M[t])] IN
           /\ Grand(M) \in Nat /\ Grand(M) = SumFunctionOnSet(sums, Tasks)
           /\ IsNatOn(sums, Tasks)
<1> DEFINE sums == [t \in Tasks |-> Total(M[t])]
<1>1. \A t \in Tasks : Total(M[t]) \in Nat
  BY TotalType DEF IsTable
<1>2. IsNatOn(sums, Tasks) /\ IsFiniteSet(Tasks) /\ DOMAIN sums = Tasks
  BY <1>1, NamesFinite DEF IsNatOn
<1>3. Grand(M) = Total(sums)
  BY DEF Grand
<1> HIDE DEF sums
<1>4. Total(sums) = SumFunctionOnSet(sums, Tasks)
  BY <1>2 DEF Total, SumFunction
<1>5. SumFunctionOnSet(sums, Tasks) \in Nat
  BY <1>2, SumType
<1>6. QED
  BY <1>2, <1>3, <1>4, <1>5 DEF sums

\* Only the entry of task t and action a differs.
DiffersAt(M, K, t, a) ==
    /\ \A u \in Tasks : u # t => K[u] = M[u]
    /\ \A b \in Names : b # a => K[t][b] = M[t][b]

LEMMA TableUpdate ==
    ASSUME ShadowAssumption, NEW M, IsTable(M), NEW K, IsTable(K),
           NEW t \in Tasks, NEW a \in Names, DiffersAt(M, K, t, a)
    PROVE  /\ Total(K[t]) + M[t][a] = Total(M[t]) + K[t][a]
           /\ Grand(K) + M[t][a] = Grand(M) + K[t][a]
<1> DEFINE sums(X) == [u \in Tasks |-> Total(X[u])]
<1>1. Total(K[t]) + M[t][a] = Total(M[t]) + K[t][a]
  <2>1. /\ IsNatOn(K[t], Names) /\ Total(K[t]) = SumFunctionOnSet(K[t], Names)
        /\ IsNatOn(M[t], Names) /\ Total(M[t]) = SumFunctionOnSet(M[t], Names)
    BY TotalType DEF IsTable
  <2>2. \A b \in Names : b # a => K[t][b] = M[t][b]
    BY DEF DiffersAt
  <2>3. SumFunctionOnSet(K[t], Names) + M[t][a] = SumFunctionOnSet(M[t], Names) + K[t][a]
    BY <2>1, <2>2, NamesFinite, SumUpdate
  <2>4. QED
    BY <2>1, <2>3
<1>2. /\ Grand(K) \in Nat /\ Grand(K) = SumFunctionOnSet(sums(K), Tasks) /\ IsNatOn(sums(K), Tasks)
      /\ Grand(M) \in Nat /\ Grand(M) = SumFunctionOnSet(sums(M), Tasks) /\ IsNatOn(sums(M), Tasks)
  BY GrandType
<1>3. /\ sums(M)[t] = Total(M[t]) /\ sums(K)[t] = Total(K[t])
      /\ \A u \in Tasks : u # t => sums(K)[u] = sums(M)[u]
  BY DEF DiffersAt
<1> HIDE DEF sums
<1>4. SumFunctionOnSet(sums(K), Tasks) + sums(M)[t] = SumFunctionOnSet(sums(M), Tasks) + sums(K)[t]
  BY <1>2, <1>3, NamesFinite, SumUpdate
<1>5. /\ Total(K[t]) \in Nat /\ Total(M[t]) \in Nat /\ K[t][a] \in Nat /\ M[t][a] \in Nat
  BY TotalType DEF IsTable
<1>6. Grand(K) + Total(M[t]) = Grand(M) + Total(K[t])
  BY <1>2, <1>3, <1>4
<1>7. Grand(K) \in Nat /\ Grand(M) \in Nat
  BY <1>2
<1> DEFINE x == Grand(K)
           y == Grand(M)
           p == Total(K[t])
           q == Total(M[t])
           k == K[t][a]
           m == M[t][a]
<1>8. /\ x \in Nat /\ y \in Nat /\ p \in Nat /\ q \in Nat /\ k \in Nat /\ m \in Nat
      /\ x + q = y + p /\ p + m = q + k
  BY <1>1, <1>5, <1>6, <1>7
<1> HIDE DEF x, y, p, q, k, m
<1>9. x + m = y + k
  <2>1. m = q + k - p /\ x = y + p - q
    BY <1>8
  <2>2. (y + p - q) + (q + k - p) = y + k
    BY <1>8
  <2>3. QED
    BY <2>1, <2>2
<1>10. QED
  BY <1>1, <1>9 DEF x, y, k, m

LEMMA TableMonotone ==
    ASSUME ShadowAssumption, NEW M, IsTable(M), NEW K, IsTable(K),
           \A t \in Tasks, a \in Names : K[t][a] <= M[t][a]
    PROVE  /\ \A t \in Tasks : Total(K[t]) <= Total(M[t])
           /\ Grand(K) <= Grand(M)
<1> DEFINE sums(X) == [u \in Tasks |-> Total(X[u])]
<1>1. ASSUME NEW t \in Tasks PROVE Total(K[t]) <= Total(M[t])
  <2>1. /\ IsNatOn(K[t], Names) /\ Total(K[t]) = SumFunctionOnSet(K[t], Names)
        /\ IsNatOn(M[t], Names) /\ Total(M[t]) = SumFunctionOnSet(M[t], Names)
    BY TotalType DEF IsTable
  <2>2. \A b \in Names : K[t][b] <= M[t][b]
    OBVIOUS
  <2>3. SumFunctionOnSet(K[t], Names) <= SumFunctionOnSet(M[t], Names)
    BY <2>1, <2>2, NamesFinite, SumMonotone
  <2>4. QED
    BY <2>1, <2>3
<1>2. /\ Grand(K) = SumFunctionOnSet(sums(K), Tasks) /\ IsNatOn(sums(K), Tasks)
      /\ Grand(M) = SumFunctionOnSet(sums(M), Tasks) /\ IsNatOn(sums(M), Tasks)
  BY GrandType
<1>3. \A t \in Tasks : sums(K)[t] <= sums(M)[t]
  BY <1>1
<1> HIDE DEF sums
<1>4. SumFunctionOnSet(sums(K), Tasks) <= SumFunctionOnSet(sums(M), Tasks)
  BY <1>2, <1>3, NamesFinite, SumMonotone
<1>5. QED
  BY <1>1, <1>2, <1>4

LEMMA TableAdd ==
    ASSUME ShadowAssumption, NEW M, IsTable(M), NEW K, IsTable(K), NEW L, IsTable(L),
           \A t \in Tasks, a \in Names : L[t][a] = M[t][a] + K[t][a]
    PROVE  /\ \A t \in Tasks : Total(L[t]) = Total(M[t]) + Total(K[t])
           /\ Grand(L) = Grand(M) + Grand(K)
<1> DEFINE sums(X) == [u \in Tasks |-> Total(X[u])]
<1>1. ASSUME NEW t \in Tasks PROVE Total(L[t]) = Total(M[t]) + Total(K[t])
  <2>1. /\ IsNatOn(K[t], Names) /\ Total(K[t]) = SumFunctionOnSet(K[t], Names)
        /\ IsNatOn(M[t], Names) /\ Total(M[t]) = SumFunctionOnSet(M[t], Names)
        /\ Total(L[t]) = SumFunctionOnSet(L[t], Names)
    BY TotalType DEF IsTable
  <2>2. \A b \in Names : L[t][b] = M[t][b] + K[t][b]
    OBVIOUS
  <2> DEFINE m == M[t]
             k == K[t]
             l == L[t]
  <2>3. SumFunctionOnSet(l, Names) = SumFunctionOnSet(m, Names) + SumFunctionOnSet(k, Names)
    <3>1. IsFiniteSet(Names) /\ IsNatOn(m, Names) /\ IsNatOn(k, Names)
      BY <2>1, NamesFinite
    <3>2. \A b \in Names : l[b] = m[b] + k[b]
      BY <2>2
    <3> HIDE DEF m, k, l
    <3>3. QED
      BY <3>1, <3>2, SumAdd
  <2>4. QED
    BY <2>1, <2>3
<1>2. /\ Grand(K) = SumFunctionOnSet(sums(K), Tasks) /\ IsNatOn(sums(K), Tasks)
      /\ Grand(M) = SumFunctionOnSet(sums(M), Tasks) /\ IsNatOn(sums(M), Tasks)
      /\ Grand(L) = SumFunctionOnSet(sums(L), Tasks)
  BY GrandType
<1>3. \A t \in Tasks : sums(L)[t] = sums(M)[t] + sums(K)[t]
  BY <1>1
<1> HIDE DEF sums
<1>4. SumFunctionOnSet(sums(L), Tasks) =
        SumFunctionOnSet(sums(M), Tasks) + SumFunctionOnSet(sums(K), Tasks)
  BY <1>2, <1>3, NamesFinite, SumAdd
<1>5. QED
  BY <1>1, <1>2, <1>4

-----------------------------------------------------------------------------
\* The inductive invariant of the shadow experiments.

\* The place of an action in the sequence.
Position(a) == CHOOSE i \in 1..Len(Actions) : Actions[i] = a

Active(t) == pc[t] \notin {"idle", "reserve"}

Charged(t, a) == Active(t) /\ Position(a) < at[t]

Resolved(t, a) ==
    Active(t) /\ (Position(a) < at[t] \/ (Position(a) = at[t] /\ pc[t] = "account"))

Uncalled(t, a) ==
    \/ ~Active(t) \/ held[t] < Position(a) \/ at[t] < Position(a)
    \/ Position(a) = at[t] /\ pc[t] \in {"announce", "call"}

\* What an action counts for once it is accounted.
FinalCost(t, a) == IF <<t, a>> \in unreported THEN Bound[a] ELSE spent[t][a]

ShadowTyped ==
    /\ pc \in [Tasks -> Phases]
    /\ at \in [Tasks -> 1..(Len(Actions) + 1)]
    /\ plan \in [Tasks -> 0..Len(Actions)] /\ held \in [Tasks -> 0..Len(Actions)]
    /\ charge \in [Tasks -> Charges \cup {0, UnknownCost}]
    /\ failed \in [Tasks -> BOOLEAN]
    /\ rows \in [Tasks -> [Scopes -> [Names ->
                    [state : {"free", "held", "settled"}, amount : Nat]]]]
    /\ spent \in [Tasks -> [Names -> Charges \cup {0} \cup UNION {0..Bound[a] : a \in Names}]]
    /\ unreported \subseteq Tasks \X Names
    /\ faults \subseteq Tasks \X Scopes \X Names

\* Where a run is, by its phase.
Progress(t) ==
    /\ pc[t] = "idle" => held[t] = 0 /\ at[t] = 1
    /\ pc[t] = "reserve" => at[t] = held[t] + 1 /\ at[t] <= plan[t]
    /\ pc[t] \in {"announce", "call", "settle", "account"} => at[t] <= held[t]
    /\ pc[t] = "ended" => at[t] = held[t] + 1

\* What its calls have cost so far.
Calls(t) ==
    /\ \A a \in Names : Uncalled(t, a) => spent[t][a] = 0 /\ <<t, a>> \notin unreported
    /\ \A a \in Names : <<t, a>> \in unreported => spent[t][a] <= Bound[a]
    /\ pc[t] \in {"settle", "account"} =>
        charge[t] = IF <<t, Here(t)>> \in unreported THEN UnknownCost ELSE spent[t][Here(t)]

\* What the authority holds for it, unless it has raised on that row.
RowAgrees(t, s, a) ==
    IF held[t] < Position(a)
    THEN rows[t][s][a].state # "held" /\ rows[t][s][a].amount = 0
    ELSE IF ~Resolved(t, a) THEN rows[t][s][a] = Held(Bound[a])
    ELSE /\ rows[t][s][a].amount = FinalCost(t, a)
         /\ rows[t][s][a].state = "held" => <<t, a>> \in unreported

RowsKept(t) == \A s \in Scopes, a \in Names : <<t, s, a>> \in faults \/ RowAgrees(t, s, a)

\* What the service counts for an action, and how much of that is within its bound.
Booked(t, a) ==
    IF held[t] < Position(a) THEN 0
    ELSE IF Charged(t, a) THEN FinalCost(t, a) ELSE Bound[a]

Books == [t \in Tasks |-> [a \in Names |-> Booked(t, a)]]

Least(x, y) == IF x <= y THEN x ELSE y

WithinBounds(M) == [t \in Tasks |-> [a \in Names |-> Least(M[t][a], Bound[a])]]

Capped(M) ==
    /\ \A t \in Tasks : Total(WithinBounds(M)[t]) <= TaskCap
    /\ Grand(WithinBounds(M)) <= PeriodCap

ShadowInv ==
    /\ ShadowTyped
    /\ \A t \in Tasks : Progress(t) /\ Calls(t) /\ RowsKept(t)
    /\ debits = [t \in Tasks |-> Total(Books[t])]
    /\ period = Grand(Books)
    /\ Capped(Books)

LEMMA Positions ==
    ASSUME ShadowAssumption
    PROVE  /\ \A a \in Names : Position(a) \in 1..Len(Actions) /\ Actions[Position(a)] = a
           /\ \A i \in 1..Len(Actions) : Actions[i] \in Names /\ Position(Actions[i]) = i
<1>1. ASSUME NEW a \in Names PROVE Position(a) \in 1..Len(Actions) /\ Actions[Position(a)] = a
  BY Zenon DEF Position, Names
<1>2. ASSUME NEW i \in 1..Len(Actions) PROVE Actions[i] \in Names /\ Position(Actions[i]) = i
  <2>1. Actions[i] \in Names
    BY Zenon DEF Names
  <2>2. /\ Position(Actions[i]) \in 1..Len(Actions)
        /\ Actions[Position(Actions[i])] = Actions[i]
    BY <1>1, <2>1, Zenon
  <2>3. QED
    BY <2>1, <2>2, NamesFinite, Zenon DEF Injection, IsInjective
<1>3. QED
  BY <1>1, <1>2, Zenon

LEMMA SpentIsNat ==
    ASSUME ShadowAssumption, ShadowTyped
    PROVE  \A t \in Tasks, a \in Names : spent[t][a] \in Nat
<1> DEFINE Covered == UNION {0..Bound[a] : a \in Names}
           CostValues   == Charges \cup {0} \cup Covered
<1>1. CostValues \subseteq Nat
  <2>1. Charges \subseteq Nat
    BY DEF ShadowAssumption
  <2>2. \A a \in Names : 0..Bound[a] \subseteq Nat
    BY NamesFinite
  <2>3. Covered \subseteq Nat
    BY <2>2
  <2> HIDE DEF Covered
  <2>4. QED
    BY <2>1, <2>3
<1>2. \A t \in Tasks, a \in Names : spent[t][a] \in CostValues
  BY DEF ShadowTyped
<1>3. QED
  BY <1>1, <1>2

LEMMA CountedType ==
    ASSUME ShadowAssumption, ShadowTyped
    PROVE  \A t \in Tasks, a \in Names : Booked(t, a) \in Nat
  BY SpentIsNat, NamesFinite DEF Booked, FinalCost

LEMMA CountedTypeNext ==
    ASSUME ShadowAssumption, ShadowTyped'
    PROVE  \A t \in Tasks, a \in Names : Booked(t, a)' \in Nat
<1> DEFINE Covered == UNION {0..Bound[a] : a \in Names}
           CostValues   == Charges \cup {0} \cup Covered
<1>1. CostValues \subseteq Nat
  <2>1. Charges \subseteq Nat
    BY DEF ShadowAssumption
  <2>2. \A a \in Names : 0..Bound[a] \subseteq Nat
    BY NamesFinite
  <2>3. Covered \subseteq Nat
    BY <2>2
  <2> HIDE DEF Covered
  <2>4. QED
    BY <2>1, <2>3
<1>2. spent' \in [Tasks -> [Names -> CostValues]]
  BY DEF ShadowTyped
<1> HIDE DEF CostValues
<1>3. \A t \in Tasks, a \in Names : spent'[t][a] \in Nat
  BY <1>1, <1>2
<1>4. QED
  BY <1>3, NamesFinite DEF Booked, FinalCost

LEMMA BooksTable ==
    ASSUME ShadowAssumption, ShadowTyped
    PROVE  /\ IsTable(Books)
           /\ \A t \in Tasks, a \in Names : Books[t][a] = Booked(t, a)
  BY CountedType DEF Books, IsTable

LEMMA WithinTable ==
    ASSUME ShadowAssumption, NEW M, IsTable(M)
    PROVE  /\ IsTable(WithinBounds(M))
           /\ \A t \in Tasks, a \in Names :
                WithinBounds(M)[t][a] = Least(M[t][a], Bound[a]) /\ WithinBounds(M)[t][a] <= M[t][a]
<1>1. \A x \in Nat, y \in Nat : Least(x, y) \in Nat /\ Least(x, y) <= x
  BY DEF Least
<1>2. \A t \in Tasks, a \in Names : Bound[a] \in Nat /\ M[t][a] \in Nat
  BY NamesFinite DEF IsTable
<1>3. QED
  BY <1>1, <1>2 DEF WithinBounds, IsTable

LEMMA ShadowTypes == ASSUME ShadowAssumption, ShadowInv PROVE ShadowTypeOK
<1>1. \A t \in Tasks : Total(Books[t]) \in Nat
  BY BooksTable, TotalType DEF ShadowInv, IsTable
<1>2. period \in Nat
  BY BooksTable, GrandType DEF ShadowInv
<1>3. debits \in [Tasks -> Nat]
  BY <1>1 DEF ShadowInv
<1>4. QED
  BY <1>2, <1>3 DEF ShadowInv, ShadowTyped, ShadowTypeOK

-----------------------------------------------------------------------------
\* A step of one task leaves the others alone.

Untouched(u) ==
    /\ pc'[u] = pc[u] /\ at'[u] = at[u] /\ plan'[u] = plan[u] /\ held'[u] = held[u]
    /\ charge'[u] = charge[u] /\ rows'[u] = rows[u] /\ spent'[u] = spent[u]
    /\ \A a \in Names : (<<u, a>> \in unreported') = (<<u, a>> \in unreported)
    /\ \A s \in Scopes, a \in Names : <<u, s, a>> \in faults => <<u, s, a>> \in faults'

LEMMA SameKept ==
    ASSUME ShadowAssumption, ShadowTyped, NEW u \in Tasks, Untouched(u),
           Progress(u), Calls(u), RowsKept(u)
    PROVE  /\ Progress(u)' /\ Calls(u)' /\ RowsKept(u)'
           /\ \A a \in Names : Booked(u, a)' = Booked(u, a)
<1>1. /\ pc'[u] = pc[u] /\ at'[u] = at[u] /\ plan'[u] = plan[u] /\ held'[u] = held[u]
      /\ charge'[u] = charge[u] /\ rows'[u] = rows[u] /\ spent'[u] = spent[u]
  BY DEF Untouched
<1>2. Progress(u)'
  BY <1>1 DEF Progress
<1>3. Active(u)' = Active(u) /\ Here(u)' = Here(u)
  BY <1>1 DEF Active, Here
<1>4. \A a \in Names : /\ Uncalled(u, a)' = Uncalled(u, a) /\ Resolved(u, a)' = Resolved(u, a)
                       /\ Charged(u, a)' = Charged(u, a)
                       /\ FinalCost(u, a)' = FinalCost(u, a)
  BY <1>1, <1>3 DEF Uncalled, Resolved, Charged, FinalCost, Untouched
<1>5. pc[u] \in {"settle", "account"} => Here(u) \in Names
  BY Positions DEF Here, Progress, ShadowTyped
<1>6. Calls(u)'
  BY <1>1, <1>3, <1>4, <1>5 DEF Calls, Untouched
<1>7. \A s \in Scopes, a \in Names : RowAgrees(u, s, a)' = RowAgrees(u, s, a)
  BY <1>1, <1>4 DEF RowAgrees, Untouched
<1>8. RowsKept(u)'
  BY <1>7 DEF RowsKept, Untouched
<1>9. \A a \in Names : Booked(u, a)' = Booked(u, a)
  BY <1>1, <1>4 DEF Booked
<1>10. QED
  BY <1>2, <1>6, <1>8, <1>9

\* What a step of task t has to show, whatever it does to the books.
StepOf(t) ==
    /\ ShadowTyped'
    /\ \A u \in Tasks : u # t => Untouched(u)
    /\ Progress(t)' /\ Calls(t)' /\ RowsKept(t)'

LEMMA SameBooks ==
    ASSUME ShadowAssumption, ShadowInv, NEW t \in Tasks, StepOf(t),
           \A a \in Names : Booked(t, a)' = Booked(t, a), UNCHANGED <<debits, period>>
    PROVE  ShadowInv'
<1>1. \A u \in Tasks : u # t =>
        /\ Progress(u)' /\ Calls(u)' /\ RowsKept(u)'
        /\ \A a \in Names : Booked(u, a)' = Booked(u, a)
  BY SameKept DEF ShadowInv, StepOf
<1>2. \A u \in Tasks, a \in Names : Booked(u, a)' = Booked(u, a)
  BY <1>1
<1>3. Books' = Books
  BY <1>2 DEF Books
<1>4. \A u \in Tasks : Progress(u)' /\ Calls(u)' /\ RowsKept(u)'
  BY <1>1 DEF StepOf
<1>5. ShadowTyped'
  BY DEF StepOf
<1>6. debits = [u \in Tasks |-> Total(Books[u])] /\ period = Grand(Books) /\ Capped(Books)
  BY DEF ShadowInv
<1>7. /\ debits' = [u \in Tasks |-> Total(Books'[u])] /\ period' = Grand(Books')
      /\ Capped(Books')
  BY <1>3, <1>6
<1>8. QED
  BY <1>4, <1>5, <1>7 DEF ShadowInv

\* The caps cover a table whose totals fit them, and one that covers no more than before.
LEMMA CappedByTotals ==
    ASSUME ShadowAssumption, NEW M, IsTable(M), NEW K, IsTable(K), Capped(M), NEW t \in Tasks,
           \A u \in Tasks : u # t => K[u] = M[u], Total(K[t]) <= TaskCap, Grand(K) <= PeriodCap
    PROVE  Capped(K)
<1>1. IsTable(WithinBounds(K)) /\ \A u \in Tasks, b \in Names : WithinBounds(K)[u][b] <= K[u][b]
  BY WithinTable
<1>2. Total(WithinBounds(K)[t]) <= Total(K[t]) /\ Grand(WithinBounds(K)) <= Grand(K)
  BY <1>1, TableMonotone
<1>3. /\ Total(WithinBounds(K)[t]) \in Nat /\ Total(K[t]) \in Nat
      /\ Grand(WithinBounds(K)) \in Nat /\ Grand(K) \in Nat
  BY <1>1, TotalType, GrandType DEF IsTable
<1>4. TaskCap \in Nat /\ PeriodCap \in Nat
  BY DEF ShadowAssumption
<1>5. Total(WithinBounds(K)[t]) <= TaskCap /\ Grand(WithinBounds(K)) <= PeriodCap
  BY <1>2, <1>3, <1>4
<1>6. \A u \in Tasks : u # t => WithinBounds(K)[u] = WithinBounds(M)[u]
  BY DEF WithinBounds
<1>7. QED
  BY <1>5, <1>6 DEF Capped

LEMMA CappedByLess ==
    ASSUME ShadowAssumption, NEW M, IsTable(M), NEW K, IsTable(K), Capped(M),
           NEW t \in Tasks, NEW a \in Names, DiffersAt(M, K, t, a), M[t][a] = Bound[a]
    PROVE  Capped(K)
<1>1. /\ IsTable(WithinBounds(K)) /\ IsTable(WithinBounds(M))
      /\ \A u \in Tasks, b \in Names : /\ WithinBounds(K)[u][b] = Least(K[u][b], Bound[b])
                                       /\ WithinBounds(M)[u][b] = Least(M[u][b], Bound[b])
  BY WithinTable
<1>2. ASSUME NEW u \in Tasks, NEW b \in Names PROVE WithinBounds(K)[u][b] <= WithinBounds(M)[u][b]
  <2>1. K[u][b] \in Nat /\ Bound[b] \in Nat /\ M[u][b] \in Nat
    BY NamesFinite DEF IsTable
  <2>2. CASE u = t /\ b = a
    BY <1>1, <2>1, <2>2 DEF Least
  <2>3. CASE ~(u = t /\ b = a)
    <3>1. K[u][b] = M[u][b]
      BY <2>3 DEF DiffersAt
    <3>2. QED
      BY <1>1, <2>1, <3>1 DEF Least
  <2>4. QED
    BY <2>2, <2>3
<1>3. /\ \A u \in Tasks : Total(WithinBounds(K)[u]) <= Total(WithinBounds(M)[u])
      /\ Grand(WithinBounds(K)) <= Grand(WithinBounds(M))
  BY <1>1, <1>2, TableMonotone
<1>4. /\ \A u \in Tasks : Total(WithinBounds(K)[u]) \in Nat /\ Total(WithinBounds(M)[u]) \in Nat
      /\ Grand(WithinBounds(K)) \in Nat /\ Grand(WithinBounds(M)) \in Nat
      /\ TaskCap \in Nat /\ PeriodCap \in Nat
  BY <1>1, TotalType, GrandType DEF IsTable, ShadowAssumption
<1>5. QED
  BY <1>3, <1>4 DEF Capped

\* A step that counts another amount for one action of its task.
LEMMA NewBooks ==
    ASSUME ShadowAssumption, ShadowInv, NEW t \in Tasks, StepOf(t), NEW a \in Names,
           \A b \in Names : b # a => Booked(t, b)' = Booked(t, b),
           NEW d \in Int, Booked(t, a)' = Booked(t, a) + d,
           debits' = [debits EXCEPT ![t] = @ + d], period' = period + d,
           \/ Booked(t, a) = Bound[a]
           \/ debits[t] + d <= TaskCap /\ period + d <= PeriodCap
    PROVE  ShadowInv'
<1> DEFINE M == Books
           K == Books'
<1>1. \A u \in Tasks : u # t =>
        /\ Progress(u)' /\ Calls(u)' /\ RowsKept(u)'
        /\ \A b \in Names : Booked(u, b)' = Booked(u, b)
  BY SameKept DEF ShadowInv, StepOf
<1>2. \A u \in Tasks : Progress(u)' /\ Calls(u)' /\ RowsKept(u)'
  BY <1>1 DEF StepOf
<1>3. IsTable(M) /\ \A u \in Tasks, b \in Names : M[u][b] = Booked(u, b)
  BY BooksTable DEF ShadowInv
<1>4. IsTable(K) /\ \A u \in Tasks, b \in Names : K[u][b] = Booked(u, b)'
  <2>1. ShadowTyped'
    BY DEF StepOf
  <2>2. \A u \in Tasks, b \in Names : Booked(u, b)' \in Nat
    BY <2>1, CountedTypeNext
  <2>3. QED
    BY <2>2 DEF Books, IsTable
<1>5. DiffersAt(M, K, t, a)
  BY <1>1 DEF DiffersAt, Books
<1>6. /\ debits = [u \in Tasks |-> Total(M[u])] /\ period = Grand(M) /\ Capped(M)
  BY DEF ShadowInv
<1>7. M[t][a] = Booked(t, a) /\ K[t][a] = M[t][a] + d
  BY <1>3, <1>4
<1> HIDE DEF M, K
<1>8. /\ Total(K[t]) + M[t][a] = Total(M[t]) + K[t][a]
      /\ Grand(K) + M[t][a] = Grand(M) + K[t][a]
  BY <1>3, <1>4, <1>5, TableUpdate
<1>9. /\ Total(K[t]) \in Nat /\ Total(M[t]) \in Nat /\ Grand(K) \in Nat /\ Grand(M) \in Nat
      /\ M[t][a] \in Nat
  BY <1>3, <1>4, TotalType, GrandType DEF IsTable
<1>10. Total(K[t]) = Total(M[t]) + d /\ Grand(K) = Grand(M) + d
  <2> DEFINE x == Total(K[t])
             y == Total(M[t])
             p == Grand(K)
             q == Grand(M)
             k == K[t][a]
             m == M[t][a]
  <2>1. /\ x \in Nat /\ y \in Nat /\ p \in Nat /\ q \in Nat /\ m \in Nat /\ k = m + d
        /\ x + m = y + k /\ p + m = q + k
    BY <1>7, <1>8, <1>9
  <2> HIDE DEF x, y, p, q, k, m
  <2>2. x = y + d /\ p = q + d
    BY <2>1
  <2>3. QED
    BY <2>2 DEF x, y, p, q
<1>11. debits' = [u \in Tasks |-> Total(K[u])]
  <2>1. \A u \in Tasks : u # t => K[u] = M[u]
    BY <1>5 DEF DiffersAt
  <2>2. QED
    BY <1>6, <1>10, <2>1
<1>12. period' = Grand(K)
  BY <1>6, <1>10
<1>13. Capped(K)
  <2>1. CASE Booked(t, a) = Bound[a]
    BY <1>3, <1>4, <1>5, <1>6, <1>7, <2>1, CappedByLess
  <2>2. CASE debits[t] + d <= TaskCap /\ period + d <= PeriodCap
    <3>1. Total(K[t]) <= TaskCap /\ Grand(K) <= PeriodCap
      BY <1>6, <1>10, <2>2
    <3>2. \A u \in Tasks : u # t => K[u] = M[u]
      BY <1>5 DEF DiffersAt
    <3>3. QED
      BY <1>3, <1>4, <1>6, <3>1, <3>2, CappedByTotals
  <2>3. QED
    BY <2>1, <2>2
<1>14. ShadowTyped'
  BY DEF StepOf
<1>15. QED
  BY <1>2, <1>11, <1>12, <1>13, <1>14 DEF ShadowInv, K

-----------------------------------------------------------------------------
\* The actions.

\* Where task t is, and that its actions have places.
Located(t) ==
    /\ at[t] \in 1..(Len(Actions) + 1) /\ held[t] \in 0..Len(Actions) /\ plan[t] \in 0..Len(Actions)
    /\ \A a \in Names : Position(a) \in 1..Len(Actions)
    /\ at[t] <= Len(Actions) => /\ Here(t) \in Names /\ Position(Here(t)) = at[t]
                                /\ \A a \in Names : Position(a) = at[t] => a = Here(t)

LEMMA Place ==
    ASSUME ShadowAssumption, ShadowInv, NEW t \in Tasks
    PROVE  /\ Located(t) /\ Progress(t) /\ Calls(t) /\ RowsKept(t) /\ ShadowTyped
           /\ Len(Actions) \in Nat
           /\ pc[t] \in {"announce", "call", "settle", "account", "reserve"} => at[t] <= Len(Actions)
<1>1. Progress(t) /\ Calls(t) /\ RowsKept(t) /\ ShadowTyped /\ Len(Actions) \in Nat
  BY NamesFinite DEF ShadowInv
<1>2. at[t] \in 1..(Len(Actions) + 1) /\ held[t] \in 0..Len(Actions) /\ plan[t] \in 0..Len(Actions)
  BY <1>1 DEF ShadowTyped
<1>3. \A a \in Names : Position(a) \in 1..Len(Actions) /\ Actions[Position(a)] = a
  BY Positions
<1>4. at[t] <= Len(Actions) => Here(t) \in Names /\ Position(Here(t)) = at[t]
  BY <1>1, <1>2, Positions DEF Here
<1>5. \A a \in Names : Position(a) = at[t] => a = Here(t)
  BY <1>3 DEF Here
<1>6. pc[t] \in {"announce", "call", "settle", "account", "reserve"} => at[t] <= Len(Actions)
  BY <1>1, <1>2 DEF Progress
<1>7. QED
  BY <1>1, <1>2, <1>3, <1>4, <1>5, <1>6 DEF Located

LEMMA SkipStep ==
    ASSUME ShadowAssumption, ShadowInv, NEW t \in Tasks, NEW c \in Circumstances,
           Skip(t, c) \/ Begin(t, c)
    PROVE  ShadowInv'
<1>1. Located(t) /\ Progress(t) /\ Calls(t) /\ RowsKept(t) /\ ShadowTyped /\ Len(Actions) \in Nat
  BY Place
<1>2. /\ pc[t] = "idle" /\ pc'[t] \in {"ended", "reserve"} /\ pc' \in [Tasks -> Phases]
      /\ plan' \in [Tasks -> 0..Len(Actions)] /\ (pc'[t] = "reserve" => plan'[t] \in 2..Len(Actions))
      /\ \A u \in Tasks : u # t => pc'[u] = pc[u] /\ plan'[u] = plan[u]
      /\ at' = at /\ held' = held /\ charge' = charge /\ failed' = failed /\ rows' = rows
      /\ spent' = spent /\ unreported' = unreported /\ faults' = faults
      /\ UNCHANGED <<debits, period>>
  <2>1. CASE Skip(t, c)
    BY <1>1, <2>1 DEF Skip, ShadowTyped, Phases
  <2>2. CASE Begin(t, c)
    <3> DEFINE p == IF c.refs THEN Len(Actions) ELSE 2
    <3>1. p \in 2..Len(Actions) /\ p \in 0..Len(Actions)
      BY NamesFinite
    <3>2. pc[t] = "idle" /\ pc' = [pc EXCEPT ![t] = "reserve"] /\ plan' = [plan EXCEPT ![t] = p]
          /\ UNCHANGED <<at, held, charge, failed, debits, period, rows, spent, unreported, faults>>
      BY <2>2 DEF Begin
    <3> HIDE DEF p
    <3>3. QED
      BY <1>1, <3>1, <3>2 DEF ShadowTyped, Phases
  <2>3. QED
    BY <2>1, <2>2
<1>3. ShadowTyped'
  BY <1>1, <1>2 DEF ShadowTyped
<1>4. \A u \in Tasks : u # t => Untouched(u)
  BY <1>2 DEF Untouched
<1>5. Progress(t)'
  BY <1>1, <1>2 DEF Progress
<1>6. ~Active(t) /\ held[t] = 0 /\ \A a \in Names : 0 < Position(a)
  BY <1>1, <1>2 DEF Active, Progress, Located
<1>7. Calls(t)'
  BY <1>1, <1>2, <1>6 DEF Calls, Uncalled
<1>8. RowsKept(t)'
  BY <1>1, <1>2, <1>6 DEF RowsKept, RowAgrees
<1>9. \A a \in Names : Booked(t, a)' = Booked(t, a)
  BY <1>2, <1>6 DEF Booked
<1>10. QED
  BY <1>2, <1>3, <1>4, <1>5, <1>7, <1>8, <1>9, SameBooks DEF StepOf

LEMMA AnnounceStep ==
    ASSUME ShadowAssumption, ShadowInv, NEW t \in Tasks, Announce(t)
    PROVE  ShadowInv'
<1>1. Located(t) /\ Progress(t) /\ Calls(t) /\ RowsKept(t) /\ ShadowTyped /\ Len(Actions) \in Nat
  BY Place
<1>2. /\ pc[t] = "announce" /\ pc'[t] = "call" /\ pc' \in [Tasks -> Phases]
      /\ \A u \in Tasks : u # t => pc'[u] = pc[u]
      /\ at' = at /\ plan' = plan /\ held' = held /\ charge' = charge /\ failed' = failed
      /\ rows' = rows /\ spent' = spent /\ unreported' = unreported /\ faults' = faults
      /\ UNCHANGED <<debits, period>>
  BY <1>1 DEF Announce, ShadowTyped, Phases
<1>3. ShadowTyped'
  BY <1>1, <1>2 DEF ShadowTyped
<1>4. \A u \in Tasks : u # t => Untouched(u)
  BY <1>2 DEF Untouched
<1>5. Progress(t)'
  BY <1>1, <1>2 DEF Progress
<1>6. \A a \in Names : /\ Uncalled(t, a)' = Uncalled(t, a) /\ Resolved(t, a)' = Resolved(t, a)
                       /\ Charged(t, a)' = Charged(t, a)
                       /\ FinalCost(t, a)' = FinalCost(t, a)
  BY <1>2 DEF Uncalled, Resolved, Charged, FinalCost, Active
<1>7. Calls(t)'
  BY <1>1, <1>2, <1>6 DEF Calls
<1>8. RowsKept(t)'
  BY <1>1, <1>2, <1>6 DEF RowsKept, RowAgrees
<1>9. \A a \in Names : Booked(t, a)' = Booked(t, a)
  BY <1>2, <1>6 DEF Booked
<1>10. QED
  BY <1>2, <1>3, <1>4, <1>5, <1>7, <1>8, <1>9, SameBooks DEF StepOf

\* The two cancellations settle from the current action on.
LEMMA CancelStep ==
    ASSUME ShadowAssumption, ShadowInv, NEW t \in Tasks, CancelGeneration(t) \/ CancelEvaluation(t)
    PROVE  ShadowInv'
<1>1. Located(t) /\ Progress(t) /\ Calls(t) /\ RowsKept(t) /\ ShadowTyped /\ Len(Actions) \in Nat
  BY Place
<1>2. /\ pc[t] = "announce" /\ pc'[t] = "settle" /\ pc' \in [Tasks -> Phases]
      /\ \A u \in Tasks : u # t => pc'[u] = pc[u]
      /\ charge' \in [Tasks -> Charges \cup {0, UnknownCost}] /\ failed' \in [Tasks -> BOOLEAN]
      /\ charge'[t] = 0 /\ \A u \in Tasks : u # t => charge'[u] = charge[u]
      /\ at' = at /\ plan' = plan /\ held' = held
      /\ rows' = rows /\ spent' = spent /\ unreported' = unreported /\ faults' = faults
      /\ UNCHANGED <<debits, period>>
  <2>1. pc[t] = "announce" /\ Release(t, at[t])
        /\ UNCHANGED <<debits, period, rows, spent, unreported, faults>>
    BY DEF CancelGeneration, CancelEvaluation
  <2>2. at[t] <= held[t]
    BY <1>1, <2>1 DEF Progress
  <2>3. ~(at[t] > held[t])
    BY <1>1, <2>2 DEF Located
  <2>4. QED
    BY <1>1, <2>1, <2>3 DEF Release, ShadowTyped, Phases
<1>3. ShadowTyped'
  BY <1>1, <1>2 DEF ShadowTyped
<1>4. \A u \in Tasks : u # t => Untouched(u)
  BY <1>2 DEF Untouched
<1>5. Progress(t)'
  BY <1>1, <1>2 DEF Progress
<1>6. Here(t) \in Names /\ Position(Here(t)) = at[t] /\ Here(t)' = Here(t)
  BY <1>2, Place DEF Located, Here
<1>7. spent[t][Here(t)] = 0 /\ <<t, Here(t)>> \notin unreported
  BY <1>1, <1>2, <1>6 DEF Calls, Uncalled
<1>8. \A a \in Names : /\ Uncalled(t, a)' => Uncalled(t, a)
                       /\ Resolved(t, a)' = Resolved(t, a)
                       /\ Charged(t, a)' = Charged(t, a)
                       /\ FinalCost(t, a)' = FinalCost(t, a)
  BY <1>2 DEF Uncalled, Resolved, Charged, FinalCost, Active
<1>9. Calls(t)'
  BY <1>1, <1>2, <1>6, <1>7, <1>8 DEF Calls
<1>10. RowsKept(t)'
  BY <1>1, <1>2, <1>8 DEF RowsKept, RowAgrees
<1>11. \A a \in Names : Booked(t, a)' = Booked(t, a)
  BY <1>2, <1>8 DEF Booked
<1>12. QED
  BY <1>2, <1>3, <1>4, <1>5, <1>9, <1>10, <1>11, SameBooks DEF StepOf

LEMMA CalledStep ==
    ASSUME ShadowAssumption, ShadowInv, NEW t \in Tasks, NEW cost \in Charges,
           NEW reported \in BOOLEAN, NEW fails \in BOOLEAN, Called(t, cost, reported, fails)
    PROVE  ShadowInv'
<1> DEFINE h == Here(t)
<1>1. Located(t) /\ Progress(t) /\ Calls(t) /\ RowsKept(t) /\ ShadowTyped /\ Len(Actions) \in Nat
  BY Place
<1>2. h \in Names /\ Position(h) = at[t] /\ \A a \in Names : Position(a) = at[t] => a = h
  BY Place DEF Called, Located
<1>3. h = Here(t)
  OBVIOUS
<1> HIDE DEF h
<1>4. /\ pc[t] = "call" /\ pc'[t] = "settle" /\ pc' \in [Tasks -> Phases]
      /\ \A u \in Tasks : u # t => pc'[u] = pc[u] /\ spent'[u] = spent[u] /\ charge'[u] = charge[u]
      /\ charge' \in [Tasks -> Charges \cup {0, UnknownCost}] /\ failed' \in [Tasks -> BOOLEAN]
      /\ spent' \in [Tasks -> [Names -> Charges \cup {0} \cup UNION {0..Bound[a] : a \in Names}]]
      /\ at' = at /\ plan' = plan /\ held' = held /\ rows' = rows /\ faults' = faults
      /\ UNCHANGED <<debits, period>>
  BY <1>1, <1>2, <1>3 DEF Called, ShadowTyped, Phases
<1>5. /\ spent'[t][h] = cost /\ \A b \in Names : b # h => spent'[t][b] = spent[t][b]
      /\ charge'[t] = IF reported THEN cost ELSE UnknownCost
      /\ unreported' = IF reported THEN unreported ELSE unreported \cup {<<t, h>>}
      /\ reported \/ cost <= Bound[h]
  BY <1>1, <1>2, <1>3 DEF Called, ShadowTyped
<1>6. ShadowTyped'
  <2>1. unreported' \subseteq Tasks \X Names
    BY <1>1, <1>2, <1>5 DEF ShadowTyped
  <2>2. QED
    BY <1>1, <1>4, <2>1 DEF ShadowTyped
<1>7. \A u \in Tasks, a \in Names : u # t \/ a # h => (<<u, a>> \in unreported') = (<<u, a>> \in unreported)
  BY <1>5
<1>8. \A u \in Tasks : u # t => Untouched(u)
  BY <1>4, <1>7 DEF Untouched
<1>9. Progress(t)'
  BY <1>1, <1>4 DEF Progress
<1>10. <<t, h>> \notin unreported /\ h = Here(t)'
  BY <1>1, <1>2, <1>3, <1>4 DEF Calls, Uncalled, Here
<1>11. (<<t, h>> \in unreported') = (reported = FALSE)
  BY <1>5, <1>10
<1>12. at[t] <= held[t] /\ at[t] \in Nat /\ held[t] \in Nat
  BY <1>1, <1>4 DEF Progress, Located
<1>13. \A a \in Names : Uncalled(t, a)' => Uncalled(t, a) /\ a # h
  BY <1>2, <1>4, <1>12 DEF Uncalled, Active
<1>14. Calls(t)'
  <2>1. ASSUME NEW a \in Names, Uncalled(t, a)' PROVE spent'[t][a] = 0 /\ <<t, a>> \notin unreported'
    BY <1>1, <1>5, <1>7, <1>13, <2>1 DEF Calls
  <2>2. ASSUME NEW a \in Names, <<t, a>> \in unreported' PROVE spent'[t][a] <= Bound[a]
    BY <1>1, <1>5, <1>7, <1>11, <2>2 DEF Calls
  <2>3. charge'[t] = IF <<t, h>> \in unreported' THEN UnknownCost ELSE spent'[t][h]
    BY <1>5, <1>11
  <2>4. QED
    BY <1>10, <2>1, <2>2, <2>3 DEF Calls
<1>15. \A a \in Names : /\ Resolved(t, a)' = Resolved(t, a) /\ Charged(t, a)' = Charged(t, a)
                        /\ Resolved(t, a) \/ Charged(t, a) => a # h
  BY <1>1, <1>2, <1>4, <1>12 DEF Resolved, Charged, Active, Located
<1>16. \A a \in Names : a # h => FinalCost(t, a)' = FinalCost(t, a)
  BY <1>5, <1>7 DEF FinalCost
<1>17. RowsKept(t)'
  BY <1>1, <1>4, <1>7, <1>15, <1>16 DEF RowsKept, RowAgrees
<1>18. \A a \in Names : Booked(t, a)' = Booked(t, a)
  BY <1>4, <1>15, <1>16 DEF Booked
<1>19. QED
  BY <1>4, <1>6, <1>8, <1>9, <1>14, <1>17, <1>18, SameBooks DEF StepOf

\* A reservation of both scopes adds the action's bound to the books.
LEMMA ReserveStep ==
    ASSUME ShadowAssumption, ShadowInv, NEW t \in Tasks, ReserveAction(t)
    PROVE  ShadowInv'
<1>1. Located(t) /\ Progress(t) /\ Calls(t) /\ RowsKept(t) /\ ShadowTyped /\ Len(Actions) \in Nat
  BY Place
<1>2. PICK h \in Names : h = Here(t)
  BY Place DEF ReserveAction, Located
<1>3. h \in Names /\ Position(h) = at[t] /\ Bound[h] \in Nat
      /\ \A a \in Names : Position(a) = at[t] => a = h
  BY <1>2, Place, NamesFinite DEF ReserveAction, Located
<1>4. /\ pc[t] = "reserve" /\ at[t] = held[t] + 1 /\ at[t] <= plan[t] /\ held[t] \in Nat
      /\ at[t] \in 1..Len(Actions)
  BY <1>1, Place DEF ReserveAction, Progress, Located
<1>5. /\ debits[t] + Bound[h] <= TaskCap /\ period + Bound[h] <= PeriodCap
      /\ debits' = [debits EXCEPT ![t] = @ + Bound[h]] /\ period' = period + Bound[h]
  BY <1>2 DEF ReserveAction, FitsCaps
<1>6. /\ rows' = [rows EXCEPT ![t] = [s \in Scopes |-> [rows[t][s] EXCEPT ![h] = Held(Bound[h])]]]
      /\ held' = [held EXCEPT ![t] = at[t]]
      /\ plan' = plan /\ charge' = charge /\ failed' = failed /\ spent' = spent
      /\ unreported' = unreported /\ faults' = faults
  BY <1>2 DEF ReserveAction
<1>7. \/ /\ at[t] = plan[t] /\ at' = [at EXCEPT ![t] = 1] /\ pc' = [pc EXCEPT ![t] = "announce"]
      \/ /\ at[t] # plan[t] /\ at' = [at EXCEPT ![t] = @ + 1] /\ pc' = pc
  BY DEF ReserveAction
<1>8. \A u \in Tasks : u # t => pc'[u] = pc[u] /\ at'[u] = at[u] /\ held'[u] = held[u] /\ rows'[u] = rows[u]
  BY <1>1, <1>6, <1>7 DEF ShadowTyped
<1>9. /\ held'[t] = at[t]
      /\ \/ at[t] = plan[t] /\ at'[t] = 1 /\ pc'[t] = "announce"
         \/ at[t] # plan[t] /\ at'[t] = at[t] + 1 /\ pc'[t] = "reserve"
  BY <1>1, <1>4, <1>6, <1>7 DEF ShadowTyped
<1>10. /\ \A s \in Scopes : rows'[t][s][h] = Held(Bound[h])
       /\ \A s \in Scopes, b \in Names : b # h => rows'[t][s][b] = rows[t][s][b]
  BY <1>1, <1>3, <1>6 DEF ShadowTyped
<1>11. ShadowTyped'
  <2>1. pc' \in [Tasks -> Phases]
    BY <1>1, <1>7 DEF ShadowTyped, Phases
  <2>2. at' \in [Tasks -> 1..(Len(Actions) + 1)]
    <3>1. at[t] + 1 \in 1..(Len(Actions) + 1) /\ 1 \in 1..(Len(Actions) + 1)
      BY <1>1, <1>4
    <3>2. \E i \in 1..(Len(Actions) + 1) : at' = [at EXCEPT ![t] = i]
      BY <1>7, <3>1
    <3>3. QED
      BY <1>1, <3>2 DEF ShadowTyped
  <2>3. held' \in [Tasks -> 0..Len(Actions)]
    BY <1>1, <1>4, <1>6 DEF ShadowTyped
  <2>4. rows' \in [Tasks -> [Scopes -> [Names -> [state : {"free", "held", "settled"}, amount : Nat]]]]
    <3>1. Held(Bound[h]) \in [state : {"free", "held", "settled"}, amount : Nat]
      BY <1>3 DEF Held
    <3>2. QED
      BY <1>1, <1>3, <1>6, <3>1 DEF ShadowTyped
  <2>5. QED
    BY <1>1, <1>6, <2>1, <2>2, <2>3, <2>4 DEF ShadowTyped
<1>12. \A u \in Tasks : u # t => Untouched(u)
  BY <1>6, <1>8 DEF Untouched
<1>13. plan[t] \in 0..Len(Actions) /\ plan'[t] = plan[t]
  BY <1>1, <1>6 DEF Located
<1>14. Progress(t)'
  BY <1>4, <1>9, <1>13 DEF Progress
<1>15. ~Active(t)
  BY <1>4 DEF Active
<1>16. Calls(t)'
  BY <1>1, <1>6, <1>9, <1>15 DEF Calls, Uncalled
<1>17. \A a \in Names : ~Resolved(t, a) /\ ~Resolved(t, a)' /\ ~Charged(t, a) /\ ~Charged(t, a)'
  BY <1>1, <1>9, <1>15 DEF Resolved, Charged, Active, Located
<1>18. \A a \in Names : a # h => (held'[t] < Position(a)) = (held[t] < Position(a))
  BY <1>1, <1>3, <1>4, <1>9 DEF Located
<1>19. held[t] < Position(h) /\ ~(held'[t] < Position(h))
  BY <1>3, <1>4, <1>9
<1>20. RowsKept(t)'
  <2>1. SUFFICES ASSUME NEW s \in Scopes, NEW a \in Names PROVE <<t, s, a>> \in faults' \/ RowAgrees(t, s, a)'
    BY DEF RowsKept
  <2>2. CASE a = h
    BY <1>10, <1>17, <1>19, <2>2 DEF RowAgrees
  <2>3. CASE a # h
    BY <1>1, <1>6, <1>10, <1>17, <1>18, <2>3 DEF RowAgrees, RowsKept
  <2>4. QED
    BY <2>2, <2>3
<1>21. \A b \in Names : b # h => Booked(t, b)' = Booked(t, b)
  BY <1>17, <1>18 DEF Booked
<1>22. Booked(t, h) = 0 /\ Booked(t, h)' = Bound[h]
  BY <1>3, <1>17, <1>19 DEF Booked
<1>23. StepOf(t)
  BY <1>11, <1>12, <1>14, <1>16, <1>20 DEF StepOf
<1>24. Booked(t, h)' = Booked(t, h) + Bound[h]
  BY <1>3, <1>22
<1>25. Bound[h] \in Int
  BY <1>2
<1>26. QED
  BY <1>3, <1>5, <1>21, <1>23, <1>24, <1>25, NewBooks

\* What a reservation that was not granted leaves behind.
LEMMA RefusedRows ==
    ASSUME ShadowAssumption, NEW t \in Tasks, NEW a \in Names, NEW r \in Refusals(t, a)
    PROVE  /\ r.broken \subseteq Scopes
           /\ r.task \in {Free, Held(Bound[a]), [state |-> "settled", amount |-> 0]}
           /\ r.period \in {Free, Held(Bound[a])}
           /\ r.task = Held(Bound[a]) => "task" \in r.broken
           /\ r.period = Held(Bound[a]) => "period" \in r.broken
<1> DEFINE kept == Held(Bound[a])
           zero == [state |-> "settled", amount |-> 0]
           left(task, per, broken) == [task |-> task, period |-> per, broken |-> broken]
<1>1. Free # kept
  BY DEF Free, Held
<1>2. CASE r = left(Free, Free, {})
  BY <1>1, <1>2
<1>3. CASE r = left(kept, Free, {"task"})
  BY <1>1, <1>3 DEF Scopes
<1>4. CASE /\ r \in [task : {zero, kept}, period : {Free, kept}, broken : SUBSET Scopes]
           /\ ("task" \in r.broken) = (r.task = kept)
           /\ ("period" \in r.broken) = (r.period = kept)
  BY <1>4
<1>5. QED
  BY <1>2, <1>3, <1>4 DEF Refusals

LEMMA RefusedStep ==
    ASSUME ShadowAssumption, ShadowInv, NEW t \in Tasks, ReserveRefused(t)
    PROVE  ShadowInv'
<1> DEFINE Row == [state : {"free", "held", "settled"}, amount : Nat]
<1>1. Located(t) /\ Progress(t) /\ Calls(t) /\ RowsKept(t) /\ ShadowTyped /\ Len(Actions) \in Nat
  BY Place
<1>0. PICK h \in Names : h = Here(t)
  BY Place DEF ReserveRefused, Located
<1>2. h \in Names /\ Position(h) = at[t] /\ Bound[h] \in Nat
      /\ \A a \in Names : Position(a) = at[t] => a = h
  BY <1>0, Place, NamesFinite DEF ReserveRefused, Located
<1>3. PICK r \in Refusals(t, h) :
        /\ rows' = [rows EXCEPT ![t]["task"][h] = r.task, ![t]["period"][h] = r.period]
        /\ faults' = faults \cup {<<t, s, h>> : s \in r.broken}
  <2>1. \E r \in Refusals(t, Here(t)) :
          /\ rows' = [rows EXCEPT ![t]["task"][Here(t)] = r.task, ![t]["period"][Here(t)] = r.period]
          /\ faults' = faults \cup {<<t, s, Here(t)>> : s \in r.broken}
    BY ZenonT(30) DEF ReserveRefused
  <2> DEFINE P(x) == \E r \in Refusals(t, x) :
               /\ rows' = [rows EXCEPT ![t]["task"][x] = r.task, ![t]["period"][x] = r.period]
               /\ faults' = faults \cup {<<t, s, x>> : s \in r.broken}
  <2>2. P(Here(t))
    BY <2>1
  <2>3. P(h)
    <3> HIDE DEF P
    <3>1. QED
      BY <1>0, <2>2
  <2>4. QED
    BY <2>3
<1>4. /\ pc[t] = "reserve" /\ Release(t, 1) /\ UNCHANGED <<debits, period, spent, unreported>>
  BY DEF ReserveRefused
<1>5. /\ r.broken \subseteq Scopes
      /\ r.task \in {Free, Held(Bound[h]), [state |-> "settled", amount |-> 0]}
      /\ r.period \in {Free, Held(Bound[h])}
      /\ r.task = Held(Bound[h]) => "task" \in r.broken
      /\ r.period = Held(Bound[h]) => "period" \in r.broken
  BY <1>2, RefusedRows
<1>6. /\ at[t] = held[t] + 1 /\ held[t] \in Nat /\ at[t] \in 1..Len(Actions)
  BY <1>1, <1>4, Place DEF Progress, Located
<1>7. /\ pc'[t] = IF 1 > held[t] THEN "ended" ELSE "settle"
      /\ at'[t] = 1 /\ charge'[t] = 0 /\ held' = held /\ plan' = plan
      /\ \A u \in Tasks : u # t => pc'[u] = pc[u] /\ at'[u] = at[u] /\ charge'[u] = charge[u]
      /\ pc' \in [Tasks -> Phases] /\ at' \in [Tasks -> 1..(Len(Actions) + 1)]
      /\ charge' \in [Tasks -> Charges \cup {0, UnknownCost}] /\ failed' \in [Tasks -> BOOLEAN]
  BY <1>1, <1>4 DEF Release, ShadowTyped, Phases
<1>8. r.task \in Row /\ r.period \in Row
  BY <1>2, <1>5 DEF Free, Held
<1> HIDE DEF Row
<1>9. /\ rows' \in [Tasks -> [Scopes -> [Names -> Row]]]
      /\ rows'[t]["task"][h] = r.task /\ rows'[t]["period"][h] = r.period
      /\ \A u \in Tasks : u # t => rows'[u] = rows[u]
      /\ \A s \in Scopes, b \in Names : b # h => rows'[t][s][b] = rows[t][s][b]
  <2>1. rows \in [Tasks -> [Scopes -> [Names -> Row]]]
    BY <1>1 DEF ShadowTyped, Row
  <2>2. "task" \in Scopes /\ "period" \in Scopes /\ "task" # "period"
    BY DEF Scopes
  <2> DEFINE one == [rows EXCEPT ![t]["task"][h] = r.task]
  <2>3. /\ one \in [Tasks -> [Scopes -> [Names -> Row]]]
        /\ one[t]["task"][h] = r.task
        /\ \A u \in Tasks : u # t => one[u] = rows[u]
        /\ \A s \in Scopes, b \in Names : b # h => one[t][s][b] = rows[t][s][b]
    BY <1>2, <1>8, <2>1, <2>2
  <2>4. rows' = [one EXCEPT ![t]["period"][h] = r.period]
    BY <1>3
  <2> HIDE DEF one
  <2>5. QED
    BY <1>2, <1>8, <2>2, <2>3, <2>4
<1>10. faults \subseteq faults' /\ faults' \subseteq Tasks \X Scopes \X Names
       /\ \A s \in r.broken : <<t, s, h>> \in faults'
  BY <1>1, <1>2, <1>3, <1>5 DEF ShadowTyped
<1>11. ShadowTyped'
  BY <1>1, <1>4, <1>7, <1>9, <1>10 DEF ShadowTyped, Row
<1>12. \A u \in Tasks : u # t => Untouched(u)
  BY <1>4, <1>7, <1>9, <1>10 DEF Untouched
<1>13. Progress(t)'
  BY <1>6, <1>7 DEF Progress
<1>14. ~Active(t) /\ \A a \in Names : spent[t][a] = 0 /\ <<t, a>> \notin unreported
  BY <1>1, <1>4 DEF Active, Calls, Uncalled
<1>15. pc'[t] \in {"settle", "account"} => Here(t)' \in Names
  <2>1. Here(t)' = Actions[1] /\ 1 \in 1..Len(Actions)
    BY <1>6, <1>7 DEF Here
  <2>2. QED
    BY <2>1, Positions
<1>16. Calls(t)'
  BY <1>1, <1>4, <1>7, <1>14, <1>15 DEF Calls
<1>17. \A a \in Names : ~Resolved(t, a) /\ ~Resolved(t, a)' /\ ~Charged(t, a) /\ ~Charged(t, a)'
  BY <1>1, <1>7, <1>14 DEF Resolved, Charged, Active, Located
<1>18. RowsKept(t)'
  <2>1. SUFFICES ASSUME NEW s \in Scopes, NEW a \in Names PROVE <<t, s, a>> \in faults' \/ RowAgrees(t, s, a)'
    BY DEF RowsKept
  <2>2. CASE a = h
    <3>1. held'[t] < Position(h)
      BY <1>2, <1>6, <1>7
    <3>2. ASSUME <<t, s, h>> \notin faults'
          PROVE  rows'[t][s][h].state # "held" /\ rows'[t][s][h].amount = 0
      <4>1. CASE s = "task"
        <5>1. "task" \notin r.broken
          BY <1>10, <3>2, <4>1
        <5>2. r.task \in {Free, [state |-> "settled", amount |-> 0]}
          BY <1>5, <5>1
        <5>3. QED
          BY <1>9, <4>1, <5>2 DEF Free
      <4>2. CASE s = "period"
        <5>1. "period" \notin r.broken
          BY <1>10, <3>2, <4>2
        <5>2. r.period = Free
          BY <1>5, <5>1
        <5>3. QED
          BY <1>9, <4>2, <5>2 DEF Free
      <4>3. QED
        BY <4>1, <4>2 DEF Scopes
    <3>3. QED
      BY <2>2, <3>1, <3>2 DEF RowAgrees
  <2>3. CASE a # h
    <3>1. rows'[t][s][a] = rows[t][s][a] /\ held' = held
      BY <1>7, <1>9, <2>3
    <3>2. RowAgrees(t, s, a)' = RowAgrees(t, s, a)
      BY <1>17, <3>1 DEF RowAgrees
    <3>3. <<t, s, a>> \in faults \/ RowAgrees(t, s, a)
      BY <1>1 DEF RowsKept
    <3>4. QED
      BY <1>10, <3>2, <3>3
  <2>4. QED
    BY <2>2, <2>3
<1>19. \A a \in Names : Booked(t, a)' = Booked(t, a)
  BY <1>7, <1>17 DEF Booked
<1>20. StepOf(t)
  BY <1>11, <1>12, <1>13, <1>16, <1>18 DEF StepOf
<1>21. QED
  BY <1>4, <1>19, <1>20, SameBooks

LEMMA SettleStep ==
    ASSUME ShadowAssumption, ShadowInv, NEW t \in Tasks,
           NEW raised \in SUBSET Scopes, NEW done \in SUBSET Scopes, SettleAction(t, raised, done)
    PROVE  ShadowInv'
<1> DEFINE Row == [state : {"free", "held", "settled"}, amount : Nat]
<1>1. Located(t) /\ Progress(t) /\ Calls(t) /\ RowsKept(t) /\ ShadowTyped /\ Len(Actions) \in Nat
  BY Place
<1>2. PICK h \in Names : h = Here(t)
  BY Place DEF SettleAction, Located
<1>3. Position(h) = at[t] /\ Bound[h] \in Nat /\ \A a \in Names : Position(a) = at[t] => a = h
  BY <1>2, Place, NamesFinite DEF SettleAction, Located
<1>4. /\ pc[t] = "settle" /\ pc' = [pc EXCEPT ![t] = "account"]
      /\ failed' = [failed EXCEPT ![t] = @ \/ raised # {}]
      /\ faults' = faults \cup {<<t, s, h>> : s \in raised}
      /\ Scopes \ raised \subseteq done
      /\ at' = at /\ plan' = plan /\ held' = held /\ charge' = charge /\ spent' = spent
      /\ unreported' = unreported /\ UNCHANGED <<debits, period>>
  BY <1>2 DEF SettleAction
<1>5. at[t] <= held[t] /\ at[t] \in Nat /\ held[t] \in Nat
  BY <1>1, <1>4 DEF Progress, Located
<1>6. pc'[t] = "account" /\ \A u \in Tasks : u # t => pc'[u] = pc[u]
  BY <1>1, <1>4 DEF ShadowTyped
<1>7. /\ charge[t] = IF <<t, h>> \in unreported THEN UnknownCost ELSE spent[t][h]
      /\ spent[t][h] \in Nat /\ (charge[t] = UnknownCost) = (<<t, h>> \in unreported)
  BY <1>1, <1>2, <1>4, SpentIsNat DEF Calls, UnknownCost
<1>8. \A r \in Row : /\ SettledAs(r, charge[t]) \in Row
                     /\ charge[t] # UnknownCost => /\ SettledAs(r, charge[t]).amount = charge[t]
                                                   /\ SettledAs(r, charge[t]).state = "settled"
                     /\ charge[t] = UnknownCost => SettledAs(r, charge[t]) = r
  BY <1>7 DEF SettledAs
<1> HIDE DEF Row
<1>9. /\ rows' \in [Tasks -> [Scopes -> [Names -> Row]]]
      /\ \A u \in Tasks : u # t => rows'[u] = rows[u]
      /\ \A s \in done : rows'[t][s][h] = SettledAs(rows[t][s][h], charge[t])
      /\ \A s \in Scopes, b \in Names : b # h => rows'[t][s][b] = rows[t][s][b]
  <2> DEFINE after(s) == IF s \in done THEN SettledAs(rows[t][s][h], charge[t]) ELSE rows[t][s][h]
             scope(s) == [rows[t][s] EXCEPT ![h] = after(s)]
             both == [s \in Scopes |-> scope(s)]
  <2>1. rows \in [Tasks -> [Scopes -> [Names -> Row]]]
    BY <1>1 DEF ShadowTyped, Row
  <2>2. rows' = [rows EXCEPT ![t] = both]
    BY <1>2 DEF SettleAction
  <2>3. ASSUME NEW s \in Scopes
        PROVE  /\ scope(s) \in [Names -> Row]
               /\ s \in done => scope(s)[h] = SettledAs(rows[t][s][h], charge[t])
               /\ \A b \in Names : b # h => scope(s)[b] = rows[t][s][b]
    BY <1>8, <2>1
  <2> HIDE DEF scope
  <2>4. /\ both \in [Scopes -> [Names -> Row]]
        /\ \A s \in done : both[s][h] = SettledAs(rows[t][s][h], charge[t])
        /\ \A s \in Scopes, b \in Names : b # h => both[s][b] = rows[t][s][b]
    BY <2>1, <2>3
  <2> HIDE DEF both
  <2>5. QED
    BY <2>1, <2>2, <2>4
<1>10. faults \subseteq faults' /\ faults' \subseteq Tasks \X Scopes \X Names
       /\ \A s \in raised : <<t, s, h>> \in faults'
  BY <1>1, <1>4 DEF ShadowTyped
<1>11. ShadowTyped'
  <2>1. pc' \in [Tasks -> Phases]
    BY <1>1, <1>4 DEF ShadowTyped, Phases
  <2>2. failed' \in [Tasks -> BOOLEAN]
    BY <1>1, <1>4 DEF ShadowTyped
  <2>3. QED
    BY <1>1, <1>4, <1>9, <1>10, <2>1, <2>2 DEF ShadowTyped, Row
<1>12. \A u \in Tasks : u # t => Untouched(u)
  BY <1>4, <1>6, <1>9, <1>10 DEF Untouched
<1>13. Progress(t)'
  BY <1>4, <1>5, <1>6 DEF Progress
<1>14. Here(t)' = Here(t)
  BY <1>4 DEF Here
<1>15. \A a \in Names : /\ Uncalled(t, a)' = Uncalled(t, a)
                        /\ a # h => Resolved(t, a)' = Resolved(t, a)
                        /\ Charged(t, a)' = Charged(t, a)
                        /\ FinalCost(t, a)' = FinalCost(t, a)
  BY <1>3, <1>4, <1>5, <1>6 DEF Uncalled, Resolved, Charged, FinalCost, Active
<1>16. Calls(t)'
  BY <1>1, <1>4, <1>6, <1>14, <1>15 DEF Calls
<1>17. ~(held[t] < Position(h)) /\ ~Resolved(t, h) /\ Resolved(t, h)'
  BY <1>3, <1>4, <1>5, <1>6 DEF Resolved, Active
<1>18. RowsKept(t)'
  <2>1. SUFFICES ASSUME NEW s \in Scopes, NEW a \in Names PROVE <<t, s, a>> \in faults' \/ RowAgrees(t, s, a)'
    BY DEF RowsKept
  <2>2. CASE a = h
    <3>1. CASE s \in raised
      BY <1>10, <2>2, <3>1
    <3>2. CASE s \notin raised
      <4>1. s \in done
        BY <1>4, <3>2
      <4>2. CASE <<t, s, h>> \in faults
        BY <1>10, <2>2, <4>2
      <4>3. CASE <<t, s, h>> \notin faults
        <5>1. rows[t][s][h] = Held(Bound[h])
          BY <1>1, <1>17, <4>3 DEF RowsKept, RowAgrees
        <5>2. rows[t][s][h] \in Row
          BY <1>1 DEF ShadowTyped, Row
        <5>3. rows'[t][s][h].amount = FinalCost(t, h) /\ (rows'[t][s][h].state = "held" => <<t, h>> \in unreported)
          <6>1. CASE <<t, h>> \in unreported
            <7>1. rows'[t][s][h] = Held(Bound[h])
              BY <1>7, <1>8, <1>9, <4>1, <5>1, <5>2, <6>1
            <7>2. QED
              BY <6>1, <7>1 DEF Held, FinalCost
          <6>2. CASE <<t, h>> \notin unreported
            <7>1. rows'[t][s][h].amount = charge[t] /\ rows'[t][s][h].state = "settled"
              BY <1>7, <1>8, <1>9, <4>1, <5>2, <6>2
            <7>2. QED
              BY <1>7, <6>2, <7>1 DEF FinalCost
          <6>3. QED
            BY <6>1, <6>2
        <5>4. FinalCost(t, h)' = FinalCost(t, h)
          BY <1>15
        <5>5. QED
          BY <1>4, <1>17, <2>2, <5>3, <5>4 DEF RowAgrees
      <4>4. QED
        BY <4>2, <4>3
    <3>3. QED
      BY <3>1, <3>2
  <2>3. CASE a # h
    <3>1. rows'[t][s][a] = rows[t][s][a] /\ held' = held /\ unreported' = unreported
      BY <1>4, <1>9, <2>3
    <3>2. RowAgrees(t, s, a)' = RowAgrees(t, s, a)
      BY <1>15, <2>3, <3>1 DEF RowAgrees
    <3>3. <<t, s, a>> \in faults \/ RowAgrees(t, s, a)
      BY <1>1 DEF RowsKept
    <3>4. QED
      BY <1>10, <3>2, <3>3
  <2>4. QED
    BY <2>2, <2>3
<1>19. \A a \in Names : Booked(t, a)' = Booked(t, a)
  BY <1>4, <1>15 DEF Booked
<1>20. StepOf(t)
  BY <1>11, <1>12, <1>13, <1>16, <1>18 DEF StepOf
<1>21. QED
  BY <1>4, <1>19, <1>20, SameBooks

\* Accounting replaces the action's bound in the books by what it counts for.
LEMMA CountStep ==
    ASSUME ShadowAssumption, ShadowInv, NEW t \in Tasks, CountAction(t)
    PROVE  ShadowInv'
<1>1. Located(t) /\ Progress(t) /\ Calls(t) /\ RowsKept(t) /\ ShadowTyped /\ Len(Actions) \in Nat
  BY Place
<1>2. PICK h \in Names : h = Here(t)
  BY Place DEF CountAction, Located
<1>3. Position(h) = at[t] /\ Bound[h] \in Nat /\ \A a \in Names : Position(a) = at[t] => a = h
  BY <1>2, Place, NamesFinite DEF CountAction, Located
<1>4. PICK d : d = Correction(t)
  OBVIOUS
<1>5. /\ pc[t] = "account" /\ GoesOn(t)
      /\ debits' = [debits EXCEPT ![t] = @ + d] /\ period' = period + d
      /\ plan' = plan /\ held' = held /\ failed' = failed /\ rows' = rows /\ spent' = spent
      /\ unreported' = unreported /\ faults' = faults
  BY <1>4 DEF CountAction
<1>6. /\ at[t] <= held[t] /\ at[t] \in Nat /\ held[t] \in Nat /\ at[t] >= 1 /\ held[t] <= Len(Actions)
  BY <1>1, <1>5 DEF Progress, Located
<1>7. /\ at' = [at EXCEPT ![t] = at[t] + 1] /\ charge' = [charge EXCEPT ![t] = 0]
      /\ \E p \in Phases : /\ pc' = [pc EXCEPT ![t] = p]
                           /\ \/ p = "ended" /\ at[t] = held[t]
                              \/ p \in {"settle", "call", "announce"} /\ at[t] # held[t]
  BY <1>5 DEF GoesOn, Phases
<1>8. /\ at'[t] = at[t] + 1 /\ charge'[t] = 0
      /\ \/ pc'[t] = "ended" /\ at[t] = held[t]
         \/ pc'[t] \in {"settle", "call", "announce"} /\ at[t] # held[t]
      /\ \A u \in Tasks : u # t => pc'[u] = pc[u] /\ at'[u] = at[u] /\ charge'[u] = charge[u]
      /\ pc' \in [Tasks -> Phases] /\ charge' \in [Tasks -> Charges \cup {0, UnknownCost}]
  BY <1>1, <1>7 DEF ShadowTyped
<1>9. at' \in [Tasks -> 1..(Len(Actions) + 1)]
  <2>1. at[t] + 1 \in 1..(Len(Actions) + 1)
    BY <1>1, <1>6
  <2>2. QED
    BY <1>1, <1>7, <2>1 DEF ShadowTyped
<1>10. /\ charge[t] = IF <<t, h>> \in unreported THEN UnknownCost ELSE spent[t][h]
       /\ spent[t][h] \in Nat /\ (charge[t] = UnknownCost) = (<<t, h>> \in unreported)
  BY <1>1, <1>2, <1>5, SpentIsNat DEF Calls, UnknownCost
<1>11. ShadowTyped'
  BY <1>1, <1>5, <1>8, <1>9 DEF ShadowTyped
<1>12. \A u \in Tasks : u # t => Untouched(u)
  BY <1>5, <1>8 DEF Untouched
<1>13. Progress(t)'
  BY <1>5, <1>6, <1>8 DEF Progress
<1>14. \A a \in Names : Position(a) \in Nat
  BY <1>1 DEF Located
<1>15. \A a \in Names : /\ Uncalled(t, a)' => Uncalled(t, a)
                        /\ Resolved(t, a)' = Resolved(t, a)
                        /\ a # h => Charged(t, a)' = Charged(t, a)
                        /\ FinalCost(t, a)' = FinalCost(t, a)
  <2>1. SUFFICES ASSUME NEW a \in Names
                 PROVE  /\ Uncalled(t, a)' => Uncalled(t, a)
                        /\ Resolved(t, a)' = Resolved(t, a)
                        /\ a # h => Charged(t, a)' = Charged(t, a)
                        /\ FinalCost(t, a)' = FinalCost(t, a)
    OBVIOUS
  <2>2. Active(t) /\ Active(t)' /\ pc'[t] # "account"
    BY <1>5, <1>8 DEF Active
  <2>3. FinalCost(t, a)' = FinalCost(t, a)
    BY <1>5 DEF FinalCost
  <2>4. Position(a) \in Nat /\ (a # h => Position(a) # at[t])
    BY <1>3, <1>14
  <2>5. Uncalled(t, a)' => Uncalled(t, a)
    BY <1>5, <1>6, <1>8, <2>2, <2>4 DEF Uncalled
  <2>6. Resolved(t, a)' = Resolved(t, a)
    BY <1>5, <1>6, <1>8, <2>2, <2>4 DEF Resolved
  <2>7. a # h => Charged(t, a)' = Charged(t, a)
    BY <1>6, <1>8, <2>2, <2>4 DEF Charged
  <2>8. QED
    BY <2>3, <2>5, <2>6, <2>7
<1>16. Calls(t)'
  <2>1. ASSUME pc'[t] \in {"settle", "account"}
        PROVE  charge'[t] = IF <<t, Here(t)'>> \in unreported' THEN UnknownCost ELSE spent'[t][Here(t)']
    <3>1. at[t] + 1 <= held[t] /\ at[t] + 1 \in 1..Len(Actions)
      BY <1>1, <1>6, <1>8, <2>1
    <3>2. PICK n \in Names : n = Here(t)' /\ Position(n) = at[t] + 1
      BY <1>8, <3>1, Positions DEF Here
    <3>3. Uncalled(t, n)
      BY <1>6, <3>2 DEF Uncalled
    <3>4. spent[t][n] = 0 /\ <<t, n>> \notin unreported
      BY <1>1, <3>3 DEF Calls
    <3>5. QED
      BY <1>5, <1>8, <3>2, <3>4
  <2>2. QED
    BY <1>1, <1>5, <1>15, <2>1 DEF Calls
<1>17. RowsKept(t)'
  BY <1>1, <1>5, <1>15 DEF RowsKept, RowAgrees
<1>18. \A b \in Names : b # h => Booked(t, b)' = Booked(t, b)
  BY <1>5, <1>15 DEF Booked
<1>19. Booked(t, h) = Bound[h] /\ Booked(t, h)' = FinalCost(t, h)
  <2>1. ~(held[t] < Position(h)) /\ ~Charged(t, h) /\ Charged(t, h)'
    BY <1>3, <1>5, <1>6, <1>8 DEF Charged, Active
  <2>2. QED
    BY <1>5, <1>15, <2>1 DEF Booked
<1>20. d \in Int /\ FinalCost(t, h) = Bound[h] + d
  BY <1>2, <1>3, <1>4, <1>10 DEF Correction, FinalCost
<1>21. StepOf(t)
  BY <1>11, <1>12, <1>13, <1>16, <1>17 DEF StepOf
<1>22. Booked(t, h)' = Booked(t, h) + d
  BY <1>19, <1>20
<1>23. QED
  BY <1>5, <1>18, <1>19, <1>20, <1>21, <1>22, NewBooks

LEMMA ShadowStarts == ASSUME ShadowAssumption PROVE ShadowInit => ShadowInv
<1> SUFFICES ASSUME ShadowInit PROVE ShadowInv
  OBVIOUS
<1>1. \A a \in Names : Position(a) \in 1..Len(Actions) /\ Len(Actions) \in Nat
  BY Positions, NamesFinite
<1>2. ShadowTyped
  BY <1>1, NamesFinite DEF ShadowInit, ShadowTyped, Phases, Free
<1>3. \A t \in Tasks : ~Active(t) /\ held[t] = 0 /\ pc[t] = "idle"
  BY DEF ShadowInit, Active
<1>4. \A t \in Tasks : Progress(t) /\ Calls(t)
  BY DEF ShadowInit, Progress, Calls
<1>5. \A t \in Tasks : RowsKept(t)
  BY <1>1 DEF ShadowInit, RowsKept, RowAgrees, Free
<1>6. \A t \in Tasks, a \in Names : Booked(t, a) = 0
  BY <1>1, <1>3 DEF Booked
<1>7. IsTable(Books) /\ \A t \in Tasks, a \in Names : Books[t][a] = 0
  BY <1>2, <1>6, BooksTable
<1>8. (\A t \in Tasks : Total(Books[t]) = 0) /\ Grand(Books) = 0
  <2>1. \A t \in Tasks : Total(Books[t]) = 0
    <3>1. SUFFICES ASSUME NEW t \in Tasks PROVE Total(Books[t]) = 0
      OBVIOUS
    <3>2. Total(Books[t]) = SumFunctionOnSet(Books[t], Names) /\ IsNatOn(Books[t], Names)
      BY <1>7, TotalType DEF IsTable
    <3>3. QED
      BY <1>7, <3>2, NamesFinite, SumZero
  <2> DEFINE sums == [t \in Tasks |-> Total(Books[t])]
  <2>2. Grand(Books) = SumFunctionOnSet(sums, Tasks) /\ IsNatOn(sums, Tasks)
    BY <1>7, GrandType
  <2>3. \A t \in Tasks : sums[t] = 0
    BY <2>1
  <2> HIDE DEF sums
  <2>4. Grand(Books) = 0
    BY <2>2, <2>3, NamesFinite, SumZero
  <2>5. QED
    BY <2>1, <2>4
<1>9. \A t \in Tasks, a \in Names : WithinBounds(Books)[t][a] = 0
  BY <1>7, NamesFinite DEF WithinBounds, Least
<1>10. Capped(Books)
  <2>1. /\ IsTable(WithinBounds(Books))
        /\ \A t \in Tasks, a \in Names : WithinBounds(Books)[t][a] <= Books[t][a]
    BY <1>7, WithinTable
  <2>2. /\ \A t \in Tasks : Total(WithinBounds(Books)[t]) <= Total(Books[t])
        /\ Grand(WithinBounds(Books)) <= Grand(Books)
    BY <1>7, <2>1, TableMonotone
  <2>3. TaskCap >= 0 /\ PeriodCap >= 0 /\ TaskCap \in Nat /\ PeriodCap \in Nat
    BY DEF ShadowAssumption
  <2>4. /\ \A t \in Tasks : Total(WithinBounds(Books)[t]) \in Nat
        /\ Grand(WithinBounds(Books)) \in Nat
    BY <2>1, TotalType, GrandType DEF IsTable
  <2>5. QED
    BY <1>8, <2>2, <2>3, <2>4 DEF Capped
<1>11. debits = [t \in Tasks |-> Total(Books[t])] /\ period = Grand(Books)
  BY <1>8 DEF ShadowInit
<1>12. QED
  BY <1>2, <1>4, <1>5, <1>10, <1>11 DEF ShadowInv

LEMMA ShadowKeeps == ASSUME ShadowAssumption, ShadowInv, [ShadowNext]_shadowVars PROVE ShadowInv'
<1>1. CASE UNCHANGED shadowVars
  <2>1. /\ pc' = pc /\ at' = at /\ plan' = plan /\ held' = held /\ charge' = charge
        /\ failed' = failed /\ debits' = debits /\ period' = period /\ rows' = rows
        /\ spent' = spent /\ unreported' = unreported /\ faults' = faults
    BY <1>1 DEF shadowVars
  <2>2. ShadowTyped' /\ (\A t \in Tasks : Untouched(t)) /\ ShadowTyped
    BY <2>1 DEF ShadowTyped, ShadowInv, Untouched
  <2>3. \A t \in Tasks : Progress(t)' /\ Calls(t)' /\ RowsKept(t)'
                         /\ \A a \in Names : Booked(t, a)' = Booked(t, a)
    BY <2>2, SameKept DEF ShadowInv
  <2>4. Books' = Books
    BY <2>3 DEF Books
  <2>5. debits = [u \in Tasks |-> Total(Books[u])] /\ period = Grand(Books) /\ Capped(Books)
    BY DEF ShadowInv
  <2>6. /\ debits' = [u \in Tasks |-> Total(Books'[u])] /\ period' = Grand(Books')
        /\ Capped(Books')
    BY <2>1, <2>4, <2>5
  <2>7. QED
    BY <2>2, <2>3, <2>6 DEF ShadowInv
<1>2. CASE Finished
  <2>1. UNCHANGED shadowVars
    BY <1>2 DEF Finished
  <2>2. QED
    BY <1>1, <2>1
<1>3. ASSUME NEW t \in Tasks, NEW c \in Circumstances, Skip(t, c) \/ Begin(t, c) PROVE ShadowInv'
  BY <1>3, SkipStep
<1>4. ASSUME NEW t \in Tasks, ReserveAction(t) PROVE ShadowInv'
  BY <1>4, ReserveStep
<1>5. ASSUME NEW t \in Tasks, ReserveRefused(t) PROVE ShadowInv'
  BY <1>5, RefusedStep
<1>6. ASSUME NEW t \in Tasks, Announce(t) PROVE ShadowInv'
  BY <1>6, AnnounceStep
<1>7. ASSUME NEW t \in Tasks, CancelGeneration(t) \/ CancelEvaluation(t) PROVE ShadowInv'
  BY <1>7, CancelStep
<1>8. ASSUME NEW t \in Tasks, NEW cost \in Charges, NEW reported \in BOOLEAN, NEW fails \in BOOLEAN,
             \/ Generate(t, cost, reported, fails)
             \/ Validate(t, cost, reported, fails)
             \/ Evaluate(t, cost, reported, fails)
      PROVE  ShadowInv'
  <2>1. Called(t, cost, reported, fails)
    BY <1>8 DEF Generate, Validate, Evaluate
  <2>2. QED
    BY <2>1, CalledStep
<1>9. ASSUME NEW t \in Tasks, NEW raised \in SUBSET Scopes, NEW done \in SUBSET Scopes,
             SettleAction(t, raised, done)
      PROVE  ShadowInv'
  BY <1>9, SettleStep
<1>10. ASSUME NEW t \in Tasks, CountAction(t) PROVE ShadowInv'
  BY <1>10, CountStep
<1>11. QED
  BY <1>1, <1>2, <1>3, <1>4, <1>5, <1>6, <1>7, <1>8, <1>9, <1>10 DEF ShadowNext

\* The service's debits are the totals of what its runs still reserve or were charged,
\* of which the caps cover whatever lies within the bounds; every row of the authority
\* on which no call has raised holds the same amounts; and what a run has spent is what
\* its calls reported, or within the bound of the call that did not say.
THEOREM ShadowInvHolds == ShadowSpec => []ShadowInv
<1>1. ShadowInit => ShadowInv
  BY ShadowAssumption, ShadowStarts
<1>2. ShadowInv /\ [ShadowNext]_shadowVars => ShadowInv'
  BY ShadowAssumption, ShadowKeeps
<1>3. QED
  BY <1>1, <1>2, PTL DEF ShadowSpec

\* Every variable of the experiments keeps its type; in particular no correction of a
\* settlement takes a debit of the service below zero.
THEOREM ShadowTypesHold == ShadowSpec => []ShadowTypeOK
<1>1. ShadowInv => ShadowTypeOK
  BY ShadowAssumption, ShadowTypes
<1>2. QED
  BY <1>1, ShadowInvHolds, PTL

LEMMA SpentCovered ==
    ASSUME ShadowAssumption, ShadowInv, NEW t \in Tasks, NEW a \in Names
    PROVE  /\ spent[t][a] \in Nat /\ Bound[a] \in Nat
           /\ spent[t][a] <= Bound[a] => spent[t][a] <= WithinBounds(Books)[t][a]
           /\ spent[t][a] > Bound[a] => WithinBounds(Books)[t][a] = Bound[a]
<1>1. spent[t][a] \in Nat /\ Bound[a] \in Nat /\ Booked(t, a) \in Nat
  BY SpentIsNat, CountedType, NamesFinite DEF ShadowInv
<1>2. WithinBounds(Books)[t][a] = Least(Booked(t, a), Bound[a])
  <2>1. IsTable(Books) /\ Books[t][a] = Booked(t, a)
    BY BooksTable DEF ShadowInv
  <2>2. WithinBounds(Books)[t][a] = Least(Books[t][a], Bound[a])
    BY <2>1, WithinTable
  <2>3. QED
    BY <2>1, <2>2
<1>3. Calls(t)
  BY DEF ShadowInv
<1>4. CASE held[t] < Position(a)
  <2>1. spent[t][a] = 0
    BY <1>3, <1>4 DEF Calls, Uncalled
  <2>2. QED
    BY <1>1, <1>2, <2>1 DEF Least
<1>5. CASE ~(held[t] < Position(a)) /\ <<t, a>> \in unreported
  <2>1. spent[t][a] <= Bound[a] /\ FinalCost(t, a) = Bound[a]
    BY <1>3, <1>5 DEF Calls, FinalCost
  <2>2. Booked(t, a) = Bound[a]
    BY <1>5, <2>1 DEF Booked
  <2>3. QED
    BY <1>1, <1>2, <2>1, <2>2 DEF Least
<1>6. CASE ~(held[t] < Position(a)) /\ <<t, a>> \notin unreported
  <2>1. Booked(t, a) = spent[t][a] \/ Booked(t, a) = Bound[a]
    BY <1>6 DEF Booked, FinalCost
  <2>2. QED
    BY <1>1, <1>2, <2>1 DEF Least
<1>7. QED
  BY <1>4, <1>5, <1>6

LEMMA SpendingIsCapped == ASSUME ShadowAssumption, ShadowInv PROVE SpendWithinCaps
<1> DEFINE W == WithinBounds(Books)
           O == [t \in Tasks |-> [a \in Names |-> Max({0, spent[t][a] - Bound[a]})]]
           L == [t \in Tasks |-> [a \in Names |-> W[t][a] + O[t][a]]]
<1>1. IsTable(W)
  BY BooksTable, WithinTable DEF ShadowInv
<1>2. Capped(Books)
  BY DEF ShadowInv
<1> HIDE DEF W
<1>3. ASSUME NEW t \in Tasks, NEW a \in Names
      PROVE  O[t][a] \in Nat /\ spent[t][a] \in Nat /\ spent[t][a] <= W[t][a] + O[t][a]
  <2>1. /\ spent[t][a] \in Nat /\ Bound[a] \in Nat
        /\ spent[t][a] <= Bound[a] => spent[t][a] <= W[t][a]
        /\ spent[t][a] > Bound[a] => W[t][a] = Bound[a]
    BY SpentCovered DEF W
  <2>2. spent[t][a] - Bound[a] \in Int
    BY <2>1
  <2>3. PICK m \in Int : m = spent[t][a] - Bound[a]
    BY <2>2
  <2>4. O[t][a] = Max({0, m})
    BY <2>3
  <2>5. Max({0, m}) \in {0, m} /\ 0 <= Max({0, m}) /\ m <= Max({0, m})
    <3>1. 0 \in Int /\ m \in Int
      BY <2>3
    <3>2. \A a1, b1 \in Int : Max({a1, b1}) \in {a1, b1} /\ a1 <= Max({a1, b1}) /\ b1 <= Max({a1, b1})
      BY MaxOfTwo
    <3>3. QED
      BY <3>1, <3>2, Zenon
  <2>6. PICK x : x = O[t][a] /\ x \in {0, m} /\ 0 <= x /\ m <= x
    BY <2>4, <2>5
  <2>7. W[t][a] \in Nat
    BY <1>1 DEF IsTable
  <2>8. x \in Nat /\ spent[t][a] <= W[t][a] + x
    <3> DEFINE p == spent[t][a]
               b == Bound[a]
               w == W[t][a]
    <3>1. /\ p \in Nat /\ b \in Nat /\ w \in Nat /\ m \in Int /\ m = p - b
          /\ p <= b => p <= w
          /\ p > b => w = b
          /\ x \in {0, m} /\ 0 <= x /\ m <= x
      BY <2>1, <2>3, <2>6, <2>7
    <3> HIDE DEF p, b, w
    <3>2. x \in Nat /\ p <= w + x
      BY <3>1
    <3>3. QED
      BY <3>2 DEF p, w
  <2>9. QED
    BY <2>1, <2>6, <2>8
<1>4. IsTable(O)
  BY <1>3 DEF IsTable
<1>5. \A t \in Tasks : Overrun(t) = Total(O[t])
  BY DEF Overrun
<1>6. Total([t \in Tasks |-> Overrun(t)]) = Grand(O)
  BY <1>5 DEF Grand
<1>7. Total([t \in Tasks |-> Total(spent[t])]) = Grand(spent)
  BY DEF Grand
<1> HIDE DEF O
<1>8. IsTable(spent)
  BY <1>3 DEF IsTable, ShadowInv, ShadowTyped
<1>9. /\ IsTable(L) /\ \A t \in Tasks, a \in Names : L[t][a] = W[t][a] + O[t][a]
  BY <1>1, <1>4 DEF IsTable
<1> HIDE DEF L
<1>10. /\ \A t \in Tasks : Total(L[t]) = Total(W[t]) + Total(O[t])
       /\ Grand(L) = Grand(W) + Grand(O)
  BY <1>1, <1>4, <1>9, TableAdd
<1>11. \A t \in Tasks, a \in Names : spent[t][a] <= L[t][a]
  BY <1>3, <1>9
<1>12. /\ \A t \in Tasks : Total(spent[t]) <= Total(L[t])
       /\ Grand(spent) <= Grand(L)
  BY <1>8, <1>9, <1>11, TableMonotone
<1>13. (\A t \in Tasks : Total(W[t]) <= TaskCap) /\ Grand(W) <= PeriodCap
  BY <1>2 DEF Capped, W
<1>14. /\ \A t \in Tasks : Total(W[t]) \in Nat /\ Total(O[t]) \in Nat /\ Total(spent[t]) \in Nat
       /\ Grand(W) \in Nat /\ Grand(O) \in Nat /\ Grand(spent) \in Nat
       /\ TaskCap \in Nat /\ PeriodCap \in Nat
  BY <1>1, <1>4, <1>8, TotalType, GrandType DEF IsTable, ShadowAssumption
<1>15. ASSUME NEW t \in Tasks PROVE Total(spent[t]) <= TaskCap + Overrun(t)
  BY <1>5, <1>10, <1>12, <1>13, <1>14
<1>16. Grand(spent) <= PeriodCap + Grand(O)
  BY <1>10, <1>12, <1>13, <1>14
<1>17. QED
  BY <1>6, <1>7, <1>15, <1>16 DEF SpendWithinCaps

\* What the shadow calls really cost stays within the task's ceiling and the period's
\* ceiling, whatever the number of concurrent tasks and the order in which they settle,
\* except for the amounts by which reported costs exceeded their bounds.
THEOREM SpendIsWithinCaps == ShadowSpec => []SpendWithinCaps
<1>1. ShadowInv => SpendWithinCaps
  BY ShadowAssumption, SpendingIsCapped
<1>2. QED
  BY <1>1, ShadowInvHolds, PTL

LEMMA EndsSettled == ASSUME ShadowAssumption, ShadowInv PROVE NothingStranded
<1>1. SUFFICES ASSUME NEW t \in Tasks, pc[t] = "ended"
               PROVE  /\ \A s \in Scopes, a \in Names :
                            rows[t][s][a].state = "held" => <<t, s, a>> \in faults \/ <<t, a>> \in unreported
                      /\ ({f \in faults : f[1] = t} = {} => \A s \in Scopes :
                            debits[t] = Total([a \in Names |-> rows[t][s][a].amount]))
  BY DEF NothingStranded
<1>2. Progress(t) /\ RowsKept(t) /\ ShadowTyped
  BY DEF ShadowInv
<1>3. Active(t) /\ at[t] = held[t] + 1 /\ held[t] \in Nat
  BY <1>1, <1>2 DEF Active, Progress, ShadowTyped
<1>4. \A a \in Names : Position(a) \in Nat
  BY Positions
<1>5. \A a \in Names : ~(held[t] < Position(a)) => Resolved(t, a) /\ Charged(t, a)
  BY <1>3, <1>4 DEF Resolved, Charged
<1>6. \A s \in Scopes, a \in Names :
        <<t, s, a>> \notin faults => /\ rows[t][s][a].amount = Booked(t, a)
                                     /\ rows[t][s][a].state = "held" => <<t, a>> \in unreported
  BY <1>2, <1>5 DEF RowsKept, RowAgrees, Booked
<1>7. ASSUME {f \in faults : f[1] = t} = {}, NEW s \in Scopes
      PROVE  debits[t] = Total([a \in Names |-> rows[t][s][a].amount])
  <2>1. \A a \in Names : <<t, s, a>> \notin faults
    BY <1>7
  <2>2. \A a \in Names : rows[t][s][a].amount = Booked(t, a)
    BY <1>6, <2>1
  <2>3. [a \in Names |-> rows[t][s][a].amount] = Books[t]
    BY <2>2 DEF Books
  <2>4. debits[t] = Total(Books[t])
    BY DEF ShadowInv
  <2>5. QED
    BY <2>3, <2>4
<1>8. QED
  BY <1>6, <1>7

\* A run that has ended, by success or by any of its failures, leaves nothing reserved
\* except for a call of unknown cost and for rows on which the authority itself raised;
\* and without such faults both scopes of the authority hold and charge exactly what
\* the service counts for the task.
THEOREM NothingIsStranded == ShadowSpec => []NothingStranded
<1>1. ShadowInv => NothingStranded
  BY ShadowAssumption, EndsSettled
<1>2. QED
  BY <1>1, ShadowInvHolds, PTL
=============================================================================
