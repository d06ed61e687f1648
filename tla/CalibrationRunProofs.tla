------------------------ MODULE CalibrationRunProofs ------------------------
(***************************************************************************)
(* Proofs about a live calibration run, for every corpus, set of           *)
(* strategies, price and retry limit, and any number of other runs.        *)
(*                                                                         *)
(* Inv is the control of run() and of its guard: what may be asked, when   *)
(* both of them have stopped, and which records say completed.  SettleInv  *)
(* adds that what was counted is what was paid, of a runner that runs      *)
(* once.  Planned follows the plan through the loops: what the guard       *)
(* counted and what the calls that are left may cost stay within the bound *)
(* that was reserved.  Bounded is what the refinement of the abstract      *)
(* allocation needs of the costs a run settles.                            *)
(***************************************************************************)
EXTENDS CalibrationRun, SumTheorems, TLAPS

-----------------------------------------------------------------------------
(* The control invariant.                                                  *)

WorkType ==
    [case : 0..NumCases, todo : SUBSET Strategies, grading : SUBSET Strategies,
     strategy : Strategies \cup {""}, purpose : Purposes \cup {""}, tries : Nat,
     adjudicate : BOOLEAN, adjudications : Nat]

CallsType == [known : Nat, unknown : BOOLEAN, unsettled : BOOLEAN]

GuardType == [once : BOOLEAN, bound : BOOLEAN, spent : Nat, stopped : BOOLEAN,
              finished : BOOLEAN]

RecordType == [file : {"none", "torn", "unchecked", "checked"},
               status : {"started", "stopped", "completed"}]

Types ==
    /\ rows \in [Runs -> Rows] /\ torn \in BOOLEAN
    /\ pc \in Ended \cup {"starting", "working", "calling", "waiting", "settling",
                          "finishing", "checking"}
    /\ invocation \in Nat
    /\ work \in WorkType
    /\ calls \in CallsType
    /\ spent \in Nat /\ halted \in BOOLEAN /\ stopped \in BOOLEAN
    /\ guard \in GuardType
    /\ record \in [1..MaxInvocations -> RecordType]
    /\ paid \in Nat /\ lost \in BOOLEAN /\ overran \in BOOLEAN

Active == pc \in {"working", "calling", "waiting"}

\* A call is asked for a strategy and a purpose.
CallNamed ==
    pc \in {"calling", "waiting"} => work.strategy \in Strategies /\ work.purpose \in Purposes

\* A guard is as it was made until the one authorization it gives.
AuthorizedOnce == /\ ~guard.once => guard = NewGuard
                  /\ Active => guard.once /\ guard.bound /\ ~guard.finished /\ Admissible

\* run() forgets the calls of an earlier invocation before it asks the guard.
FreshStart ==
    pc = "starting" => calls = NoCalls /\ spent = 0 /\ halted = FALSE /\ work = NoWork

\* The loops go on only while neither flag is set; a call is in flight only
\* under a guard that goes on, and a run that reaches its end was not stopped.
StopsInTime ==
    /\ pc = "working" => ~Halted
    /\ pc = "waiting" => ~guard.stopped /\ rows[Me].state = "reserved"
    /\ pc = "settling" /\ ~stopped => guard.bound /\ ~guard.finished /\ ~Halted

\* Unless the journal lost the end of a call, one of unknown cost has stopped
\* the guard.
UnknownStops == (calls.unsettled \/ calls.unknown) /\ ~lost => guard.stopped

SettledWithin == rows[Me].state = "settled" /\ rows[Me].actual <= rows[Me].reserved

\* A run that is about to be recorded as completed, or was, has settled.
RecordsSettled ==
    /\ pc = "finishing" /\ ~stopped /\ ~lost => SettledWithin
    /\ \A i \in 1..MaxInvocations :
           record[i].status = "completed" /\ ~lost => SettledWithin

Inv == /\ Types /\ CallNamed /\ AuthorizedOnce /\ FreshStart /\ StopsInTime /\ UnknownStops
       /\ RecordsSettled

-----------------------------------------------------------------------------
(* What holds of a runner whose run() is called once.                      *)

OneRun ==
    /\ pc = "idle" => invocation = 0 /\ paid = 0
    /\ pc # "idle" => invocation = 1
    /\ pc = "starting" => paid = 0

\* While every cost is known, the calls add up to what was paid.
Counted == guard.bound /\ TotalIsKnown => calls.known = paid

SettleInv == OneRun /\ Counted /\ SettledIsTrue

-----------------------------------------------------------------------------
(* The plan.                                                               *)

\* What the strategies of T may still cost a case.
GenerationLeft(T) ==
    Cardinality(T \cap Recovering) * (MaxAttempts * Bound["generation"])
    + Cardinality(T \ Recovering) * Bound["generation"]
    + Cardinality(T \cap Routers) * Bound["classification"]

JudgeCost == (Retries["judge"] + 1) * Bound["judge"]
AdjudicationCost == (Retries["adjudication"] + 1) * Bound["adjudication"]
Adjudications == Min({MaxAdjudications, Candidates})

CaseCost == GenerationLeft(Strategies) + Cardinality(Strategies) * JudgeCost

\* What plan_budget planned for the cases, the strategies, the candidates and
\* the adjudications that are not done.
Left(w) ==
    (NumCases - w.case) * CaseCost
    + GenerationLeft(w.todo)
    + (Cardinality(w.todo) + Cardinality(w.grading)) * JudgeCost
    + (Adjudications - w.adjudications) * AdjudicationCost

\* What the strategy or the candidate in hand has cost before this call.
Used(w) ==
    CASE w.purpose = "generation" ->
           (IF w.strategy \in Routers THEN Bound["classification"] ELSE 0)
           + (w.tries - 1) * Bound["generation"]
      [] w.purpose = "judge" -> (w.tries - 1) * Bound["judge"]
      [] w.purpose = "adjudication" -> JudgeCost + (w.tries - 1) * Bound["adjudication"]
      [] OTHER -> 0

\* What the calls that are left may cost, the one in hand included.
Balance(w) == Left(w) - Used(w)

\* The part of the plan that the strategy or the candidate in hand has.
StrategyCost(s) ==
    (IF s \in Recovering THEN MaxAttempts * Bound["generation"] ELSE Bound["generation"])
    + (IF s \in Routers THEN Bound["classification"] ELSE 0)

Share(w) ==
    IF w.purpose \in {"classification", "generation"} THEN StrategyCost(w.strategy)
    ELSE JudgeCost + (IF w.adjudicate THEN AdjudicationCost ELSE 0)

\* The call in hand is one that plan_budget counts.
CallPlanned(w) ==
    /\ w.purpose \in Purposes
    /\ w.tries >= 1
    /\ w.purpose = "classification" => w.strategy \in w.todo \cap Routers /\ w.tries = 1
    /\ w.purpose = "generation" =>
         /\ w.strategy \in w.todo
         /\ w.tries <= MaxAttempts
         /\ w.strategy \notin Recovering => w.tries = 1
    /\ w.purpose \in {"judge", "adjudication"} =>
         /\ w.strategy \in w.grading
         /\ w.tries <= Retries[w.purpose] + 1
         /\ w.adjudicate => w.adjudications < Adjudications
    /\ w.purpose = "adjudication" => w.adjudicate

\* No more adjudications than candidates that were graded.
GradesLeft(w) ==
    w.adjudications + (Cardinality(w.todo) + Cardinality(w.grading))
       + (NumCases - w.case) * Cardinality(Strategies) <= Candidates

\* No call is in hand.
Between(w) == w.purpose = ""

\* Where the loops may be.
WorkPlanned(w) ==
    /\ Between(w) \/ CallPlanned(w)
    /\ w.adjudications <= Adjudications
    /\ GradesLeft(w)

\* Until a charge exceeds its bound, what the guard counted and what is left
\* are within the bound of the run; the runner counts no more than the guard.
Planned ==
    Active => /\ WorkPlanned(work)
              /\ pc = "working" <=> Between(work)
              /\ spent <= guard.spent
              /\ ~overran => guard.spent + Balance(work) <= PlanBound
-----------------------------------------------------------------------------
(* The constants.                                                          *)

LEMMA NatTimes == \A a, b \in Nat : a * b \in Nat
  OBVIOUS

LEMMA Costs ==
    /\ \A p \in Purposes : Bound[p] \in Nat
    /\ \A p \in {"judge", "adjudication"} : Retries[p] \in Nat
    /\ NumCases \in Nat /\ NumCases >= 1 /\ MaxAttempts \in Nat /\ MaxAttempts >= 1
    /\ MaxAdjudications \in Nat /\ AggregateCap \in Nat /\ Overrun \in Nat
    /\ MaxInvocations \in Nat /\ Me \in Runs
    /\ Recovering \subseteq Routers /\ Routers \subseteq Strategies
    /\ IsFiniteSet(Strategies)
  BY RunAssumption DEF Purposes

LEMMA Smallest ==
    ASSUME NEW a \in Nat, NEW b \in Nat
    PROVE  Min({a, b}) \in Nat /\ Min({a, b}) <= a /\ Min({a, b}) <= b
                /\ Min({a, b}) \in {a, b}
<1>1. \E x \in {a, b} : \A y \in {a, b} : x <= y
  OBVIOUS
<1>2. Min({a, b}) \in {a, b} /\ \A y \in {a, b} : Min({a, b}) <= y
  BY <1>1 DEF Min
<1>3. QED
  BY <1>2

LEMMA Sizes ==
    ASSUME NEW T, T \subseteq Strategies
    PROVE  /\ IsFiniteSet(T) /\ Cardinality(T) \in Nat
           /\ Cardinality(T) <= Cardinality(Strategies)
  BY Costs, FS_Subset, FS_CardinalityType

LEMMA CandidatesNat == Candidates \in Nat /\ Adjudications \in Nat
                        /\ Adjudications <= MaxAdjudications /\ Adjudications <= Candidates
<1>1. Cardinality(Strategies) \in Nat
  BY Sizes
<1>2. Candidates \in Nat
  BY <1>1, Costs, NatTimes DEF Candidates
<1>3. QED
  BY <1>2, Costs, Smallest DEF Adjudications

LEMMA UnitCosts ==
    /\ JudgeCost \in Nat /\ AdjudicationCost \in Nat
    /\ MaxAttempts * Bound["generation"] \in Nat
<1>1. Retries["judge"] + 1 \in Nat /\ Retries["adjudication"] + 1 \in Nat
  BY Costs
<1>2. Bound["judge"] \in Nat /\ Bound["adjudication"] \in Nat /\ Bound["generation"] \in Nat
  BY Costs DEF Purposes
<1>3. QED
  BY <1>1, <1>2, Costs, NatTimes DEF JudgeCost, AdjudicationCost

LEMMA GenerationNat ==
    ASSUME NEW T, T \subseteq Strategies
    PROVE  GenerationLeft(T) \in Nat
<1>1. /\ Cardinality(T \cap Recovering) \in Nat /\ Cardinality(T \ Recovering) \in Nat
      /\ Cardinality(T \cap Routers) \in Nat
  <2>1. T \cap Recovering \subseteq Strategies /\ T \ Recovering \subseteq Strategies
          /\ T \cap Routers \subseteq Strategies
    OBVIOUS
  <2>2. QED
    BY <2>1, Sizes
<1>2. Bound["generation"] \in Nat /\ Bound["classification"] \in Nat
  BY Costs DEF Purposes
<1>3. /\ Cardinality(T \cap Recovering) * (MaxAttempts * Bound["generation"]) \in Nat
      /\ Cardinality(T \ Recovering) * Bound["generation"] \in Nat
      /\ Cardinality(T \cap Routers) * Bound["classification"] \in Nat
  BY <1>1, <1>2, UnitCosts, NatTimes
<1>4. QED
  BY <1>3 DEF GenerationLeft

LEMMA Associates == \A a, b, c \in Nat : (a * b) * c = a * (b * c)
  OBVIOUS

LEMMA Distributes == \A a, b, c \in Nat : a * (b + c) = a * b + a * c
  OBVIOUS

\* What plan_budget adds up is the cost of the cases and of the adjudications.
LEMMA PlanIsCases ==
    /\ PlanBound = NumCases * CaseCost + Adjudications * AdjudicationCost
    /\ PlanBound \in Nat /\ CaseCost \in Nat
<1>1. /\ Strategies \cap Recovering = Recovering
      /\ Strategies \cap Routers = Routers
  BY Costs
<1>2. /\ Cardinality(Recovering) \in Nat /\ Cardinality(Strategies) \in Nat
  BY Costs, Sizes
<1>3. Bound["generation"] \in Nat /\ Bound["judge"] \in Nat /\ Bound["adjudication"] \in Nat
  BY Costs DEF Purposes
<1>4. Cardinality(Recovering) * MaxAttempts * Bound["generation"]
        = Cardinality(Recovering) * (MaxAttempts * Bound["generation"])
  BY <1>2, <1>3, Costs, Associates
<1>5. GenerationBound = NumCases * GenerationLeft(Strategies)
  BY <1>1, <1>4 DEF GenerationBound, GenerationLeft
<1>6. Retries["judge"] + 1 \in Nat /\ Retries["adjudication"] + 1 \in Nat
  BY Costs
<1>7. Candidates * (Retries["judge"] + 1) * Bound["judge"]
        = NumCases * (Cardinality(Strategies) * JudgeCost)
  <2>1. Candidates * (Retries["judge"] + 1) * Bound["judge"] = Candidates * JudgeCost
    BY <1>3, <1>6, CandidatesNat, Associates DEF JudgeCost
  <2>2. QED
    BY <2>1, <1>2, Costs, UnitCosts, Associates DEF Candidates
<1>8. Min({MaxAdjudications, Candidates}) * (Retries["adjudication"] + 1)
        * Bound["adjudication"] = Adjudications * AdjudicationCost
  BY <1>3, <1>6, CandidatesNat, Associates DEF AdjudicationCost, Adjudications
<1>9. GenerationLeft(Strategies) \in Nat /\ Cardinality(Strategies) * JudgeCost \in Nat
  BY <1>2, GenerationNat, UnitCosts, NatTimes
<1>10. NumCases * CaseCost
         = NumCases * GenerationLeft(Strategies) + NumCases * (Cardinality(Strategies) * JudgeCost)
  BY <1>9, Costs, Distributes DEF CaseCost
<1>11. EvaluationBound = NumCases * (Cardinality(Strategies) * JudgeCost)
                          + Adjudications * AdjudicationCost
  BY <1>7, <1>8 DEF EvaluationBound
<1>12. /\ NumCases * GenerationLeft(Strategies) \in Nat
       /\ NumCases * (Cardinality(Strategies) * JudgeCost) \in Nat
       /\ Adjudications * AdjudicationCost \in Nat
  BY <1>9, Costs, NatTimes, UnitCosts, CandidatesNat
<1>13. PlanBound = NumCases * GenerationLeft(Strategies)
                   + (NumCases * (Cardinality(Strategies) * JudgeCost)
                      + Adjudications * AdjudicationCost)
  BY <1>5, <1>11 DEF PlanBound
<1>14. CaseCost \in Nat
  BY <1>9 DEF CaseCost
<1>15. QED
  BY <1>10, <1>12, <1>13, <1>14
-----------------------------------------------------------------------------
(* The control of run(): what a call's result leads to.                    *)

\* Where a caller of the provider goes after a call.
Moves ==
    /\ work' \in WorkType
    /\ \/ pc' = "raised" /\ stopped' = stopped
       \/ pc' = "settling" /\ stopped' = TRUE
       \/ pc' = "working" /\ stopped' = stopped /\ ~Halted'
       \/ /\ pc' = "calling" /\ stopped' = stopped
          /\ work'.strategy \in Strategies /\ work'.purpose \in Purposes

LEMMA NoWorkType == NoWork \in WorkType
  BY Costs DEF NoWork, WorkType

LEMMA WorkFields ==
    ASSUME work \in WorkType
    PROVE  /\ work.tries \in Nat /\ work.adjudications \in Nat /\ work.case \in 0..NumCases
           /\ work.todo \subseteq Strategies /\ work.grading \subseteq Strategies
           /\ work.adjudicate \in BOOLEAN /\ work.purpose \in Purposes \cup {""}
  BY DEF WorkType

LEMMA EndStrategyMoves ==
    ASSUME work \in WorkType, NEW s, NEW output, NEW blocked, EndStrategy(s, output, blocked),
           s \in Strategies \/ ~output
    PROVE  Moves
<1>1. CASE Raise
  BY <1>1, NoWorkType DEF Raise, Moves
<1>2. CASE StopWork
  BY <1>2, NoWorkType DEF StopWork, Moves
<1>3. CASE /\ ~Halted'
           /\ work' = [work EXCEPT !.todo = @ \ {s},
                                   !.grading = IF output THEN @ \cup {s} ELSE @,
                                   !.strategy = "", !.purpose = "", !.tries = 0]
           /\ pc' = "working"
           /\ UNCHANGED stopped
  <2>1. work' \in WorkType
    BY <1>3 DEF WorkType
  <2>2. QED
    BY <1>3, <2>1 DEF Moves
<1>4. QED
  BY <1>1, <1>2, <1>3 DEF EndStrategy

LEMMA AskMoves ==
    ASSUME work \in WorkType, NEW s \in Strategies, NEW purpose \in Purposes,
           Ask(s, purpose)
    PROVE  Moves
<1>1. work' \in WorkType
  BY DEF Ask, WorkType
<1>2. work'.strategy = s /\ work'.purpose = purpose
  BY DEF Ask, WorkType
<1>3. QED
  BY <1>1, <1>2 DEF Ask, Moves

LEMMA AgainMoves ==
    ASSUME work \in WorkType, work.strategy \in Strategies, work.purpose \in Purposes, Again
    PROVE  Moves
<1> DEFINE n == work.tries + 1
<1>0. work.tries \in Nat
  BY WorkFields
<1>1. n \in Nat
  BY <1>0
<1>2. work' = [work EXCEPT !.tries = n]
  BY DEF Again
<1> HIDE DEF n
<1>3. work' \in WorkType
  BY <1>1, <1>2 DEF WorkType
<1>4. work'.strategy = work.strategy /\ work'.purpose = work.purpose
  BY <1>2 DEF WorkType
<1>5. QED
  BY <1>3, <1>4 DEF Again, Moves

LEMMA EndGradeMoves ==
    ASSUME work \in WorkType, EndGrade
    PROVE  Moves
<1>1. CASE StopWork
  BY <1>1, NoWorkType DEF StopWork, Moves
<1>2. CASE /\ ~Halted'
           /\ work' = [work EXCEPT !.grading = @ \ {work.strategy}, !.strategy = "",
                               !.purpose = "", !.tries = 0, !.adjudicate = FALSE,
                               !.adjudications = IF work.adjudicate THEN @ + 1 ELSE @]
           /\ pc' = "working"
           /\ UNCHANGED stopped
  <2> DEFINE n == IF work.adjudicate THEN work.adjudications + 1 ELSE work.adjudications
  <2>0. work.adjudications \in Nat
    BY WorkFields
  <2>1. n \in Nat
    BY <2>0
  <2>2. work' = [work EXCEPT !.grading = @ \ {work.strategy}, !.strategy = "",
                             !.purpose = "", !.tries = 0, !.adjudicate = FALSE,
                             !.adjudications = n]
    BY <1>2
  <2> HIDE DEF n
  <2>3. work' \in WorkType
    BY <2>1, <2>2 DEF WorkType
  <2>4. QED
    BY <1>2, <2>3 DEF Moves
<1>3. QED
  BY <1>1, <1>2 DEF EndGrade

\* A call is made for a strategy.
LEMMA ContinueMoves ==
    ASSUME work \in WorkType, work.strategy \in Strategies, work.purpose \in Purposes,
           NEW result, Continue(result)
    PROVE  Moves
<1>1. CASE AfterClassification(result)
  <2>1. CASE Raise
    BY <2>1, NoWorkType DEF Raise, Moves
  <2>2. CASE Ask(work.strategy, "generation")
    BY <2>2, AskMoves DEF Purposes
  <2>3. CASE EndStrategy(work.strategy, FALSE, result = "blocked")
    BY <2>3, EndStrategyMoves
  <2>4. QED
    BY <1>1, <2>1, <2>2, <2>3 DEF AfterClassification
<1>2. CASE AfterGeneration(result)
  <2>1. CASE EndStrategy(work.strategy, TRUE, FALSE)
    BY <2>1, EndStrategyMoves
  <2>2. CASE Again
    BY <2>2, AgainMoves
  <2>3. CASE EndStrategy(work.strategy, FALSE, FALSE)
    BY <2>3, EndStrategyMoves
  <2>4. QED
    BY <1>2, <2>1, <2>2, <2>3 DEF AfterGeneration
<1>3. CASE AfterEvaluation(result)
  <2>1. CASE Again
    BY <2>1, AgainMoves
  <2>2. CASE Ask(work.strategy, "adjudication")
    BY <2>2, AskMoves DEF Purposes
  <2>3. CASE EndGrade
    BY <2>3, EndGradeMoves
  <2>4. QED
    BY <1>3, <2>1, <2>2, <2>3 DEF AfterEvaluation
<1>4. QED
  BY <1>1, <1>2, <1>3 DEF Continue

\* A step of the loops that moves on, with the rest of the state as given.
LEMMA MovesKeepsControl ==
    ASSUME Inv, Moves, Active, UNCHANGED <<ledgerVars, invocation, record>>,
           calls' \in CallsType, spent' \in Nat, halted' \in BOOLEAN, guard' \in GuardType,
           guard'.once = guard.once, guard'.bound = guard.bound,
           guard'.finished = guard.finished,
           paid' \in Nat, lost' \in BOOLEAN, overran' \in BOOLEAN, lost => lost',
           UnknownStops'
    PROVE  Inv'
<1> USE DEF Inv
<1>1. Types'
  BY DEF Types, Moves, ledgerVars, Ended
<1>2. AuthorizedOnce'
  <2>1. guard.once /\ guard.bound /\ ~guard.finished /\ Admissible
    BY DEF AuthorizedOnce
  <2>2. QED
    BY <2>1 DEF AuthorizedOnce, Admissible
<1>3. FreshStart'
  BY DEF FreshStart, Moves
<1>4. StopsInTime'
  BY DEF StopsInTime, Moves
<1>5. RecordsSettled'
  BY DEF RecordsSettled, Moves, SettledWithin, ledgerVars, Types
<1>6. CallNamed'
  BY DEF CallNamed, Moves
<1>7. QED
  BY <1>1, <1>2, <1>3, <1>4, <1>5, <1>6
-----------------------------------------------------------------------------
(* The control invariant is kept, one lemma per action.                    *)

LEMMA InitInv == Init => Inv
<1> SUFFICES ASSUME Init PROVE Inv
  OBVIOUS
<1>1. Types
  <2>1. NoRecord \in RecordType
    BY DEF NoRecord, RecordType
  <2>2. NoCalls \in CallsType /\ NewGuard \in GuardType /\ FreeRun \in Rows
    BY DEF NoCalls, CallsType, NewGuard, GuardType, FreeRun, Rows
  <2>3. QED
    BY <2>1, <2>2, NoWorkType DEF Init, Types, LedgerInit, Ended
<1>2. AuthorizedOnce /\ FreshStart /\ StopsInTime /\ UnknownStops /\ CallNamed
  BY DEF Init, AuthorizedOnce, Active, FreshStart, StopsInTime, UnknownStops, NoCalls, CallNamed
<1>3. RecordsSettled
  BY DEF Init, RecordsSettled, NoRecord
<1>4. QED
  BY <1>1, <1>2, <1>3 DEF Inv

\* The row of this run is the same or becomes the one appended.
LEMMA AppendKeepsTypes ==
    ASSUME Types, NEW r \in Runs, NEW row \in Rows, NEW fate, Append(r, row, fate)
    PROVE  rows' \in [Runs -> Rows] /\ torn' \in BOOLEAN /\ (r # Me => rows'[Me] = rows[Me])
  BY DEF Append, Types

LEMMA StartInv ==
    ASSUME Inv, NEW appended \in BOOLEAN, Start(appended)
    PROVE  Inv'
<1> USE DEF Inv
<1>0. invocation' \in Nat
  BY DEF Start, Types
<1>1. CASE appended
  <2>1. Types'
    <3>1. NoCalls \in CallsType
      BY DEF NoCalls, CallsType
    <3>2. calls' \in CallsType /\ work' \in WorkType
      BY <1>1, <3>1, NoWorkType DEF Start
    <3>3. spent' = 0 /\ halted' = FALSE /\ stopped' = FALSE
      BY <1>1 DEF Start
    <3>4. pc' = "starting"
      BY <1>1 DEF Start
    <3>5. QED
      BY <1>0, <3>2, <3>3, <3>4 DEF Start, Types, ledgerVars, historyVars
  <2>2. AuthorizedOnce' /\ FreshStart' /\ StopsInTime' /\ CallNamed'
    BY <1>1 DEF Start, AuthorizedOnce, Active, FreshStart, StopsInTime, CallNamed
  <2>3. UnknownStops'
    BY <1>1 DEF Start, UnknownStops, NoCalls
  <2>4. RecordsSettled'
    BY <1>1 DEF Start, RecordsSettled, SettledWithin, ledgerVars, historyVars
  <2>5. QED
    BY <2>1, <2>2, <2>3, <2>4
<1>2. CASE ~appended
  <2>1. Types'
    BY <1>0, <1>2 DEF Start, Types, ledgerVars, historyVars, Ended
  <2>2. AuthorizedOnce' /\ FreshStart' /\ StopsInTime' /\ CallNamed'
    BY <1>2 DEF Start, AuthorizedOnce, Active, FreshStart, StopsInTime, CallNamed
  <2>3. UnknownStops'
    BY <1>2 DEF Start, UnknownStops, historyVars
  <2>4. RecordsSettled'
    BY <1>2 DEF Start, RecordsSettled, SettledWithin, ledgerVars, historyVars
  <2>5. QED
    BY <2>1, <2>2, <2>3, <2>4
<1>3. QED
  BY <1>1, <1>2

LEMMA AuthorizationRefusedInv ==
    ASSUME Inv, NEW valid \in BOOLEAN, AuthorizationRefused(valid)
    PROVE  Inv'
<1> USE DEF Inv
<1> DEFINE once == guard.once \/ Admissible
<1>0. guard' = [guard EXCEPT !.once = once] /\ once \in BOOLEAN
  BY DEF AuthorizationRefused, Types, GuardType
<1>1. AuthorizedOnce' /\ guard' \in GuardType /\ guard'.stopped = guard.stopped
  <2> HIDE DEF once
  <2>1. guard' \in GuardType /\ guard'.once = once /\ guard'.stopped = guard.stopped
    BY <1>0 DEF Types, GuardType
  <2>2. CASE once
    BY <2>1, <2>2 DEF AuthorizedOnce, Active, AuthorizationRefused
  <2>3. CASE ~once
    <3>1. guard' = guard
      BY <1>0, <2>3 DEF once, Types, GuardType
    <3>2. QED
      BY <2>1, <3>1 DEF AuthorizedOnce, Active, AuthorizationRefused
  <2>4. QED
    BY <2>1, <2>2, <2>3
<1>2. Types'
  BY <1>1 DEF AuthorizationRefused, Types, ledgerVars, countVars, historyVars
<1>3. FreshStart' /\ StopsInTime' /\ CallNamed'
  BY DEF AuthorizationRefused, FreshStart, StopsInTime, CallNamed
<1>4. UnknownStops'
  BY <1>1 DEF AuthorizationRefused, UnknownStops, countVars, historyVars
<1>5. RecordsSettled'
  BY DEF AuthorizationRefused, RecordsSettled, SettledWithin, ledgerVars, historyVars
<1>6. QED
  BY <1>1, <1>2, <1>3, <1>4, <1>5

LEMMA RequireReadyInv ==
    ASSUME Inv, NEW fate \in Fates, RequireReady(fate)
    PROVE  Inv'
<1> USE DEF Inv
<1> DEFINE row == [FreeRun EXCEPT !.state = "reserved", !.reserved = PlanBound]
<1>0. guard = NewGuard /\ guard.stopped = FALSE /\ guard.finished = FALSE /\ Admissible
  BY DEF RequireReady, Authorizes, AuthorizedOnce, NewGuard
<1>1. row \in Rows /\ row.state = "reserved"
  BY PlanIsCases DEF FreeRun, Rows
<1>2. Append(Me, row, fate) /\ rows[Me].state = "free"
  BY DEF RequireReady, Reserve, CanReserve
<1> HIDE DEF row
<1>3. rows' \in [Runs -> Rows] /\ torn' \in BOOLEAN
  BY <1>1, <1>2, AppendKeepsTypes, Costs
<1>4. /\ guard' \in GuardType /\ guard'.once = TRUE /\ guard'.bound = (fate = "written")
      /\ guard'.stopped = FALSE /\ guard'.finished = FALSE
  BY <1>0 DEF RequireReady, Types, GuardType
<1>5. Types'
  BY <1>3, <1>4 DEF RequireReady, Types, countVars, historyVars
<1>6. AuthorizedOnce' /\ FreshStart' /\ CallNamed'
  BY <1>0, <1>4 DEF RequireReady, AuthorizedOnce, Active, FreshStart, CallNamed, Admissible
<1>7. StopsInTime'
  BY <1>4 DEF RequireReady, StopsInTime, FreshStart, Halted, countVars
<1>8. UnknownStops'
  BY DEF RequireReady, UnknownStops, FreshStart, NoCalls, countVars
<1>9. RecordsSettled'
  BY <1>2 DEF RequireReady, RecordsSettled, SettledWithin, historyVars
<1>10. QED
  BY <1>5, <1>6, <1>7, <1>8, <1>9

\* A step of the loops that makes no call.
LEMMA QuietMove ==
    ASSUME Inv, Active, Moves, Unchanged
    PROVE  Inv'
<1>1. /\ UNCHANGED <<ledgerVars, invocation, record>>
      /\ UNCHANGED <<calls, spent, halted, guard, paid, lost, overran>>
  BY DEF Unchanged, countVars, historyVars
<1>2. /\ calls \in CallsType /\ spent \in Nat /\ halted \in BOOLEAN /\ guard \in GuardType
      /\ paid \in Nat /\ lost \in BOOLEAN /\ overran \in BOOLEAN /\ UnknownStops
  BY DEF Inv, Types
<1>3. UnknownStops'
  BY <1>1, <1>2 DEF UnknownStops
<1>4. QED
  BY <1>1, <1>2, <1>3, MovesKeepsControl

LEMMA NextCaseMoves ==
    ASSUME work \in WorkType, NEW blocked, NEW appended, NextCase(blocked, appended),
           ~Halted
    PROVE  Moves /\ Active
<1>1. CASE blocked /\ ~appended
  BY <1>1, NoWorkType DEF NextCase, Raise, Moves, Active
<1>2. CASE ~(blocked /\ ~appended)
  <2> DEFINE n == work.case + 1
             T == IF blocked THEN {} ELSE Strategies
  <2>1. n \in 0..NumCases /\ T \in SUBSET Strategies
    <3>1. work.case \in 0..NumCases /\ work.case < NumCases
      BY WorkFields DEF NextCase
    <3>2. QED
      BY <3>1, Costs
  <2>2. work' = [work EXCEPT !.case = n, !.todo = T]
    BY <1>2 DEF NextCase
  <2> HIDE DEF n, T
  <2>3. work' \in WorkType
    BY <2>1, <2>2 DEF WorkType
  <2>4. ~Halted'
    BY DEF NextCase, Unchanged, countVars, Halted
  <2>5. QED
    BY <1>2, <2>3, <2>4 DEF NextCase, Moves, Active
<1>3. QED
  BY <1>1, <1>2

LEMMA NextStrategyMoves ==
    ASSUME work \in WorkType, NEW s \in Strategies, NextStrategy(s)
    PROVE  Moves /\ Active
<1>1. CASE StopWork
  BY <1>1, NoWorkType DEF NextStrategy, StopWork, Moves, Active
<1>2. CASE Ask(s, IF s \in Routers THEN "classification" ELSE "generation")
  BY <1>2, AskMoves DEF NextStrategy, Active, Purposes
<1>3. CASE EndStrategy(s, FALSE, FALSE)
  BY <1>3, EndStrategyMoves DEF NextStrategy, Active
<1>4. QED
  BY <1>1, <1>2, <1>3 DEF NextStrategy

LEMMA NextGradeMoves ==
    ASSUME work \in WorkType, NEW s \in Strategies, NEW rubric \in BOOLEAN,
           NEW adjudicate \in BOOLEAN, NextGrade(s, rubric, adjudicate), ~Halted
    PROVE  Moves /\ Active
<1>0. ~Halted' /\ pc = "working"
  BY DEF NextGrade, Unchanged, countVars, Halted
<1>1. CASE rubric
  <2>1. work' = [work EXCEPT !.strategy = s, !.purpose = "judge", !.tries = 1,
                             !.adjudicate = adjudicate]
        /\ pc' = "calling" /\ stopped' = stopped
    BY <1>1 DEF NextGrade
  <2>2. work' \in WorkType /\ work'.strategy = s /\ work'.purpose = "judge"
    BY <2>1 DEF WorkType, Purposes
  <2>3. QED
    BY <1>0, <2>1, <2>2 DEF Moves, Active, Purposes
<1>2. CASE ~rubric
  <2> DEFINE n == IF adjudicate THEN work.adjudications + 1 ELSE work.adjudications
  <2>1. n \in Nat
    <3>1. work.adjudications \in Nat
      BY WorkFields
    <3>2. QED
      BY <3>1
  <2>2. work' = [work EXCEPT !.grading = @ \ {s}, !.adjudications = n]
        /\ pc' = "working" /\ stopped' = stopped
    BY <1>2 DEF NextGrade
  <2> HIDE DEF n
  <2>3. work' \in WorkType
    BY <2>1, <2>2 DEF WorkType
  <2>4. QED
    BY <1>0, <2>2, <2>3 DEF Moves, Active
<1>3. QED
  BY <1>1, <1>2

\* The three loops, and the calls that are not made because of a deadline or
\* of a journal that cannot be written.
LEMMA LoopInv ==
    ASSUME Inv,
           \/ \E blocked, appended \in BOOLEAN : NextCase(blocked, appended)
           \/ \E s \in Strategies : NextStrategy(s)
           \/ \E s \in Strategies, rubric, adjudicate \in BOOLEAN :
                  NextGrade(s, rubric, adjudicate)
           \/ DeadlinePassed \/ IntentLost
    PROVE  Inv'
<1>0. work \in WorkType /\ (pc = "working" => ~Halted)
        /\ (pc = "calling" => work.strategy \in Strategies /\ work.purpose \in Purposes)
  BY DEF Inv, Types, StopsInTime, CallNamed
<1>1. ASSUME NEW blocked \in BOOLEAN, NEW appended \in BOOLEAN, NextCase(blocked, appended)
      PROVE  Moves /\ Active /\ Unchanged
  BY <1>0, <1>1, NextCaseMoves DEF NextCase
<1>2. ASSUME NEW s \in Strategies, NextStrategy(s)
      PROVE  Moves /\ Active /\ Unchanged
  BY <1>0, <1>2, NextStrategyMoves DEF NextStrategy
<1>3. ASSUME NEW s \in Strategies, NEW rubric \in BOOLEAN, NEW adjudicate \in BOOLEAN,
             NextGrade(s, rubric, adjudicate)
      PROVE  Moves /\ Active /\ Unchanged
  BY <1>0, <1>3, NextGradeMoves DEF NextGrade
<1>4. ASSUME DeadlinePassed \/ IntentLost
      PROVE  Moves /\ Active /\ Unchanged
  BY <1>0, <1>4, ContinueMoves DEF DeadlinePassed, IntentLost, Active
<1>5. Moves /\ Active /\ Unchanged
  BY <1>1, <1>2, <1>3, <1>4
<1>6. QED
  BY <1>5, QuietMove

LEMMA EndCasesInv ==
    ASSUME Inv, EndCases
    PROVE  Inv'
<1> USE DEF Inv
<1>1. Types'
  BY NoWorkType DEF EndCases, Unchanged, Types, ledgerVars, countVars, historyVars
<1>2. AuthorizedOnce' /\ FreshStart' /\ CallNamed'
  BY DEF EndCases, Unchanged, AuthorizedOnce, Active, FreshStart, CallNamed
<1>3. StopsInTime'
  BY DEF EndCases, Unchanged, StopsInTime, AuthorizedOnce, Active, Halted, countVars
<1>4. UnknownStops'
  BY DEF EndCases, Unchanged, UnknownStops, countVars, historyVars
<1>5. RecordsSettled'
  BY DEF EndCases, Unchanged, RecordsSettled, SettledWithin, ledgerVars, historyVars
<1>6. QED
  BY <1>1, <1>2, <1>3, <1>4, <1>5

LEMMA RefusesInv ==
    ASSUME Inv, \/ \E fits \in BOOLEAN : RunnerRefuses(fits)
                \/ \E valid \in BOOLEAN : GuardRefuses(valid)
    PROVE  Inv'
<1> USE DEF Inv
<1>0. /\ work \in WorkType /\ pc = "calling" /\ Active
      /\ work.strategy \in Strategies /\ work.purpose \in Purposes
  BY DEF RunnerRefuses, GuardRefuses, Types, CallNamed, Active
<1>1. Moves
  BY <1>0, ContinueMoves DEF RunnerRefuses, GuardRefuses
<1>2. ASSUME NEW fits \in BOOLEAN, RunnerRefuses(fits)
      PROVE  Inv'
  <2>1. /\ UNCHANGED <<ledgerVars, invocation, record>>
        /\ UNCHANGED <<calls, spent, guard, paid, lost, overran>> /\ halted' = TRUE
    BY <1>2 DEF RunnerRefuses, historyVars
  <2>2. UnknownStops'
    BY <2>1 DEF UnknownStops
  <2>3. /\ calls' \in CallsType /\ spent' \in Nat /\ guard' \in GuardType
        /\ paid' \in Nat /\ lost' \in BOOLEAN /\ overran' \in BOOLEAN /\ halted' \in BOOLEAN
    BY <2>1 DEF Types
  <2>4. QED
    BY <1>0, <1>1, <2>1, <2>2, <2>3, MovesKeepsControl
<1>3. ASSUME NEW valid \in BOOLEAN, GuardRefuses(valid)
      PROVE  Inv'
  <2>1. /\ UNCHANGED <<ledgerVars, invocation, record>>
        /\ UNCHANGED <<calls, spent, halted, paid, lost, overran>>
        /\ guard' = [guard EXCEPT !.stopped = TRUE]
    BY <1>3 DEF GuardRefuses, historyVars, countVars
  <2>2. /\ guard' \in GuardType /\ guard'.stopped = TRUE
        /\ guard'.once = guard.once /\ guard'.bound = guard.bound
        /\ guard'.finished = guard.finished
    BY <2>1 DEF Types, GuardType
  <2>3. UnknownStops'
    BY <2>2 DEF UnknownStops
  <2>4. /\ calls' \in CallsType /\ spent' \in Nat
        /\ paid' \in Nat /\ lost' \in BOOLEAN /\ overran' \in BOOLEAN /\ halted' \in BOOLEAN
    BY <2>1 DEF Types
  <2>5. QED
    BY <1>0, <1>1, <2>1, <2>2, <2>3, <2>4, MovesKeepsControl
<1>4. QED
  BY <1>2, <1>3

LEMMA DispatchInv ==
    ASSUME Inv, Dispatch
    PROVE  Inv'
<1> USE DEF Inv
<1>1. Types'
  BY DEF Dispatch, Unchanged, Types, ledgerVars, countVars, historyVars
<1>2. AuthorizedOnce' /\ FreshStart' /\ CallNamed'
  BY DEF Dispatch, Unchanged, AuthorizedOnce, Active, FreshStart, CallNamed
<1>3. StopsInTime'
  BY DEF Dispatch, Unchanged, StopsInTime, BeforeDispatch, AssertReady, ledgerVars
<1>4. UnknownStops'
  BY DEF Dispatch, Unchanged, UnknownStops, countVars, historyVars
<1>5. RecordsSettled'
  BY DEF Dispatch, Unchanged, RecordsSettled, SettledWithin, ledgerVars, historyVars
<1>6. QED
  BY <1>1, <1>2, <1>3, <1>4, <1>5

LEMMA ChargeNat ==
    ASSUME Inv, NEW charge \in Charges
    PROVE  /\ pc = "waiting" /\ charge \in Nat
           /\ charge = Bound[work.purpose] \/ charge = Bound[work.purpose] + Overrun
<1>1. pc = "waiting" /\ work.purpose \in Purposes
  BY DEF Charges, Inv, CallNamed
<1>2. Bound[work.purpose] \in Nat /\ Overrun \in Nat
  BY <1>1, Costs
<1>3. QED
  BY <1>1, <1>2 DEF Charges

\* What every return of a call has in common.
LEMMA Waiting ==
    ASSUME Inv, pc = "waiting"
    PROVE  /\ work \in WorkType /\ Active
           /\ work.strategy \in Strategies /\ work.purpose \in Purposes
           /\ ~guard.stopped /\ rows[Me].state = "reserved"
           /\ (calls.unsettled \/ calls.unknown) => lost
  BY DEF Inv, Types, CallNamed, Active, StopsInTime, UnknownStops

LEMMA PaidType ==
    ASSUME Inv, NEW charge \in Nat, PaidCall(charge)
    PROVE  paid' \in Nat /\ overran' \in BOOLEAN
<1>1. paid \in Nat
  BY DEF Inv, Types
<1>2. QED
  BY <1>1 DEF PaidCall

LEMMA KnownGuard ==
    ASSUME Inv, NEW charge \in Nat, guard' = AfterDispatch(TRUE, charge)
    PROVE  /\ guard' \in GuardType /\ guard'.once = guard.once /\ guard'.bound = guard.bound
           /\ guard'.finished = guard.finished /\ guard'.spent = guard.spent + charge
           /\ guard'.stopped = (charge > Bound[work.purpose] \/ guard.spent + charge > PlanBound)
<1> DEFINE total == guard.spent + charge
           over == charge > Bound[work.purpose] \/ total > PlanBound
<1>1. guard.spent \in Nat /\ guard \in GuardType
  BY DEF Inv, Types, GuardType
<1>2. total \in Nat /\ over \in BOOLEAN
  BY <1>1
<1>3. guard' = [guard EXCEPT !.spent = total, !.stopped = over]
  BY DEF AfterDispatch
<1> HIDE DEF total, over
<1>4. /\ guard' \in GuardType /\ guard'.once = guard.once /\ guard'.bound = guard.bound
      /\ guard'.finished = guard.finished /\ guard'.spent = total /\ guard'.stopped = over
  BY <1>1, <1>2, <1>3 DEF GuardType
<1>5. QED
  BY <1>4 DEF total, over

LEMMA UnknownGuard ==
    ASSUME Inv, NEW charge \in Nat, guard' = AfterDispatch(FALSE, charge)
    PROVE  /\ guard' \in GuardType /\ guard'.once = guard.once /\ guard'.bound = guard.bound
           /\ guard'.finished = guard.finished /\ guard'.spent = guard.spent
           /\ guard'.stopped = TRUE
<1>1. guard \in GuardType
  BY DEF Inv, Types
<1>2. guard' = [guard EXCEPT !.stopped = TRUE]
  BY DEF AfterDispatch
<1>3. QED
  BY <1>1, <1>2 DEF GuardType

LEMMA ReturnKnownInv ==
    ASSUME Inv, NEW kind, NEW charge \in Charges, NEW late \in BOOLEAN,
           ReturnKnown(kind, charge, late)
    PROVE  Inv'
<1>1. pc = "waiting" /\ charge \in Nat
  BY ChargeNat
<1>2. Moves /\ Active
  BY <1>1, Waiting, ContinueMoves DEF ReturnKnown
<1>3. paid' \in Nat /\ overran' \in BOOLEAN
  BY <1>1, PaidType DEF ReturnKnown
<1>4. /\ guard' \in GuardType /\ guard'.once = guard.once /\ guard'.bound = guard.bound
      /\ guard'.finished = guard.finished
  BY <1>1, KnownGuard DEF ReturnKnown
<1>5. /\ calls' \in CallsType /\ calls'.unknown = calls.unknown
      /\ calls'.unsettled = calls.unsettled
  <2> DEFINE n == calls.known + charge
  <2>1. calls \in CallsType /\ calls.known \in Nat
    BY DEF Inv, Types, CallsType
  <2>2. n \in Nat
    BY <1>1, <2>1
  <2>3. calls' = [calls EXCEPT !.known = n]
    BY DEF ReturnKnown
  <2> HIDE DEF n
  <2>4. QED
    BY <2>1, <2>2, <2>3 DEF CallsType
<1>6. spent' \in Nat
  <2>1. spent \in Nat
    BY DEF Inv, Types
  <2>2. spent' = spent \/ spent' = spent + charge
    BY DEF ReturnKnown
  <2>3. QED
    BY <1>1, <2>1, <2>2
<1>7. UNCHANGED <<ledgerVars, invocation, record, halted, lost>>
  BY DEF ReturnKnown
<1>8. halted' \in BOOLEAN /\ lost' \in BOOLEAN
  BY <1>7 DEF Inv, Types
<1>9. UnknownStops'
  BY <1>1, <1>5, <1>7, Waiting DEF UnknownStops
<1>10. QED
  BY <1>2, <1>3, <1>4, <1>5, <1>6, <1>7, <1>8, <1>9, MovesKeepsControl

LEMMA ReturnUnknownInv ==
    ASSUME Inv, NEW raised \in BOOLEAN, NEW charge \in Charges, ReturnUnknown(raised, charge)
    PROVE  Inv'
<1>1. pc = "waiting" /\ charge \in Nat
  BY ChargeNat
<1>2. Moves /\ Active
  BY <1>1, Waiting, ContinueMoves DEF ReturnUnknown
<1>3. paid' \in Nat /\ overran' \in BOOLEAN
  BY <1>1, PaidType DEF ReturnUnknown
<1>4. /\ guard' \in GuardType /\ guard'.once = guard.once /\ guard'.bound = guard.bound
      /\ guard'.finished = guard.finished /\ guard'.stopped = TRUE
  BY <1>1, UnknownGuard DEF ReturnUnknown
<1>5. calls' \in CallsType
  BY DEF ReturnUnknown, Inv, Types, CallsType
<1>6. UNCHANGED <<ledgerVars, invocation, record, spent, halted, lost>>
  BY DEF ReturnUnknown
<1>7. halted' \in BOOLEAN /\ lost' \in BOOLEAN /\ spent' \in Nat
  BY <1>6 DEF Inv, Types
<1>8. UnknownStops'
  BY <1>4 DEF UnknownStops
<1>9. QED
  BY <1>2, <1>3, <1>4, <1>5, <1>6, <1>7, <1>8, MovesKeepsControl

LEMMA ReturnLostInv ==
    ASSUME Inv, NEW known \in BOOLEAN, NEW charge \in Charges, ReturnLost(known, charge)
    PROVE  Inv'
<1>1. pc = "waiting" /\ charge \in Nat
  BY ChargeNat
<1>2. Moves /\ Active
  BY <1>1, Waiting, ContinueMoves DEF ReturnLost
<1>3. paid' \in Nat /\ overran' \in BOOLEAN
  BY <1>1, PaidType DEF ReturnLost
<1>4. calls' \in CallsType
  <2> DEFINE n == IF known THEN calls.known + charge ELSE calls.known
             u == calls.unknown \/ ~known
  <2>1. calls.known \in Nat /\ calls.unknown \in BOOLEAN
    BY DEF Inv, Types, CallsType
  <2>2. n \in Nat /\ u \in BOOLEAN
    BY <1>1, <2>1
  <2>3. calls' = [known |-> n, unknown |-> u, unsettled |-> TRUE]
    BY DEF ReturnLost
  <2> HIDE DEF n, u
  <2>4. QED
    BY <2>2, <2>3 DEF CallsType
<1>5. UNCHANGED <<ledgerVars, invocation, record, spent, halted, guard>> /\ lost' = TRUE
  BY DEF ReturnLost
<1>6. halted' \in BOOLEAN /\ lost' \in BOOLEAN /\ spent' \in Nat /\ guard' \in GuardType
  BY <1>5 DEF Inv, Types
<1>7. UnknownStops'
  BY <1>5 DEF UnknownStops
<1>8. QED
  BY <1>2, <1>3, <1>4, <1>5, <1>6, <1>7, MovesKeepsControl

LEMMA NothingToSettleInv ==
    ASSUME Inv, NothingToSettle
    PROVE  Inv'
<1> USE DEF Inv
<1>0. stopped
  BY DEF NothingToSettle, FinishesRun, StopsInTime
<1>1. Types'
  BY DEF NothingToSettle, Unchanged, Types, ledgerVars, countVars, historyVars
<1>2. AuthorizedOnce' /\ FreshStart' /\ CallNamed' /\ StopsInTime'
  BY DEF NothingToSettle, Unchanged, AuthorizedOnce, Active, FreshStart, CallNamed, StopsInTime
<1>3. UnknownStops'
  BY DEF NothingToSettle, Unchanged, UnknownStops, countVars, historyVars
<1>4. RecordsSettled'
  BY <1>0 DEF NothingToSettle, Unchanged, RecordsSettled, SettledWithin, ledgerVars, historyVars
<1>5. QED
  BY <1>1, <1>2, <1>3, <1>4

\* The row that a settlement appends.
LEMMA SettledRowType ==
    ASSUME NEW row \in Rows, NEW known \in BOOLEAN, NEW actual \in Nat
    PROVE  /\ SettledAs(row, known, actual) \in Rows
           /\ SettledAs(row, known, actual).reserved = row.reserved
           /\ known => /\ SettledAs(row, known, actual).state = "settled"
                       /\ SettledAs(row, known, actual).actual = actual
           /\ ~known => SettledAs(row, known, actual).state = "uncertain"
  BY DEF SettledAs, Rows

\* What finish_run does to the file and to the row of the run.
LEMMA FinishRunRows ==
    ASSUME Inv, NEW fate \in Fates, FinishRun(fate)
    PROVE  /\ rows' \in [Runs -> Rows] /\ torn' \in BOOLEAN
           /\ \/ rows' = rows
              \/ rows[Me].state = "reserved"
                 /\ rows' = [rows EXCEPT ![Me] = SettledAs(rows[Me], TotalIsKnown, calls.known)]
           /\ ~SettlementFails(fate) =>
                 /\ rows[Me].state = "reserved"
                 /\ rows'[Me] = SettledAs(rows[Me], TotalIsKnown, calls.known)
<1>0. /\ rows \in [Runs -> Rows] /\ torn \in BOOLEAN /\ rows[Me] \in Rows /\ Me \in Runs
      /\ calls.known \in Nat
  BY Costs DEF Inv, Types, CallsType
<1> DEFINE row == SettledAs(rows[Me], TotalIsKnown, calls.known)
<1>1. row \in Rows
  BY <1>0, SettledRowType DEF TotalIsKnown
<1> HIDE DEF row
<1>2. CASE CanSettle(Me)
  <2>1. Append(Me, row, fate) /\ rows[Me].state = "reserved"
    BY <1>2 DEF FinishRun, Settle, CanSettle, row
  <2>2. QED
    BY <1>0, <1>1, <2>1, AppendKeepsTypes DEF Append, SettlementFails, row, Inv
<1>3. CASE ~CanSettle(Me)
  BY <1>0, <1>3 DEF FinishRun, SettlementFails, ledgerVars
<1>4. QED
  BY <1>2, <1>3

LEMMA FinishRunInv ==
    ASSUME Inv, NEW fate \in Fates, FinishRun(fate)
    PROVE  Inv'
<1> USE DEF Inv
<1>0. SettlementFails(fate) \in BOOLEAN
  BY DEF SettlementFails, TotalIsKnown, CanSettle
<1> DEFINE g == guard.stopped \/ SettlementFails(fate)
<1>1. guard' = [guard EXCEPT !.finished = TRUE, !.stopped = g] /\ g \in BOOLEAN
  BY DEF FinishRun
<1>2. /\ guard' \in GuardType /\ guard'.stopped = g /\ guard'.once = guard.once
  <2> HIDE DEF g
  <2>1. QED
    BY <1>1 DEF Types, GuardType
<1>3. rows' \in [Runs -> Rows] /\ torn' \in BOOLEAN
  BY FinishRunRows
<1>4. stopped' \in BOOLEAN /\ (~stopped' => ~stopped /\ ~SettlementFails(fate))
  BY DEF FinishRun
<1>5. Types'
  BY <1>2, <1>3, <1>4 DEF FinishRun, Types, countVars, historyVars
<1>6. guard.once
  <2>1. guard.bound
    BY DEF FinishRun, FinishesRun
  <2>2. QED
    BY <2>1 DEF AuthorizedOnce, NewGuard
<1>7. AuthorizedOnce' /\ FreshStart' /\ CallNamed' /\ StopsInTime'
  BY <1>2, <1>6 DEF FinishRun, AuthorizedOnce, Active, FreshStart, CallNamed, StopsInTime
<1>8. UnknownStops'
  BY <1>2 DEF FinishRun, UnknownStops, countVars, historyVars
<1>9. ASSUME ~stopped', ~lost
      PROVE  SettledWithin'
  <2>1. ~stopped /\ ~SettlementFails(fate)
    BY <1>4, <1>9
  <2>2. ~Halted
    BY <2>1 DEF StopsInTime, FinishRun
  <2>3. TotalIsKnown
    BY <1>9, <2>2 DEF Halted, UnknownStops, TotalIsKnown
  <2>4. rows[Me] \in Rows /\ calls.known \in Nat
    BY Costs DEF Types, CallsType
  <2>5. ~(calls.known > rows[Me].reserved)
    BY <2>1, <2>3 DEF SettlementFails
  <2>6. rows'[Me] = SettledAs(rows[Me], TRUE, calls.known)
    BY <2>1, <2>3, FinishRunRows DEF TotalIsKnown
  <2>7. /\ rows'[Me].state = "settled" /\ rows'[Me].actual = calls.known
        /\ rows'[Me].reserved = rows[Me].reserved
    BY <2>4, <2>6 DEF SettledAs, Rows
  <2>8. calls.known <= rows[Me].reserved
    BY <2>4, <2>5 DEF Rows
  <2>9. QED
    BY <2>7, <2>8 DEF SettledWithin
<1>10. SettledWithin => SettledWithin'
  <2>1. SettledWithin => rows[Me].state # "reserved"
    BY DEF SettledWithin
  <2>2. QED
    BY <2>1, FinishRunRows DEF SettledWithin
<1>11. RecordsSettled'
  BY <1>9, <1>10 DEF FinishRun, RecordsSettled, historyVars
<1>12. QED
  BY <1>5, <1>7, <1>8, <1>11

LEMMA WriteRecordInv ==
    ASSUME Inv, NEW complete \in BOOLEAN, WriteRecord(complete)
    PROVE  Inv'
<1> USE DEF Inv
<1> DEFINE new == [file   |-> IF complete THEN "unchecked" ELSE "torn",
                   status |-> IF stopped THEN "stopped" ELSE "completed"]
<1>1. new \in RecordType /\ (new.status = "completed" => ~stopped)
  BY DEF RecordType
<1>2. record' = [record EXCEPT ![invocation] = new] /\ pc = "finishing"
  BY DEF WriteRecord
<1> HIDE DEF new
<1>3. record' \in [1..MaxInvocations -> RecordType]
  BY <1>1, <1>2 DEF Types
<1>4. Types'
  BY <1>3 DEF WriteRecord, Types, ledgerVars, countVars, historyVars, Ended
<1>5. AuthorizedOnce' /\ FreshStart' /\ CallNamed' /\ StopsInTime'
  BY DEF WriteRecord, AuthorizedOnce, Active, FreshStart, CallNamed, StopsInTime
<1>6. UnknownStops'
  BY DEF WriteRecord, UnknownStops, countVars, historyVars
<1>7. RecordsSettled'
  <2>1. /\ UNCHANGED <<rows, lost>> /\ pc' # "finishing"
    BY DEF WriteRecord, ledgerVars, historyVars
  <2>2. ASSUME NEW i \in 1..MaxInvocations, record'[i].status = "completed", ~lost
        PROVE  SettledWithin
    <3>1. record'[i] = record[i] \/ record'[i] = new
      BY <1>2 DEF Types
    <3>2. QED
      BY <1>1, <1>2, <2>2, <3>1 DEF RecordsSettled
  <2>3. SettledWithin => SettledWithin'
    BY <2>1 DEF SettledWithin
  <2>4. QED
    BY <2>1, <2>2, <2>3 DEF RecordsSettled
<1>8. QED
  BY <1>4, <1>5, <1>6, <1>7

LEMMA WriteChecksumInv ==
    ASSUME Inv, WriteChecksum
    PROVE  Inv'
<1> USE DEF Inv
<1>1. record' = [record EXCEPT ![invocation].file = "checked"] /\ pc' = "done"
  BY DEF WriteChecksum
<1>2. /\ record' \in [1..MaxInvocations -> RecordType]
      /\ \A i \in 1..MaxInvocations : record'[i].status = record[i].status
  BY <1>1 DEF Types, RecordType
<1>3. Types'
  BY <1>1, <1>2 DEF WriteChecksum, Types, ledgerVars, countVars, historyVars, Ended
<1>4. AuthorizedOnce' /\ FreshStart' /\ CallNamed' /\ StopsInTime'
  BY DEF WriteChecksum, AuthorizedOnce, Active, FreshStart, CallNamed, StopsInTime
<1>5. UnknownStops'
  BY DEF WriteChecksum, UnknownStops, countVars, historyVars
<1>6. RecordsSettled'
  <2>1. UNCHANGED <<rows, lost>>
    BY DEF WriteChecksum, ledgerVars, historyVars
  <2>2. QED
    BY <1>1, <1>2, <2>1 DEF RecordsSettled, SettledWithin
<1>7. QED
  BY <1>3, <1>4, <1>5, <1>6

LEMMA FinishFailsInv ==
    ASSUME Inv, FinishFails
    PROVE  Inv'
<1> USE DEF Inv
<1>1. Types'
  BY DEF FinishFails, Unchanged, Types, ledgerVars, countVars, historyVars, Ended
<1>2. AuthorizedOnce' /\ FreshStart' /\ CallNamed' /\ StopsInTime'
  BY DEF FinishFails, Unchanged, AuthorizedOnce, Active, FreshStart, CallNamed, StopsInTime
<1>3. UnknownStops'
  BY DEF FinishFails, Unchanged, UnknownStops, countVars, historyVars
<1>4. RecordsSettled'
  BY DEF FinishFails, Unchanged, RecordsSettled, SettledWithin, ledgerVars, historyVars
<1>5. QED
  BY <1>1, <1>2, <1>3, <1>4

LEMMA CrashInv ==
    ASSUME Inv, Crash
    PROVE  Inv'
<1> USE DEF Inv
<1>1. Types'
  <2>1. NoCalls \in CallsType /\ NewGuard \in GuardType
    BY DEF NoCalls, CallsType, NewGuard, GuardType
  <2>2. calls' \in CallsType /\ work' \in WorkType /\ guard' \in GuardType
    BY <2>1, NoWorkType DEF Crash
  <2>3. spent' = 0 /\ halted' = FALSE /\ stopped' = FALSE /\ pc' = "crashed"
    BY DEF Crash
  <2>4. UNCHANGED <<rows, torn, invocation, record, paid, lost, overran>>
    BY DEF Crash, ledgerVars, historyVars
  <2>5. QED
    BY <2>2, <2>3, <2>4 DEF Types, Ended
<1>2. AuthorizedOnce' /\ FreshStart' /\ CallNamed' /\ StopsInTime'
  BY DEF Crash, AuthorizedOnce, Active, FreshStart, CallNamed, StopsInTime
<1>3. UnknownStops'
  BY DEF Crash, UnknownStops, NoCalls
<1>4. RecordsSettled'
  BY DEF Crash, RecordsSettled, SettledWithin, ledgerVars, historyVars
<1>5. QED
  BY <1>1, <1>2, <1>3, <1>4

\* Other runs leave this run's row alone.
LEMMA PeerRows ==
    ASSUME Inv, NEW r \in Runs, NEW fate \in Fates, Peer(r, fate)
    PROVE  rows' \in [Runs -> Rows] /\ torn' \in BOOLEAN /\ rows'[Me] = rows[Me]
<1>0. Types /\ r # Me /\ rows[r] \in Rows
  BY DEF Inv, Types, Peer
<1>1. ASSUME NEW amount \in PeerAmounts, Reserve(r, amount, fate)
      PROVE  rows' \in [Runs -> Rows] /\ torn' \in BOOLEAN /\ rows'[Me] = rows[Me]
  <2> DEFINE row == [FreeRun EXCEPT !.state = "reserved", !.reserved = amount]
  <2>1. amount \in Nat
    BY RunAssumption, LedgerAssumption
  <2>2. row \in Rows
    BY <2>1 DEF FreeRun, Rows
  <2>3. Append(r, row, fate)
    BY <1>1 DEF Reserve
  <2> HIDE DEF row
  <2>4. QED
    BY <1>0, <2>2, <2>3, AppendKeepsTypes
<1>2. ASSUME NEW known \in BOOLEAN, NEW actual \in PeerActuals, Settle(r, known, actual, fate)
      PROVE  rows' \in [Runs -> Rows] /\ torn' \in BOOLEAN /\ rows'[Me] = rows[Me]
  <2>1. actual \in Nat
    BY RunAssumption, LedgerAssumption
  <2>2. SettledAs(rows[r], known, actual) \in Rows
    BY <1>0, <2>1, SettledRowType
  <2>3. Append(r, SettledAs(rows[r], known, actual), fate)
    BY <1>2 DEF Settle
  <2>4. QED
    BY <1>0, <2>2, <2>3, AppendKeepsTypes
<1>3. QED
  BY <1>1, <1>2 DEF Peer

LEMMA PeerInv ==
    ASSUME Inv, NEW r \in Runs, NEW fate \in Fates, Peer(r, fate)
    PROVE  Inv'
<1> USE DEF Inv
<1>0. rows' \in [Runs -> Rows] /\ torn' \in BOOLEAN /\ rows'[Me] = rows[Me]
  BY PeerRows
<1>1. UNCHANGED <<loopVars, countVars, historyVars, invocation, guard, record>>
  BY DEF Peer
<1>2. Types'
  BY <1>0, <1>1 DEF Types, loopVars, countVars, historyVars
<1>3. AuthorizedOnce' /\ FreshStart' /\ CallNamed'
  BY <1>1 DEF AuthorizedOnce, Active, FreshStart, CallNamed, loopVars, countVars
<1>4. StopsInTime'
  BY <1>0, <1>1 DEF StopsInTime, Halted, loopVars, countVars
<1>5. UnknownStops'
  BY <1>1 DEF UnknownStops, countVars, historyVars
<1>6. RecordsSettled'
  BY <1>0, <1>1 DEF RecordsSettled, SettledWithin, loopVars, historyVars
<1>7. QED
  BY <1>2, <1>3, <1>4, <1>5, <1>6

\* Every step keeps the control invariant.
LEMMA NextInv == Inv /\ [Next]_vars => Inv'
<1> SUFFICES ASSUME Inv, [Next]_vars PROVE Inv'
  OBVIOUS
<1>1. CASE \/ \E appended \in BOOLEAN : Start(appended)
           \/ \E valid \in BOOLEAN : AuthorizationRefused(valid)
           \/ \E fate \in Fates : RequireReady(fate)
  BY <1>1, StartInv, AuthorizationRefusedInv, RequireReadyInv
<1>2. CASE \/ \E blocked, appended \in BOOLEAN : NextCase(blocked, appended)
           \/ \E s \in Strategies : NextStrategy(s)
           \/ \E s \in Strategies, rubric, adjudicate \in BOOLEAN :
                  NextGrade(s, rubric, adjudicate)
           \/ DeadlinePassed \/ IntentLost
  BY <1>2, LoopInv
<1>3. CASE EndCases \/ Dispatch
  BY <1>3, EndCasesInv, DispatchInv
<1>4. CASE \/ \E fits \in BOOLEAN : RunnerRefuses(fits)
           \/ \E valid \in BOOLEAN : GuardRefuses(valid)
  BY <1>4, RefusesInv
<1>5. CASE \E charge \in Charges :
           \/ \E kind \in {"result", "failure"}, late \in BOOLEAN :
                  ReturnKnown(kind, charge, late)
           \/ \E raised \in BOOLEAN : ReturnUnknown(raised, charge)
           \/ \E known \in BOOLEAN : ReturnLost(known, charge)
  BY <1>5, ReturnKnownInv, ReturnUnknownInv, ReturnLostInv
<1>6. CASE NothingToSettle \/ \E fate \in Fates : FinishRun(fate)
  BY <1>6, NothingToSettleInv, FinishRunInv
<1>7. CASE (\E complete \in BOOLEAN : WriteRecord(complete)) \/ WriteChecksum \/ FinishFails \/ Crash
  BY <1>7, WriteRecordInv, WriteChecksumInv, FinishFailsInv, CrashInv
<1>8. CASE \E r \in Runs, fate \in Fates : Peer(r, fate)
  BY <1>8, PeerInv
<1>9. CASE UNCHANGED vars
  <2>1. UNCHANGED <<rows, torn, pc, work, stopped, calls, spent, halted, paid, lost, overran,
                    invocation, guard, record>>
    BY <1>9 DEF vars, ledgerVars, loopVars, countVars, historyVars
  <2>2. QED
    BY <2>1 DEF Inv, Types, CallNamed, AuthorizedOnce, Active, Admissible, FreshStart,
                StopsInTime, Halted, UnknownStops, RecordsSettled, SettledWithin
<1>10. QED
  BY <1>1, <1>2, <1>3, <1>4, <1>5, <1>6, <1>7, <1>8, <1>9
     DEF Next, ValidateCurrentRelease, CaseBlocker, FitsInputBound

LEMMA Invariant == Spec => []Inv
  BY InitInv, NextInv, PTL DEF Spec

\* A run that loads as completed has its cost settled in the allocation within
\* its bound, whatever crashes, torn files, second invocations and other runs
\* come between the settlement, the record and its checksum, unless the journal
\* lost the end of a call.
THEOREM CompletedRunsSettle == Spec => []CompletedIsSettled
<1>1. Inv => CompletedIsSettled
  <2> SUFFICES ASSUME Inv, NEW i \in DOMAIN record, Load(i) = "completed", ~lost
               PROVE  SettledWithin
    BY DEF CompletedIsSettled, SettledWithin
  <2>1. record \in [1..MaxInvocations -> RecordType]
    BY DEF Inv, Types
  <2>2. record[i].status = "completed"
    BY DEF Load
  <2>3. QED
    BY <2>1, <2>2 DEF Inv, RecordsSettled
<1>2. QED
  BY <1>1, Invariant, PTL

\* No call is dispatched after one that is unsettled: the guard's flag outlives
\* the exception that the evaluator and the recovery swallow.
THEOREM UnknownCostsStopTheRun == Spec => UnknownStopsUnlessLost
<1>1. Inv /\ [Next]_vars =>
        [calls.unsettled /\ ~lost => ~(pc = "calling" /\ pc' = "waiting")]_vars
  <2> SUFFICES ASSUME Inv, Next, calls.unsettled, ~lost, pc = "calling", pc' = "waiting"
               PROVE  FALSE
    OBVIOUS
  <2>1. guard.stopped
    BY DEF Inv, UnknownStops
  <2>2. ASSUME NEW result, Continue(result) PROVE FALSE
    <3>1. Moves
      BY <2>2, ContinueMoves DEF Inv, Types, CallNamed
    <3>2. QED
      BY <3>1 DEF Moves
  <2>3. ~Dispatch
    BY <2>1 DEF Dispatch, BeforeDispatch
  <2>4. QED
    BY <2>2, <2>3 DEF Next, Start, AuthorizationRefused, GuardRefuses, RequireReady, FinishRun,
         NextCase, NextStrategy, NextGrade, EndCases, DeadlinePassed, RunnerRefuses, IntentLost,
         ReturnKnown, ReturnUnknown, ReturnLost, PaidCall, NothingToSettle, WriteRecord,
         WriteChecksum, FinishFails, Crash, Peer, loopVars, Ended
<1>2. QED
  BY <1>1, Invariant, PTL DEF Spec, UnknownStopsUnlessLost
-----------------------------------------------------------------------------
(* Settlement: one run() per runner, as the command line makes them.       *)

\* A step that neither pays, settles nor starts.
LEMMA SameMoney ==
    ASSUME SettleInv, pc # "idle", pc' \notin {"idle", "starting"},
           UNCHANGED <<invocation, calls, paid>>, rows'[Me] = rows[Me],
           guard'.bound = guard.bound
    PROVE  SettleInv'
  BY DEF SettleInv, OneRun, Counted, TotalIsKnown, SettledIsTrue

LEMMA MovesAreNotStarts ==
    ASSUME Moves
    PROVE  pc' \notin {"idle", "starting"}
  BY DEF Moves

LEMMA LoopSettle ==
    ASSUME Inv, SettleInv, Active, Moves, UNCHANGED <<ledgerVars, invocation, calls, paid>>,
           guard'.bound = guard.bound
    PROVE  SettleInv'
  BY MovesAreNotStarts, SameMoney DEF Active, ledgerVars

LEMMA StartSettle ==
    ASSUME MaxInvocations = 1, Inv, SettleInv, NEW appended \in BOOLEAN, Start(appended)
    PROVE  SettleInv'
<1>1. pc = "idle" /\ invocation = 0 /\ paid = 0
  BY DEF Start, SettleInv, OneRun
<1>2. OneRun'
  BY <1>1 DEF Start, OneRun, historyVars
<1>3. Counted'
  BY <1>1 DEF Start, SettleInv, Counted, TotalIsKnown, NoCalls, historyVars
<1>4. SettledIsTrue'
  BY DEF Start, SettleInv, SettledIsTrue, historyVars, ledgerVars
<1>5. QED
  BY <1>2, <1>3, <1>4 DEF SettleInv

LEMMA RequireReadySettle ==
    ASSUME Inv, SettleInv, NEW fate \in Fates, RequireReady(fate)
    PROVE  SettleInv'
<1> DEFINE row == [FreeRun EXCEPT !.state = "reserved", !.reserved = PlanBound]
<1>1. Append(Me, row, fate) /\ row.state = "reserved" /\ rows[Me].state = "free"
  BY DEF RequireReady, Reserve, CanReserve, FreeRun
<1> HIDE DEF row
<1>2. rows'[Me].state # "settled"
  BY <1>1, Costs DEF Append, Inv, Types
<1>3. calls = NoCalls /\ paid = 0 /\ UNCHANGED <<calls, paid, invocation>>
        /\ pc' \in {"working", "settling"} /\ pc = "starting"
  BY DEF RequireReady, Inv, FreshStart, SettleInv, OneRun, countVars, historyVars
<1>4. QED
  BY <1>2, <1>3 DEF SettleInv, OneRun, Counted, NoCalls, SettledIsTrue

\* A cost that is known is counted as it is paid; any other marks the total
\* unknown.
LEMMA ReturnSettle ==
    ASSUME Inv, SettleInv, NEW charge \in Charges,
           \/ \E kind, late : ReturnKnown(kind, charge, late)
           \/ \E raised \in BOOLEAN : ReturnUnknown(raised, charge)
           \/ \E known \in BOOLEAN : ReturnLost(known, charge)
    PROVE  SettleInv'
<1>1. /\ pc = "waiting" /\ charge \in Nat /\ guard.bound
      /\ work \in WorkType /\ work.strategy \in Strategies /\ work.purpose \in Purposes
      /\ rows[Me].state = "reserved" /\ calls.known \in Nat /\ paid \in Nat
  BY ChargeNat, Waiting DEF Inv, AuthorizedOnce, Types, CallsType
<1>2. Moves
  BY <1>1, ContinueMoves DEF ReturnKnown, ReturnUnknown, ReturnLost
<1>3. UNCHANGED <<rows, invocation>> /\ paid' = paid + charge
  BY DEF ReturnKnown, ReturnUnknown, ReturnLost, PaidCall, ledgerVars
<1>4. OneRun' /\ SettledIsTrue'
  BY <1>1, <1>2, <1>3, MovesAreNotStarts DEF SettleInv, OneRun, SettledIsTrue
<1>5. Counted'
  <2>1. ASSUME NEW kind, NEW late, ReturnKnown(kind, charge, late), TotalIsKnown'
        PROVE  calls'.known = paid'
    <3>1. calls \in CallsType
      BY DEF Inv, Types
    <3>2. /\ calls'.known = calls.known + charge
          /\ calls'.unknown = calls.unknown /\ calls'.unsettled = calls.unsettled
      BY <2>1, <3>1 DEF ReturnKnown, CallsType
    <3>3. TotalIsKnown
      BY <2>1, <3>2 DEF TotalIsKnown
    <3>4. calls.known = paid
      BY <1>1, <3>3 DEF SettleInv, Counted
    <3>5. QED
      BY <1>3, <3>2, <3>4
  <2>2. ASSUME NEW raised \in BOOLEAN, ReturnUnknown(raised, charge)
        PROVE  ~TotalIsKnown'
    <3>1. calls \in CallsType
      BY DEF Inv, Types
    <3>2. QED
      BY <2>2, <3>1 DEF ReturnUnknown, TotalIsKnown, CallsType
  <2>3. ASSUME NEW known \in BOOLEAN, ReturnLost(known, charge)
        PROVE  ~TotalIsKnown'
    BY <2>3 DEF ReturnLost, TotalIsKnown
  <2>4. QED
    BY <2>1, <2>2, <2>3 DEF Counted
<1>6. QED
  BY <1>4, <1>5 DEF SettleInv

LEMMA FinishRunSettle ==
    ASSUME Inv, SettleInv, NEW fate \in Fates, FinishRun(fate)
    PROVE  SettleInv'
<1>1. /\ pc = "settling" /\ pc' = "finishing" /\ UNCHANGED <<calls, paid, invocation>>
      /\ guard.bound
  BY DEF FinishRun, FinishesRun, countVars, historyVars
<1>2. OneRun'
  BY <1>1 DEF SettleInv, OneRun
<1>3. Counted'
  BY <1>1 DEF SettleInv, Counted, TotalIsKnown
<1>4. SettledIsTrue'
  <2>1. CASE rows' = rows
    BY <1>1, <2>1 DEF SettleInv, SettledIsTrue
  <2>2. CASE rows' = [rows EXCEPT ![Me] = SettledAs(rows[Me], TotalIsKnown, calls.known)]
    <3>1. rows[Me] \in Rows /\ calls.known \in Nat /\ rows \in [Runs -> Rows]
      BY Costs DEF Inv, Types, CallsType
    <3>2. rows'[Me] = SettledAs(rows[Me], TotalIsKnown, calls.known)
      BY <2>2, <3>1, Costs
    <3>3. CASE TotalIsKnown
      <4>1. rows'[Me].actual = calls.known
        BY <3>1, <3>2, <3>3 DEF SettledAs, Rows
      <4>2. calls.known = paid
        BY <1>1, <3>3 DEF SettleInv, Counted
      <4>3. QED
        BY <1>1, <4>1, <4>2 DEF SettledIsTrue
    <3>4. CASE ~TotalIsKnown
      <4>1. rows'[Me].state = "uncertain"
        BY <3>1, <3>2, <3>4 DEF SettledAs, Rows
      <4>2. QED
        BY <4>1 DEF SettledIsTrue
    <3>5. QED
      BY <3>3, <3>4
  <2>3. QED
    BY <2>1, <2>2, FinishRunRows
<1>5. QED
  BY <1>2, <1>3, <1>4 DEF SettleInv

LEMMA CrashSettle ==
    ASSUME Inv, SettleInv, Crash
    PROVE  SettleInv'
<1>1. /\ pc # "idle" /\ pc' = "crashed" /\ UNCHANGED <<rows, paid, invocation>>
      /\ guard'.bound = FALSE
  BY DEF Crash, Ended, ledgerVars, historyVars, NewGuard
<1>2. QED
  BY <1>1 DEF SettleInv, OneRun, Counted, SettledIsTrue

LEMMA NextSettle == MaxInvocations = 1 /\ Inv /\ SettleInv /\ [Next]_vars => SettleInv'
<1> SUFFICES ASSUME MaxInvocations = 1, Inv, SettleInv, [Next]_vars PROVE SettleInv'
  OBVIOUS
<1>0. /\ work \in WorkType /\ (pc = "working" => ~Halted) /\ guard \in GuardType
      /\ (pc = "calling" => work.strategy \in Strategies /\ work.purpose \in Purposes)
  BY DEF Inv, Types, StopsInTime, CallNamed
<1>1. CASE \/ \E appended \in BOOLEAN : Start(appended)
           \/ \E fate \in Fates : RequireReady(fate)
  BY <1>1, StartSettle, RequireReadySettle
<1>2. CASE \E valid \in BOOLEAN : AuthorizationRefused(valid)
  <2>1. guard'.bound = guard.bound
    BY <1>0, <1>2 DEF AuthorizationRefused, GuardType
  <2>2. QED
    BY <1>2, <2>1, SameMoney DEF AuthorizationRefused, ledgerVars, countVars, historyVars
<1>3. CASE \/ \E blocked, appended \in BOOLEAN : NextCase(blocked, appended)
           \/ \E s \in Strategies : NextStrategy(s)
           \/ \E s \in Strategies, rubric, adjudicate \in BOOLEAN :
                  NextGrade(s, rubric, adjudicate)
           \/ DeadlinePassed \/ IntentLost
  <2>1. Moves /\ Active
    BY <1>0, <1>3, NextCaseMoves, NextStrategyMoves, NextGradeMoves, ContinueMoves
       DEF DeadlinePassed, IntentLost, Active, NextCase, NextGrade
  <2>2. Unchanged
    BY <1>3 DEF NextCase, NextStrategy, NextGrade, DeadlinePassed, IntentLost
  <2>3. QED
    BY <2>1, <2>2, LoopSettle DEF Unchanged, countVars, historyVars
<1>4. CASE EndCases \/ Dispatch \/ NothingToSettle \/ FinishFails
  BY <1>4, SameMoney DEF EndCases, Dispatch, NothingToSettle, FinishFails, Unchanged, ledgerVars,
       countVars, historyVars
<1>5. CASE \E fits \in BOOLEAN : RunnerRefuses(fits)
  <2>1. Moves /\ Active
    BY <1>0, <1>5, ContinueMoves DEF RunnerRefuses, Active
  <2>2. QED
    BY <1>5, <2>1, LoopSettle DEF RunnerRefuses, historyVars
<1>6. CASE \E valid \in BOOLEAN : GuardRefuses(valid)
  <2>1. Moves /\ Active
    BY <1>0, <1>6, ContinueMoves DEF GuardRefuses, Active
  <2>2. guard'.bound = guard.bound
    BY <1>0, <1>6 DEF GuardRefuses, GuardType
  <2>3. QED
    BY <1>6, <2>1, <2>2, LoopSettle DEF GuardRefuses, countVars, historyVars
<1>7. CASE \E charge \in Charges :
           \/ \E kind \in {"result", "failure"}, late \in BOOLEAN :
                  ReturnKnown(kind, charge, late)
           \/ \E raised \in BOOLEAN : ReturnUnknown(raised, charge)
           \/ \E known \in BOOLEAN : ReturnLost(known, charge)
  BY <1>7, ReturnSettle
<1>8. CASE \E fate \in Fates : FinishRun(fate)
  BY <1>8, FinishRunSettle
<1>9. CASE (\E complete \in BOOLEAN : WriteRecord(complete)) \/ WriteChecksum
  BY <1>9, SameMoney DEF WriteRecord, WriteChecksum, ledgerVars, countVars, historyVars
<1>10. CASE Crash
  BY <1>10, CrashSettle
<1>11. CASE \E r \in Runs, fate \in Fates : Peer(r, fate)
  <2>1. rows'[Me] = rows[Me]
    BY <1>11, PeerRows
  <2>2. UNCHANGED <<pc, calls, paid, invocation, guard>>
    BY <1>11 DEF Peer, loopVars, countVars, historyVars
  <2>3. QED
    BY <2>1, <2>2 DEF SettleInv, OneRun, Counted, TotalIsKnown, SettledIsTrue
<1>12. CASE UNCHANGED vars
  <2>1. UNCHANGED <<rows, pc, calls, paid, invocation, guard>>
    BY <1>12 DEF vars, ledgerVars, loopVars, countVars, historyVars
  <2>2. QED
    BY <2>1 DEF SettleInv, OneRun, Counted, TotalIsKnown, SettledIsTrue
<1>13. QED
  BY <1>1, <1>2, <1>3, <1>4, <1>5, <1>6, <1>7, <1>8, <1>9, <1>10, <1>11, <1>12
     DEF Next, ValidateCurrentRelease, CaseBlocker, FitsInputBound

\* Of a runner whose run() is called once, as the command line does, the
\* allocation never shows a cost that differs from what the provider was paid.
THEOREM SettlementIsTrue ==
    ASSUME MaxInvocations = 1
    PROVE  Spec => []SettledIsTrue
<1>1. Init => SettleInv
  BY Costs DEF Init, SettleInv, OneRun, Counted, NewGuard, SettledIsTrue, LedgerInit, FreeRun
<1>2. Inv /\ SettleInv /\ [Next]_vars => SettleInv'
  BY NextSettle
<1>3. SettleInv => SettledIsTrue
  BY DEF SettleInv
<1>4. QED
  BY <1>1, <1>2, <1>3, Invariant, PTL DEF Spec
-----------------------------------------------------------------------------
(* The plan: what is left of it after a step of the loops.                 *)

LEMMA OneMore == \A a, k \in Nat : (a + 1) * k = a * k + k
  OBVIOUS

LEMMA OneLess == \A n, k \in Int : (n - 1) * k = n * k - k
  OBVIOUS

LEMMA TimesMonotone == \A a, b, k \in Nat : a <= b => a * k <= b * k
  OBVIOUS

LEMMA IntTimes == \A a, b \in Int : a * b \in Int
  OBVIOUS

LEMMA OneOut ==
    ASSUME NEW T, T \subseteq Strategies, NEW s \in T, NEW P
    PROVE  /\ Cardinality(T \cap P) \in Nat /\ Cardinality((T \ {s}) \cap P) \in Nat
           /\ Cardinality(T \cap P) = Cardinality((T \ {s}) \cap P) + (IF s \in P THEN 1 ELSE 0)
<1>1. IsFiniteSet(T \cap P) /\ Cardinality(T \cap P) \in Nat
  <2>1. T \cap P \subseteq Strategies
    OBVIOUS
  <2>2. QED
    BY <2>1, Sizes
<1>2. CASE s \in P
  <2>1. (T \ {s}) \cap P = (T \cap P) \ {s}
    OBVIOUS
  <2>2. /\ IsFiniteSet((T \cap P) \ {s})
        /\ Cardinality((T \cap P) \ {s}) = Cardinality(T \cap P) - 1
    BY <1>1, <1>2, FS_RemoveElement
  <2>3. Cardinality((T \cap P) \ {s}) \in Nat
    BY <2>2, FS_CardinalityType
  <2>4. Cardinality((T \ {s}) \cap P) = Cardinality(T \cap P) - 1
    BY <2>1, <2>2
  <2>5. Cardinality((T \ {s}) \cap P) \in Nat
    BY <2>1, <2>3
  <2>6. QED
    BY <1>1, <1>2, <2>4, <2>5
<1>3. CASE s \notin P
  <2>1. (T \ {s}) \cap P = T \cap P
    BY <1>3
  <2>2. QED
    BY <1>1, <1>3, <2>1
<1>4. QED
  BY <1>2, <1>3

\* A strategy that is done takes its cost out of what is left to generate.
LEMMA GenerationRemove ==
    ASSUME NEW T, T \subseteq Strategies, NEW s \in T
    PROVE  /\ GenerationLeft(T) = GenerationLeft(T \ {s}) + StrategyCost(s)
           /\ StrategyCost(s) \in Nat /\ GenerationLeft(T \ {s}) \in Nat
           /\ GenerationLeft(T) \in Nat
<1> DEFINE A == MaxAttempts * Bound["generation"]
           B == Bound["generation"]
           C == Bound["classification"]
           N == Strategies \ Recovering
           a == Cardinality((T \ {s}) \cap Recovering)
           b == Cardinality((T \ {s}) \ Recovering)
           c == Cardinality((T \ {s}) \cap Routers)
           x == IF s \in Recovering THEN 1 ELSE 0
           y == IF s \in Recovering THEN 0 ELSE 1
           z == IF s \in Routers THEN 1 ELSE 0
<1>1. A \in Nat /\ B \in Nat /\ C \in Nat
  BY Costs, UnitCosts DEF Purposes
<1>2. a \in Nat /\ b \in Nat /\ c \in Nat
  <2>1. (T \ {s}) \cap N = (T \ {s}) \ Recovering
    OBVIOUS
  <2>2. Cardinality((T \ {s}) \cap N) \in Nat
    BY OneOut
  <2>3. b \in Nat
    BY <2>1, <2>2
  <2>4. a \in Nat /\ c \in Nat
    BY OneOut
  <2>5. QED
    BY <2>3, <2>4
<1>3. /\ Cardinality(T \cap Recovering) = a + x
      /\ Cardinality(T \cap Routers) = c + z
  BY OneOut
<1>4. Cardinality(T \ Recovering) = b + y
  <2>1. (T \ {s}) \cap N = (T \ {s}) \ Recovering /\ T \cap N = T \ Recovering
    OBVIOUS
  <2>2. s \in N <=> s \notin Recovering
    OBVIOUS
  <2>3. Cardinality(T \cap N) = Cardinality((T \ {s}) \cap N) + (IF s \in N THEN 1 ELSE 0)
    BY OneOut
  <2>4. QED
    BY <2>1, <2>2, <2>3
<1>5. GenerationLeft(T) = (a + x) * A + (b + y) * B + (c + z) * C
  BY <1>3, <1>4 DEF GenerationLeft
<1>6. GenerationLeft(T \ {s}) = a * A + b * B + c * C
  BY DEF GenerationLeft
<1>7. StrategyCost(s) = x * A + y * B + z * C
  BY <1>1 DEF StrategyCost
<1>8. x \in {0, 1} /\ y \in {0, 1} /\ z \in {0, 1}
  OBVIOUS
<1>9. GenerationLeft(T \ {s}) \in Nat /\ GenerationLeft(T) \in Nat
  BY GenerationNat
<1> HIDE DEF A, B, C, a, b, c, x, y, z
<1>10. (a + x) * A = a * A + x * A
  BY <1>1, <1>2, <1>8
<1>11. (b + y) * B = b * B + y * B
  BY <1>1, <1>2, <1>8
<1>12. (c + z) * C = c * C + z * C
  BY <1>1, <1>2, <1>8
<1>13. /\ a * A \in Nat /\ b * B \in Nat /\ c * C \in Nat
       /\ x * A \in Nat /\ y * B \in Nat /\ z * C \in Nat
  BY <1>1, <1>2, <1>8, NatTimes
<1>14. QED
  BY <1>5, <1>6, <1>7, <1>9, <1>10, <1>11, <1>12, <1>13

LEMMA GenerationEmpty == GenerationLeft({}) = 0
<1>1. {} \cap Recovering = {} /\ {} \ Recovering = {} /\ {} \cap Routers = {}
  OBVIOUS
<1>2. Cardinality({}) = 0
  BY FS_EmptySet
<1>3. QED
  BY <1>1, <1>2, Costs, UnitCosts DEF GenerationLeft, Purposes

LEMMA FieldsOf ==
    ASSUME NEW w \in WorkType
    PROVE  /\ w.tries \in Nat /\ w.adjudications \in Nat
           /\ w.case \in Nat /\ w.case <= NumCases
           /\ w.todo \subseteq Strategies /\ w.grading \subseteq Strategies
           /\ w.adjudicate \in BOOLEAN /\ w.purpose \in Purposes \cup {""}
<1>1. /\ w.tries \in Nat /\ w.adjudications \in Nat /\ w.case \in 0..NumCases
      /\ w.todo \subseteq Strategies /\ w.grading \subseteq Strategies
      /\ w.adjudicate \in BOOLEAN /\ w.purpose \in Purposes \cup {""}
  BY DEF WorkType
<1>2. w.case \in Nat /\ w.case <= NumCases
  <2>1. w.case \in 0..NumCases /\ NumCases \in Nat
    BY <1>1, Costs
  <2>2. QED
    BY <2>1
<1>3. QED
  BY <1>1, <1>2

\* The parts of Left.
CasesLeft(w) == (NumCases - w.case) * CaseCost
GradingLeft(w) == (Cardinality(w.todo) + Cardinality(w.grading)) * JudgeCost
AdjudicationsLeft(w) == (Adjudications - w.adjudications) * AdjudicationCost

LEMMA LeftParts ==
    ASSUME NEW w \in WorkType
    PROVE  /\ Left(w) = CasesLeft(w) + GenerationLeft(w.todo) + GradingLeft(w)
                        + AdjudicationsLeft(w)
           /\ CasesLeft(w) \in Nat /\ GenerationLeft(w.todo) \in Nat /\ GradingLeft(w) \in Nat
           /\ AdjudicationsLeft(w) \in Int /\ Left(w) \in Int
           /\ Cardinality(w.todo) \in Nat /\ Cardinality(w.grading) \in Nat
           /\ w.adjudications <= Adjudications => AdjudicationsLeft(w) \in Nat
<1>1. /\ w.case \in Nat /\ w.case <= NumCases /\ w.adjudications \in Nat
      /\ w.todo \subseteq Strategies /\ w.grading \subseteq Strategies
  BY FieldsOf
<1>2. NumCases - w.case \in Nat
  BY <1>1, Costs
<1>3. Cardinality(w.todo) \in Nat /\ Cardinality(w.grading) \in Nat
  BY <1>1, Sizes
<1>4. Cardinality(w.todo) + Cardinality(w.grading) \in Nat
  BY <1>3
<1>5. Adjudications - w.adjudications \in Int
        /\ (w.adjudications <= Adjudications => Adjudications - w.adjudications \in Nat)
  BY <1>1, CandidatesNat
<1>6. CasesLeft(w) \in Nat
  BY <1>2, PlanIsCases, NatTimes DEF CasesLeft
<1>7. GenerationLeft(w.todo) \in Nat
  BY <1>1, GenerationNat
<1>8. GradingLeft(w) \in Nat
  BY <1>4, UnitCosts, NatTimes DEF GradingLeft
<1>9. /\ AdjudicationsLeft(w) \in Int
      /\ w.adjudications <= Adjudications => AdjudicationsLeft(w) \in Nat
  BY <1>5, UnitCosts, NatTimes, IntTimes DEF AdjudicationsLeft
<1>10. Left(w) = CasesLeft(w) + GenerationLeft(w.todo) + GradingLeft(w) + AdjudicationsLeft(w)
  BY DEF Left, CasesLeft, GradingLeft, AdjudicationsLeft
<1>11. Left(w) \in Int
  BY <1>6, <1>7, <1>8, <1>9, <1>10
<1>12. QED
  BY <1>3, <1>6, <1>7, <1>8, <1>9, <1>10, <1>11

\* The same loops have the same left.
LEMMA SameLoops ==
    ASSUME NEW w \in WorkType, NEW v \in WorkType, v.case = w.case, v.todo = w.todo,
           v.grading = w.grading, v.adjudications = w.adjudications
    PROVE  Left(v) = Left(w) /\ (GradesLeft(w) => GradesLeft(v))
  BY DEF Left, GradesLeft

\* The end of a strategy, with or without an output to grade.
LEMMA StrategyEnds ==
    ASSUME NEW w \in WorkType, NEW v \in WorkType, NEW s \in w.todo, v.case = w.case,
           v.todo = w.todo \ {s}, v.grading = w.grading \/ v.grading = w.grading \cup {s},
           v.adjudications = w.adjudications
    PROVE  Left(v) <= Left(w) - StrategyCost(s) /\ (GradesLeft(w) => GradesLeft(v))
<1>1. w.todo \subseteq Strategies /\ w.grading \subseteq Strategies /\ s \in Strategies
        /\ w.adjudications \in Nat /\ w.case \in Nat
  BY FieldsOf
<1>2. /\ GenerationLeft(w.todo) = GenerationLeft(v.todo) + StrategyCost(s)
      /\ StrategyCost(s) \in Nat
  BY <1>1, GenerationRemove
<1>3. Cardinality(v.todo) = Cardinality(w.todo) - 1
  BY <1>1, Sizes, FS_RemoveElement
<1>4. Cardinality(v.grading) <= Cardinality(w.grading) + 1
  <2>1. CASE v.grading = w.grading
    BY <2>1, LeftParts
  <2>2. CASE v.grading = w.grading \cup {s} /\ s \notin w.grading
    BY <1>1, <2>2, Sizes, FS_AddElement
  <2>3. CASE v.grading = w.grading \cup {s} /\ s \in w.grading
    <3>1. v.grading = w.grading
      BY <2>3
    <3>2. QED
      BY <3>1, LeftParts
  <2>4. QED
    BY <2>1, <2>2, <2>3
<1>5. /\ Cardinality(w.todo) \in Nat /\ Cardinality(w.grading) \in Nat
      /\ Cardinality(v.todo) \in Nat /\ Cardinality(v.grading) \in Nat
  BY LeftParts
<1>6. Cardinality(v.todo) + Cardinality(v.grading) <= Cardinality(w.todo) + Cardinality(w.grading)
  BY <1>3, <1>4, <1>5
<1>7. GradingLeft(v) <= GradingLeft(w)
  <2>1. /\ Cardinality(v.todo) + Cardinality(v.grading) \in Nat
        /\ Cardinality(w.todo) + Cardinality(w.grading) \in Nat
    BY <1>5
  <2>2. QED
    BY <1>6, <2>1, UnitCosts, TimesMonotone DEF GradingLeft
<1>8. CasesLeft(v) = CasesLeft(w) /\ AdjudicationsLeft(v) = AdjudicationsLeft(w)
  BY DEF CasesLeft, AdjudicationsLeft
<1>9. Left(v) <= Left(w) - StrategyCost(s)
  <2>1. /\ Left(v) = CasesLeft(v) + GenerationLeft(v.todo) + GradingLeft(v) + AdjudicationsLeft(v)
        /\ CasesLeft(v) \in Nat /\ GenerationLeft(v.todo) \in Nat /\ GradingLeft(v) \in Nat
        /\ AdjudicationsLeft(v) \in Int
    BY LeftParts
  <2>2. /\ Left(w) = CasesLeft(w) + GenerationLeft(w.todo) + GradingLeft(w) + AdjudicationsLeft(w)
        /\ GradingLeft(w) \in Nat
    BY LeftParts
  <2>3. QED
    BY <1>2, <1>7, <1>8, <2>1, <2>2
<1>10. GradesLeft(w) => GradesLeft(v)
  <2> DEFINE m == (NumCases - w.case) * Cardinality(Strategies)
  <2>1. m \in Int /\ Candidates \in Nat
    <3>1. NumCases - w.case \in Int /\ Cardinality(Strategies) \in Int
      BY <1>1, Costs, Sizes
    <3>2. QED
      BY <3>1, IntTimes, CandidatesNat
  <2>2. /\ GradesLeft(w) = (w.adjudications + (Cardinality(w.todo) + Cardinality(w.grading)) + m
                              <= Candidates)
        /\ GradesLeft(v) = (w.adjudications + (Cardinality(v.todo) + Cardinality(v.grading)) + m
                              <= Candidates)
    BY DEF GradesLeft
  <2> DEFINE i == Cardinality(w.todo) + Cardinality(w.grading)
             j == Cardinality(v.todo) + Cardinality(v.grading)
  <2>3. i \in Nat /\ j \in Nat /\ j <= i /\ w.adjudications \in Nat
    BY <1>1, <1>5, <1>6
  <2> HIDE DEF m, i, j
  <2>4. w.adjudications + i + m <= Candidates => w.adjudications + j + m <= Candidates
    BY <2>1, <2>3
  <2>5. QED
    BY <2>2, <2>4 DEF i, j
<1>11. QED
  BY <1>9, <1>10

\* The end of a grade, after which a adjudications more have been counted.
LEMMA GradeEnds ==
    ASSUME NEW w \in WorkType, NEW v \in WorkType, NEW s \in w.grading, NEW a \in {0, 1},
           v.case = w.case, v.todo = w.todo, v.grading = w.grading \ {s},
           v.adjudications = w.adjudications + a
    PROVE  /\ Left(v) = Left(w) - JudgeCost - a * AdjudicationCost
           /\ GradesLeft(w) => GradesLeft(v)
<1>1. w.grading \subseteq Strategies /\ s \in Strategies /\ w.adjudications \in Nat
        /\ w.case \in Nat
  BY FieldsOf
<1>2. Cardinality(v.grading) = Cardinality(w.grading) - 1
  BY <1>1, Sizes, FS_RemoveElement
<1>3. /\ Cardinality(w.todo) \in Nat /\ Cardinality(w.grading) \in Nat
      /\ Cardinality(v.todo) = Cardinality(w.todo) /\ Cardinality(v.grading) \in Nat
  BY LeftParts
<1>4. GradingLeft(v) = GradingLeft(w) - JudgeCost
  <2> DEFINE n == Cardinality(w.todo) + Cardinality(w.grading)
  <2>1. n \in Int /\ Cardinality(v.todo) + Cardinality(v.grading) = n - 1
    BY <1>2, <1>3
  <2>2. GradingLeft(w) = n * JudgeCost /\ GradingLeft(v) = (n - 1) * JudgeCost
    BY <2>1 DEF GradingLeft
  <2> HIDE DEF n
  <2>3. QED
    BY <2>1, <2>2, OneLess, UnitCosts
<1>5. AdjudicationsLeft(v) = AdjudicationsLeft(w) - a * AdjudicationCost
  <2> DEFINE n == Adjudications - w.adjudications
  <2>1. n \in Int /\ Adjudications - v.adjudications = n - a
    BY <1>1, CandidatesNat
  <2>2. AdjudicationsLeft(w) = n * AdjudicationCost
          /\ AdjudicationsLeft(v) = (n - a) * AdjudicationCost
    BY <2>1 DEF AdjudicationsLeft
  <2> HIDE DEF n
  <2>3. CASE a = 0
    <3>1. n - a = n /\ a * AdjudicationCost = 0 /\ n * AdjudicationCost \in Int
      BY <2>1, <2>3, UnitCosts, IntTimes
    <3>2. QED
      BY <2>2, <3>1
  <2>4. CASE a = 1
    <3>1. a * AdjudicationCost = AdjudicationCost
      BY <2>4, UnitCosts
    <3>2. (n - 1) * AdjudicationCost = n * AdjudicationCost - AdjudicationCost
      BY <2>1, OneLess, UnitCosts
    <3>3. QED
      BY <2>2, <2>4, <3>1, <3>2
  <2>5. QED
    BY <2>3, <2>4
<1>6. CasesLeft(v) = CasesLeft(w) /\ GenerationLeft(v.todo) = GenerationLeft(w.todo)
  BY DEF CasesLeft
<1>7. Left(v) = Left(w) - JudgeCost - a * AdjudicationCost
  <2>1. /\ Left(v) = CasesLeft(v) + GenerationLeft(v.todo) + GradingLeft(v) + AdjudicationsLeft(v)
        /\ Left(w) = CasesLeft(w) + GenerationLeft(w.todo) + GradingLeft(w) + AdjudicationsLeft(w)
        /\ CasesLeft(w) \in Nat /\ GenerationLeft(w.todo) \in Nat /\ GradingLeft(w) \in Nat
        /\ AdjudicationsLeft(w) \in Int
    BY LeftParts
  <2>2. a * AdjudicationCost \in Int
    BY UnitCosts, IntTimes
  <2>3. QED
    BY <1>4, <1>5, <1>6, <2>1, <2>2, UnitCosts
<1>8. GradesLeft(w) => GradesLeft(v)
  <2> DEFINE m == (NumCases - w.case) * Cardinality(Strategies)
             i == Cardinality(w.todo) + Cardinality(w.grading)
             j == Cardinality(v.todo) + Cardinality(v.grading)
             k == w.adjudications + a
  <2>1. m \in Int /\ Candidates \in Nat
    <3>1. NumCases - w.case \in Int /\ Cardinality(Strategies) \in Int
      BY <1>1, Costs, Sizes
    <3>2. QED
      BY <3>1, IntTimes, CandidatesNat
  <2>2. /\ GradesLeft(w) = (w.adjudications + i + m <= Candidates)
        /\ GradesLeft(v) = (k + j + m <= Candidates)
    BY DEF GradesLeft
  <2>3. i \in Nat /\ j = i - 1 /\ w.adjudications \in Nat /\ k <= w.adjudications + 1 /\ k \in Nat
    BY <1>1, <1>2, <1>3
  <2> HIDE DEF m, i, j, k
  <2>4. w.adjudications + i + m <= Candidates => k + j + m <= Candidates
    BY <2>1, <2>3
  <2>5. QED
    BY <2>2, <2>4
<1>9. QED
  BY <1>7, <1>8

\* A new case takes its cost out of the cases that are left.
LEMMA CaseBegins ==
    ASSUME NEW w \in WorkType, NEW v \in WorkType, w.case < NumCases, v.case = w.case + 1,
           w.todo = {}, w.grading = {}, v.grading = {}, v.todo = {} \/ v.todo = Strategies,
           v.adjudications = w.adjudications
    PROVE  Left(v) <= Left(w) /\ (GradesLeft(w) => GradesLeft(v))
<1> DEFINE n == NumCases - w.case
<1>0. w.case \in Nat /\ w.adjudications \in Nat /\ NumCases \in Nat
  BY FieldsOf, Costs
<1>1. w.case \in Nat /\ w.adjudications \in Nat /\ n \in Int /\ NumCases - v.case = n - 1
  BY <1>0
<1>2. Cardinality({}) = 0 /\ Cardinality(Strategies) \in Nat
  BY FS_EmptySet, Sizes
<1>3. CasesLeft(v) = CasesLeft(w) - CaseCost
  <2>1. CasesLeft(w) = n * CaseCost /\ CasesLeft(v) = (n - 1) * CaseCost
    BY <1>1 DEF CasesLeft
  <2> HIDE DEF n
  <2>2. QED
    BY <1>1, <2>1, PlanIsCases, OneLess
<1>4. GenerationLeft(v.todo) + GradingLeft(v) <= CaseCost
  <2>1. CASE v.todo = {}
    <3>1. GenerationLeft(v.todo) = 0
      BY <2>1, GenerationEmpty
    <3>2. GradingLeft(v) = 0
      BY <2>1, <1>2, UnitCosts DEF GradingLeft
    <3>3. QED
      BY <3>1, <3>2, PlanIsCases
  <2>2. CASE v.todo = Strategies
    <3>1. Cardinality(v.todo) + Cardinality(v.grading) = Cardinality(Strategies)
      BY <2>2, <1>2
    <3>2. GradingLeft(v) = Cardinality(Strategies) * JudgeCost
      BY <3>1 DEF GradingLeft
    <3>3. GenerationLeft(v.todo) + GradingLeft(v) = CaseCost
      BY <2>2, <3>2 DEF CaseCost
    <3>4. QED
      BY <3>3, PlanIsCases
  <2>3. QED
    BY <2>1, <2>2
<1>5. AdjudicationsLeft(v) = AdjudicationsLeft(w)
  BY DEF AdjudicationsLeft
<1>6. Left(v) <= Left(w)
  <2>1. /\ Left(v) = CasesLeft(v) + GenerationLeft(v.todo) + GradingLeft(v) + AdjudicationsLeft(v)
        /\ GenerationLeft(v.todo) \in Nat /\ GradingLeft(v) \in Nat
        /\ Left(w) = CasesLeft(w) + GenerationLeft(w.todo) + GradingLeft(w) + AdjudicationsLeft(w)
        /\ CasesLeft(w) \in Nat /\ GenerationLeft(w.todo) \in Nat /\ GradingLeft(w) \in Nat
        /\ AdjudicationsLeft(w) \in Int
    BY LeftParts
  <2>2. QED
    BY <1>3, <1>4, <1>5, <2>1, PlanIsCases
<1>7. GradesLeft(w) => GradesLeft(v)
  <2> DEFINE c == Cardinality(Strategies)
             j == Cardinality(v.todo) + Cardinality(v.grading)
  <2>1. j \in Nat /\ j <= c
    <3>1. CASE v.todo = {}
      <4>1. j = 0 + 0
        BY <1>2, <3>1
      <4>2. QED
        BY <1>2, <4>1
    <3>2. CASE v.todo = Strategies
      <4>1. j = c + 0
        BY <1>2, <3>2
      <4>2. QED
        BY <1>2, <4>1
    <3>3. QED
      BY <3>1, <3>2
  <2>2. n * c \in Int /\ (n - 1) * c = n * c - c /\ c \in Nat
    BY <1>1, <1>2, OneLess, IntTimes
  <2>3. /\ GradesLeft(w) = (w.adjudications + (0 + 0) + n * c <= Candidates)
        /\ GradesLeft(v) = (w.adjudications + j + (n - 1) * c <= Candidates)
    BY <1>1, <1>2 DEF GradesLeft
  <2> HIDE DEF n, c, j
  <2>4. w.adjudications + (0 + 0) + n * c <= Candidates
          => w.adjudications + j + (n * c - c) <= Candidates
    BY <1>1, <2>1, <2>2, CandidatesNat
  <2>5. QED
    BY <2>2, <2>3, <2>4
<1>8. QED
  BY <1>6, <1>7

\* What was used of a planned call's share leaves room for the call.
LEMMA CallWithinShare ==
    ASSUME NEW w \in WorkType, CallPlanned(w)
    PROVE  /\ Used(w) \in Nat /\ Share(w) \in Nat /\ Bound[w.purpose] \in Nat
           /\ Used(w) + Bound[w.purpose] <= Share(w)
<1> DEFINE t == w.tries - 1
<1>0. w.tries \in Nat /\ w.tries >= 1 /\ w.purpose \in Purposes /\ w.todo \subseteq Strategies
  BY FieldsOf DEF CallPlanned
<1>1. w.tries \in Nat /\ t \in Nat /\ w.tries = t + 1 /\ w.purpose \in Purposes
        /\ w.todo \subseteq Strategies
  BY <1>0
<1>2. /\ Bound[w.purpose] \in Nat /\ Bound["classification"] \in Nat
      /\ Bound["generation"] \in Nat /\ Bound["judge"] \in Nat /\ Bound["adjudication"] \in Nat
  BY <1>1, Costs DEF Purposes
<1> HIDE DEF t
<1>3. CASE w.purpose = "classification"
  <2>1. w.strategy \in w.todo /\ w.strategy \in Routers
    BY <1>3 DEF CallPlanned
  <2>2. Used(w) = 0 /\ Share(w) = StrategyCost(w.strategy)
    BY <1>3 DEF Used, Share
  <2>3. StrategyCost(w.strategy) >= Bound["classification"] /\ StrategyCost(w.strategy) \in Nat
    BY <1>2, <2>1, UnitCosts DEF StrategyCost
  <2>4. QED
    BY <1>2, <1>3, <2>2, <2>3
<1>4. CASE w.purpose = "generation"
  <2> DEFINE r == IF w.strategy \in Routers THEN Bound["classification"] ELSE 0
             x == IF w.strategy \in Recovering
                  THEN MaxAttempts * Bound["generation"] ELSE Bound["generation"]
  <2>1. w.tries <= MaxAttempts /\ (w.strategy \notin Recovering => w.tries = 1)
    BY <1>4 DEF CallPlanned
  <2>2. Used(w) = r + t * Bound["generation"] /\ Share(w) = x + r
    BY <1>4 DEF Used, Share, StrategyCost, t
  <2>3. (t + 1) * Bound["generation"] = t * Bound["generation"] + Bound["generation"]
          /\ t * Bound["generation"] \in Nat
    BY <1>1, <1>2, OneMore, NatTimes
  <2>4. x \in Nat /\ r \in Nat
    BY <1>2, UnitCosts
  <2>5. (t + 1) * Bound["generation"] <= x
    <3>1. CASE w.strategy \in Recovering
      <4>1. x = MaxAttempts * Bound["generation"]
        BY <3>1
      <4>2. t + 1 \in Nat /\ t + 1 <= MaxAttempts
        BY <1>1, <2>1
      <4> HIDE DEF x
      <4>3. QED
        BY <1>2, <4>1, <4>2, Costs, TimesMonotone
    <3>2. CASE w.strategy \notin Recovering
      <4>1. x = Bound["generation"] /\ t + 1 = 1
        BY <1>1, <2>1, <3>2
      <4> HIDE DEF x
      <4>2. QED
        BY <1>2, <4>1
    <3>3. QED
      BY <3>1, <3>2
  <2> HIDE DEF x, r
  <2>6. QED
    BY <1>2, <1>4, <2>2, <2>3, <2>4, <2>5
<1>5. CASE w.purpose = "judge"
  <2>1. w.tries <= Retries["judge"] + 1
    BY <1>5 DEF CallPlanned
  <2>2. Used(w) = t * Bound["judge"]
    BY <1>5 DEF Used, t
  <2>3. /\ (t + 1) * Bound["judge"] = t * Bound["judge"] + Bound["judge"]
        /\ t * Bound["judge"] \in Nat
    BY <1>1, <1>2, OneMore, NatTimes
  <2>4. (t + 1) * Bound["judge"] <= JudgeCost
    <3>1. t + 1 \in Nat /\ Retries["judge"] + 1 \in Nat /\ t + 1 <= Retries["judge"] + 1
      BY <1>1, <2>1, Costs
    <3>2. QED
      BY <1>2, <3>1, TimesMonotone DEF JudgeCost
  <2>5. Share(w) \in Nat /\ JudgeCost <= Share(w)
    BY <1>5, UnitCosts DEF Share
  <2>6. QED
    BY <1>2, <1>5, <2>2, <2>3, <2>4, <2>5, UnitCosts
<1>6. CASE w.purpose = "adjudication"
  <2>1. w.tries <= Retries["adjudication"] + 1 /\ w.adjudicate
    BY <1>6 DEF CallPlanned
  <2>2. Used(w) = JudgeCost + t * Bound["adjudication"]
    BY <1>6 DEF Used, t
  <2>3. /\ (t + 1) * Bound["adjudication"] = t * Bound["adjudication"] + Bound["adjudication"]
        /\ t * Bound["adjudication"] \in Nat
    BY <1>1, <1>2, OneMore, NatTimes
  <2>4. (t + 1) * Bound["adjudication"] <= AdjudicationCost
    <3>1. /\ t + 1 \in Nat /\ Retries["adjudication"] + 1 \in Nat
          /\ t + 1 <= Retries["adjudication"] + 1
      BY <1>1, <2>1, Costs
    <3>2. QED
      BY <1>2, <3>1, TimesMonotone DEF AdjudicationCost
  <2>5. Share(w) = JudgeCost + AdjudicationCost
    BY <1>6, <2>1 DEF Share
  <2>6. QED
    BY <1>2, <1>6, <2>2, <2>3, <2>4, <2>5, UnitCosts
<1>7. QED
  BY <1>1, <1>3, <1>4, <1>5, <1>6 DEF Purposes

\* The share of the call in hand is a part of what is left.
LEMMA ShareIsLeft ==
    ASSUME NEW w \in WorkType, CallPlanned(w), w.adjudications <= Adjudications
    PROVE  Share(w) <= Left(w)
<1>1. /\ Left(w) = CasesLeft(w) + GenerationLeft(w.todo) + GradingLeft(w) + AdjudicationsLeft(w)
      /\ CasesLeft(w) \in Nat /\ GenerationLeft(w.todo) \in Nat /\ GradingLeft(w) \in Nat
      /\ AdjudicationsLeft(w) \in Nat
      /\ Cardinality(w.todo) \in Nat /\ Cardinality(w.grading) \in Nat
  BY LeftParts
<1>2. w.todo \subseteq Strategies /\ w.grading \subseteq Strategies /\ w.adjudications \in Nat
  BY FieldsOf
<1>3. CASE w.purpose \in {"classification", "generation"}
  <2>1. w.strategy \in w.todo
    BY <1>3 DEF CallPlanned
  <2>2. /\ GenerationLeft(w.todo) = GenerationLeft(w.todo \ {w.strategy}) + StrategyCost(w.strategy)
        /\ StrategyCost(w.strategy) \in Nat /\ GenerationLeft(w.todo \ {w.strategy}) \in Nat
    BY <1>2, <2>1, GenerationRemove
  <2>3. Share(w) = StrategyCost(w.strategy)
    BY <1>3 DEF Share
  <2>4. QED
    BY <1>1, <2>2, <2>3
<1>4. CASE w.purpose \in {"judge", "adjudication"}
  <2>1. w.strategy \in w.grading /\ (w.adjudicate => w.adjudications < Adjudications)
    BY <1>4 DEF CallPlanned
  <2>2. JudgeCost <= GradingLeft(w)
    <3>1. Cardinality(w.grading) >= 1
      <4>1. w.grading # {} /\ IsFiniteSet(w.grading)
        BY <1>2, <2>1, Sizes
      <4>2. Cardinality(w.grading) # 0
        BY <4>1, FS_EmptySet
      <4>3. QED
        BY <1>1, <4>2
    <3>2. Cardinality(w.todo) + Cardinality(w.grading) \in Nat
            /\ 1 <= Cardinality(w.todo) + Cardinality(w.grading)
      BY <1>1, <3>1
    <3>3. 1 * JudgeCost = JudgeCost
      BY UnitCosts
    <3>4. 1 * JudgeCost <= (Cardinality(w.todo) + Cardinality(w.grading)) * JudgeCost
      BY <3>2, TimesMonotone, UnitCosts
    <3>5. QED
      BY <3>3, <3>4 DEF GradingLeft
  <2>3. ASSUME w.adjudicate PROVE AdjudicationCost <= AdjudicationsLeft(w)
    <3>1. Adjudications - w.adjudications \in Nat /\ 1 <= Adjudications - w.adjudications
      BY <1>2, <2>1, <2>3, CandidatesNat
    <3>2. 1 * AdjudicationCost = AdjudicationCost
      BY UnitCosts
    <3>3. 1 * AdjudicationCost <= (Adjudications - w.adjudications) * AdjudicationCost
      BY <3>1, TimesMonotone, UnitCosts
    <3>4. QED
      BY <3>2, <3>3 DEF AdjudicationsLeft
  <2>4. CASE w.adjudicate
    <3>1. Share(w) = JudgeCost + AdjudicationCost
      BY <1>4, <2>4 DEF Share
    <3>2. QED
      BY <1>1, <2>2, <2>3, <2>4, <3>1, UnitCosts
  <2>5. CASE ~w.adjudicate
    <3>1. Share(w) = JudgeCost
      BY <1>4, <2>5, UnitCosts DEF Share
    <3>2. QED
      BY <1>1, <2>2, <3>1, UnitCosts
  <2>6. QED
    BY <2>4, <2>5
<1>5. QED
  BY <1>3, <1>4 DEF CallPlanned, Purposes

\* A step of the loops from w to v that uses up d of the plan.
Advances(w, v, d) == WorkPlanned(v) /\ Balance(v) <= Balance(w) - d

LEMMA BalanceInt ==
    ASSUME NEW w \in WorkType, WorkPlanned(w)
    PROVE  /\ Balance(w) \in Int /\ Left(w) \in Int /\ Used(w) \in Nat
           /\ Between(w) => Used(w) = 0 /\ Balance(w) = Left(w)
<1>1. Left(w) \in Int
  BY LeftParts
<1>2. Used(w) \in Nat /\ (Between(w) => Used(w) = 0)
  <2>1. CASE Between(w)
    <3>1. Used(w) = 0
      BY <2>1 DEF Used, Between
    <3>2. QED
      BY <3>1
  <2>2. CASE CallPlanned(w)
    <3>1. ~Between(w)
      BY <2>2 DEF CallPlanned, Between, Purposes
    <3>2. QED
      BY <2>2, <3>1, CallWithinShare
  <2>3. QED
    BY <2>1, <2>2 DEF WorkPlanned
<1>3. Balance(w) = Left(w) - Used(w)
  BY DEF Balance
<1>4. Balance(w) \in Int
  BY <1>1, <1>2, <1>3
<1>5. ASSUME Used(w) = 0 PROVE Balance(w) = Left(w)
  BY <1>1, <1>3, <1>5
<1>6. QED
  BY <1>1, <1>2, <1>4, <1>5

\* An item that is done gives back its share, of which u was used and b more
\* may have been.
LEMMA ShareCovers ==
    \A x, l, c, u, b \in Int : x <= l - c /\ u + b <= c => x <= (l - u) - b
  OBVIOUS

\* A strategy that ends gives up its part of the plan.
LEMMA EndStrategyPlan ==
    ASSUME work \in WorkType, WorkPlanned(work), work' \in WorkType,
           NEW s \in work.todo, NEW output, NEW blocked, EndStrategy(s, output, blocked),
           pc' = "working"
    PROVE  /\ Between(work') /\ WorkPlanned(work')
           /\ Balance(work') <= Left(work) - StrategyCost(s)
<1>1. work' = [work EXCEPT !.todo = @ \ {s},
                           !.grading = IF output THEN @ \cup {s} ELSE @,
                           !.strategy = "", !.purpose = "", !.tries = 0]
  BY DEF EndStrategy, Raise, StopWork
<1>2. /\ work'.case = work.case /\ work'.todo = work.todo \ {s}
      /\ work'.grading = work.grading \/ work'.grading = work.grading \cup {s}
      /\ work'.adjudications = work.adjudications /\ work'.purpose = ""
  BY <1>1 DEF WorkType
<1>3. PICK v \in WorkType : v = work'
  OBVIOUS
<1>4. PICK w \in WorkType : w = work
  OBVIOUS
<1>5. Left(v) <= Left(w) - StrategyCost(s) /\ (GradesLeft(w) => GradesLeft(v))
  BY <1>2, <1>3, <1>4, StrategyEnds
<1>6. WorkPlanned(v) /\ Between(v)
  BY <1>2, <1>3, <1>4, <1>5 DEF WorkPlanned, Between
<1>7. Balance(v) = Left(v)
  BY <1>6, BalanceInt
<1>8. QED
  BY <1>3, <1>4, <1>5, <1>6, <1>7

\* The same, at the end of a call for the strategy.
LEMMA StrategyCallEnds ==
    ASSUME work \in WorkType, WorkPlanned(work), work' \in WorkType,
           work.purpose \in {"classification", "generation"}, NEW output, NEW blocked,
           EndStrategy(work.strategy, output, blocked), pc' = "working"
    PROVE  Between(work') /\ Advances(work, work', Bound[work.purpose])
<1>1. CallPlanned(work) /\ work.strategy \in work.todo
  BY DEF WorkPlanned, CallPlanned, Between
<1>2. /\ Between(work') /\ WorkPlanned(work')
      /\ Balance(work') <= Left(work) - StrategyCost(work.strategy)
  BY <1>1, EndStrategyPlan
<1>3. Share(work) = StrategyCost(work.strategy)
  BY DEF Share
<1>4. /\ Used(work) \in Nat /\ Share(work) \in Nat /\ Bound[work.purpose] \in Nat
      /\ Used(work) + Bound[work.purpose] <= Share(work)
  BY <1>1, CallWithinShare
<1>5. Left(work) \in Int /\ Balance(work) = Left(work) - Used(work) /\ Balance(work') \in Int
  BY <1>2, BalanceInt DEF Balance
<1>6. Balance(work') <= Balance(work) - Bound[work.purpose]
  <2>1. PICK x, l, c, u, b \in Int :
             /\ x = Balance(work') /\ l = Left(work) /\ c = Share(work) /\ u = Used(work)
             /\ b = Bound[work.purpose]
    BY <1>4, <1>5
  <2>2. x <= l - c /\ u + b <= c
    BY <1>2, <1>3, <1>4, <2>1
  <2>3. QED
    BY <1>5, <2>1, <2>2, ShareCovers
<1>7. QED
  BY <1>2, <1>6 DEF Advances

\* Another attempt is one that the plan counts.
LEMMA AgainPlan ==
    ASSUME work \in WorkType, WorkPlanned(work), work' \in WorkType, Again,
           \/ work.purpose = "generation" /\ Recovers
           \/ work.purpose \in {"judge", "adjudication"} /\ work.tries <= Retries[work.purpose]
    PROVE  ~Between(work') /\ Advances(work, work', Bound[work.purpose])
<1>0. work.tries \in Nat /\ MaxAttempts \in Nat
        /\ \A p \in {"judge", "adjudication"} : Retries[p] \in Nat
  BY FieldsOf, Costs
<1>1. CallPlanned(work) /\ work.purpose \in Purposes /\ work.tries >= 1
  BY DEF WorkPlanned, CallPlanned, Between
<1> DEFINE n == work.tries + 1
<1>2. work' = [work EXCEPT !.tries = n]
  BY DEF Again
<1> HIDE DEF n
<1>3. /\ work'.case = work.case /\ work'.todo = work.todo /\ work'.grading = work.grading
      /\ work'.adjudications = work.adjudications /\ work'.purpose = work.purpose
      /\ work'.strategy = work.strategy /\ work'.adjudicate = work.adjudicate
      /\ work'.tries = n
  BY <1>2 DEF WorkType
<1>4. PICK v \in WorkType : v = work'
  OBVIOUS
<1>5. PICK w \in WorkType : w = work
  OBVIOUS
<1>6. /\ v.case = w.case /\ v.todo = w.todo /\ v.grading = w.grading
      /\ v.adjudications = w.adjudications /\ v.purpose = w.purpose
      /\ v.strategy = w.strategy /\ v.adjudicate = w.adjudicate
      /\ v.tries = w.tries + 1 /\ w.tries \in Nat /\ w.tries >= 1
  BY <1>0, <1>1, <1>3, <1>4, <1>5 DEF n
<1>7. Left(v) = Left(w) /\ (GradesLeft(w) => GradesLeft(v))
  BY <1>6, SameLoops
<1>8. CallPlanned(v)
  <2>1. CASE w.purpose = "generation"
    <3>1. w.strategy \in Recovering /\ w.tries < MaxAttempts
      BY <1>5, <2>1 DEF Recovers
    <3>2. v.tries >= 1 /\ v.tries <= MaxAttempts
      BY <1>0, <1>6, <3>1
    <3>3. QED
      BY <1>1, <1>5, <1>6, <2>1, <3>1, <3>2 DEF CallPlanned
  <2>2. CASE w.purpose \in {"judge", "adjudication"}
    <3>1. v.tries >= 1 /\ v.tries <= Retries[w.purpose] + 1
      <4>1. w.tries <= Retries[w.purpose] /\ Retries[w.purpose] \in Nat
        BY <1>0, <1>5, <2>2
      <4>2. QED
        BY <1>6, <4>1
    <3>2. QED
      BY <1>1, <1>5, <1>6, <2>2, <3>1 DEF CallPlanned
  <2>3. QED
    BY <1>5, <2>1, <2>2
<1>9. WorkPlanned(v) /\ WorkPlanned(w)
  BY <1>5, <1>6, <1>7, <1>8 DEF WorkPlanned
<1>10. Used(v) = Used(w) + Bound[w.purpose]
  <2> DEFINE t == w.tries - 1
  <2>1. t \in Nat /\ v.tries - 1 = t + 1
    BY <1>6
  <2>2. Bound["generation"] \in Nat /\ Bound["judge"] \in Nat /\ Bound["adjudication"] \in Nat
    BY Costs DEF Purposes
  <2>3. CASE w.purpose = "generation"
    <3> DEFINE r == IF w.strategy \in Routers THEN Bound["classification"] ELSE 0
    <3>1. /\ Used(w) = r + t * Bound["generation"]
          /\ Used(v) = r + (t + 1) * Bound["generation"]
      BY <1>6, <2>1, <2>3 DEF Used
    <3>2. (t + 1) * Bound["generation"] = t * Bound["generation"] + Bound["generation"]
            /\ t * Bound["generation"] \in Nat
      BY <2>1, <2>2, OneMore, NatTimes
    <3>3. r \in Nat
      BY Costs DEF Purposes
    <3> HIDE DEF t, r
    <3>4. QED
      BY <2>2, <2>3, <3>1, <3>2, <3>3
  <2>4. CASE w.purpose = "judge"
    <3>1. Used(w) = t * Bound["judge"] /\ Used(v) = (t + 1) * Bound["judge"]
      BY <1>6, <2>1, <2>4 DEF Used
    <3> HIDE DEF t
    <3>2. QED
      BY <2>1, <2>2, <2>4, <3>1, OneMore
  <2>5. CASE w.purpose = "adjudication"
    <3>1. /\ Used(w) = JudgeCost + t * Bound["adjudication"]
          /\ Used(v) = JudgeCost + (t + 1) * Bound["adjudication"]
      BY <1>6, <2>1, <2>5 DEF Used
    <3>2. (t + 1) * Bound["adjudication"] = t * Bound["adjudication"] + Bound["adjudication"]
            /\ t * Bound["adjudication"] \in Nat
      BY <2>1, <2>2, OneMore, NatTimes
    <3> HIDE DEF t
    <3>3. QED
      BY <2>2, <2>5, <3>1, <3>2, UnitCosts
  <2>6. QED
    BY <1>5, <2>3, <2>4, <2>5
<1>11. Left(w) \in Int /\ Used(w) \in Nat /\ Bound[w.purpose] \in Nat
  BY <1>1, <1>5, <1>9, BalanceInt, Costs
<1>12. Balance(v) <= Balance(w) - Bound[w.purpose]
  BY <1>7, <1>10, <1>11 DEF Balance
<1>13. QED
  BY <1>1, <1>3, <1>4, <1>5, <1>9, <1>12 DEF Advances, Purposes, Between

\* A grade that ends gives up its judge and, if it was sampled, its adjudicator.
LEMMA EndGradePlan ==
    ASSUME work \in WorkType, WorkPlanned(work), work' \in WorkType, EndGrade,
           work.purpose \in {"judge", "adjudication"}, pc' = "working"
    PROVE  Between(work') /\ Advances(work, work', Bound[work.purpose])
<1>1. CallPlanned(work) /\ work.strategy \in work.grading
        /\ (work.adjudicate => work.adjudications < Adjudications)
  BY DEF WorkPlanned, CallPlanned, Between
<1> DEFINE a == IF work.adjudicate THEN 1 ELSE 0
           n == work.adjudications + a
<1>2. work.adjudications \in Nat /\ work.adjudicate \in BOOLEAN
  BY FieldsOf
<1>3. (IF work.adjudicate THEN work.adjudications + 1 ELSE work.adjudications) = n
  BY <1>2
<1>4. work' = [work EXCEPT !.grading = @ \ {work.strategy}, !.strategy = "",
                           !.purpose = "", !.tries = 0, !.adjudicate = FALSE,
                           !.adjudications = n]
  BY <1>3 DEF EndGrade, StopWork
<1>5. a \in {0, 1} /\ n \in Nat /\ n <= Adjudications
  BY <1>1, <1>2, CandidatesNat DEF WorkPlanned
<1> HIDE DEF n
<1>6. /\ work'.case = work.case /\ work'.todo = work.todo
      /\ work'.grading = work.grading \ {work.strategy}
      /\ work'.adjudications = n /\ work'.purpose = ""
  BY <1>4 DEF WorkType
<1>7. PICK v \in WorkType : v = work'
  OBVIOUS
<1>8. PICK w \in WorkType : w = work
  OBVIOUS
<1>9. v.adjudications = w.adjudications + a
  BY <1>6, <1>7, <1>8 DEF n
<1>10. PICK k \in {0, 1} : k = a
  BY <1>5
<1>11. PICK s \in w.grading : s = w.strategy
  BY <1>1, <1>8
<1>12. /\ Left(v) = Left(w) - JudgeCost - k * AdjudicationCost
       /\ GradesLeft(w) => GradesLeft(v)
  <2>1. /\ v.case = w.case /\ v.todo = w.todo /\ v.grading = w.grading \ {s}
        /\ v.adjudications = w.adjudications + k
    BY <1>6, <1>7, <1>8, <1>9, <1>10, <1>11
  <2>2. QED
    BY <2>1, GradeEnds
<1>13. WorkPlanned(v) /\ Between(v) /\ WorkPlanned(w)
  BY <1>5, <1>6, <1>7, <1>8, <1>12 DEF WorkPlanned, Between
<1>14. Share(w) = JudgeCost + k * AdjudicationCost
  <2>1. Share(w) = JudgeCost + (IF w.adjudicate THEN AdjudicationCost ELSE 0)
    BY <1>8 DEF Share
  <2>2. k * AdjudicationCost = IF w.adjudicate THEN AdjudicationCost ELSE 0
    BY <1>8, <1>10, UnitCosts
  <2>3. QED
    BY <2>1, <2>2
<1>15. /\ Used(w) \in Nat /\ Share(w) \in Nat /\ Bound[w.purpose] \in Nat
       /\ Used(w) + Bound[w.purpose] <= Share(w)
  BY <1>1, <1>8, CallWithinShare
<1>16. Left(w) \in Int /\ Balance(w) = Left(w) - Used(w) /\ Balance(v) = Left(v)
         /\ k * AdjudicationCost \in Int
  <2>1. k * AdjudicationCost \in Int
    BY UnitCosts, IntTimes
  <2>2. Left(w) \in Int /\ Balance(v) = Left(v)
    BY <1>13, BalanceInt
  <2>3. QED
    BY <2>1, <2>2 DEF Balance
<1>17. Balance(v) <= Balance(w) - Bound[w.purpose]
  BY <1>12, <1>14, <1>15, <1>16, UnitCosts
<1>18. QED
  BY <1>7, <1>8, <1>13, <1>17 DEF Advances

\* The calls that one for this strategy and purpose may come after.
MayAsk(s, purpose) ==
    \/ Between(work) /\ s \in work.todo /\ purpose # "adjudication"
       /\ (purpose = "classification" <=> s \in Routers)
    \/ s = work.strategy /\ work.purpose = "classification" /\ purpose = "generation"
    \/ s = work.strategy /\ work.purpose = "judge" /\ purpose = "adjudication"
       /\ work.adjudicate

\* What the call in hand may cost.
Asked(w) == IF Between(w) THEN 0 ELSE Bound[w.purpose]

\* The first call of the next purpose.
LEMMA AskPlan ==
    ASSUME work \in WorkType, WorkPlanned(work), work' \in WorkType,
           NEW s \in Strategies, NEW purpose \in {"classification", "generation", "adjudication"},
           Ask(s, purpose), MayAsk(s, purpose)
    PROVE  ~Between(work') /\ Advances(work, work', Asked(work))
<1>1. work' = [work EXCEPT !.strategy = s, !.purpose = purpose, !.tries = 1]
  BY DEF Ask
<1>2. PICK v \in WorkType : v = work'
  OBVIOUS
<1>3. PICK w \in WorkType : w = work
  OBVIOUS
<1>4. /\ v.case = w.case /\ v.todo = w.todo /\ v.grading = w.grading
      /\ v.adjudications = w.adjudications /\ v.purpose = purpose
      /\ v.strategy = s /\ v.adjudicate = w.adjudicate /\ v.tries = 1
  BY <1>1, <1>2, <1>3 DEF WorkType
<1>5. Left(v) = Left(w) /\ (GradesLeft(w) => GradesLeft(v))
  BY <1>4, SameLoops
<1>6. Bound["generation"] \in Nat /\ Bound["classification"] \in Nat /\ Bound["judge"] \in Nat
        /\ Bound["adjudication"] \in Nat /\ MaxAttempts >= 1 /\ MaxAttempts \in Nat
        /\ Retries["judge"] \in Nat /\ Retries["adjudication"] \in Nat
  BY Costs DEF Purposes
<1>7. CallPlanned(v)
  <2>1. CASE Between(w)
    <3>1. /\ s \in w.todo /\ purpose \in {"classification", "generation"}
          /\ purpose = "classification" => s \in Routers
      BY <1>3, <2>1 DEF MayAsk, Between
    <3>2. QED
      BY <1>4, <1>6, <3>1 DEF CallPlanned, Purposes
  <2>2. CASE w.purpose = "classification"
    <3>1. CallPlanned(w)
      BY <1>3, <2>2 DEF WorkPlanned, Between
    <3>2. QED
      BY <1>3, <1>4, <1>6, <2>2, <3>1 DEF CallPlanned, Purposes, MayAsk
  <2>3. CASE w.purpose = "judge"
    <3>1. CallPlanned(w)
      BY <1>3, <2>3 DEF WorkPlanned, Between
    <3>2. QED
      BY <1>3, <1>4, <1>6, <2>3, <3>1 DEF CallPlanned, Purposes, MayAsk
  <2>4. QED
    BY <1>3, <2>1, <2>2, <2>3 DEF MayAsk
<1>8. WorkPlanned(v) /\ WorkPlanned(w)
  BY <1>3, <1>4, <1>5, <1>7 DEF WorkPlanned
<1>9. Left(w) \in Int /\ Used(w) \in Nat
  BY <1>8, BalanceInt
<1>10. Used(v) >= Used(w) + Asked(w) /\ Used(v) \in Nat
  <2>0. Used(v) \in Nat
    BY <1>8, BalanceInt
  <2>1. CASE Between(w)
    <3>1. Used(w) = 0
      BY <1>8, <2>1, BalanceInt
    <3>2. Asked(w) = 0
      BY <2>1 DEF Asked
    <3>3. QED
      BY <2>0, <3>1, <3>2
  <2>2. CASE w.purpose = "classification"
    <3>1. s \in Routers
      BY <1>3, <2>2 DEF WorkPlanned, CallPlanned, MayAsk, Between
    <3>2. Used(v) = Bound["classification"] + (1 - 1) * Bound["generation"]
      <4>1. v.purpose = "generation"
        BY <1>3, <1>4, <2>2 DEF MayAsk, Between
      <4>2. QED
        BY <1>4, <3>1, <4>1 DEF Used
    <3>3. Used(w) = 0
      BY <2>2 DEF Used
    <3>4. Asked(w) = Bound["classification"]
      BY <2>2 DEF Asked, Between
    <3>5. QED
      BY <1>6, <3>2, <3>3, <3>4
  <2>3. CASE w.purpose = "judge"
    <3> DEFINE t == w.tries - 1
    <3>1. w.tries \in Nat /\ w.tries >= 1 /\ w.tries <= Retries["judge"] + 1
      BY <1>3, <2>3, FieldsOf DEF WorkPlanned, CallPlanned, Between
    <3>2. Used(v) = JudgeCost + (1 - 1) * Bound["adjudication"]
      <4>1. v.purpose = "adjudication"
        BY <1>3, <1>4, <2>3 DEF MayAsk, Between
      <4>2. QED
        BY <1>4, <4>1 DEF Used
    <3>3. Used(w) = t * Bound["judge"]
      BY <2>3 DEF Used
    <3>4. t \in Nat /\ t + 1 \in Nat /\ t + 1 <= Retries["judge"] + 1
            /\ Retries["judge"] + 1 \in Nat
      BY <1>6, <3>1
    <3> HIDE DEF t
    <3>5. (t + 1) * Bound["judge"] = t * Bound["judge"] + Bound["judge"]
            /\ t * Bound["judge"] \in Nat
      BY <1>6, <3>4, OneMore, NatTimes
    <3>6. (t + 1) * Bound["judge"] <= JudgeCost
      BY <1>6, <3>4, TimesMonotone DEF JudgeCost
    <3>7. Used(v) = JudgeCost
      BY <1>6, <3>2, UnitCosts
    <3>8. Asked(w) = Bound["judge"]
      BY <2>3 DEF Asked, Between
    <3>9. QED
      BY <1>6, <3>3, <3>5, <3>6, <3>7, <3>8, UnitCosts
  <2>4. QED
    BY <1>3, <2>1, <2>2, <2>3 DEF MayAsk
<1>11. Asked(w) \in Nat
  BY <1>3, <1>6 DEF MayAsk, Asked
<1>12. Balance(v) <= Balance(w) - Asked(w)
  BY <1>5, <1>9, <1>10, <1>11 DEF Balance
<1>13. QED
  BY <1>2, <1>3, <1>4, <1>8, <1>12 DEF Advances, Between

\* A step that goes on with the loops keeps to the plan, of which it may use
\* up d.
Goes(d) ==
    Active' => (pc' = "working" <=> Between(work')) /\ Advances(work, work', d)

\* After a call whose cost is known or not, the loops go on within the plan
\* less what the call may cost.
LEMMA ContinuePlan ==
    ASSUME work \in WorkType, WorkPlanned(work), work' \in WorkType,
           work.strategy \in Strategies, work.purpose \in Purposes,
           NEW result, Continue(result)
    PROVE  Goes(Bound[work.purpose])
<1>0. ~Between(work) /\ Asked(work) = Bound[work.purpose]
  BY DEF Between, Purposes, Asked
<1>1. CASE Raise \/ StopWork
  BY <1>1 DEF Raise, StopWork, Goes, Active
<1>2. ASSUME NEW output, NEW blocked, EndStrategy(work.strategy, output, blocked),
             work.purpose \in {"classification", "generation"}
      PROVE  Goes(Bound[work.purpose])
  <2>1. CASE pc' = "working"
    BY <1>2, <2>1, StrategyCallEnds DEF Goes
  <2>2. CASE pc' # "working"
    BY <1>2, <2>2 DEF Goes, Active, EndStrategy, Raise, StopWork
  <2>3. QED
    BY <2>1, <2>2
<1>3. ASSUME Again,
             \/ work.purpose = "generation" /\ Recovers
             \/ work.purpose \in {"judge", "adjudication"} /\ work.tries <= Retries[work.purpose]
      PROVE  Goes(Bound[work.purpose])
  <2>1. pc' = "calling"
    BY <1>3 DEF Again
  <2>2. ~Between(work') /\ Advances(work, work', Bound[work.purpose])
    BY <1>3, AgainPlan
  <2>3. QED
    BY <2>1, <2>2 DEF Goes
<1>4. ASSUME NEW purpose \in {"classification", "generation", "adjudication"},
             Ask(work.strategy, purpose), MayAsk(work.strategy, purpose)
      PROVE  Goes(Bound[work.purpose])
  <2>1. pc' = "calling"
    BY <1>4 DEF Ask
  <2>2. ~Between(work') /\ Advances(work, work', Asked(work))
    BY <1>4, AskPlan
  <2>3. QED
    BY <1>0, <2>1, <2>2 DEF Goes
<1>5. ASSUME EndGrade, work.purpose \in {"judge", "adjudication"}
      PROVE  Goes(Bound[work.purpose])
  <2>1. CASE pc' = "working"
    BY <1>5, <2>1, EndGradePlan DEF Goes
  <2>2. CASE pc' # "working"
    BY <1>5, <2>2 DEF Goes, Active, EndGrade, StopWork
  <2>3. QED
    BY <2>1, <2>2
<1>6. CASE work.purpose = "classification" /\ AfterClassification(result)
  <2>1. MayAsk(work.strategy, "generation")
    BY <1>6 DEF MayAsk
  <2>2. QED
    BY <1>1, <1>2, <1>4, <1>6, <2>1 DEF AfterClassification
<1>7. CASE work.purpose = "generation" /\ AfterGeneration(result)
  BY <1>2, <1>3, <1>7 DEF AfterGeneration
<1>8. CASE work.purpose \in {"judge", "adjudication"} /\ AfterEvaluation(result)
  <2>1. CASE work.tries <= Retries[work.purpose] /\ Again
    BY <1>3, <1>8, <2>1
  <2>2. CASE work.purpose = "judge" /\ work.adjudicate /\ Ask(work.strategy, "adjudication")
    <3>1. MayAsk(work.strategy, "adjudication")
      BY <2>2 DEF MayAsk
    <3>2. QED
      BY <1>4, <2>2, <3>1
  <2>3. CASE EndGrade
    BY <1>5, <1>8, <2>3
  <2>4. QED
    BY <1>8, <2>1, <2>2, <2>3 DEF AfterEvaluation
<1>9. QED
  BY <1>6, <1>7, <1>8 DEF Continue

LEMMA NextCasePlan ==
    ASSUME work \in WorkType, WorkPlanned(work), work' \in WorkType, Between(work),
           NEW blocked, NEW appended, NextCase(blocked, appended)
    PROVE  Goes(0)
<1>1. CASE blocked /\ ~appended
  BY <1>1 DEF NextCase, Raise, Goes, Active
<1>2. CASE ~(blocked /\ ~appended)
  <2> DEFINE n == work.case + 1
             T == IF blocked THEN {} ELSE Strategies
  <2>1. work' = [work EXCEPT !.case = n, !.todo = T] /\ pc' = "working"
          /\ work.todo = {} /\ work.grading = {} /\ work.case < NumCases
    BY <1>2 DEF NextCase
  <2>2. T = {} \/ T = Strategies
    OBVIOUS
  <2> HIDE DEF n, T
  <2>3. /\ work'.case = n /\ work'.todo = T /\ work'.grading = work.grading
        /\ work'.adjudications = work.adjudications /\ work'.purpose = work.purpose
    BY <2>1 DEF WorkType
  <2>4. PICK v \in WorkType : v = work'
    OBVIOUS
  <2>5. PICK w \in WorkType : w = work
    OBVIOUS
  <2>6. v.case = w.case + 1
    BY <2>3, <2>4, <2>5 DEF n
  <2>7. Left(v) <= Left(w) /\ (GradesLeft(w) => GradesLeft(v))
    BY <2>1, <2>2, <2>3, <2>4, <2>5, <2>6, CaseBegins
  <2>8. WorkPlanned(v) /\ Between(v) /\ WorkPlanned(w) /\ Between(w)
    BY <2>3, <2>4, <2>5, <2>7 DEF WorkPlanned, Between
  <2>9. Balance(v) = Left(v) /\ Balance(w) = Left(w) /\ Left(w) \in Int /\ Left(v) \in Int
    BY <2>8, BalanceInt
  <2>10. Balance(v) <= Balance(w) - 0
    BY <2>7, <2>9
  <2>11. Advances(w, v, 0)
    BY <2>8, <2>10 DEF Advances
  <2>12. QED
    BY <2>1, <2>4, <2>5, <2>8, <2>11 DEF Goes
<1>3. QED
  BY <1>1, <1>2

LEMMA NextStrategyPlan ==
    ASSUME work \in WorkType, WorkPlanned(work), work' \in WorkType, Between(work),
           NEW s \in Strategies, NextStrategy(s)
    PROVE  Goes(0)
<1>0. s \in work.todo /\ work.todo \subseteq Strategies
  BY FieldsOf DEF NextStrategy
<1>1. CASE StopWork
  BY <1>1 DEF StopWork, Goes, Active
<1>2. CASE Ask(s, IF s \in Routers THEN "classification" ELSE "generation")
  <2> DEFINE purpose == IF s \in Routers THEN "classification" ELSE "generation"
  <2>1. /\ purpose \in {"classification", "generation", "adjudication"}
        /\ purpose # "adjudication" /\ (purpose = "classification" <=> s \in Routers)
    OBVIOUS
  <2>2. Ask(s, purpose) /\ pc' = "calling"
    BY <1>2 DEF Ask
  <2> HIDE DEF purpose
  <2>3. MayAsk(s, purpose)
    BY <1>0, <2>1 DEF MayAsk
  <2>4. ~Between(work') /\ Advances(work, work', Asked(work))
    BY <2>1, <2>2, <2>3, AskPlan
  <2>5. Asked(work) = 0
    BY DEF Asked
  <2>6. QED
    BY <2>2, <2>4, <2>5 DEF Goes
<1>3. CASE EndStrategy(s, FALSE, FALSE)
  <2>1. CASE pc' = "working"
    <3>1. /\ Between(work') /\ WorkPlanned(work')
          /\ Balance(work') <= Left(work) - StrategyCost(s)
      BY <1>0, <1>3, <2>1, EndStrategyPlan
    <3>2. StrategyCost(s) \in Nat
      BY <1>0, GenerationRemove
    <3>3. Balance(work) = Left(work) /\ Left(work) \in Int /\ Balance(work') \in Int
      BY <3>1, BalanceInt
    <3>4. Balance(work') <= Balance(work) - 0
      BY <3>1, <3>2, <3>3
    <3>5. QED
      BY <2>1, <3>1, <3>4 DEF Goes, Advances
  <2>2. CASE pc' # "working"
    BY <1>3, <2>2 DEF Goes, Active, EndStrategy, Raise, StopWork
  <2>3. QED
    BY <2>1, <2>2
<1>4. QED
  BY <1>1, <1>2, <1>3 DEF NextStrategy

\* While a candidate is left to grade, an adjudication that may be sampled is
\* one of those that are planned.
LEMMA MayAdjudicate ==
    ASSUME NEW w \in WorkType, GradesLeft(w), w.grading # {}, w.adjudications < MaxAdjudications
    PROVE  w.adjudications < Adjudications
<1>1. /\ w.adjudications \in Nat /\ w.case \in Nat /\ w.case <= NumCases
      /\ w.grading \subseteq Strategies
  BY FieldsOf
<1>2. Cardinality(w.todo) \in Nat /\ Cardinality(w.grading) \in Nat
  BY LeftParts
<1>3. Cardinality(w.grading) # 0
  BY <1>1, Sizes, FS_EmptySet
<1> DEFINE m == (NumCases - w.case) * Cardinality(Strategies)
<1>4. m \in Nat
  <2>1. NumCases - w.case \in Nat /\ Cardinality(Strategies) \in Nat
    BY <1>1, Costs, Sizes
  <2>2. QED
    BY <2>1, NatTimes
<1>5. w.adjudications + (Cardinality(w.todo) + Cardinality(w.grading)) + m <= Candidates
  BY DEF GradesLeft
<1> HIDE DEF m
<1>6. w.adjudications < Candidates
  BY <1>1, <1>2, <1>3, <1>4, <1>5, CandidatesNat
<1>7. Adjudications = MaxAdjudications \/ Adjudications = Candidates
  BY Costs, CandidatesNat, Smallest DEF Adjudications
<1>8. QED
  BY <1>6, <1>7

LEMMA NextGradePlan ==
    ASSUME work \in WorkType, WorkPlanned(work), work' \in WorkType, Between(work),
           NEW s \in Strategies, NEW rubric \in BOOLEAN, NEW adjudicate \in BOOLEAN,
           NextGrade(s, rubric, adjudicate)
    PROVE  Goes(0)
<1>0. PICK v \in WorkType, w \in WorkType : v = work' /\ w = work
  OBVIOUS
<1>1. /\ s \in w.grading /\ (adjudicate => w.adjudications < MaxAdjudications)
      /\ WorkPlanned(w) /\ Between(w) /\ GradesLeft(w) /\ w.adjudications <= Adjudications
  BY <1>0 DEF NextGrade, WorkPlanned
<1>2. adjudicate => w.adjudications < Adjudications
  BY <1>1, MayAdjudicate
<1>3. Left(w) \in Int /\ Balance(w) = Left(w)
  BY <1>1, BalanceInt
<1>4. CASE StopWork
  BY <1>4 DEF StopWork, Goes, Active
<1>5. CASE ~Halted /\ rubric
  <2>1. /\ work' = [work EXCEPT !.strategy = s, !.purpose = "judge", !.tries = 1,
                                !.adjudicate = adjudicate]
        /\ pc' = "calling"
    BY <1>5 DEF NextGrade
  <2>2. /\ v.case = w.case /\ v.todo = w.todo /\ v.grading = w.grading
        /\ v.adjudications = w.adjudications /\ v.purpose = "judge"
        /\ v.strategy = s /\ v.adjudicate = adjudicate /\ v.tries = 1
    BY <1>0, <2>1 DEF WorkType
  <2>3. Left(v) = Left(w) /\ GradesLeft(v)
    BY <1>1, <2>2, SameLoops
  <2>4. Retries["judge"] \in Nat
    BY Costs
  <2>5. CallPlanned(v)
    BY <1>1, <1>2, <2>2, <2>4 DEF CallPlanned, Purposes
  <2>6. WorkPlanned(v) /\ ~Between(v)
    BY <1>1, <2>2, <2>3, <2>5 DEF WorkPlanned, Between
  <2>7. Used(v) \in Nat
    BY <2>6, BalanceInt
  <2>8. Balance(v) <= Balance(w) - 0
    BY <1>3, <2>3, <2>7 DEF Balance
  <2>9. Advances(w, v, 0)
    BY <2>6, <2>8 DEF Advances
  <2>10. QED
    BY <1>0, <2>1, <2>6, <2>9 DEF Goes
<1>6. CASE ~Halted /\ ~rubric
  <2> DEFINE a == IF adjudicate THEN 1 ELSE 0
             n == work.adjudications + a
  <2>1. w.adjudications \in Nat
    BY FieldsOf
  <2>2. a \in {0, 1} /\ n \in Nat /\ n <= Adjudications
          /\ (IF adjudicate THEN work.adjudications + 1 ELSE work.adjudications) = n
    BY <1>0, <1>1, <1>2, <2>1, CandidatesNat
  <2>3. work' = [work EXCEPT !.grading = @ \ {s}, !.adjudications = n] /\ pc' = "working"
    BY <1>6, <2>2 DEF NextGrade
  <2> HIDE DEF n
  <2>4. /\ v.case = w.case /\ v.todo = w.todo /\ v.grading = w.grading \ {s}
        /\ v.adjudications = n /\ v.purpose = w.purpose
    BY <1>0, <2>2, <2>3 DEF WorkType
  <2>5. PICK k \in {0, 1} : k = a
    BY <2>2
  <2>6. v.adjudications = w.adjudications + k
    BY <1>0, <2>4, <2>5 DEF n
  <2>7. Left(v) = Left(w) - JudgeCost - k * AdjudicationCost /\ GradesLeft(v)
    BY <1>1, <2>4, <2>6, GradeEnds
  <2>8. WorkPlanned(v) /\ Between(v)
    BY <1>1, <2>2, <2>4, <2>7 DEF WorkPlanned, Between
  <2>9. Balance(v) = Left(v) /\ k * AdjudicationCost \in Nat
    BY <2>8, BalanceInt, UnitCosts, NatTimes
  <2>10. Balance(v) <= Balance(w) - 0
    BY <1>3, <2>7, <2>9, UnitCosts
  <2>11. Advances(w, v, 0)
    BY <2>8, <2>10 DEF Advances
  <2>12. QED
    BY <1>0, <2>3, <2>8, <2>11 DEF Goes
<1>7. QED
  BY <1>4, <1>5, <1>6 DEF NextGrade

\* A step of the loops that uses up d of the plan while the guard counts d or
\* less.
LEMMA GoesKeepsPlanned ==
    ASSUME Inv, Inv', Active, Planned, NEW d \in Nat, Goes(d), overran => overran',
           guard'.spent = guard.spent \/ (~overran' => guard'.spent <= guard.spent + d),
           spent' <= guard'.spent
    PROVE  Planned'
<1> SUFFICES ASSUME Active'
             PROVE  /\ WorkPlanned(work') /\ (pc' = "working" <=> Between(work'))
                    /\ spent' <= guard'.spent
                    /\ ~overran' => guard'.spent + Balance(work') <= PlanBound
  BY DEF Planned
<1>1. /\ WorkPlanned(work') /\ (pc' = "working" <=> Between(work'))
      /\ Balance(work') <= Balance(work) - d
  BY DEF Goes, Advances
<1>2. work \in WorkType /\ work' \in WorkType /\ WorkPlanned(work)
  BY DEF Inv, Types, Planned
<1>3. Balance(work) \in Int /\ Balance(work') \in Int
  BY <1>1, <1>2, BalanceInt
<1>4. guard.spent \in Nat /\ guard'.spent \in Nat
  BY DEF Inv, Types, GuardType
<1>5. ASSUME ~overran' PROVE guard'.spent + Balance(work') <= PlanBound
  <2>1. guard.spent + Balance(work) <= PlanBound
    BY <1>5 DEF Planned
  <2>2. guard'.spent <= guard.spent + d
    BY <1>4, <1>5
  <2>3. PlanBound \in Nat
    BY PlanIsCases
  <2>4. QED
    BY <1>1, <1>3, <1>4, <2>1, <2>2, <2>3
<1>6. QED
  BY <1>1, <1>5

\* A step that leaves the loops alone.
LEMMA SamePlan ==
    ASSUME Planned, UNCHANGED <<work, spent, guard, overran>>,
           Active' => Active /\ (pc' = "working" <=> pc = "working")
    PROVE  Planned'
  BY DEF Planned

\* The run starts with all of the plan left.
LEMMA RequireReadyPlanned ==
    ASSUME Inv, NEW fate \in Fates, RequireReady(fate)
    PROVE  Planned'
<1>1. guard = NewGuard /\ work = NoWork /\ spent = 0
  BY DEF RequireReady, Authorizes, Inv, AuthorizedOnce, FreshStart
<1>2. guard'.spent = 0
  BY <1>1 DEF RequireReady, NewGuard
<1>3. work' = NoWork /\ spent' = 0 /\ pc' \in {"working", "settling"}
  BY <1>1 DEF RequireReady, countVars
<1>4. PICK w \in WorkType : w = NoWork
  BY NoWorkType
<1>5. /\ w.case = 0 /\ w.todo = {} /\ w.grading = {} /\ w.adjudications = 0
  BY <1>4 DEF NoWork
<1>6. Between(w)
  BY <1>4 DEF NoWork, Between
<1>7. Cardinality({}) = 0 /\ Cardinality(Strategies) \in Nat
  BY FS_EmptySet, Sizes
<1>8. NumCases - 0 = NumCases /\ Adjudications - 0 = Adjudications /\ (0 + 0) * JudgeCost = 0
  BY Costs, CandidatesNat, UnitCosts
<1>9. CasesLeft(w) = NumCases * CaseCost
  BY <1>5, <1>8 DEF CasesLeft
<1>10. GradingLeft(w) = 0
  BY <1>5, <1>7, <1>8 DEF GradingLeft
<1>11. AdjudicationsLeft(w) = Adjudications * AdjudicationCost
  BY <1>5, <1>8 DEF AdjudicationsLeft
<1>12. GenerationLeft(w.todo) = 0
  BY <1>5, GenerationEmpty
<1>13. Left(w) = PlanBound
  <2>1. /\ Left(w) = CasesLeft(w) + GenerationLeft(w.todo) + GradingLeft(w) + AdjudicationsLeft(w)
        /\ CasesLeft(w) \in Nat /\ AdjudicationsLeft(w) \in Int
    BY LeftParts
  <2>2. QED
    BY <1>9, <1>10, <1>11, <1>12, <2>1, PlanIsCases
<1>14. GradesLeft(w)
  <2>1. GradesLeft(w) = (0 + (0 + 0) + Candidates <= Candidates)
    BY <1>5, <1>7, <1>8 DEF GradesLeft, Candidates
  <2>2. 0 + (0 + 0) + Candidates <= Candidates
    BY CandidatesNat
  <2>3. QED
    BY <2>1, <2>2
<1>15. WorkPlanned(w)
  BY <1>5, <1>6, <1>14, CandidatesNat DEF WorkPlanned
<1>16. Balance(w) = PlanBound /\ PlanBound \in Nat
  BY <1>6, <1>13, <1>15, BalanceInt, PlanIsCases
<1>17. QED
  BY <1>2, <1>3, <1>4, <1>6, <1>15, <1>16 DEF Planned, Active

\* A call uses up its part of the plan, whatever it returns.
LEMMA ReturnPlanned ==
    ASSUME Inv, Inv', Planned, NEW charge \in Charges,
           \/ \E kind, late : ReturnKnown(kind, charge, late)
           \/ \E raised \in BOOLEAN : ReturnUnknown(raised, charge)
           \/ \E known \in BOOLEAN : ReturnLost(known, charge)
    PROVE  Planned'
<1>1. /\ pc = "waiting" /\ charge \in Nat /\ Active
      /\ work \in WorkType /\ work.strategy \in Strategies /\ work.purpose \in Purposes
      /\ work' \in WorkType
  BY ChargeNat, Waiting DEF Inv, Types
<1>2. WorkPlanned(work) /\ spent <= guard.spent
  BY <1>1 DEF Planned
<1>3. Goes(Bound[work.purpose])
  BY <1>1, <1>2, ContinuePlan DEF ReturnKnown, ReturnUnknown, ReturnLost
<1>4. Bound[work.purpose] \in Nat /\ spent \in Nat /\ guard.spent \in Nat
  BY <1>1, Costs DEF Inv, Types, GuardType
<1>5. overran' = (overran \/ charge > Bound[work.purpose])
  BY DEF ReturnKnown, ReturnUnknown, ReturnLost, PaidCall
<1>6. ASSUME NEW kind, NEW late, ReturnKnown(kind, charge, late)
      PROVE  Planned'
  <2>1. guard'.spent = guard.spent + charge
    BY <1>1, <1>6, KnownGuard DEF ReturnKnown
  <2>2. spent' = spent \/ spent' = spent + charge
    BY <1>6 DEF ReturnKnown
  <2>3. spent' <= guard'.spent
    BY <1>1, <1>2, <1>4, <2>1, <2>2
  <2>4. ASSUME ~overran' PROVE guard'.spent <= guard.spent + Bound[work.purpose]
    <3>1. ~(charge > Bound[work.purpose])
      BY <1>5, <2>4
    <3>2. QED
      BY <1>1, <1>4, <2>1, <3>1
  <2>5. QED
    BY <1>1, <1>3, <1>4, <1>5, <2>3, <2>4, GoesKeepsPlanned
<1>7. ASSUME NEW raised \in BOOLEAN, ReturnUnknown(raised, charge)
      PROVE  Planned'
  <2>1. guard'.spent = guard.spent /\ spent' = spent
    BY <1>1, <1>7, UnknownGuard DEF ReturnUnknown
  <2>2. spent' <= guard'.spent
    BY <1>2, <2>1
  <2>3. QED
    BY <1>1, <1>3, <1>4, <1>5, <2>1, <2>2, GoesKeepsPlanned
<1>8. ASSUME NEW known \in BOOLEAN, ReturnLost(known, charge)
      PROVE  Planned'
  <2>1. guard'.spent = guard.spent /\ spent' = spent
    BY <1>8 DEF ReturnLost
  <2>2. spent' <= guard'.spent
    BY <1>2, <2>1
  <2>3. QED
    BY <1>1, <1>3, <1>4, <1>5, <2>1, <2>2, GoesKeepsPlanned
<1>9. QED
  BY <1>6, <1>7, <1>8

\* The loops, and the calls that are not made.
LEMMA LoopPlanned ==
    ASSUME Inv, Inv', Planned,
           \/ \E blocked, appended \in BOOLEAN : NextCase(blocked, appended)
           \/ \E s \in Strategies : NextStrategy(s)
           \/ \E s \in Strategies, rubric, adjudicate \in BOOLEAN :
                  NextGrade(s, rubric, adjudicate)
           \/ DeadlinePassed \/ IntentLost
           \/ \E fits \in BOOLEAN : RunnerRefuses(fits)
           \/ \E valid \in BOOLEAN : GuardRefuses(valid)
    PROVE  Planned'
<1>1. /\ work \in WorkType /\ work' \in WorkType /\ guard \in GuardType
      /\ (pc = "calling" => work.strategy \in Strategies /\ work.purpose \in Purposes)
  BY DEF Inv, Types, CallNamed
<1>2. pc \in {"working", "calling"} /\ Active
  BY DEF NextCase, NextStrategy, NextGrade, DeadlinePassed, IntentLost, RunnerRefuses,
         GuardRefuses, Active
<1>3. WorkPlanned(work) /\ (pc = "working" => Between(work)) /\ spent <= guard.spent
  BY <1>2 DEF Planned
<1>4. \E d \in Nat : Goes(d)
  <2>1. CASE \/ \E blocked, appended \in BOOLEAN : NextCase(blocked, appended)
             \/ \E s \in Strategies : NextStrategy(s)
             \/ \E s \in Strategies, rubric, adjudicate \in BOOLEAN :
                    NextGrade(s, rubric, adjudicate)
    <3>1. pc = "working"
      BY <2>1 DEF NextCase, NextStrategy, NextGrade
    <3>2. Goes(0)
      BY <1>1, <1>3, <2>1, <3>1, NextCasePlan, NextStrategyPlan, NextGradePlan
    <3>3. QED
      BY <3>2
  <2>2. CASE \/ DeadlinePassed \/ IntentLost
             \/ \E fits \in BOOLEAN : RunnerRefuses(fits)
             \/ \E valid \in BOOLEAN : GuardRefuses(valid)
    <3>1. pc = "calling" /\ \E result : Continue(result)
      BY <2>2 DEF DeadlinePassed, IntentLost, RunnerRefuses, GuardRefuses
    <3>2. Goes(Bound[work.purpose]) /\ Bound[work.purpose] \in Nat
      BY <1>1, <1>3, <3>1, ContinuePlan, Costs
    <3>3. QED
      BY <3>2
  <2>3. QED
    BY <2>1, <2>2
<1>5. guard'.spent = guard.spent /\ spent' = spent /\ overran' = overran
  <2>1. ASSUME NEW valid \in BOOLEAN, GuardRefuses(valid)
        PROVE  guard'.spent = guard.spent /\ spent' = spent /\ overran' = overran
    BY <1>1, <2>1 DEF GuardRefuses, GuardType, countVars, historyVars
  <2>2. ASSUME NEW fits \in BOOLEAN, RunnerRefuses(fits)
        PROVE  guard'.spent = guard.spent /\ spent' = spent /\ overran' = overran
    BY <2>2 DEF RunnerRefuses, historyVars
  <2>3. ASSUME Unchanged
        PROVE  guard'.spent = guard.spent /\ spent' = spent /\ overran' = overran
    BY <2>3 DEF Unchanged, countVars, historyVars
  <2>4. QED
    BY <2>1, <2>2, <2>3 DEF NextCase, NextStrategy, NextGrade, DeadlinePassed, IntentLost
<1>6. spent' <= guard'.spent
  BY <1>3, <1>5
<1>7. QED
  BY <1>2, <1>4, <1>5, <1>6, GoesKeepsPlanned

LEMMA NextPlanned == Inv /\ Inv' /\ Planned /\ [Next]_vars => Planned'
<1> SUFFICES ASSUME Inv, Inv', Planned, [Next]_vars PROVE Planned'
  OBVIOUS
<1>1. CASE \E fate \in Fates : RequireReady(fate)
  BY <1>1, RequireReadyPlanned
<1>2. CASE \/ \E blocked, appended \in BOOLEAN : NextCase(blocked, appended)
           \/ \E s \in Strategies : NextStrategy(s)
           \/ \E s \in Strategies, rubric, adjudicate \in BOOLEAN :
                  NextGrade(s, rubric, adjudicate)
           \/ DeadlinePassed \/ IntentLost
           \/ \E fits \in BOOLEAN : RunnerRefuses(fits)
           \/ \E valid \in BOOLEAN : GuardRefuses(valid)
  BY <1>2, LoopPlanned
<1>3. CASE \E charge \in Charges :
           \/ \E kind \in {"result", "failure"}, late \in BOOLEAN :
                  ReturnKnown(kind, charge, late)
           \/ \E raised \in BOOLEAN : ReturnUnknown(raised, charge)
           \/ \E known \in BOOLEAN : ReturnLost(known, charge)
  BY <1>3, ReturnPlanned
<1>4. CASE Dispatch
  BY <1>4, SamePlan DEF Dispatch, Unchanged, Active, countVars, historyVars
<1>5. CASE \E r \in Runs, fate \in Fates : Peer(r, fate)
  BY <1>5, SamePlan DEF Peer, Active, loopVars, countVars, historyVars
<1>6. CASE \/ \E appended \in BOOLEAN : Start(appended)
           \/ \E valid \in BOOLEAN : AuthorizationRefused(valid)
           \/ EndCases \/ NothingToSettle \/ (\E fate \in Fates : FinishRun(fate))
           \/ (\E complete \in BOOLEAN : WriteRecord(complete))
           \/ WriteChecksum \/ FinishFails \/ Crash
  <2>1. ~Active'
    BY <1>6 DEF Start, AuthorizationRefused, EndCases, NothingToSettle, FinishRun, WriteRecord,
                WriteChecksum, FinishFails, Crash, Active
  <2>2. QED
    BY <2>1 DEF Planned
<1>7. CASE UNCHANGED vars
  <2>1. UNCHANGED <<pc, work, spent, guard, overran>>
    BY <1>7 DEF vars, loopVars, countVars, historyVars
  <2>2. QED
    BY <2>1, SamePlan DEF Active
<1>8. QED
  BY <1>1, <1>2, <1>3, <1>4, <1>5, <1>6, <1>7
     DEF Next, ValidateCurrentRelease, CaseBlocker, FitsInputBound

\* The bound that plan_budget reserves covers every call that the loops, the
\* recovery and the graders can make: as long as no charge exceeds its own
\* bound, neither the guard nor the runner refuses one for want of budget.
THEOREM PlanIsEnough == Spec => []PlanCovers
<1>1. Init => Planned
  BY DEF Init, Planned, Active
<1>2. Inv /\ Planned => PlanCovers
  <2> SUFFICES ASSUME Inv, Planned, pc = "calling", ~overran
               PROVE  /\ guard.spent + Bound[work.purpose] <= PlanBound
                      /\ spent + Bound[work.purpose] <= AggregateCap
    BY DEF PlanCovers
  <2>1. /\ work \in WorkType /\ WorkPlanned(work) /\ spent <= guard.spent /\ ~Between(work)
        /\ guard.spent + Balance(work) <= PlanBound
    BY DEF Inv, Types, Planned, Active
  <2>2. CallPlanned(work) /\ work.adjudications <= Adjudications
    BY <2>1 DEF WorkPlanned
  <2>3. /\ Used(work) \in Nat /\ Share(work) \in Nat /\ Bound[work.purpose] \in Nat
        /\ Used(work) + Bound[work.purpose] <= Share(work) /\ Share(work) <= Left(work)
    BY <2>1, <2>2, CallWithinShare, ShareIsLeft
  <2>4. Left(work) \in Int /\ Balance(work) = Left(work) - Used(work)
    BY <2>1, BalanceInt DEF Balance
  <2>5. spent \in Nat /\ guard.spent \in Nat /\ AggregateCap \in Nat /\ PlanBound \in Nat
          /\ PlanBound <= AggregateCap
    BY Costs, PlanIsCases DEF Inv, Types, GuardType, AuthorizedOnce, Active, Admissible
  <2>6. guard.spent + Bound[work.purpose] <= PlanBound
    BY <2>1, <2>3, <2>4, <2>5
  <2>7. spent + Bound[work.purpose] <= AggregateCap
    BY <2>1, <2>3, <2>5, <2>6
  <2>8. QED
    BY <2>6, <2>7
<1>3. QED
  BY <1>1, <1>2, NextPlanned, Invariant, PTL DEF Spec
-----------------------------------------------------------------------------
(* The allocation file implements the abstract allocation.                 *)

\* What finish_run may settle: the guard counts what the runner counts, and no
\* call is dispatched that could take the total above the run's bound.
Bounded ==
    /\ guard.bound /\ TotalIsKnown => calls.known <= guard.spent
    /\ guard.spent <= PlanBound + Overrun
    /\ pc = "waiting" => guard.spent + Bound[work.purpose] <= PlanBound

LEMMA SameBounded ==
    ASSUME Bounded, UNCHANGED calls, guard'.bound = guard.bound, guard'.spent = guard.spent,
           pc' # "waiting"
    PROVE  Bounded'
  BY DEF Bounded, TotalIsKnown

LEMMA FreshBounded ==
    ASSUME Inv, calls'.known = 0, guard'.spent \in Nat, guard'.spent <= PlanBound + Overrun,
           pc' # "waiting"
    PROVE  Bounded'
  BY DEF Bounded

\* The guard counts a known cost with the runner; only the last call may have
\* exceeded its bound.
LEMMA ReturnBounded ==
    ASSUME Inv, Bounded, NEW charge \in Charges,
           \/ \E kind, late : ReturnKnown(kind, charge, late)
           \/ \E raised \in BOOLEAN : ReturnUnknown(raised, charge)
           \/ \E known \in BOOLEAN : ReturnLost(known, charge)
    PROVE  Bounded'
<1>1. /\ pc = "waiting" /\ charge \in Nat /\ guard.bound
      /\ charge = Bound[work.purpose] \/ charge = Bound[work.purpose] + Overrun
      /\ work \in WorkType /\ work.strategy \in Strategies /\ work.purpose \in Purposes
      /\ calls.known \in Nat /\ calls \in CallsType /\ guard.spent \in Nat
  BY ChargeNat, Waiting DEF Inv, AuthorizedOnce, Types, CallsType, GuardType
<1>2. Moves
  BY <1>1, ContinueMoves DEF ReturnKnown, ReturnUnknown, ReturnLost
<1>3. pc' # "waiting"
  BY <1>2 DEF Moves
<1>4. guard.spent + Bound[work.purpose] <= PlanBound /\ Bound[work.purpose] \in Nat
        /\ PlanBound \in Nat /\ Overrun \in Nat
  BY <1>1, Costs, PlanIsCases DEF Bounded
<1>5. ASSUME NEW kind, NEW late, ReturnKnown(kind, charge, late)
      PROVE  Bounded'
  <2>1. guard'.spent = guard.spent + charge
    BY <1>1, <1>5, KnownGuard DEF ReturnKnown
  <2>2. guard'.spent <= PlanBound + Overrun
    BY <1>1, <1>4, <2>1
  <2>3. /\ calls'.known = calls.known + charge
        /\ calls'.unknown = calls.unknown /\ calls'.unsettled = calls.unsettled
    BY <1>1, <1>5 DEF ReturnKnown, CallsType
  <2>4. ASSUME TotalIsKnown' PROVE calls'.known <= guard'.spent
    <3>1. TotalIsKnown
      BY <2>3, <2>4 DEF TotalIsKnown
    <3>2. calls.known <= guard.spent
      BY <1>1, <3>1 DEF Bounded
    <3>3. QED
      BY <1>1, <2>1, <2>3, <3>2
  <2>5. QED
    BY <1>3, <2>2, <2>4 DEF Bounded
<1>6. ASSUME NEW raised \in BOOLEAN, ReturnUnknown(raised, charge)
      PROVE  Bounded'
  <2>1. guard'.spent = guard.spent
    BY <1>1, <1>6, UnknownGuard DEF ReturnUnknown
  <2>2. ~TotalIsKnown'
    BY <1>1, <1>6 DEF ReturnUnknown, TotalIsKnown, CallsType
  <2>3. QED
    BY <1>3, <2>1, <2>2 DEF Bounded
<1>7. ASSUME NEW known \in BOOLEAN, ReturnLost(known, charge)
      PROVE  Bounded'
  <2>1. ~TotalIsKnown' /\ guard' = guard
    BY <1>7 DEF ReturnLost, TotalIsKnown
  <2>2. QED
    BY <1>3, <2>1 DEF Bounded
<1>8. QED
  BY <1>5, <1>6, <1>7

LEMMA NextBounded == Inv /\ Bounded /\ [Next]_vars => Bounded'
<1> SUFFICES ASSUME Inv, Bounded, [Next]_vars PROVE Bounded'
  OBVIOUS
<1>0. /\ work \in WorkType /\ (pc = "working" => ~Halted) /\ guard \in GuardType
      /\ (pc = "calling" => work.strategy \in Strategies /\ work.purpose \in Purposes)
  BY DEF Inv, Types, StopsInTime, CallNamed
<1>1. guard.spent \in Nat /\ guard.spent <= PlanBound + Overrun
        /\ PlanBound \in Nat /\ Overrun \in Nat
  BY PlanIsCases, Costs DEF Inv, Types, GuardType, Bounded
<1>2. CASE \E appended \in BOOLEAN : Start(appended)
  <2>1. UNCHANGED guard /\ pc' # "waiting" /\ (calls' = NoCalls \/ calls' = calls)
    BY <1>2 DEF Start
  <2>2. CASE calls' = calls
    BY <2>1, <2>2, SameBounded
  <2>3. CASE calls' = NoCalls
    BY <1>1, <2>1, <2>3, FreshBounded DEF NoCalls
  <2>4. QED
    BY <2>1, <2>2, <2>3
<1>3. CASE \E fate \in Fates : RequireReady(fate)
  <2>1. calls' = NoCalls /\ pc' # "waiting" /\ guard'.spent = guard.spent
    BY <1>0, <1>3 DEF RequireReady, Inv, FreshStart, countVars, GuardType
  <2>2. QED
    BY <1>1, <2>1, FreshBounded DEF NoCalls
<1>4. CASE \/ \E blocked, appended \in BOOLEAN : NextCase(blocked, appended)
           \/ \E s \in Strategies : NextStrategy(s)
           \/ \E s \in Strategies, rubric, adjudicate \in BOOLEAN :
                  NextGrade(s, rubric, adjudicate)
           \/ DeadlinePassed \/ IntentLost
           \/ \E fits \in BOOLEAN : RunnerRefuses(fits)
  <2>1. Moves
    BY <1>0, <1>4, NextCaseMoves, NextStrategyMoves, NextGradeMoves, ContinueMoves
       DEF DeadlinePassed, IntentLost, RunnerRefuses, NextCase, NextGrade
  <2>2. UNCHANGED <<calls, guard>>
    BY <1>4 DEF NextCase, NextStrategy, NextGrade, DeadlinePassed, IntentLost, RunnerRefuses,
                Unchanged, countVars
  <2>3. QED
    BY <2>1, <2>2, SameBounded DEF Moves
<1>5. CASE \E valid \in BOOLEAN : GuardRefuses(valid)
  <2>1. Moves
    BY <1>0, <1>5, ContinueMoves DEF GuardRefuses
  <2>2. guard'.bound = guard.bound /\ guard'.spent = guard.spent /\ UNCHANGED calls
    BY <1>0, <1>5 DEF GuardRefuses, GuardType, countVars
  <2>3. QED
    BY <2>1, <2>2, SameBounded DEF Moves
<1>6. CASE \E valid \in BOOLEAN : AuthorizationRefused(valid)
  <2>1. guard'.bound = guard.bound /\ guard'.spent = guard.spent
    BY <1>0, <1>6 DEF AuthorizationRefused, GuardType
  <2>2. QED
    BY <1>6, <2>1, SameBounded DEF AuthorizationRefused, countVars
<1>7. CASE Dispatch
  <2>1. UNCHANGED <<calls, guard, work>>
    BY <1>7 DEF Dispatch, Unchanged, countVars
  <2>2. guard.spent + Bound[work.purpose] <= PlanBound
    BY <1>7 DEF Dispatch, BeforeDispatch
  <2>3. QED
    BY <2>1, <2>2 DEF Bounded, TotalIsKnown
<1>8. CASE \E charge \in Charges :
           \/ \E kind \in {"result", "failure"}, late \in BOOLEAN :
                  ReturnKnown(kind, charge, late)
           \/ \E raised \in BOOLEAN : ReturnUnknown(raised, charge)
           \/ \E known \in BOOLEAN : ReturnLost(known, charge)
  BY <1>8, ReturnBounded
<1>9. CASE \E fate \in Fates : FinishRun(fate)
  <2>1. guard'.bound = guard.bound /\ guard'.spent = guard.spent
    BY <1>0, <1>9 DEF FinishRun, GuardType
  <2>2. QED
    BY <1>9, <2>1, SameBounded DEF FinishRun, countVars
<1>10. CASE \/ EndCases \/ NothingToSettle \/ (\E complete \in BOOLEAN : WriteRecord(complete))
            \/ WriteChecksum \/ FinishFails
  BY <1>10, SameBounded DEF EndCases, NothingToSettle, WriteRecord, WriteChecksum, FinishFails,
       Unchanged, countVars
<1>11. CASE Crash
  <2>1. calls'.known = 0 /\ guard'.spent = 0 /\ pc' = "crashed"
    BY <1>11 DEF Crash, NoCalls, NewGuard
  <2>2. QED
    BY <1>1, <2>1, FreshBounded
<1>12. CASE UNCHANGED vars \/ \E r \in Runs, fate \in Fates : Peer(r, fate)
  <2>1. UNCHANGED <<pc, work, calls, guard>>
    BY <1>12 DEF vars, Peer, loopVars, countVars
  <2>2. QED
    BY <2>1 DEF Bounded, TotalIsKnown
<1>13. QED
  BY <1>2, <1>3, <1>4, <1>5, <1>6, <1>7, <1>8, <1>9, <1>10, <1>11, <1>12
     DEF Next, ValidateCurrentRelease, CaseBlocker, FitsInputBound

LEMMA BoundedInvariant == Spec => []Bounded
<1>1. Init => Bounded
  BY PlanIsCases, Costs DEF Init, Bounded, NewGuard
<1>2. QED
  BY <1>1, NextBounded, Invariant, PTL DEF Spec

\* The two modules name the same sums.
LEMMA SameSum ==
    ASSUME NEW f, NEW S
    PROVE  Alloc!SumFunctionOnSet(f, S) = SumFunctionOnSet(f, S)
  BY Zenon DEF Alloc!SumFunctionOnSet, SumFunctionOnSet, Alloc!FoldFunctionOnSet,
               FoldFunctionOnSet, Alloc!MapThenFoldSet, MapThenFoldSet

\* A run is charged what the mapped row debits.
LEMMA HeldDebit ==
    ASSUME rows \in [Runs -> Rows], NEW r \in Runs
    PROVE  /\ Alloc!Debit(HeldRows[<<r, "run">>]) = Charge(rows[r])
           /\ Charge(rows[r]) \in Nat
<1>1. rows[r] \in Rows
  OBVIOUS
<1>2. HeldRows[<<r, "run">>] =
        [state    |-> IF rows[r].state \in {"reserved", "uncertain"} THEN "held"
                      ELSE rows[r].state,
         reserved |-> rows[r].reserved,
         actual   |-> rows[r].actual]
  BY DEF HeldRows
<1>3. QED
  BY <1>1, <1>2 DEF Alloc!Debit, Charge, Rows

\* What remains of the ceiling is what the abstract allocation may grant.
LEMMA RemainingFits ==
    ASSUME rows \in [Runs -> Rows], NEW r \in Runs, NEW amount \in Nat \ {0}, amount <= Remaining
    PROVE  Alloc!Fits(HeldRows, r, amount)
<1> DEFINE f == [x \in Runs |-> Charge(rows[x])]
           K == Runs \X {"run"}
           g == [k \in K |-> Alloc!Debit(HeldRows[k])]
           T == {k \in K : k[1] = r}
           h == [k \in T |-> Alloc!Debit(HeldRows[k])]
<1>1. IsFiniteSet(Runs) /\ Ceiling \in Nat
  BY LedgerAssumption
<1>2. IsNatOn(f, Runs) /\ \A x \in Runs : g[<<x, "run">>] = f[x]
  BY HeldDebit DEF IsNatOn
<1>3. /\ SumFunctionOnSet(g, K) = SumFunctionOnSet(f, Runs)
      /\ IsFiniteSet(K) /\ IsNatOn(g, K)
  <2> HIDE DEF f, g
  <2>1. QED
    BY <1>1, <1>2, SumPaired
<1>4. T \subseteq K /\ IsNatOn(h, T) /\ \A k \in T : h[k] <= g[k]
  <2>1. T \subseteq K
    OBVIOUS
  <2>2. \A k \in T : h[k] = g[k] /\ g[k] \in Nat
    BY <1>3 DEF IsNatOn
  <2> HIDE DEF h, g, T, K
  <2>3. QED
    BY <2>1, <2>2 DEF IsNatOn
<1>5. SumFunctionOnSet(h, T) <= SumFunctionOnSet(g, K) /\ IsFiniteSet(T)
  <2> HIDE DEF h, g, T, K
  <2>1. QED
    BY <1>3, <1>4, SumMonotone, FS_Subset
<1>6. SumFunctionOnSet(f, Runs) \in Nat /\ SumFunctionOnSet(h, T) \in Nat
  <2> HIDE DEF h, f, T
  <2>1. QED
    BY <1>1, <1>2, <1>4, <1>5, SumType
<1>7. Charged(rows) = SumFunctionOnSet(f, Runs)
  BY DEF Charged
<1>8. Alloc!AppDebit(HeldRows) = SumFunctionOnSet(g, K)
  BY SameSum DEF Alloc!AppDebit, Alloc!DebitOf, Alloc!Keys
<1>9. Alloc!TaskDebit(HeldRows, r) = SumFunctionOnSet(h, T)
  BY SameSum DEF Alloc!TaskDebit, Alloc!DebitOf, Alloc!KeysOf, Alloc!Keys
<1> HIDE DEF f, g, h, T, K
<1>10. Charged(rows) + amount <= Ceiling
  <2>1. Charged(rows) \in Nat
    BY <1>6, <1>7
  <2>2. QED
    BY <1>1, <2>1 DEF Remaining
<1>11. QED
  BY <1>1, <1>3, <1>5, <1>6, <1>7, <1>8, <1>9, <1>10 DEF Alloc!Fits

\* A row that is appended changes the mapped row of its run only.
LEMMA HeldUpdate ==
    ASSUME rows \in [Runs -> Rows], NEW r \in Runs, NEW row \in Rows,
           rows' = [rows EXCEPT ![r] = row]
    PROVE  HeldRows' = [HeldRows EXCEPT ![<<r, "run">>] =
                [state    |-> IF row.state \in {"reserved", "uncertain"} THEN "held"
                              ELSE row.state,
                 reserved |-> row.reserved,
                 actual   |-> row.actual]]
<1> DEFINE held(x) == [state    |-> IF x.state \in {"reserved", "uncertain"} THEN "held" ELSE x.state,
                       reserved |-> x.reserved,
                       actual   |-> x.actual]
           K == Runs \X {"run"}
<1>1. HeldRows = [k \in K |-> held(rows[k[1]])] /\ HeldRows' = [k \in K |-> held(rows'[k[1]])]
  BY DEF HeldRows
<1>2. ASSUME NEW k \in K
      PROVE  rows'[k[1]] = IF k = <<r, "run">> THEN row ELSE rows[k[1]]
  OBVIOUS
<1> HIDE DEF held
<1>3. HeldRows' = [HeldRows EXCEPT ![<<r, "run">>] = held(row)]
  BY <1>1, <1>2
<1>4. QED
  BY <1>3 DEF held

\* A reservation that reaches the file is one Grant.
LEMMA ReserveGrants ==
    ASSUME rows \in [Runs -> Rows], NEW r \in Runs, NEW amount \in Amounts, NEW fate,
           Reserve(r, amount, fate)
    PROVE  [Alloc!Next]_HeldRows
<1> DEFINE row == [FreeRun EXCEPT !.state = "reserved", !.reserved = amount]
<1>1. amount \in Nat \ {0}
  BY LedgerAssumption
<1>2. row \in Rows /\ row.state = "reserved" /\ row.reserved = amount /\ row.actual = 0
  BY <1>1 DEF FreeRun, Rows
<1>3. /\ rows[r].state = "free" /\ amount <= Remaining
      /\ rows' = rows \/ rows' = [rows EXCEPT ![r] = row]
  BY DEF Reserve, CanReserve, Append
<1> HIDE DEF row
<1>4. CASE rows' = rows
  BY <1>4 DEF HeldRows
<1>5. CASE rows' = [rows EXCEPT ![r] = row]
  <2>1. HeldRows' = [HeldRows EXCEPT ![<<r, "run">>] =
                       [state |-> "held", reserved |-> amount, actual |-> 0]]
    BY <1>2, <1>5, HeldUpdate
  <2>2. HeldRows[<<r, "run">>].state = "free"
    BY <1>3 DEF HeldRows
  <2>3. Alloc!Fits(HeldRows, r, amount)
    BY <1>1, <1>3, RemainingFits
  <2>4. PICK k : k = <<r, "run">>
    OBVIOUS
  <2>5. k \in Alloc!Keys /\ k[1] = r
    BY <2>4 DEF Alloc!Keys
  <2>6. Alloc!Grant(k, amount)
    BY <2>1, <2>2, <2>3, <2>4, <2>5 DEF Alloc!Grant, Alloc!HeldRow
  <2>7. QED
    BY <2>5, <2>6 DEF Alloc!Next
<1>6. QED
  BY <1>3, <1>4, <1>5

MappedRows == [state : {"held", "settled"}, reserved : Nat, actual : Nat]

LEMMA MappedFields ==
    ASSUME NEW y \in MappedRows
    PROVE  y = [state |-> y.state, reserved |-> y.reserved, actual |-> y.actual]
  BY DEF MappedRows

LEMMA SettledHeld ==
    ASSUME NEW x \in MappedRows, NEW a \in Nat
    PROVE  [x EXCEPT !.state = "settled", !.actual = a]
             = [state |-> "settled", reserved |-> x.reserved, actual |-> a]
<1> DEFINE y == [x EXCEPT !.state = "settled", !.actual = a]
<1>1. y \in MappedRows /\ y.state = "settled" /\ y.reserved = x.reserved /\ y.actual = a
  BY DEF MappedRows
<1> HIDE DEF y
<1>2. y = [state |-> "settled", reserved |-> x.reserved, actual |-> a]
  BY <1>1, MappedFields
<1>3. QED
  BY <1>2 DEF y

\* A settlement with a known cost that reaches the file is one Settle; one
\* with an unknown cost leaves the bound held.
LEMMA SettleSettles ==
    ASSUME rows \in [Runs -> Rows], NEW r \in Runs, NEW known \in BOOLEAN, NEW actual \in Nat,
           known => actual \in Actuals, NEW fate, Settle(r, known, actual, fate)
    PROVE  [Alloc!Next]_HeldRows
<1> DEFINE row == SettledAs(rows[r], known, actual)
<1>1. rows[r] \in Rows /\ rows[r].state = "reserved"
  BY DEF Settle, CanSettle
<1>2. /\ row \in Rows /\ row.reserved = rows[r].reserved
      /\ known => row.state = "settled" /\ row.actual = actual
      /\ ~known => row.state = "uncertain"
  BY <1>1, SettledRowType
<1>3. ~known => row.actual = rows[r].actual
  BY <1>1 DEF SettledAs, Rows
<1>4. rows' = rows \/ rows' = [rows EXCEPT ![r] = row]
  BY DEF Settle, Append
<1> HIDE DEF row
<1>5. PICK k : k = <<r, "run">>
  OBVIOUS
<1>6. k \in Alloc!Keys /\ k \in Runs \X {"run"}
  BY <1>5 DEF Alloc!Keys
<1>7. HeldRows[k] = [state |-> "held", reserved |-> rows[r].reserved, actual |-> rows[r].actual]
  BY <1>1, <1>5 DEF HeldRows
<1>8. CASE rows' = rows
  BY <1>8 DEF HeldRows
<1>9. CASE rows' = [rows EXCEPT ![r] = row] /\ known
  <2>1. HeldRows' = [HeldRows EXCEPT ![k] =
                       [state |-> "settled", reserved |-> rows[r].reserved, actual |-> actual]]
    BY <1>2, <1>5, <1>9, HeldUpdate
  <2>2. [HeldRows[k] EXCEPT !.state = "settled", !.actual = actual] =
          [state |-> "settled", reserved |-> rows[r].reserved, actual |-> actual]
    <3>1. rows[r].reserved \in Nat /\ rows[r].actual \in Nat
      BY <1>1 DEF Rows
    <3>2. HeldRows[k] \in MappedRows /\ HeldRows[k].reserved = rows[r].reserved
      BY <1>7, <3>1 DEF MappedRows
    <3>3. QED
      BY <3>2, SettledHeld
  <2>3. HeldRows' = [HeldRows EXCEPT ![k] = Alloc!SettledRow(HeldRows[k], actual)]
    BY <2>1, <2>2 DEF Alloc!SettledRow
  <2>4. HeldRows[k].state = "held"
    BY <1>7
  <2>5. Alloc!Settle(k, actual)
    BY <2>3, <2>4 DEF Alloc!Settle
  <2>6. QED
    BY <1>6, <1>9, <2>5 DEF Alloc!Next
<1>10. CASE rows' = [rows EXCEPT ![r] = row] /\ ~known
  <2>1. HeldRows' = [HeldRows EXCEPT ![k] =
            [state |-> "held", reserved |-> rows[r].reserved, actual |-> rows[r].actual]]
    BY <1>2, <1>3, <1>5, <1>10, HeldUpdate
  <2>2. HeldRows' = HeldRows
    BY <1>6, <1>7, <2>1 DEF HeldRows
  <2>3. QED
    BY <2>2
<1>11. QED
  BY <1>4, <1>8, <1>9, <1>10

LEMMA NextAllocation == Inv /\ Bounded /\ [Next]_vars => [Alloc!Next]_HeldRows
<1> SUFFICES ASSUME Inv, Bounded, [Next]_vars PROVE [Alloc!Next]_HeldRows
  OBVIOUS
<1>0. rows \in [Runs -> Rows] /\ calls.known \in Nat /\ guard.spent \in Nat
        /\ Me \in Runs
  BY Costs DEF Inv, Types, CallsType, GuardType
<1>1. ASSUME NEW fate \in Fates, RequireReady(fate)
      PROVE  [Alloc!Next]_HeldRows
  BY <1>0, <1>1, ReserveGrants, PlanAssumption DEF RequireReady
<1>2. ASSUME NEW fate \in Fates, FinishRun(fate)
      PROVE  [Alloc!Next]_HeldRows
  <2>1. CASE CanSettle(Me)
    <3>1. Settle(Me, TotalIsKnown, calls.known, fate)
      BY <1>2, <2>1 DEF FinishRun
    <3>2. TotalIsKnown => calls.known \in Actuals
      <4>1. TotalIsKnown => calls.known <= guard.spent /\ guard.spent <= PlanBound + Overrun
        BY <1>2 DEF FinishRun, FinishesRun, Bounded
      <4>2. PlanBound \in Nat /\ Overrun \in Nat
        BY PlanIsCases, Costs
      <4>3. TotalIsKnown => calls.known \in 0..(PlanBound + Overrun)
        BY <1>0, <4>1, <4>2
      <4>4. QED
        BY <4>3, PlanAssumption
    <3>3. TotalIsKnown \in BOOLEAN
      BY DEF TotalIsKnown
    <3>4. QED
      BY <1>0, <3>1, <3>2, <3>3, SettleSettles
  <2>2. CASE ~CanSettle(Me)
    BY <1>2, <2>2 DEF FinishRun, ledgerVars, HeldRows
  <2>3. QED
    BY <2>1, <2>2
<1>3. ASSUME NEW r \in Runs, NEW fate \in Fates, Peer(r, fate)
      PROVE  [Alloc!Next]_HeldRows
  <2>1. ASSUME NEW amount \in PeerAmounts, Reserve(r, amount, fate)
        PROVE  [Alloc!Next]_HeldRows
    BY <1>0, <2>1, ReserveGrants, RunAssumption
  <2>2. ASSUME NEW known \in BOOLEAN, NEW actual \in PeerActuals, Settle(r, known, actual, fate)
        PROVE  [Alloc!Next]_HeldRows
    <3>1. actual \in Actuals /\ actual \in Nat
      BY RunAssumption, LedgerAssumption
    <3>2. QED
      BY <1>0, <2>2, <3>1, SettleSettles
  <2>3. QED
    BY <1>3, <2>1, <2>2 DEF Peer
<1>4. CASE UNCHANGED rows
  BY <1>4 DEF HeldRows
<1>5. QED
  BY <1>1, <1>2, <1>3, <1>4 DEF Next, vars, ledgerVars, Start, AuthorizationRefused, GuardRefuses,
       NextCase, NextStrategy, NextGrade, EndCases, DeadlinePassed, RunnerRefuses, IntentLost,
       Dispatch, ReturnKnown, ReturnUnknown, ReturnLost, NothingToSettle, WriteRecord,
       WriteChecksum, FinishFails, Crash, Unchanged

\* Under torn, unsynced and failed appends, with uncertain runs and with other
\* runs on the same file, a bound is granted only under the ceiling, once per
\* run, and replaced at most once, by the run's cost.
THEOREM AllocationFileImplements == Spec => ImplementsAllocation
<1>1. Init => Alloc!Init
  BY DEF Init, LedgerInit, HeldRows, FreeRun, Alloc!Init, Alloc!Keys, Alloc!FreeRow
<1>2. QED
  BY <1>1, NextAllocation, Invariant, BoundedInvariant, PTL
     DEF Spec, ImplementsAllocation, Alloc!Spec
=============================================================================
