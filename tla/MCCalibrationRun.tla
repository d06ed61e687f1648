-------------------------- MODULE MCCalibrationRun --------------------------
(***************************************************************************)
(* An instance of CalibrationRun: a router with recovery and a fixed       *)
(* strategy, judged with a retry and sometimes adjudicated.                *)
(***************************************************************************)
EXTENDS CalibrationRun

MCBound == [p \in Purposes |-> IF p = "generation" THEN 2 ELSE 1]
MCRetries == [p \in {"judge", "adjudication"} |-> IF p = "judge" THEN 1 ELSE 0]
MCAmounts == {2, 4, PlanBound}
MCActuals == 0..(PlanBound + Overrun)
=============================================================================
