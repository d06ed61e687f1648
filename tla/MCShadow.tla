------------------------------ MODULE MCShadow ------------------------------
\* Shadow for TLC: two tasks that together do not fit under the period ceilings.
EXTENDS Shadow, TLC

ThreeActions == <<"generation", "v0", "judge">>
Bounds == [a \in Names |-> 1]
Authority == [task |-> 3, period |-> 4]

\* A task sampled and ready, with evaluators and without, and two that are not.
Ready == [draw |-> 10, holds |-> Conditions, refs |-> TRUE,
          blockers |-> {"recovery_unconfigured", "required_evaluator"}]
Cases == {Ready,
          [Ready EXCEPT !.refs = FALSE, !.blockers = {}, !.holds = Conditions \ EvaluatorsReady],
          [Ready EXCEPT !.holds = Conditions \ {"fresh snapshot"}],
          [Ready EXCEPT !.draw = 50]}

Symmetric == Permutations(Tasks)
=============================================================================
