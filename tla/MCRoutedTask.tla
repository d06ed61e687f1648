---------------------------- MODULE MCRoutedTask ----------------------------
(***************************************************************************)
(* RoutedTask for TLC: three tiers, the cheapest without vision, two       *)
(* efforts; a hard floor, two preferred floors and a modifier.  The cases  *)
(* are requests at which these rules, the limits, the context and the      *)
(* caches pull in different directions.                                    *)
(***************************************************************************)
EXTENDS RoutedTask

Price(input, cached) ==
    [input |-> input, cached |-> cached, write |-> 2, output |-> input, threshold |-> 2,
     longInput |-> 2, longOutput |-> 1, longCached |-> None, longWrite |-> None]

Model(rank, efforts, capabilities, price) ==
    [rank |-> rank, enabled |-> TRUE, efforts |-> efforts, capabilities |-> capabilities,
     window |-> 4, output |-> 2, price |-> price]

ThreeTiers ==
    [luna  |-> Model(0, <<"low", "high">>, {"text"}, Price(1, 1)),
     terra |-> Model(1, <<"low", "high">>, {"text", "vision"}, Price(2, 1)),
     sol   |-> Model(2, <<"high", "max">>, {"text", "vision"}, Price(3, 1))]

Range2 == [c \in {"reasoning", "tools"} |-> [min |-> 0, max |-> 2]]

ThreeBands ==
    <<[min |-> 0, max |-> 1, candidates |-> <<Entry("luna", <<"low", "high">>)>>],
      [min |-> 2, max |-> 3, candidates |-> <<Entry("luna", <<"high">>),
                                              Entry("terra", <<"low", "high">>)>>],
      [min |-> 4, max |-> 4, candidates |-> <<Entry("sol", <<"high">>)>>]>>

AnyMatch == [families |-> {}, flags |-> {}, complexity |-> None, components |-> << >>]

TwoFloors ==
    <<[match |-> [AnyMatch EXCEPT !.families = {"coding"}, !.flags = {"substantive"}],
       strength |-> "hard", min |-> 1],
      [match |-> [AnyMatch EXCEPT !.flags = {"wide"}], strength |-> "preferred", min |-> 2]>>

TwoModifiers ==
    <<[match |-> [AnyMatch EXCEPT !.components = [tools |-> 2]], add |-> <<>>, preferred |-> 1],
      [match |-> [AnyMatch EXCEPT !.flags = {"exceptional"}],
       add |-> <<Entry("sol", <<"max">>)>>, preferred |-> None]>>

EffortOrder == <<"high", "low", "max">>

Profile(base, evaluator, domain) ==
    [base |-> base, semantic |-> None, evaluator |-> evaluator, domain |-> domain,
     validator |-> FALSE]

FourProfiles == 0 :> Profile(None, "none", FALSE) @@ 1 :> Profile(0, "light", FALSE)
             @@ 2 :> Profile(0, "strong", FALSE) @@ 3 :> Profile(0, "none", TRUE)

FourConsequences ==
    [low      |-> [profile |-> 0, approval |-> FALSE, clearance |-> FALSE],
     moderate |-> [profile |-> 1, approval |-> FALSE, clearance |-> FALSE],
     high     |-> [profile |-> 2, approval |-> TRUE, clearance |-> FALSE],
     critical |-> [profile |-> 3, approval |-> TRUE, clearance |-> TRUE]]

DefaultLimits == [NoLimits EXCEPT !.floor = 0, !.ceiling = 2, !.live = 1,
                                      !.cost = 10, !.deadline = 9]

Apps == [app |-> [NoLimits EXCEPT !.cost = 9]]

Healthy == [state |-> "HEALTHY", access |-> "verified", usable |-> TRUE]

Views == {Healthy, [Healthy EXCEPT !.state = "DEGRADED"], [Healthy EXCEPT !.state = "UNHEALTHY"],
          [Healthy EXCEPT !.access = "unknown"]}

Environment ==
    [synthetic |-> FALSE, application |-> "app", budget |-> NoLimits, overlay |-> NoLimits,
     validation |-> None, mocks |-> {}, evaluatorCost |-> 1, domainCost |-> 1,
     toolCharge |-> FALSE, toolCost |-> None, minimumAction |-> 1, remaining |-> None,
     fresh |-> TRUE, recoveryBounded |-> TRUE, durable |-> TRUE, versioned |-> TRUE,
     models |-> [m \in DOMAIN ThreeTiers |-> Healthy]]

Ask == [requirements |-> {"text"}, input |-> 1, output |-> 1, cached |-> 0, written |-> 0,
        evidence |-> FALSE, sideEffect |-> FALSE, consequence |-> "low", validation |-> None,
        approved |-> FALSE, cleared |-> FALSE, constraints |-> NoLimits]

Asks == {Ask,
         [Ask EXCEPT !.requirements = {"vision"}],
         [Ask EXCEPT !.consequence = "moderate"],
         [Ask EXCEPT !.consequence = "high", !.approved = TRUE],
         [Ask EXCEPT !.consequence = "critical"],
         [Ask EXCEPT !.input = 2, !.cached = 2, !.evidence = TRUE],
         [Ask EXCEPT !.input = 3, !.written = 1],
         [Ask EXCEPT !.input = 4],
         [Ask EXCEPT !.constraints.cost = 4],
         [Ask EXCEPT !.constraints.ceiling = 1],
         [Ask EXCEPT !.constraints.floor = 2, !.constraints.cost = 5]}

Class(family, flags, reasoning, tools) ==
    [family |-> family, flags |-> flags, supplied |-> None,
     components |-> [reasoning |-> reasoning, tools |-> tools]]

Classes == {Class("chat", {}, 0, 0), Class("chat", {"wide"}, 1, 1),
            Class("coding", {"substantive"}, 1, 0), Class("coding", {"substantive", "wide"}, 1, 1),
            Class("chat", {}, 0, 2), Class("coding", {"exceptional"}, 1, 2),
            Class("chat", {}, 2, 2)}

AllCases == [req : Asks, cls : Classes]

SomeFailures ==
    {[type |-> "QUALITY_FAILURE", retryable |-> FALSE, after |-> None, validated |-> v] :
        v \in BOOLEAN}
    \cup {[type |-> "TIMEOUT", retryable |-> TRUE, after |-> a, validated |-> FALSE] :
            a \in {None, 4}}
    \cup {[type |-> "PROVIDER_FAILURE", retryable |-> FALSE, after |-> None, validated |-> FALSE],
          [type |-> "UNKNOWN_FAILURE", retryable |-> FALSE, after |-> None, validated |-> FALSE]}
=============================================================================
