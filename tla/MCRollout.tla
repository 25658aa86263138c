----------------------------- MODULE MCRollout -----------------------------
EXTENDS RolloutProperties, TLC

\* Revisions are interchangeable: no definition chooses one of them.
Symmetry == Permutations(Revisions)

Step(replicas, traffic, auto, full) ==
  [replicas |-> replicas, traffic |-> traffic, auto |-> auto, full |-> full]

\* Two replicas: a routed canary pod, then everything without routing.
CanaryThenAll == {<<Step(1, 20, FALSE, FALSE), Step(2, NoRoute, FALSE, TRUE)>>}
\* The same, with pauses that end by themselves.
CanaryThenAllAuto == {<<Step(1, 20, TRUE, FALSE), Step(2, NoRoute, TRUE, TRUE)>>}
\* Every step routed.
AllRouted == {<<Step(1, 20, FALSE, FALSE), Step(2, 60, FALSE, FALSE)>>}
AllRoutedAuto == {<<Step(1, 20, TRUE, FALSE), Step(2, 60, TRUE, FALSE)>>}
\* A canary plan or a routed one.
CanaryOrRouted == CanaryThenAll \cup AllRouted
\* Three replicas, every step routed: plans of equal length, the second with
\* fewer pods in the end than the first, and a shorter one.
RoutedPlans == {<<Step(1, 20, FALSE, FALSE), Step(2, 60, FALSE, FALSE)>>,
                <<Step(1, 40, FALSE, FALSE), Step(1, 60, FALSE, FALSE)>>,
                <<Step(2, 40, FALSE, FALSE)>>}
\* Batches without traffic routing.
NoRouting == {<<Step(1, NoRoute, FALSE, FALSE), Step(2, NoRoute, FALSE, TRUE)>>}
NoRoutingAuto == {<<Step(1, NoRoute, TRUE, FALSE), Step(2, NoRoute, TRUE, TRUE)>>}
\* A single routed step.
OnlyStep == {<<Step(1, 20, TRUE, FALSE)>>}
=============================================================================
