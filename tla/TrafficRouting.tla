--------------------------- MODULE TrafficRouting ---------------------------
(***************************************************************************)
(* The traffic-routing manager (pkg/trafficrouting/manager.go) over the    *)
(* ingress provider (pkg/trafficrouting/network/ingress) and the grace     *)
(* expectations (pkg/util/grace).                                          *)
(*                                                                         *)
(* Every operation of the manager that is wrapped in RunWithGraceSeconds   *)
(* is idempotent and answers "retry" or "done".  It is modelled by two     *)
(* definitions: a state predicate XDone, true when the call changes        *)
(* nothing and answers "done", and an action X, what the call does when it *)
(* answers "retry".  The callers sequence operations by these predicates,  *)
(* as the code does with the returned booleans.                            *)
(***************************************************************************)
EXTENDS Integers, FiniteSets, PodRevisions

CONSTANTS
  HasTrafficRoutings,           \* len(spec.strategy.trafficRoutings) > 0
  DisableGenerateCanaryService  \* canary Service is the stable Service

ASSUME RoutingAssumption ==
  /\ HasTrafficRoutings \in BOOLEAN
  /\ DisableGenerateCanaryService \in BOOLEAN

VARIABLES
  stableSel,   \* revision in the stable Service's selector, NoRevision: none
  canarySvc,   \* revision the canary Service selects, NoRevision: no Service
  route,       \* weight on the canary ingress, NoRoute: no canary ingress
  grace,       \* actions whose grace period the controller still waits for
  settling     \* actions whose effect the network has not consumed yet

netVars == <<stableSel, canarySvc, route>>
trVars == <<stableSel, canarySvc, route, grace, settling>>

\* The canary ingress does not exist.
NoRoute == -1
\* RouteAllTrafficToNewVersion asks for "100%".
FullTraffic == 100

\* The action names given to RunWithGraceSeconds.
GraceActions == {"updateRoute", "restoreGateway", "removeCanaryService",
                 "patchService", "restoreService"}

TrafficTypeOK ==
  /\ stableSel \in RevisionsOrNone
  /\ canarySvc \in RevisionsOrNone
  /\ route \in {NoRoute} \cup (0 .. FullTraffic)
  /\ grace \subseteq GraceActions
  /\ settling \subseteq GraceActions

TrafficInit ==
  /\ stableSel = NoRevision
  /\ canarySvc = NoRevision
  /\ route = NoRoute
  /\ grace = {}
  /\ settling = {}

-----------------------------------------------------------------------------
(* Grace expectations.  An elapsed expectation and none at all are the same *)
(* to SatisfiedExpectations, so grace holds only the pending ones.          *)

\* Expect: called when the wrapped function reports a modification.
Expect(a) ==
  /\ grace' = grace \cup {a}
  /\ settling' = settling \cup {a}

\* SatisfiedExpectations (Observe then removes the entry, if any).
SatisfiedExpectations(a) == a \notin grace

\* graceSeconds pass after a modification.
GraceElapses(a) ==
  /\ a \in settling
  /\ settling' = settling \ {a}
  /\ grace' = grace \ {a}
  /\ UNCHANGED netVars

\* DefaultGraceExpectations lives in the controller's memory.
ForgetExpectations ==
  /\ grace # {}
  /\ grace' = {}
  /\ UNCHANGED <<netVars, settling>>

-----------------------------------------------------------------------------
(* The ingress provider.                                                   *)

\* EnsureRoutes answers true: the ingress carries the weight already, or
\* weight 0 is asked for and there is no canary ingress.
RoutesVerified(w) == route = w \/ (w = 0 /\ route = NoRoute)

\* EnsureRoutes answers false: it creates the canary ingress with weight 0,
\* or patches the weight of the existing one.
EnsureRoutes(w) == route' = IF route = NoRoute THEN 0 ELSE w

-----------------------------------------------------------------------------
(* Operations of the manager.                                              *)

RestoreStableServiceDone(labelKnown) ==
  \/ ~HasTrafficRoutings
  \/ /\ stableSel = NoRevision \/ ~labelKnown
     /\ SatisfiedExpectations("restoreService")

\* Without the workload's RevisionLabelKey the selector entry looked up is
\* Selector[""], which is always empty: nothing is patched.
RestoreStableService(labelKnown) ==
  IF stableSel # NoRevision /\ labelKnown
  THEN /\ stableSel' = NoRevision
       /\ Expect("restoreService")
       /\ UNCHANGED <<canarySvc, route>>
  ELSE UNCHANGED trVars

PatchStableServiceDone(stable) ==
  \/ ~HasTrafficRoutings
  \/ /\ ~DisableGenerateCanaryService
     /\ stableSel = stable
     /\ SatisfiedExpectations("patchService")

PatchStableService(stable) ==
  IF ~DisableGenerateCanaryService /\ stableSel # stable
  THEN /\ stableSel' = stable
       /\ Expect("patchService")
       /\ UNCHANGED <<canarySvc, route>>
  ELSE UNCHANGED trVars

\* Variant with a bug: the grace period is not waited for.
RestoreGatewayAtOnce == ~HasTrafficRoutings \/ route = NoRoute

RestoreGatewayDone ==
  \/ ~HasTrafficRoutings
  \/ /\ route = NoRoute
     /\ SatisfiedExpectations("restoreGateway")

RestoreGateway ==
  IF route # NoRoute
  THEN /\ route' = NoRoute
       /\ Expect("restoreGateway")
       /\ UNCHANGED <<stableSel, canarySvc>>
  ELSE UNCHANGED trVars

RemoveCanaryServiceDone ==
  \/ ~HasTrafficRoutings
  \/ DisableGenerateCanaryService
  \/ /\ canarySvc = NoRevision
     /\ SatisfiedExpectations("removeCanaryService")

RemoveCanaryService ==
  IF canarySvc # NoRevision
  THEN /\ canarySvc' = NoRevision
       /\ Expect("removeCanaryService")
       /\ UNCHANGED <<stableSel, route>>
  ELSE UNCHANGED trVars

RouteAllTrafficToNewVersionDone ==
  \/ ~HasTrafficRoutings
  \/ /\ RoutesVerified(FullTraffic)
     /\ SatisfiedExpectations("updateRoute")

RouteAllTrafficToNewVersion ==
  IF ~RoutesVerified(FullTraffic)
  THEN /\ EnsureRoutes(FullTraffic)
       /\ Expect("updateRoute")
       /\ UNCHANGED <<stableSel, canarySvc>>
  ELSE UNCHANGED trVars

\* FinalisingTrafficRouting: stable Service, then gateway, then canary
\* Service; the first operation that asks for a retry ends the call.
FinalisingTrafficRoutingDone(labelKnown) ==
  /\ RestoreStableServiceDone(labelKnown)
  /\ RestoreGatewayDone
  /\ RemoveCanaryServiceDone

\* Variant with a bug: the canary Service goes before the route to it.
FinalisingServiceFirst(labelKnown) ==
  IF ~RestoreStableServiceDone(labelKnown) THEN RestoreStableService(labelKnown)
  ELSE IF ~RemoveCanaryServiceDone THEN RemoveCanaryService
  ELSE RestoreGateway

FinalisingTrafficRouting(labelKnown) ==
  IF ~RestoreStableServiceDone(labelKnown) THEN RestoreStableService(labelKnown)
  ELSE IF ~RestoreGatewayDone THEN RestoreGateway
  ELSE RemoveCanaryService

\* The Services DoTrafficRouting wants before it touches the routes.
ServicesReady(stable, canary) ==
  \/ DisableGenerateCanaryService
  \/ canarySvc = canary /\ stableSel = stable

DoTrafficRoutingDone(stable, canary, weight, recent) ==
  \/ ~HasTrafficRoutings
  \/ weight = NoRoute
  \/ /\ ~recent
     /\ DisableGenerateCanaryService \/ (stable # NoRevision /\ canary # NoRevision)
     /\ ServicesReady(stable, canary)
     /\ RoutesVerified(weight)

\* DoTrafficRouting modifies the Services (and restarts the grace period).
DoTrafficRoutingPatches(stable, canary, recent) ==
  /\ ~recent
  /\ ~DisableGenerateCanaryService
  /\ stable # NoRevision /\ canary # NoRevision
  /\ ~ServicesReady(stable, canary)

\* DoTrafficRouting while it answers "not done": it waits for the grace
\* period or for the hashes, or patches the Services, or asks for the routes.
DoTrafficRouting(stable, canary, weight, recent) ==
  \/ /\ \/ recent
        \/ ~DisableGenerateCanaryService /\ NoRevision \in {stable, canary}
     /\ UNCHANGED trVars
  \/ /\ DoTrafficRoutingPatches(stable, canary, recent)
     /\ canarySvc' = canary
     /\ stableSel' = stable
     /\ UNCHANGED <<route, grace, settling>>
  \/ /\ ~recent
     /\ DisableGenerateCanaryService \/ NoRevision \notin {stable, canary}
     /\ ServicesReady(stable, canary)
     /\ EnsureRoutes(weight)
     /\ UNCHANGED <<stableSel, canarySvc, grace, settling>>
=============================================================================
