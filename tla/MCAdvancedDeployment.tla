------------------------ MODULE MCAdvancedDeployment ------------------------
(* Instances of AdvancedDeployment for TLC.                                *)
EXTENDS AdvancedDeployment

Steps == {Int32(0), Int32(1), Percent(60), Percent(100)}
\* Surge only, unavailability only.
TwoBudgets == {[surge |-> Int32(1), unavailable |-> Int32(0)],
               [surge |-> Int32(0), unavailable |-> Percent(25)]}
NoSurge == {[surge |-> Int32(0), unavailable |-> Percent(25)]}
=============================================================================
