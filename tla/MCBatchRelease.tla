--------------------------- MODULE MCBatchRelease ---------------------------
(* Instances of BatchRelease for TLC.                                      *)
EXTENDS BatchReleaseProperties

\* An integer batch, a percentage that does not divide, everything.
ThreeBatches == <<Int32(1), Percent(50), Percent(100)>>
TwoBatches == <<Percent(20), Percent(100)>>

OnePlan == {ThreeBatches}
TwoPlans == {ThreeBatches, TwoBatches}

NoFailures == Int32(0)
=============================================================================
