---------------------------- MODULE StrategyLease ----------------------------
(***************************************************************************)
(* What a release promises about the strategy settings of a workload: it    *)
(* borrows them. The user's settings, kept in the object itself or, while    *)
(* they are lent, in the annotations a release writes, change only by the    *)
(* user's own writes and only to what he asked for. A release that lends or  *)
(* returns them never puts a value of its own in their place.                *)
(***************************************************************************)
CONSTANT Settings  \* the settings the user may ask for, one value per field

VARIABLES
  want,  \* what the user asked for last
  own,   \* the settings kept for the user
  lent   \* a release holds them

\* Each field is as it was, or as the user wants it in w.
Towards(w) == \A f \in DOMAIN own : own'[f] \in {own[f], w[f]}

Init == want \in Settings /\ own = want /\ lent = FALSE

\* A write of the user; the webhook may lend the settings at once.
UserWrites ==
  /\ want' \in Settings /\ DOMAIN own' = DOMAIN own /\ Towards(want')
  /\ lent' \in {lent, TRUE}

Lend == lent' = TRUE /\ UNCHANGED <<want, own>>

\* What is returned is what was kept, or what the user asked for since.
Return ==
  /\ lent /\ lent' = FALSE /\ UNCHANGED want
  /\ DOMAIN own' = DOMAIN own /\ Towards(want)

Next == UserWrites \/ Lend \/ Return

Spec == Init /\ [][Next]_<<want, own, lent>>
=============================================================================
