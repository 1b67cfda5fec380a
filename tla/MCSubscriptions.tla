-------------------------- MODULE MCSubscriptions --------------------------
(***************************************************************************)
(* Subscriptions for TLC: two sessions, a campaign of up to two variables  *)
(* and the trigger share one controller variable and one network point.    *)
(***************************************************************************)
EXTENDS Subscriptions, TLC

Symmetry == Permutations(Sessions)
=============================================================================
