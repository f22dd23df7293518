---------------------------- MODULE MCRunLifecycle ----------------------------
(***************************************************************************)
(* Constant values for the TLC runs of RunLifecycle.                       *)
(***************************************************************************)
EXTENDS RunLifecycle, TLC

\* Workers differ only in the order they are launched in.
WorkersAlike == Permutations(Worker)
==============================================================================
