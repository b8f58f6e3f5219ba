------------------------ MODULE MCInstanceLifecycle ------------------------
(***************************************************************************)
(* TLC's instances of InstanceLifecycle.  Calls are interchangeable.       *)
(***************************************************************************)
EXTENDS InstanceLifecycle, TLC

CallSymmetry == Permutations(Call)
=============================================================================
