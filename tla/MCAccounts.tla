----------------------------- MODULE MCAccounts -----------------------------
(***************************************************************************)
(* A small instance of Accounts: two users, two requests at a time.        *)
(***************************************************************************)
EXTENDS Accounts, TLC

\* The requests are interchangeable; Root is not.
Symmetry == Permutations(Call)
=============================================================================
