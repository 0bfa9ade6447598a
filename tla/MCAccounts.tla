----------------------------- MODULE MCAccounts -----------------------------
(***************************************************************************)
(* Accounts for TLC.  Its run checks a liveness property beside the safety *)
(* properties, so that no symmetry is used.                                *)
(***************************************************************************)
EXTENDS Accounts

=============================================================================
