---------------------------- MODULE MCAuthScreens ----------------------------
(***************************************************************************)
(* Instances of AuthScreens for TLC.  The slots for requests are           *)
(* interchangeable: no action or property names one of them.               *)
(***************************************************************************)
EXTENDS AuthScreens, TLC

Symmetry == Permutations(Requests)

=============================================================================
