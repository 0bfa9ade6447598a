---------------------------- MODULE MCImageUpload ----------------------------
(***************************************************************************)
(* Instances of ImageUpload for TLC.  Sizes and runs are interchangeable:  *)
(* no action or property names one of them.                                *)
(***************************************************************************)
EXTENDS ImageUpload, TLC

Symmetry == Permutations(Sizes) \union Permutations(Uploads)

=============================================================================
