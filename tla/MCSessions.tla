----------------------------- MODULE MCSessions -----------------------------
(***************************************************************************)
(* Instances of Sessions for TLC.  Accounts and request slots are          *)
(* interchangeable: no action or property names one of them.               *)
(***************************************************************************)
EXTENDS Sessions, TLC

Symmetry == Permutations(Accounts) \union Permutations(Requests)

\* What a request was answered does not influence what follows: states that
\* differ only in answers are one.
View == <<clock, authRows, tokens, lastToken, loc, granted, superseded,
          revokedIds,
          [r \in Requests |-> IF pc[r] \in Answers THEN "idle" ELSE pc[r]]>>

=============================================================================
