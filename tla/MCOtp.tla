-------------------------------- MODULE MCOtp --------------------------------
(***************************************************************************)
(* Instances of Otp for TLC.  Phones, codes and request slots are          *)
(* interchangeable: no action or property names one of them.               *)
(***************************************************************************)
EXTENDS Otp, TLC

Symmetry == Permutations(Phones) \union Permutations(Codes)
              \union Permutations(Requests)

\* Neither what a request was answered nor which messages have arrived influences
\* what follows, nor do the tallies once requests have overlapped: states that
\* differ only in these are one.
View == <<clock, tables, loc, texted, phoneOf, spent, replaced, overlapped,
          {n \in Gen : accepted[n] > 0},
          IF overlapped THEN <<>> ELSE tallies,
          [r \in Requests |-> IF pc[r] \in Answers THEN "idle" ELSE pc[r]]>>

=============================================================================
