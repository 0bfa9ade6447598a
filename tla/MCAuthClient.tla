---------------------------- MODULE MCAuthClient ----------------------------
(***************************************************************************)
(* Instances of AuthClient for TLC.  Calls and runs of logOut are          *)
(* interchangeable: no action or safety property names one of them.        *)
(***************************************************************************)
EXTENDS AuthClient, TLC

Symmetry == Permutations(Calls) \union Permutations(LogOuts)

\* The pairs that somebody may yet present.
Held == {pair, disk.pair, refresh.pair} \union orphans
          \union {calls[c].pair : c \in Calls}
          \union {logOuts[l].pair : l \in LogOuts}

\* isLoading influences nothing but what is shown; which session a pair is of, and
\* the state of a pair that nobody holds, influence nothing at all: states that
\* differ only in these are one.
View == <<pair, authed, hydrated, disk, refreshPromise, refresh, calls, logOuts,
          signingIn, lastPair, Held \intersect live, Held \intersect over,
          [n \in Held \ {0} |-> age[n]], orphans, due, faults, excused>>

=============================================================================
