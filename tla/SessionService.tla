--------------------------- MODULE SessionService ---------------------------
(***************************************************************************)
(* What the API promises a client about its sessions, without handlers,    *)
(* rows or statements: every session that can still be refreshed has ONE   *)
(* refresh token that does it, and a token that has left service never     *)
(* comes back.  Sessions implements it, for any number of racing requests; *)
(* AuthClient has a server made of these steps, a statement each: a read   *)
(* may be old when the write comes, which is then a Discard.               *)
(***************************************************************************)
CONSTANT Token      \* refresh tokens

VARIABLES
  usable,   \* the sessions that can be refreshed, each with its token
  used      \* tokens that are, or were, in service, or were thrown away

vars == <<usable, used>>

Init == usable = {} /\ used = {}

\* A sign-in or sign-up opens a session, which is named for its first token.
Open(t) ==
  /\ t \notin used
  /\ usable' = usable \union {[id |-> t, token |-> t]}
  /\ used' = used \union {t}

\* A refresh replaces the token of a session by one never seen before.
Rotate(u, t) ==
  /\ u \in usable
  /\ t \notin used
  /\ usable' = (usable \ {u}) \union {[id |-> u.id, token |-> t]}
  /\ used' = used \union {t}

\* A token that was generated is not put in service: its request failed, or
\* another request rotated or ended the session first.
Discard(t) ==
  /\ t \notin used
  /\ used' = used \union {t}
  /\ UNCHANGED usable

\* A logout ends one session, the deletion of an account all of its sessions.
End(U) ==
  /\ U \subseteq usable
  /\ usable' = usable \ U
  /\ UNCHANGED used

Next ==
  \/ \E t \in Token : Open(t) \/ Discard(t)
  \/ \E u \in usable, t \in Token : Rotate(u, t)
  \/ \E U \in SUBSET usable : End(U)

Spec == Init /\ [][Next]_vars

=============================================================================
