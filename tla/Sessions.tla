------------------------------ MODULE Sessions ------------------------------
(***************************************************************************)
(* Refresh-token sessions of the API                                       *)
(* (apps/api/src/modules/auth/handlers.ts: issueTokens, refreshTokens,     *)
(* logout; the `tokens' table of apps/api/src/db/schema.ts).               *)
(*                                                                         *)
(* A session is a row of `tokens'.  Handlers run concurrently, one per     *)
(* HTTP request, in stateless Workers; the database is reached over HTTP   *)
(* (neon-http), so every statement is atomic and nothing holds a           *)
(* transaction across two of them.  An action is therefore either one SQL  *)
(* statement, or the JavaScript a handler runs between two statements      *)
(* (which reads the clock and computes the values it is about to send).    *)
(* Time may pass, and other requests may act, between any two actions.     *)
(***************************************************************************)
EXTENDS Integers, FiniteSets

CONSTANTS
  Accounts,              \* ids of rows of the `auth' table
  Requests,              \* slots for HTTP requests in flight at one time
  REFRESH_TOKEN_EXPIRY,  \* AUTH_CONFIG.REFRESH_TOKEN_EXPIRY_DAYS, in ticks
  REFRESH_COOLDOWN,      \* AUTH_CONFIG.REFRESH_COOLDOWN_MINUTES, in ticks
  MaxTokens,             \* bound: random tokens generated in one behaviour
  MaxClock               \* bound: last tick of the clock

ASSUME ConfigAssumption ==
  /\ REFRESH_TOKEN_EXPIRY \in Nat
  /\ REFRESH_COOLDOWN \in Nat
  /\ MaxTokens \in Nat
  /\ MaxClock \in Nat

VARIABLES
  clock,       \* the time now() and the database's now() return
  authRows,    \* ids present in the `auth' table
  tokens,      \* the `tokens' table, a set of rows
  lastToken,   \* how many tokens generateRefreshToken has returned
  pc,          \* pc[r]: the statement request r is at, or the answer it gave
  loc,         \* loc[r]: the handler's local variables
  granted,     \* the TokenResponse bodies that clients have received
  superseded,  \* history: tokens that a rotation has replaced
  revokedIds   \* history: sessions that a logout has revoked

vars == <<clock, authRows, tokens, lastToken, pc, loc, granted, superseded,
          revokedIds>>

-----------------------------------------------------------------------------
(***************************************************************************)
(* Data.  generateRefreshToken returns a new value every time, so its n-th *)
(* result is the number n; 0 stands for "no token yet".  A row's primary   *)
(* key (createId) is as unique as its first token, whose number it takes.  *)
(* revokedAt is only ever compared with null: here a Boolean.              *)
(***************************************************************************)
Token == 1 .. MaxTokens

Row == [id : Token, authId : Accounts, token : Token, expiresAt : Int,
        lastUsedAt : Int, revoked : BOOLEAN]

NoRow == [id |-> 0]   \* no row read yet

\* A handler's local variables: the token presented; the row it read, or is
\* about to insert; the token it made, and when; as history, whether the
\* token presented was dead already when its row was read.
Locals == [tok : Token \union {0}, row : Row \union {NoRow},
           newToken : Token \union {0}, madeAt : Int, late : BOOLEAN]

NoLocals == [tok |-> 0, row |-> NoRow, newToken |-> 0, madeAt |-> 0,
             late |-> FALSE]

\* A request that is answered has no locals left; its slot may be used again.
Answers == {"idle", "granted", "refused", "limited", "loggedOut", "error"}

InFlight == {"issueInsert", "issueReply",
             "refreshCheck", "refreshAuth", "refreshDecide", "refreshUpdate",
             "refreshReply", "logoutUpdate"}

\* SELECT ... FROM tokens WHERE token = t
RowsWithToken(t) == {row \in tokens : row.token = t}

\* The refresh tokens that some client holds, and may therefore present.
HeldTokens == {g.refreshToken : g \in granted}

\* The session a held token was handed out for.
SessionsOf(t) == {g.id : g \in {h \in granted : h.refreshToken = t}}

\* Token t was replaced by a rotation, or its session revoked, before now.
Late(t) == t \in superseded \/ SessionsOf(t) \intersect revokedIds # {}

Init ==
  /\ clock = 0
  /\ authRows = Accounts
  /\ tokens = {}
  /\ lastToken = 0
  /\ pc = [r \in Requests |-> "idle"]
  /\ loc = [r \in Requests |-> NoLocals]
  /\ granted = {}
  /\ superseded = {}
  /\ revokedIds = {}

\* Request r is answered a.
Answer(r, a) ==
  /\ pc' = [pc EXCEPT ![r] = a]
  /\ loc' = [loc EXCEPT ![r] = NoLocals]

\* Request r goes on to its next statement s.
Goto(r, s) == pc' = [pc EXCEPT ![r] = s]

-----------------------------------------------------------------------------
(***************************************************************************)
(* issueTokens, called by the four sign-in and sign-up handlers once they  *)
(* have found or created the account.                                      *)
(***************************************************************************)
IssueStart(r, a) ==
  /\ pc[r] \in Answers
  /\ a \in authRows
  /\ lastToken < MaxTokens
  /\ lastToken' = lastToken + 1
  /\ LET row == [id |-> lastToken + 1, authId |-> a, token |-> lastToken + 1,
                 expiresAt |-> clock + REFRESH_TOKEN_EXPIRY,
                 lastUsedAt |-> clock, revoked |-> FALSE]
     IN  loc' = [loc EXCEPT ![r] =
                   [tok |-> 0, row |-> row, newToken |-> lastToken + 1,
                    madeAt |-> clock, late |-> FALSE]]
  /\ Goto(r, "issueInsert")
  /\ UNCHANGED <<clock, authRows, tokens, granted, superseded, revokedIds>>

\* INSERT INTO tokens: last_used_at defaults to the database's now(), and the
\* foreign key refuses a row whose account is gone.
IssueInsert(r) ==
  /\ pc[r] = "issueInsert"
  /\ \/ /\ loc[r].row.authId \in authRows
        /\ tokens' = tokens \union {[loc[r].row EXCEPT !.lastUsedAt = clock]}
        /\ Goto(r, "issueReply")
        /\ UNCHANGED loc
     \/ /\ loc[r].row.authId \notin authRows
        /\ Answer(r, "error")
        /\ UNCHANGED tokens
  /\ UNCHANGED <<clock, authRows, lastToken, granted, superseded, revokedIds>>

\* The TokenResponse that issueTokens and refreshTokens end in.
Grant(r) ==
  /\ granted' = granted \union {[id |-> loc[r].row.id,
                                 refreshToken |-> loc[r].newToken]}
  /\ Answer(r, "granted")
  /\ UNCHANGED <<clock, authRows, tokens, lastToken, superseded, revokedIds>>

IssueReply(r) == pc[r] = "issueReply" /\ Grant(r)

-----------------------------------------------------------------------------
(***************************************************************************)
(* refreshTokens                                                           *)
(***************************************************************************)
\* Mutant: the revocation is not looked at.
RefreshReadRevoked(r, t) ==
  /\ pc[r] \in Answers
  /\ \/ /\ RowsWithToken(t) = {}
        /\ Answer(r, "refused")
     \/ \E row \in RowsWithToken(t) :
          /\ loc' = [loc EXCEPT ![r] =
                       [tok |-> t, row |-> row, newToken |-> 0, madeAt |-> 0,
                        late |-> Late(t)]]
          /\ Goto(r, "refreshCheck")
  /\ UNCHANGED <<clock, authRows, tokens, lastToken, granted, superseded,
                 revokedIds>>

\* SELECT the row of the presented token; a missing or revoked row is refused.
RefreshRead(r, t) ==
  /\ pc[r] \in Answers
  /\ \/ /\ \A row \in RowsWithToken(t) : row.revoked
        /\ Answer(r, "refused")
     \/ \E row \in RowsWithToken(t) :
          /\ ~row.revoked
          /\ loc' = [loc EXCEPT ![r] =
                       [tok |-> t, row |-> row, newToken |-> 0, madeAt |-> 0,
                        late |-> Late(t)]]
          /\ Goto(r, "refreshCheck")
  /\ UNCHANGED <<clock, authRows, tokens, lastToken, granted, superseded,
                 revokedIds>>

\* token.expiresAt < now()
RefreshCheck(r) ==
  /\ pc[r] = "refreshCheck"
  /\ \/ /\ loc[r].row.expiresAt < clock
        /\ Answer(r, "refused")
     \/ /\ loc[r].row.expiresAt >= clock
        /\ Goto(r, "refreshAuth")
        /\ UNCHANGED loc
  /\ UNCHANGED <<clock, authRows, tokens, lastToken, granted, superseded,
                 revokedIds>>

\* SELECT FROM auth WHERE id = token.authId
RefreshAuth(r) ==
  /\ pc[r] = "refreshAuth"
  /\ \/ /\ loc[r].row.authId \notin authRows
        /\ Answer(r, "refused")
     \/ /\ loc[r].row.authId \in authRows
        /\ Goto(r, "refreshDecide")
        /\ UNCHANGED loc
  /\ UNCHANGED <<clock, authRows, tokens, lastToken, granted, superseded,
                 revokedIds>>

RecentlyRefreshed(lastUsedAt) == clock - lastUsedAt < REFRESH_COOLDOWN

\* Mutant: the token is answered without having been generated.
RefreshDecideNoToken(r) ==
  /\ pc[r] = "refreshDecide"
  /\ ~RecentlyRefreshed(loc[r].row.lastUsedAt)
  /\ loc' = [loc EXCEPT ![r] = [@ EXCEPT !.madeAt = clock]]
  /\ Goto(r, "refreshUpdate")
  /\ UNCHANGED <<clock, authRows, tokens, lastToken, granted, superseded,
                 revokedIds>>

\* Mutant: generateRefreshToken returns the same token twice.
RefreshDecideSameToken(r) ==
  /\ pc[r] = "refreshDecide"
  /\ ~RecentlyRefreshed(loc[r].row.lastUsedAt)
  /\ loc' = [loc EXCEPT ![r] = [@ EXCEPT !.newToken = lastToken,
                                         !.madeAt = clock]]
  /\ Goto(r, "refreshUpdate")
  /\ UNCHANGED <<clock, authRows, tokens, lastToken, granted, superseded,
                 revokedIds>>

\* The cooldown check, then the values of the UPDATE about to be sent.
RefreshDecide(r) ==
  /\ pc[r] = "refreshDecide"
  /\ \/ /\ RecentlyRefreshed(loc[r].row.lastUsedAt)
        /\ Answer(r, "limited")
        /\ UNCHANGED lastToken
     \/ /\ ~RecentlyRefreshed(loc[r].row.lastUsedAt)
        /\ lastToken < MaxTokens
        /\ lastToken' = lastToken + 1
        /\ loc' = [loc EXCEPT ![r] = [@ EXCEPT !.newToken = lastToken + 1,
                                               !.madeAt = clock]]
        /\ Goto(r, "refreshUpdate")
  /\ UNCHANGED <<clock, authRows, tokens, granted, superseded, revokedIds>>

\* Mutant: the whole row is written anew, its revocation forgotten.
RotatedUnrevoked(row, l) ==
  [id |-> row.id, authId |-> row.authId, revoked |-> FALSE,
   token |-> l.newToken, expiresAt |-> l.madeAt + REFRESH_TOKEN_EXPIRY,
   lastUsedAt |-> l.madeAt]

\* Mutant: the token is left out of the SET clause.
RotatedSameToken(row, l) ==
  [id |-> row.id, authId |-> row.authId, revoked |-> row.revoked,
   token |-> row.token, expiresAt |-> l.madeAt + REFRESH_TOKEN_EXPIRY,
   lastUsedAt |-> l.madeAt]

\* What the UPDATE of a request with locals l makes of a row.
Rotated(row, l) ==
  [id |-> row.id, authId |-> row.authId, revoked |-> row.revoked,
   token |-> l.newToken, expiresAt |-> l.madeAt + REFRESH_TOKEN_EXPIRY,
   lastUsedAt |-> l.madeAt]

\* Mutant: UPDATE tokens SET ... WHERE id = <the id of the row read>.
RefreshUpdateById(r) ==
  /\ pc[r] = "refreshUpdate"
  /\ tokens' = {IF row.id = loc[r].row.id THEN Rotated(row, loc[r]) ELSE row :
                  row \in tokens}
  /\ superseded' = superseded \union
                     {row.token : row \in {q \in tokens : q.id = loc[r].row.id}}
  /\ Goto(r, "refreshReply")
  /\ UNCHANGED <<clock, authRows, lastToken, loc, granted, revokedIds>>

\* Mutant: the new token is inserted as a row, and the old row is left.
RefreshUpdateInserts(r) ==
  /\ pc[r] = "refreshUpdate"
  /\ tokens' = tokens \union
                 {Rotated(row, loc[r]) : row \in RowsWithToken(loc[r].tok)}
  /\ Goto(r, "refreshReply")
  /\ UNCHANGED <<clock, authRows, lastToken, loc, granted, superseded, revokedIds>>

\* UPDATE tokens SET ... WHERE token = <the presented token>.  The handler
\* does not look at the number of rows updated, which may be zero.
RefreshUpdate(r) ==
  /\ pc[r] = "refreshUpdate"
  /\ tokens' = {IF row.token = loc[r].tok THEN Rotated(row, loc[r]) ELSE row :
                  row \in tokens}
  /\ superseded' = superseded \union
                     {row.token : row \in RowsWithToken(loc[r].tok)}
  /\ Goto(r, "refreshReply")
  /\ UNCHANGED <<clock, authRows, lastToken, loc, granted, revokedIds>>

RefreshReply(r) == pc[r] = "refreshReply" /\ Grant(r)

-----------------------------------------------------------------------------
(***************************************************************************)
(* logout                                                                  *)
(***************************************************************************)
LogoutRead(r, t) ==
  /\ pc[r] \in Answers
  /\ \/ /\ \A row \in RowsWithToken(t) : row.revoked
        /\ Answer(r, "refused")
     \/ \E row \in RowsWithToken(t) :
          /\ ~row.revoked
          /\ loc' = [loc EXCEPT ![r] =
                       [tok |-> t, row |-> row, newToken |-> 0, madeAt |-> 0,
                        late |-> FALSE]]
          /\ Goto(r, "logoutUpdate")
  /\ UNCHANGED <<clock, authRows, tokens, lastToken, granted, superseded,
                 revokedIds>>

\* Mutant: "Logged out" is answered before the UPDATE is sent, and it is lost.
LogoutNoUpdate(r) ==
  /\ pc[r] = "logoutUpdate"
  /\ Answer(r, "loggedOut")
  /\ UNCHANGED <<clock, authRows, tokens, lastToken, granted, superseded,
                 revokedIds>>

\* UPDATE tokens SET revoked_at WHERE token = <the presented token>, again
\* without a look at the number of rows; then 200 "Logged out".
LogoutUpdate(r) ==
  /\ pc[r] = "logoutUpdate"
  /\ tokens' = {IF row.token = loc[r].tok THEN [row EXCEPT !.revoked = TRUE]
                                          ELSE row : row \in tokens}
  /\ revokedIds' = revokedIds \union
                     {row.id : row \in RowsWithToken(loc[r].tok)}
  /\ Answer(r, "loggedOut")
  /\ UNCHANGED <<clock, authRows, lastToken, granted, superseded>>

-----------------------------------------------------------------------------
(***************************************************************************)
(* The environment.                                                        *)
(***************************************************************************)
\* A failed statement (errorHandler answers 500 or 503), an answer of the
\* database that is lost, or the end of the Worker: the request stops where
\* it is, before or after the statement took effect.
Fail(r) ==
  /\ pc[r] \in InFlight
  /\ Answer(r, "error")
  /\ UNCHANGED <<clock, authRows, tokens, lastToken, granted, superseded,
                 revokedIds>>

\* A sign-up whose profile insert failed deletes its auth row; the foreign
\* key deletes the sessions of the account with it (ON DELETE CASCADE).
AuthDeleted(a) ==
  /\ a \in authRows
  /\ authRows' = authRows \ {a}
  /\ tokens' = {row \in tokens : row.authId # a}
  /\ UNCHANGED <<clock, lastToken, pc, loc, granted, superseded, revokedIds>>

Tick ==
  /\ clock < MaxClock
  /\ clock' = clock + 1
  /\ UNCHANGED <<authRows, tokens, lastToken, pc, loc, granted, superseded,
                 revokedIds>>

Handler(r) ==
  \/ \E a \in Accounts : IssueStart(r, a)
  \/ IssueInsert(r)
  \/ IssueReply(r)
  \/ \E t \in HeldTokens : RefreshRead(r, t)
  \/ RefreshCheck(r)
  \/ RefreshAuth(r)
  \/ RefreshDecide(r)
  \/ RefreshUpdate(r)
  \/ RefreshReply(r)
  \/ \E t \in HeldTokens : LogoutRead(r, t)
  \/ LogoutUpdate(r)
  \/ Fail(r)

Next ==
  \/ \E r \in Requests : Handler(r)
  \/ \E a \in Accounts : AuthDeleted(a)
  \/ Tick

Spec == Init /\ [][Next]_vars

-----------------------------------------------------------------------------
(***************************************************************************)
(* Properties.                                                             *)
(***************************************************************************)
TypeOK ==
  /\ clock \in Int
  /\ authRows \subseteq Accounts
  /\ tokens \subseteq Row
  /\ lastToken \in 0 .. MaxTokens
  /\ pc \in [Requests -> Answers \union InFlight]
  /\ loc \in [Requests -> Locals]
  /\ granted \subseteq [id : Token, refreshToken : Token]
  /\ superseded \subseteq Token
  /\ revokedIds \subseteq Token

\* Two rotations of one session are never closer than the cooldown, whatever
\* requests race: the UPDATE of a request that read an older version of the
\* row finds no row with its token any more (refreshTokens, WHERE token).
RotationSpacing ==
  [][\A row \in tokens, new \in tokens' :
       row.id = new.id /\ row.token # new.token
         => new.lastUsedAt >= row.lastUsedAt + REFRESH_COOLDOWN]_vars

\* A refresh that read its session after the presented token was replaced by
\* a rotation, or after the session was revoked by a logout, is never granted:
\* an old token is of no use, a logout cannot be undone.
NoLateGrant ==
  \A r \in Requests : pc[r] = "refreshReply" => ~loc[r].late

\* A revoked session stays revoked: neither a refresh that was in flight
\* during the logout nor a second logout makes it usable again.
RevocationFinal ==
  [][\A row \in tokens, new \in tokens' :
       row.id = new.id /\ row.revoked => new.revoked]_vars

\* No two sessions share a token, so a statement WHERE token = t never
\* touches the session of somebody else, and the column's UNIQUE constraint
\* never fails; this covers tokens about to be written by requests in flight.
TokenSeparation ==
  /\ \A row1, row2 \in tokens :
       row1.token = row2.token \/ row1.id = row2.id => row1 = row2
  /\ \A r \in Requests : pc[r] \in {"issueInsert", "refreshUpdate"} =>
       /\ \A row \in tokens : row.token # loc[r].newToken
       /\ \A q \in Requests \ {r} : pc[q] \in {"issueInsert", "refreshUpdate"}
            => loc[q].newToken # loc[r].newToken

\* What the token refresh flow says ("Update token", then "New Access Token +
\* Refresh Token"): the refresh token in a 200 answer is the one stored for
\* the session, unless the session is gone or another request had rotated it
\* since it was read.
RefreshStoresToken ==
  [][\A r \in Requests :
       pc[r] = "refreshUpdate" /\ pc'[r] = "refreshReply" =>
         \A row \in tokens' : row.id = loc[r].row.id =>
           row.token = loc[r].newToken \/ loc[r].tok \in superseded]_vars

\* What logout promises: once it has answered "Logged out", the session of
\* the token it was given is revoked (or gone), unless another request had
\* rotated it since it was read.
LogoutRevokes ==
  [][\A r \in Requests :
       pc[r] = "logoutUpdate" /\ pc'[r] = "loggedOut" =>
         \A row \in tokens' : row.id = loc[r].row.id =>
           row.revoked \/ loc[r].tok \in superseded]_vars

\* The session service, seen through the table: the sessions not revoked ...
Usable == {[id |-> row.id, token |-> row.token] :
             row \in {q \in tokens : ~q.revoked}}

\* ... and the tokens generated, except those on their way to the table.
OnTheWay == {loc[r].newToken :
               r \in {q \in Requests : pc[q] \in {"issueInsert", "refreshUpdate"}}}

Service == INSTANCE SessionService WITH
             usable <- Usable, used <- (1 .. lastToken) \ OnTheWay

\* The handlers implement the session service: whatever requests race and
\* wherever they fail, a session has one token that refreshes it, a rotation
\* takes it from the old one to a new one, and nothing brings back a token, or
\* a session, that has left service.
ImplementsService == Service!Spec

=============================================================================
