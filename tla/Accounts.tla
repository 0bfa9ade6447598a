------------------------------ MODULE Accounts ------------------------------
(***************************************************************************)
(* Sign-up and sign-in (apps/api/src/modules/auth/handlers.ts:             *)
(* phoneSignup, phoneSignIn, the OAuth sign-in handlers and oauthSignup;   *)
(* the `auth' and `users' tables of db/schema.ts).                         *)
(*                                                                         *)
(* An account is a row of `auth' and, under the same id, its profile in    *)
(* `users'.  They are created by two statements with no transaction around *)
(* them; if the second fails, a background task deletes what the first     *)
(* did.  An action is one SQL statement, with the JavaScript that follows  *)
(* it up to the next one (which reads no clock here).                      *)
(***************************************************************************)
EXTENDS Integers, FiniteSets

CONSTANTS
  Requests,   \* slots for HTTP requests in flight at one time
  Phones,     \* phone numbers
  Subjects,   \* `sub' claims of ID tokens
  Emails,     \* `email' claims of ID tokens
  MaxIds,     \* bound: auth rows inserted in one behaviour
  MaxLost     \* bound: answers lost and Workers killed in one behaviour

ASSUME BoundAssumption == MaxIds \in Nat /\ MaxLost \in Nat

VARIABLES
  auth,       \* the `auth' table, a set of rows
  users,      \* ids present in the `users' table
  sessions,   \* ids of accounts with a row in the `tokens' table
  lastId,     \* how many auth rows have been inserted
  cleanups,   \* ids whose deletion was left to the background (waitUntil)
  welcomed,   \* ids whose welcome e-mail was left to the background
  lost,       \* answers lost and Workers killed so far
  pc,         \* pc[r]: the statement request r is at, or the answer it gave
  loc         \* loc[r]: the handler's local variables

vars == <<auth, users, sessions, lastId, cleanups, welcomed, lost, pc, loc>>

-----------------------------------------------------------------------------
Id == 1 .. MaxIds

None == "none"

OAuthProviders == {"google", "apple"}

Flows == {"phoneSignup", "phoneSignIn", "oauthSignIn", "oauthSignup"}

\* Who a request is about: a phone whose OTP was accepted, or the claims of a
\* verified ID token (oauthSignup takes them from the request body).
Identity ==
  [provider : {"phone"}, identifier : Phones, email : {None}]
    \union [provider : OAuthProviders, identifier : Subjects, email : Emails]

\* A row of `auth': its key and whose it is.  createId numbers the rows.
Row == [id : Id, who : Identity]

NoIdentity == [provider |-> None]

Locals == [flow : Flows \union {None}, who : Identity \union {NoIdentity},
           authId : Id \union {0}, created : BOOLEAN]

NoLocals == [flow |-> None, who |-> NoIdentity, authId |-> 0, created |-> FALSE]

\* A request that is answered has no locals left; its slot may be used again.
Answers == {"idle", "ok", "created", "needsSignup", "unauthorized",
            "userNotFound", "userExists", "profileIncomplete", "conflict",
            "duplicate", "error"}

InFlight == {"readUser", "readEmail", "insertAuth", "insertUser", "issue",
             "reply"}

AuthIds == {row.id : row \in auth}

\* Mutant: the rows of both OAuth providers are searched for the subject.
RowsForAnyProvider(who) == {row \in auth : row.who.identifier = who.identifier}

\* SELECT FROM auth WHERE provider = ... AND identifier = ...
RowsFor(who) == {row \in auth : row.who.provider = who.provider
                                /\ row.who.identifier = who.identifier}

\* SELECT FROM auth WHERE email = ...; NULL equals nothing.
RowsWithEmail(email) == {row \in auth : row.who.email = email /\ email # None}

Init ==
  /\ auth = {}
  /\ users = {}
  /\ sessions = {}
  /\ lastId = 0
  /\ cleanups = {}
  /\ welcomed = {}
  /\ lost = 0
  /\ pc = [r \in Requests |-> "idle"]
  /\ loc = [r \in Requests |-> NoLocals]

\* Request r is answered a.
Answer(r, a) ==
  /\ pc' = [pc EXCEPT ![r] = a]
  /\ loc' = [loc EXCEPT ![r] = NoLocals]

\* Request r goes on to its next statement s, with locals l.
Goto(r, s, l) ==
  /\ pc' = [pc EXCEPT ![r] = s]
  /\ loc' = [loc EXCEPT ![r] = l]

-----------------------------------------------------------------------------
(***************************************************************************)
(* The handlers.                                                           *)
(***************************************************************************)
\* The OTP is refused (handleOtpError), or verifyOAuthJWT throws, or a claim
\* is missing: 401 before any table is read.
Unverified(r) ==
  /\ pc[r] \in Answers
  /\ Answer(r, "unauthorized")
  /\ UNCHANGED <<auth, users, sessions, lastId, cleanups, welcomed, lost>>

\* The flows that are open to an identity.
FlowsOf(who) == IF who.provider = "phone" THEN {"phoneSignup", "phoneSignIn"}
                                          ELSE {"oauthSignIn", "oauthSignup"}

\* SELECT the auth row of the identity.
FindAuth(r, who, flow) ==
  /\ pc[r] \in Answers
  /\ LET l == [flow |-> flow, who |-> who, authId |-> 0, created |-> FALSE] IN
     \/ \E row \in RowsFor(who) :
          Goto(r, "readUser", [l EXCEPT !.authId = row.id])
     \/ /\ RowsFor(who) = {}
        /\ flow = "phoneSignIn"
        /\ Answer(r, "userNotFound")
     \/ /\ RowsFor(who) = {}
        /\ flow = "phoneSignup"
        /\ Goto(r, "insertAuth", l)
     \/ /\ RowsFor(who) = {}
        /\ flow \in {"oauthSignIn", "oauthSignup"}
        /\ Goto(r, "readEmail", l)
  /\ UNCHANGED <<auth, users, sessions, lastId, cleanups, welcomed, lost>>

\* Mutant: an account that is found is taken to be complete.
ReadUserUnchecked(r) ==
  /\ pc[r] = "readUser"
  /\ \/ /\ loc[r].flow = "phoneSignup"
        /\ Answer(r, "userExists")
     \/ /\ loc[r].flow # "phoneSignup"
        /\ Goto(r, "issue", loc[r])
  /\ UNCHANGED <<auth, users, sessions, lastId, cleanups, welcomed, lost>>

\* SELECT the profile of the account found.  An OAuth sign-up of an existing
\* account is a sign-in; a phone sign-up is refused.  (`if (!existingAuth.email)'
\* has no step: an OAuth account is only ever inserted with an e-mail.)
ReadUser(r) ==
  /\ pc[r] = "readUser"
  /\ \/ /\ loc[r].authId \notin users
        /\ Answer(r, "profileIncomplete")
     \/ /\ loc[r].authId \in users
        /\ loc[r].flow = "phoneSignup"
        /\ Answer(r, "userExists")
     \/ /\ loc[r].authId \in users
        /\ loc[r].flow # "phoneSignup"
        /\ Goto(r, "issue", loc[r])
  /\ UNCHANGED <<auth, users, sessions, lastId, cleanups, welcomed, lost>>

\* SELECT an account with the same e-mail; it is a conflict only if its
\* provider is another one.
ReadEmail(r) ==
  /\ pc[r] = "readEmail"
  /\ LET who == loc[r].who
         conflict == \E row \in RowsWithEmail(who.email) :
                       row.who.provider # who.provider
     IN  \/ /\ conflict
            /\ Answer(r, "conflict")
         \/ /\ ~conflict
            /\ loc[r].flow = "oauthSignIn"
            /\ Answer(r, "needsSignup")
         \/ /\ ~conflict
            /\ loc[r].flow = "oauthSignup"
            /\ Goto(r, "insertAuth", loc[r])
  /\ UNCHANGED <<auth, users, sessions, lastId, cleanups, welcomed, lost>>

\* The unique constraints of `auth': (provider, identifier) and email.
Taken(who) == RowsFor(who) # {} \/ RowsWithEmail(who.email) # {}

\* Mutant: the id is not taken from the returned row.
InsertAuthNoId(r) ==
  /\ pc[r] = "insertAuth"
  /\ ~Taken(loc[r].who)
  /\ lastId < MaxIds
  /\ lastId' = lastId + 1
  /\ auth' = auth \union {[id |-> lastId + 1, who |-> loc[r].who]}
  /\ Goto(r, "insertUser", loc[r])
  /\ UNCHANGED <<users, sessions, cleanups, welcomed, lost>>

\* INSERT INTO auth; a violated constraint ends in errorHandler.
InsertAuth(r) ==
  /\ pc[r] = "insertAuth"
  /\ \/ /\ Taken(loc[r].who)
        /\ Answer(r, "duplicate")
        /\ UNCHANGED <<auth, lastId>>
     \/ /\ ~Taken(loc[r].who)
        /\ lastId < MaxIds
        /\ lastId' = lastId + 1
        /\ auth' = auth \union {[id |-> lastId + 1, who |-> loc[r].who]}
        /\ Goto(r, "insertUser", [loc[r] EXCEPT !.authId = lastId + 1])
  /\ UNCHANGED <<users, sessions, cleanups, welcomed, lost>>

\* INSERT INTO users
InsertUser(r) ==
  /\ pc[r] = "insertUser"
  /\ users' = users \union {loc[r].authId}
  /\ Goto(r, "issue", [loc[r] EXCEPT !.created = TRUE])
  /\ UNCHANGED <<auth, sessions, lastId, cleanups, welcomed, lost>>

\* Mutant: the error is passed on, and nothing cleaned up.
InsertUserThrowsOnly(r) ==
  /\ Answer(r, "error")
  /\ UNCHANGED <<auth, sessions, lastId, cleanups, welcomed>>

\* The insertion throws: the auth row is to be deleted in the background, and
\* the error goes on to errorHandler.
InsertUserThrows(r) ==
  /\ cleanups' = cleanups \union {loc[r].authId}
  /\ Answer(r, "error")
  /\ UNCHANGED <<auth, sessions, lastId, welcomed>>

\* INSERT INTO users fails, without effect.
InsertUserFails(r) ==
  /\ pc[r] = "insertUser"
  /\ InsertUserThrows(r)
  /\ UNCHANGED <<users, lost>>

\* issueTokens: INSERT INTO tokens, which the foreign key to auth may refuse.
Issue(r) ==
  /\ pc[r] = "issue"
  /\ \/ /\ loc[r].authId \in AuthIds
        /\ sessions' = sessions \union {loc[r].authId}
        /\ Goto(r, "reply", loc[r])
     \/ /\ loc[r].authId \notin AuthIds
        /\ Answer(r, "error")
        /\ UNCHANGED sessions
  /\ UNCHANGED <<auth, users, lastId, cleanups, welcomed, lost>>

\* The answer; oauthSignup also leaves a welcome e-mail to the background.
Reply(r) ==
  /\ pc[r] = "reply"
  /\ welcomed' = IF loc[r].created /\ loc[r].flow = "oauthSignup"
                   THEN welcomed \union {loc[r].authId} ELSE welcomed
  /\ Answer(r, IF loc[r].created THEN "created" ELSE "ok")
  /\ UNCHANGED <<auth, users, sessions, lastId, cleanups, lost>>

\* Any other statement fails, without effect: errorHandler answers.
Fail(r) ==
  /\ pc[r] \in InFlight \ {"insertUser", "reply"}
  /\ Answer(r, "error")
  /\ UNCHANGED <<auth, users, sessions, lastId, cleanups, welcomed, lost>>

\* Mutant: the foreign key of tokens does not cascade.
CleanupNoCascade(id) ==
  /\ id \in cleanups
  /\ cleanups' = cleanups \ {id}
  /\ auth' = {row \in auth : row.id # id}
  /\ users' = users \ {id}
  /\ UNCHANGED <<sessions, lastId, welcomed, lost, pc, loc>>

\* The background task: DELETE FROM auth WHERE id, with what references it.
Cleanup(id) ==
  /\ id \in cleanups
  /\ cleanups' = cleanups \ {id}
  /\ auth' = {row \in auth : row.id # id}
  /\ users' = users \ {id}
  /\ sessions' = sessions \ {id}
  /\ UNCHANGED <<lastId, welcomed, lost, pc, loc>>

-----------------------------------------------------------------------------
(***************************************************************************)
(* What may be lost.                                                       *)
(***************************************************************************)
\* The profile is inserted, but the database's answer does not arrive: the
\* handler takes it for a failure.
InsertUserAnswerLost(r) ==
  /\ pc[r] = "insertUser"
  /\ lost < MaxLost
  /\ lost' = lost + 1
  /\ users' = users \union {loc[r].authId}
  /\ InsertUserThrows(r)

\* The Worker ends, or the answer of a statement outside the try block is
\* lost after the statement took effect: nothing is cleaned up.
Killed(r) ==
  /\ pc[r] \in InFlight
  /\ lost < MaxLost
  /\ lost' = lost + 1
  /\ Answer(r, "error")
  /\ UNCHANGED <<auth, users, sessions, lastId, cleanups, welcomed>>

\* The background DELETE fails; nobody retries it.
CleanupLost(id) ==
  /\ id \in cleanups
  /\ lost < MaxLost
  /\ lost' = lost + 1
  /\ cleanups' = cleanups \ {id}
  /\ UNCHANGED <<auth, users, sessions, lastId, welcomed, pc, loc>>

-----------------------------------------------------------------------------
\* A step that request r takes by itself once it has begun.
Continue(r) ==
  \/ ReadUser(r)
  \/ ReadEmail(r)
  \/ InsertAuth(r)
  \/ InsertUser(r)
  \/ Issue(r)
  \/ Reply(r)

Next ==
  \/ \E r \in Requests :
       \/ Unverified(r)
       \/ \E who \in Identity : \E flow \in FlowsOf(who) : FindAuth(r, who, flow)
       \/ Continue(r)
       \/ InsertUserFails(r)
       \/ Fail(r)
       \/ InsertUserAnswerLost(r)
       \/ Killed(r)
  \/ \E id \in cleanups : Cleanup(id)
  \/ \E id \in cleanups : CleanupLost(id)

Spec == Init /\ [][Next]_vars

\* A request under way goes on, as the Worker does not stop by itself and every
\* statement is answered or fails; waitUntil keeps the Worker alive until the
\* background task is done.
Fairness ==
  /\ \A r \in Requests : WF_vars(Continue(r))
  /\ \A id \in Id : WF_vars(Cleanup(id))

FairSpec == Spec /\ Fairness

-----------------------------------------------------------------------------
(***************************************************************************)
(* Properties.                                                             *)
(***************************************************************************)
TypeOK ==
  /\ auth \subseteq Row
  /\ users \subseteq Id
  /\ sessions \subseteq Id
  /\ lastId \in 0 .. MaxIds
  /\ cleanups \subseteq Id
  /\ welcomed \subseteq Id
  /\ lost \in 0 .. MaxLost
  /\ pc \in [Requests -> Answers \union InFlight]
  /\ loc \in [Requests -> Locals]

\* Whoever has a session has a complete account: no interleaving of sign-ups,
\* sign-ins and clean-ups leaves a token without its profile, or a profile
\* without its auth row.
SessionHasProfile == sessions \subseteq users /\ users \subseteq AuthIds

\* Whoever is about to be answered with tokens is given his own account: the
\* auth row the tokens name, read or inserted statements ago, is of the phone
\* or of the provider and subject that the request was verified for.  And
\* unless something was lost the account is still there: no failed sign-up's
\* clean-up has deleted it meanwhile, session and all.
AnsweredOwnAccount ==
  \A r \in Requests : pc[r] = "reply" =>
    /\ \A row \in auth : row.id = loc[r].authId =>
         /\ row.who.provider = loc[r].who.provider
         /\ row.who.identifier = loc[r].who.identifier
    /\ lost = 0 => loc[r].authId \in sessions

\* Unless something was lost, an auth row without a profile is being taken
\* care of: its sign-up is about to insert the profile, or its deletion is
\* under way in the background.
OrphanAccountedFor ==
  lost = 0 =>
    \A id \in AuthIds \ users :
      \/ id \in cleanups
      \/ \E r \in Requests : pc[r] = "insertUser" /\ loc[r].authId = id

\* Unless something was lost, the clean-up of a failed sign-up never deletes an
\* account that somebody is signed in to.
SignedInAccountKept == [][lost' = 0 => sessions \subseteq sessions']_vars

\* Unless something was lost, an auth row without a profile does not last: it
\* gets its profile or goes.
OrphanResolved ==
  \A id \in Id : id \in AuthIds \ users
                    ~> id \notin AuthIds \ users \/ lost > 0

=============================================================================
