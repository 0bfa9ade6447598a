----------------------------- MODULE AuthClient -----------------------------
(***************************************************************************)
(* The mobile app's auth client (packages/auth/expo/src: the interceptors, *)
(* refreshTokens and logOut of api.ts, the persisted store of store.ts,    *)
(* the sign-in functions of service.ts) against the API's sessions and its *)
(* requireAuth middleware, over a network that may lose what it carries.   *)
(*                                                                         *)
(* JavaScript runs one task at a time: an action is a task (a user's       *)
(* action, a timer, an answer that arrives) with the promise reactions it  *)
(* sets off.  An access and a refresh token are made, stored and cleared   *)
(* together, so a number stands for the pair.  The server's steps are      *)
(* those of SessionService, which Sessions implements: the read and the    *)
(* UPDATE of a request are apart where the client could tell.              *)
(***************************************************************************)
EXTENDS Integers, FiniteSets

CONSTANTS
  Calls,       \* slots for calls of private endpoints (`~' urls) under way
  LogOuts,     \* bound: slots for runs of logOut under way
  ClientDues,  \* the stages of a pair that clients' clocks may call due
  MaxPairs,    \* bound: token pairs issued in one behaviour
  MaxFaults    \* bound: lost requests and answers, failed checks, killed apps

ASSUME ConfigAssumption ==
  ClientDues \subseteq Nat /\ MaxPairs \in Nat /\ MaxFaults \in Nat

VARIABLES
  pair,            \* accessToken and refreshToken of the store; 0 is null
  authed,          \* isAuthenticated
  loading,         \* isLoading
  hydrated,        \* ~isAuthLoading
  disk,            \* what is persisted of the store
  refreshPromise,  \* the module's variable: null, pending or rejected
  refresh,         \* the POST of refreshTokens under way
  calls,           \* calls[c]: a call of a private endpoint
  logOuts,         \* logOuts[l]: a run of logOut
  signingIn,       \* a sign-in or sign-up of service.ts is under way
  due,             \* the stage of a pair at which this client's clock calls it due
  usable, used,    \* server: the session service (SessionService)
  age,             \* server: age[n], how far the lifetime of pair n has come
  orphans,         \* pairs whose refresh reaches the server with nobody waiting
  faults,          \* faults so far
  over,            \* history: pairs whose session expired, was deleted or logged out
  excused          \* history: there was a reason to end this sign-in

store == <<pair, authed, loading>>
server == <<usable, used, age>>
history == <<due, faults, over, excused>>
vars == <<store, hydrated, disk, refreshPromise, refresh, calls, logOuts,
          signingIn, server, orphans, history>>

-----------------------------------------------------------------------------
Pair == 1 .. MaxPairs

Service == INSTANCE SessionService WITH Token <- Pair

live == {u.token : u \in usable}   \* pairs that can be refreshed

lastPair == Cardinality(used)      \* pairs are numbered as they are issued

Ends(n) == Service!End({u \in usable : u.token = n})

\* The stages of a pair's lifetime: within REFRESH_COOLDOWN of its issue (0),
\* after that (1), within the last tenth of the access token's life (2), and
\* after its expiry (3).  `due' is 2 for a client whose clock is right, more if
\* it is behind and less if it is ahead.
Cool == 1
Expired == 3
Age == 0 .. Expired

NoRefresh == [phase |-> "none", pair |-> 0, answer |-> "none"]

\* "sent" has not been read by the server, "read" has passed its SELECT.
Refresh == [phase : {"none", "sent", "read", "answered"}, pair : Pair \union {0},
            answer : {"none", "granted", "refused", "invalid"}]

\* A call is sent with the access token of a pair (0: none); `retried' is _retry.
Free == [st |-> "free", pair |-> 0, retried |-> FALSE]

Call == [st : {"free", "waiting", "sent"}, pair : Pair \union {0},
         retried : BOOLEAN]

\* A run of logOut holds the refresh token it read when it began; it is "served"
\* once the server has revoked that, and the answer is on its way.
Idle == [st |-> "free", pair |-> 0]

LogOut == [st : {"free", "timer", "google", "sent", "served"},
           pair : Pair \union {0}]

Init ==
  /\ pair = 0 /\ authed = FALSE /\ loading = FALSE
  /\ hydrated = FALSE
  /\ disk = [pair |-> 0, authed |-> FALSE]
  /\ refreshPromise = "null"
  /\ refresh = NoRefresh
  /\ calls = [c \in Calls |-> Free]
  /\ logOuts = [l \in LogOuts |-> Idle]
  /\ signingIn = FALSE
  /\ due \in ClientDues
  /\ Service!Init
  /\ age = [n \in Pair |-> 0]
  /\ orphans = {}
  /\ faults = 0 /\ over = {} /\ excused = FALSE

Fault ==
  /\ faults < MaxFaults
  /\ faults' = faults + 1
  /\ UNCHANGED <<due, over, excused>>

-----------------------------------------------------------------------------
(***************************************************************************)
(* The server                                                              *)
(***************************************************************************)
\* issueTokens makes a pair.
Issue ==
  /\ lastPair < MaxPairs
  /\ Service!Open(lastPair + 1)
  /\ UNCHANGED age

\* The UPDATE of refreshTokens replaces pair n, if its row still has that token.
Rotate(n) ==
  /\ age[n] >= Cool
  /\ lastPair < MaxPairs
  /\ \E u \in usable : u.token = n /\ Service!Rotate(u, lastPair + 1)
  /\ UNCHANGED age

\* The UPDATE finds no row with pair n, or a revoked one: the pair that was made
\* for it is not in service, now or later.
Miss(n) ==
  /\ age[n] >= Cool
  /\ lastPair < MaxPairs
  /\ n \notin live
  /\ Service!Discard(lastPair + 1)
  /\ UNCHANGED age

Answered(n, answer) ==
  refresh' = [phase |-> "answered", pair |-> n, answer |-> answer]

\* The SELECT of refreshTokens; a server error is "refused".
RefreshRead ==
  /\ refresh.phase = "sent"
  /\ \/ /\ refresh.pair \in live
        /\ refresh' = [refresh EXCEPT !.phase = "read"]
     \/ /\ refresh.pair \notin live
        /\ Answered(0, "invalid")
     \/ Answered(0, "refused")
  /\ UNCHANGED <<store, hydrated, disk, refreshPromise, calls, logOuts,
                 signingIn, server, orphans, history>>

\* The UPDATE and the answer, 200 with a new pair whether or not the UPDATE found
\* the row; or RATE_LIMITED, "User not found" or a server error, all "refused".
\* (A session that expires between the two statements is extended by the second:
\* for the client it has not expired.  A server error after the UPDATE took
\* effect is a RefreshLost.)
RefreshUpdate ==
  /\ refresh.phase = "read"
  /\ \/ /\ Rotate(refresh.pair) \/ Miss(refresh.pair)
        /\ Answered(lastPair + 1, "granted")
        /\ over' = over \union {n \in {lastPair + 1} : refresh.pair \in over}
     \/ /\ Answered(0, "refused")
        /\ UNCHANGED <<server, over>>
  /\ UNCHANGED <<store, hydrated, disk, refreshPromise, calls, logOuts,
                 signingIn, orphans, due, faults, excused>>

\* The UPDATE of a refresh that the client has given up on; one that misses is
\* seen by nobody.
OrphanServed(n) ==
  /\ n \in orphans
  /\ orphans' = orphans \ {n}
  /\ Rotate(n)
  /\ UNCHANGED <<store, hydrated, disk, refreshPromise, refresh, calls, logOuts,
                 signingIn, history>>

\* The session of pair n expires, or its account is deleted.
SessionEnds(n) ==
  /\ n \in live
  /\ Ends(n)
  /\ over' = over \union {n}
  /\ excused' = (excused \/ n \in {pair, refresh.pair})
  /\ UNCHANGED <<store, hydrated, disk, refreshPromise, refresh, calls, logOuts,
                 signingIn, age, orphans, due, faults>>

\* Time passes for pair n; what was issued before it is at least as old.
Aging(n) ==
  /\ n <= lastPair
  /\ age[n] < Expired
  /\ age' = [m \in Pair |-> IF m = n \/ (m < n /\ age[m] = age[n])
                              THEN age[n] + 1 ELSE age[m]]
  /\ UNCHANGED <<store, hydrated, disk, refreshPromise, refresh, calls, logOuts,
                 signingIn, usable, used, orphans, history>>

-----------------------------------------------------------------------------
(***************************************************************************)
(* Calls of private endpoints, and the refresh they share                  *)
(***************************************************************************)
\* setTimeout(logOut, 1)
ScheduleLogOut ==
  \E l \in LogOuts :
    /\ logOuts[l].st = "free"
    /\ logOuts' = [logOuts EXCEPT ![l] = [st |-> "timer", pair |-> 0]]

\* if (!refreshPromise) refreshPromise = refreshTokens(); await refreshPromise
\* A promise that was rejected is still there: the await throws at once.
AwaitRefresh(c, retried) ==
  \/ /\ refreshPromise = "pending"
     /\ calls' = [calls EXCEPT
                    ![c] = [st |-> "waiting", pair |-> 0, retried |-> retried]]
     /\ UNCHANGED <<loading, refreshPromise, refresh, logOuts>>
  \/ /\ refreshPromise = "rejected"
     /\ calls' = [calls EXCEPT ![c] = Free]
     /\ UNCHANGED <<loading, refreshPromise, refresh, logOuts>>
  \/ /\ refreshPromise = "null"
     /\ pair # 0
     /\ loading' = TRUE
     /\ refreshPromise' = "pending"
     /\ refresh' = [phase |-> "sent", pair |-> pair, answer |-> "none"]
     /\ calls' = [calls EXCEPT
                    ![c] = [st |-> "waiting", pair |-> 0, retried |-> retried]]
     /\ UNCHANGED logOuts
  \/ /\ refreshPromise = "null"
     /\ pair = 0
     /\ ScheduleLogOut
     /\ loading' = FALSE
     /\ refreshPromise' = "rejected"
     /\ calls' = [calls EXCEPT ![c] = Free]
     /\ UNCHANGED refresh

NeedsTokenRefresh(n) == age[n] >= due

Send(c, n, retried) ==
  calls' = [calls EXCEPT ![c] = [st |-> "sent", pair |-> n, retried |-> retried]]

\* The request interceptor, for a private endpoint.  Without a token the request
\* is sent all the same, and the client logs out.
CallStart(c) ==
  /\ hydrated
  /\ calls[c] = Free
  /\ \/ /\ pair = 0
        /\ ScheduleLogOut
        /\ Send(c, 0, FALSE)
        /\ excused' = TRUE
        /\ UNCHANGED <<loading, refreshPromise, refresh>>
     \/ /\ pair # 0
        /\ ~NeedsTokenRefresh(pair)
        /\ Send(c, pair, FALSE)
        /\ UNCHANGED <<loading, refreshPromise, refresh, logOuts, excused>>
     \/ /\ pair # 0
        /\ NeedsTokenRefresh(pair)
        /\ AwaitRefresh(c, FALSE)
        /\ UNCHANGED excused
  /\ UNCHANGED <<pair, authed, hydrated, disk, signingIn, server, orphans, due,
                 faults, over>>

\* requireAuth lets the call pass or refuses it: MISSING_TOKEN and a second
\* EXPIRED_TOKEN are errors to the caller, and so is the 409 for an account that
\* was deleted; a first EXPIRED_TOKEN is retried.
CallAnswered(c) ==
  /\ calls[c].st = "sent"
  /\ LET n == calls[c].pair
         expired == n # 0 /\ age[n] = Expired
     IN  \/ /\ ~expired \/ calls[c].retried
            /\ calls' = [calls EXCEPT ![c] = Free]
            /\ UNCHANGED <<loading, refreshPromise, refresh, logOuts>>
         \/ /\ expired
            /\ ~calls[c].retried
            /\ AwaitRefresh(c, TRUE)
  /\ UNCHANGED <<pair, authed, hydrated, disk, signingIn, server, orphans, history>>

\* No answer, or a server error.
CallFails(c) ==
  /\ calls[c].st = "sent"
  /\ calls' = [calls EXCEPT ![c] = Free]
  /\ UNCHANGED <<store, hydrated, disk, refreshPromise, refresh, logOuts,
                 signingIn, server, orphans, history>>

\* requireAuth's SELECT fails, which it takes for a bad token: INVALID_TOKEN.
CallCheckFails(c) ==
  /\ calls[c].st = "sent"
  /\ calls[c].pair # 0
  /\ Fault
  /\ ScheduleLogOut
  /\ calls' = [calls EXCEPT ![c] = Free]
  /\ UNCHANGED <<store, hydrated, disk, refreshPromise, refresh, signingIn,
                 server, orphans>>

\* Mutant: the new refresh token is used but not stored.
RefreshGrantedNotStored ==
  /\ refresh.answer = "granted"
  /\ refreshPromise' = "null"
  /\ refresh' = NoRefresh
  /\ calls' = [c \in Calls |-> IF calls[c].st = "waiting"
                                 THEN [calls[c] EXCEPT !.st = "sent",
                                                       !.pair = refresh.pair]
                                 ELSE calls[c]]
  /\ UNCHANGED <<store, hydrated, disk, logOuts, signingIn, server, orphans,
                 history>>

\* The refresh is granted: every waiting call goes on with the new access token.
RefreshGranted ==
  /\ refresh.answer = "granted"
  /\ pair' = refresh.pair
  /\ refreshPromise' = "null"
  /\ refresh' = NoRefresh
  /\ calls' = [c \in Calls |-> IF calls[c].st = "waiting"
                                 THEN [calls[c] EXCEPT !.st = "sent",
                                                       !.pair = refresh.pair]
                                 ELSE calls[c]]
  /\ UNCHANGED <<authed, loading, hydrated, disk, logOuts, signingIn, server,
                 orphans, history>>

\* Mutant: a failed refresh does not wake who waits for it.
RefreshThrowsAlone ==
  /\ loading' = FALSE
  /\ refreshPromise' = "rejected"
  /\ refresh' = NoRefresh
  /\ UNCHANGED <<pair, authed, hydrated, disk, calls, signingIn, server>>

\* refreshTokens throws: every waiting call fails.  Nothing resets refreshPromise.
RefreshThrows ==
  /\ loading' = FALSE
  /\ refreshPromise' = "rejected"
  /\ refresh' = NoRefresh
  /\ calls' = [c \in Calls |-> IF calls[c].st = "waiting" THEN Free ELSE calls[c]]
  /\ UNCHANGED <<pair, authed, hydrated, disk, signingIn, server>>

\* Mutant: any refusal logs out.
RefreshRefusedLogsOut ==
  /\ refresh.answer = "refused"
  /\ RefreshThrows
  /\ ScheduleLogOut
  /\ UNCHANGED <<orphans, history>>

RefreshRefused ==
  /\ refresh.answer = "refused"
  /\ RefreshThrows
  /\ UNCHANGED <<logOuts, orphans, history>>

\* Mutant: an invalid refresh token is an error like any other.
RefreshInvalidThrows ==
  /\ refresh.answer = "invalid"
  /\ RefreshThrows
  /\ UNCHANGED <<logOuts, orphans, history>>

RefreshInvalid ==
  /\ refresh.answer = "invalid"
  /\ RefreshThrows
  /\ ScheduleLogOut
  /\ UNCHANGED <<orphans, history>>

\* The refresh token of a request that the server has not dealt with yet.
Abandoned == {n \in {refresh.pair} : refresh.phase \in {"sent", "read"}}

\* Network error or timeout; the request may still be on its way.
RefreshLost ==
  /\ refresh.phase # "none"
  /\ Fault
  /\ RefreshThrows
  /\ orphans' = orphans \union Abandoned
  /\ UNCHANGED logOuts

-----------------------------------------------------------------------------
(***************************************************************************)
(* logOut                                                                  *)
(***************************************************************************)
\* Mutant: only the tokens are cleared.
ClearTokens ==
  /\ pair' = 0
  /\ loading' = FALSE
  /\ UNCHANGED authed

\* Mutant: isLoading is not reset.
ClearAllLoading ==
  /\ pair' = 0
  /\ authed' = FALSE
  /\ UNCHANGED loading

\* useAuthStore.getState().clearAll()
ClearAll ==
  /\ pair' = 0
  /\ authed' = FALSE
  /\ loading' = FALSE

\* The user presses "Log out".
LogOutPressed(l) ==
  /\ hydrated
  /\ authed
  /\ logOuts[l] = Idle
  /\ logOuts' = [logOuts EXCEPT ![l] = [st |-> "google", pair |-> pair]]
  /\ excused' = TRUE
  /\ UNCHANGED <<store, hydrated, disk, refreshPromise, refresh, calls,
                 signingIn, server, orphans, due, faults, over>>

\* A scheduled logOut begins: it reads the refresh token, then awaits
\* cleanupGoogleSignIn.
LogOutBegins(l) ==
  /\ logOuts[l].st = "timer"
  /\ logOuts' = [logOuts EXCEPT ![l] = [st |-> "google", pair |-> pair]]
  /\ UNCHANGED <<store, hydrated, disk, refreshPromise, refresh, calls,
                 signingIn, server, orphans, history>>

\* After cleanupGoogleSignIn: POST /auth/logout, unless there is no token.
LogOutPosts(l) ==
  /\ logOuts[l].st = "google"
  /\ \/ /\ logOuts[l].pair = 0
        /\ ClearAll
        /\ logOuts' = [logOuts EXCEPT ![l] = Idle]
     \/ /\ logOuts[l].pair # 0
        /\ loading' = TRUE
        /\ logOuts' = [logOuts EXCEPT ![l].st = "sent"]
        /\ UNCHANGED <<pair, authed>>
  /\ UNCHANGED <<hydrated, disk, refreshPromise, refresh, calls, signingIn,
                 server, orphans, history>>

\* The UPDATE of the API's logout: the session is revoked, if the token is still
\* the one it has.
LogOutServed(l) ==
  /\ logOuts[l].st = "sent"
  /\ Ends(logOuts[l].pair)
  /\ over' = over \union ({logOuts[l].pair} \intersect live)
  /\ logOuts' = [logOuts EXCEPT ![l].st = "served"]
  /\ UNCHANGED <<store, hydrated, disk, refreshPromise, refresh, calls,
                 signingIn, age, orphans, due, faults, excused>>

\* Any answer ends in clearAll, and so does its loss.
LogOutAnswered(l) ==
  /\ logOuts[l].st = "served"
  /\ ClearAll
  /\ logOuts' = [logOuts EXCEPT ![l] = Idle]
  /\ UNCHANGED <<hydrated, disk, refreshPromise, refresh, calls, signingIn,
                 server, orphans, history>>

\* The request is lost: the session stays on the server.
LogOutLost(l) ==
  /\ logOuts[l].st = "sent"
  /\ Fault
  /\ ClearAll
  /\ logOuts' = [logOuts EXCEPT ![l] = Idle]
  /\ UNCHANGED <<hydrated, disk, refreshPromise, refresh, calls, signingIn,
                 server, orphans>>

-----------------------------------------------------------------------------
(***************************************************************************)
(* Signing in, and the app's life                                          *)
(***************************************************************************)
\* signInWithPhone and its kin, from the screens for users who are not signed in.
SignInStart ==
  /\ hydrated
  /\ ~authed
  /\ ~signingIn
  /\ signingIn' = TRUE
  /\ loading' = TRUE
  /\ UNCHANGED <<pair, authed, hydrated, disk, refreshPromise, refresh, calls,
                 logOuts, server, orphans, history>>

\* What an earlier sign-in left under way, and may end this one: a run of
\* logOut, or a refresh (whose answer replaces the pair, or logs out).
LeftOver == refresh.phase # "none" \/ \E l \in LogOuts : logOuts[l] # Idle

SignInGranted ==
  /\ signingIn
  /\ Issue
  /\ pair' = lastPair + 1
  /\ authed' = TRUE
  /\ loading' = FALSE
  /\ signingIn' = FALSE
  /\ excused' = LeftOver
  /\ UNCHANGED <<hydrated, disk, refreshPromise, refresh, calls, logOuts,
                 orphans, due, faults, over>>

\* It is refused or lost, or the answer is needsSignup, or it was a sendOtp.
SignInEnds ==
  /\ signingIn
  /\ loading' = FALSE
  /\ signingIn' = FALSE
  /\ UNCHANGED <<pair, authed, hydrated, disk, refreshPromise, refresh, calls,
                 logOuts, server, orphans, history>>

\* persist writes to the secure storage, which nobody awaits.
Persist ==
  /\ hydrated
  /\ disk # [pair |-> pair, authed |-> authed]
  /\ disk' = [pair |-> pair, authed |-> authed]
  /\ UNCHANGED <<store, hydrated, refreshPromise, refresh, calls, logOuts,
                 signingIn, server, orphans, history>>

\* The app is killed and started anew; the store is not yet loaded.
Killed ==
  /\ hydrated
  /\ Fault
  /\ ClearAll
  /\ hydrated' = FALSE
  /\ refreshPromise' = "null"
  /\ refresh' = NoRefresh
  /\ orphans' = orphans \union Abandoned
  /\ calls' = [c \in Calls |-> Free]
  /\ logOuts' = [l \in LogOuts |-> Idle]
  /\ signingIn' = FALSE
  /\ UNCHANGED <<disk, server>>

\* onRehydrateStorage; until then RootLayout renders nothing.
Rehydrated ==
  /\ ~hydrated
  /\ hydrated' = TRUE
  /\ pair' = disk.pair
  /\ authed' = disk.authed
  /\ UNCHANGED <<loading, disk, refreshPromise, refresh, calls, logOuts,
                 signingIn, server, orphans, history>>

-----------------------------------------------------------------------------
Next ==
  \/ RefreshRead
  \/ RefreshUpdate
  \/ \E n \in orphans : OrphanServed(n)
  \/ \E n \in live : SessionEnds(n)
  \/ \E n \in Pair : Aging(n)
  \/ \E c \in Calls : \/ CallStart(c)
                      \/ CallAnswered(c)
                      \/ CallFails(c)
                      \/ CallCheckFails(c)
  \/ RefreshGranted
  \/ RefreshRefused
  \/ RefreshInvalid
  \/ RefreshLost
  \/ \E l \in LogOuts : \/ LogOutPressed(l)
                        \/ LogOutBegins(l)
                        \/ LogOutPosts(l)
                        \/ LogOutServed(l)
                        \/ LogOutAnswered(l)
                        \/ LogOutLost(l)
  \/ SignInStart
  \/ SignInGranted
  \/ SignInEnds
  \/ Persist
  \/ Killed
  \/ Rehydrated

Spec == Init /\ [][Next]_vars

\* Every request is answered or fails (axios gives up after its timeout), timers
\* fire, the storage is read.  Nothing is assumed of the user or the clock.  The
\* fairness of RefreshInvalid is strong since the bound LogOuts, which the code
\* does not have, disables it now and then.
Fairness ==
  /\ WF_vars(RefreshRead)
  /\ WF_vars(RefreshUpdate)
  /\ WF_vars(RefreshGranted \/ RefreshRefused)
  /\ SF_vars(RefreshInvalid)
  /\ \A c \in Calls : WF_vars(CallAnswered(c) \/ CallFails(c))
  /\ \A l \in LogOuts : /\ WF_vars(LogOutBegins(l))
                        /\ WF_vars(LogOutPosts(l))
                        /\ WF_vars(LogOutServed(l))
                        /\ WF_vars(LogOutAnswered(l))
  /\ WF_vars(SignInEnds)
  /\ WF_vars(Rehydrated)

FairSpec == Spec /\ Fairness

-----------------------------------------------------------------------------
(***************************************************************************)
(* Properties                                                              *)
(***************************************************************************)
\* The values that the variables take, for the reader.
TypeOK ==
  /\ pair \in Pair \union {0}
  /\ authed \in BOOLEAN /\ loading \in BOOLEAN /\ hydrated \in BOOLEAN
  /\ disk \in [pair : Pair \union {0}, authed : BOOLEAN]
  /\ refreshPromise \in {"null", "pending", "rejected"}
  /\ refresh \in Refresh
  /\ calls \in [Calls -> Call]
  /\ logOuts \in [LogOuts -> LogOut]
  /\ signingIn \in BOOLEAN
  /\ due \in ClientDues
  /\ usable \subseteq [id : Pair, token : Pair] /\ used \subseteq Pair
  /\ orphans \subseteq Pair
  /\ age \in [Pair -> Age]
  /\ faults \in 0 .. MaxFaults /\ over \subseteq Pair /\ excused \in BOOLEAN

\* Whoever waits for a refresh waits for one that is under way: no call is left
\* behind on a promise that nobody will settle.
NobodyLeftWaiting ==
  /\ refreshPromise = "pending" <=> refresh.phase # "none"
  /\ \A c \in Calls : calls[c].st = "waiting" => refreshPromise = "pending"

\* The app shows a signed-in user only with tokens, also after a restart.
SignedInHasTokens ==
  /\ authed => pair # 0
  /\ disk.authed => disk.pair # 0

\* As long as nothing is lost, the tokens the client holds, or those on the way to
\* replace them, are ones the service accepts, or their session is over and there
\* was a reason for it: no interleaving of calls, refreshes, log-outs and sign-ins
\* leaves the client with a token that it had exchanged, and none gives a user
\* without a reason to be signed out the pair of an UPDATE that missed.
HeldIsLive ==
  LET current == IF refresh.answer = "granted" THEN refresh.pair ELSE pair
  IN  faults = 0 /\ pair # 0 =>
        current \in live \/ (current \in over /\ (excused \/ ~authed))

\* Nobody is signed out without cause: not by any interleaving of calls and
\* refreshes, unless since the sign-in the user asked, the session ended, a call
\* was made without tokens, or something was lost, or a run of logOut or a
\* refresh was still under way from an earlier sign-in.
SignedOutForCause ==
  [][authed /\ ~authed' => excused \/ faults' > 0]_vars

\* Who is signed out does not meet screens that are disabled for ever: the store
\* is loading only while a sign-in, a refresh or a run of logOut is under way,
\* although a refresh that succeeded leaves isLoading set.  Excepted is a client
\* that got tokens back after it was signed out (see SignedOutHasNoTokens): the
\* next refresh of those leaves it loading.
SignedOutNotLoading ==
  loading /\ ~authed /\ pair = 0 =>
    \/ signingIn \/ refresh.phase # "none"
    \/ \E l \in LogOuts : logOuts[l] # Idle

\* Every call ends: it is never stuck behind a refresh.
CallsEnd == \A c \in Calls : calls[c].st # "free" ~> calls[c].st = "free"

\* "Invalid or expired refresh tokens result in immediate logout", unless
\* something was lost.
InvalidLogsOut == refresh.answer = "invalid" ~> ~authed \/ faults > 0

\* "If refresh fails, the user is automatically logged out".
FailedRefreshLogsOut == refreshPromise = "rejected" ~> ~authed

\* "Tokens cleared on logout".
SignedOutHasNoTokens == hydrated /\ ~authed => pair = 0

=============================================================================
