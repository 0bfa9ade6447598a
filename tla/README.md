# Verification of the authentication, upload and notification logic

TLA+ modules that model the parts of this repository that have state and
concurrency: the API's authentication handlers, the mobile app's auth client and
its screens, the image upload and the toast. TLC checks them on small instances;
TLAPS proves, for every value of the constants, the safety properties of all of
them, and that the API's session handlers implement an abstract session service.

`PROJECT.json` lists components, runs, mutants, the source lines behind every
definition, findings, hazards and theorems. To repeat a check:

    tlc -workers 2 -config MCSessions_race.cfg MCSessions
    tlapm SessionsProofs.tla

## 1. The system

A monorepo with a Hono API on Cloudflare Workers over Postgres (`apps/api`), an
Expo mobile app (`apps/mobile`), and packages they share (`packages/auth`,
`packages/utils`, `packages/ui`, `packages/schemas`, `packages/email`). The web
app is a scaffold.

| Component | State | Operations | Module |
|---|---|---|---|
| OTP (`modules/auth/handlers.ts`, `adapters/sms.ts`) | table `otps`, one row per phone; text messages on their way | `requestOTP`, `verifyOTPCode`, `sendOTP` | `Otp` |
| Sessions (same file) | table `tokens`, foreign key to `auth` | `issueTokens`, `refreshTokens`, `logout` | `Sessions`, abstract: `SessionService` |
| Accounts (same file) | tables `auth`, `users`, background clean-ups | `phoneSignup`, `phoneSignIn`, `oauthSignIn`, `oauthSignup` | `Accounts` |
| `requireAuth` | none; checks the access token and its user | middleware | in `AuthClient` |
| Auth client (`packages/auth/expo/src`) | persisted store, `refreshPromise` | interceptors, `refreshTokens`, `logOut`, sign-in functions | `AuthClient` |
| Auth screens and hooks (`hooks/`, `app/(auth)`, `picker.tsx`) | navigation stack, forms, the picker's modal, timers, `isLoading` | presses, timers, answers | `AuthScreens` |
| Image upload (`use-image-upload.ts`, `ImageGrid.tsx`, `handlers/upload.ts`) | image list, selection, upload state, bucket | pick, remove, move, upload | `ImageUpload` |
| Toast (`alert.tsx`) | module variable, component state, timers | `showToast`, `hideToast`, close | `Toast` |
| Error handler, validation, adapters | none | the answer to a failed request | action `Fail` |

How they interact. A screen calls a hook, the hook a function of `service.ts`,
which sets the store's `isLoading` and posts to the API through the axios
instance of `api.ts`, whose interceptors add the access token and refresh it when
it is due. The API's handlers run statement by statement against Postgres, without
transactions; after the answer `waitUntil` may go on in the background (texting,
e-mail, deleting an incomplete account). Errors of the client end up in the store,
from which the screens make toasts. The image upload posts files with the access
token of the store.

What is hard here:

* every `await` of a handler is a point where another request's statement may come
  in between, and there is no transaction and no row lock: a SELECT's result is
  stale when the UPDATE runs;
* a statement can fail, be done without an answer, or be the last one of a Worker
  that is stopped;
* the client shares one `refreshPromise`, one `isLoading` and one store between
  calls, log-outs, sign-ins and restarts of the app;
* what follows an `await` in a React closure uses the values of the rendering in
  which it began;
* one toast component serves successive toasts, with effects that may not run anew.

## 2. Modules and their correspondence with the code

**`Sessions`** has one action for each stretch of a handler between two `await`s of
the database. `pc[r]` is where request `r` is and `loc[r]` its local variables;
tokens are numbered in the order they are generated (`generateRefreshToken` never
repeats one). Issue: `IssueStart`, `IssueInsert`, `IssueReply`. Refresh:
`RefreshRead` (SELECT), `RefreshCheck` (revoked, expired), `RefreshAuth` (SELECT of
the auth row), `RefreshDecide` (cooldown, new token), `RefreshUpdate` (UPDATE WHERE
token, whose row count the code ignores), `RefreshReply`. Logout: `LogoutRead`,
`LogoutUpdate`. `Fail` is any statement that throws, `AuthDeleted` the foreign
key's cascade, `Tick` the clock. `granted`, `superseded` and `revokedIds` are
history.

**`SessionService`** is what a client may rely on, without handlers, rows or
statements: `usable`, the sessions that can be refreshed, each with the one token
that does it, and `used`, the tokens that are or were in service. A session is
opened, rotated to a token never used before, or ended; a token that was generated
may be discarded. `Sessions` implements it under the mapping `Service`: `usable` are
the rows that are not revoked, `used` the tokens generated except those still on
their way to an INSERT or UPDATE. A statement that finds no row, because another
request was faster, is a `Discard`.

**`Otp`** does the same for `requestOTP` (read, cooldown, user, make, upsert, text)
and `verifyOTPCode` (read, verdict, then the update of the attempts or one of the
three deletes). Codes are model values, and `gen` numbers the OTPs, so that a
property can tell an OTP from its successor with the same phone or code. A message
given to `sendOTP` may arrive (`SmsSent`) or not: its failures are only logged.
`overlapped` remembers that two requests of one phone were in flight at once, `wrong`
how many wrong codes an OTP was compared with (`VerifyCheck`, before the UPDATE that
counts the guess), `uncounted` how many of those UPDATEs failed.

**`Accounts`** models the four sign-up and sign-in handlers over `auth` and `users`:
the identity's SELECT, the profile's, the e-mail's, the two INSERTs, the tokens, the
answer; the unique constraints are in `Taken`. `Cleanup` is the background DELETE
with its cascade. Three things may be lost, counted by `lost`: the answer to an
INSERT that was done, a Worker, a clean-up. A verified ID token is an input.

**`AuthClient`** takes one action per JavaScript task. A number stands for an access
and a refresh token, which are made, stored and cleared together. `refreshPromise`
is null, pending or rejected, as in the code: it goes back to null only after a
refresh that succeeded. Calls wait for it, are sent, answered by `requireAuth`,
retried once. `logOut` has its phases (timer, Google's sign-out, POST, the server's
UPDATE, the answer). `Killed`, `Persist` and `Rehydrated` are the app's restarts. The
server's state is that of `SessionService` and each of its statements a step of it,
to which `Rotate` and `Miss` add the cooldown by the age of a pair. The SELECT
(`RefreshRead`) and the UPDATE (`RefreshUpdate`) of a refresh are apart, and so are
the UPDATE of a log-out (`LogOutServed`) and its answer (`LogOutAnswered`), so that a
session may be revoked, expire or be deleted between them. As in the code, an UPDATE
that finds no row, or a revoked one, is answered 200 with a pair that is not in
service (`Miss`). What is left out of the server: other devices, which have sessions
of their own, and two refreshes of one token, of which the client makes the second
only when the first was lost (`OrphanServed`). `due` is the age at which the client,
by its own clock, takes a token for due; `over` remembers the pairs whose session
ended.

**`AuthScreens`** models the login, signup and otp screens: the stack, the phone
field, the steps of the sign-up, the profile with the name's validation error, the
resend timers, the store's `isLoading`, and requests that carry what their closure
captured. The birth year is chosen in a picker that a timer opens after the step is
shown; its modal covers every screen, so that nothing else can be pressed, and the
timer of a screen that another one covers still fires. The API's part is
`Refused` and `Sends` (cooldown, purpose, existing user) and `CodeAccepted` (the code
is used up, the account made). `registered` are the phones that have an account,
`Registered` those that have one to begin with. An answer may be lost after a code was
sent (`SentUntold`) or a code was accepted (`VerifyUntold`): the client then shows an
error, and the screen of a sign-up stays although the account exists. Otherwise a
behaviour ends on these screens when somebody is signed in. All sign-in methods are
modelled, whatever `AUTH_CONFIG` enables.

**`ImageUpload`** models the hook, the grid and the bucket. A run of
`uploadAndGetImageIds` keeps the list it captured, uploads file after file, all sizes
of one at once. `Sizes` are the required sizes; without the option `enableResizing` it
is "original" alone, and nothing else differs. A form without `isSaving` is modelled,
so that more can interleave.
Each pick returns a new file. `hasUnsavedChanges` is translated comparison by
comparison and checked against the list the form was opened with.

**`Toast`** models the queue of `setTimeout`s, the shown toast, the auto-dismiss
timer, the pending forced hides and the effect's dependencies. A timer may fire at
any time: the reading time is left out.

The `MC*` modules add only symmetry sets and views. `*Proofs` modules hold the
theorems. Operators whose comment begins with "Mutant" are wrong variants of the
definition below them; no specification uses them, and each makes TLC find the
property named with it in `PROJECT.json` violated.

## 3. What the runs check

| Run | Properties | Shows |
|---|---|---|
| `sessions_race` | `TypeOK`, `NoLateGrant`, `TokenSeparation`, `RotationSpacing`, `RevocationFinal`, `RefreshStoresToken`, `LogoutRevokes`, `ImplementsService` | with two requests at once: an old or revoked token is not granted by a refresh that read the table afterwards, tokens identify sessions, rotations keep the cooldown, a revocation is final; a refresh stores what it answers and a logout revokes, unless the token was rotated away meanwhile; all of it refines `SessionService` |
| `otp_race` | `TypeOK`, `NoLateAccept`, `GuessLimit`, `AcceptedOnce`, `TextedWasStored`, `CooldownKept` | with two requests at once: a deleted OTP is not accepted by a verification that read the table afterwards, and a code that is texted is or was the one stored; unless requests of one phone overlapped, at most the maximum of wrong guesses and one more for each UPDATE of the attempts that failed, single use, and the cooldown between texts unless the first code was used up |
| `accounts_race` | `TypeOK`, `SessionHasProfile`, `AnsweredOwnAccount`, `OrphanAccountedFor`, `SignedInAccountKept`, `OrphanResolved` | racing sign-ups and sign-ins with failures and one loss: no session without profile, tokens only for the account of the phone or subject verified, which is still there when they are answered, incomplete accounts are completed or cleaned up, signed-in ones kept |
| `client_race` | `NobodyLeftWaiting`, `SignedInHasTokens`, `HeldIsLive`, `SignedOutForCause` | two calls, refreshes, log-outs, sign-ins, one fault: nobody waits for a refresh that is not under way, a signed-in user has tokens; without a fault the tokens held (or those on their way to replace them) are live, or their session is over for a reason, and nobody is signed out without cause |
| `client_live` | `CallsEnd`, `InvalidLogsOut`, `SignedOutNotLoading` | with a clock far ahead and one far behind: every call ends; an invalid refresh token ends in a log-out; who is signed out, and without tokens, does not meet a store that stays loading |
| `screens` | `SignupDataComplete`, `ScreensMatchPhone`, `OneAtATime`, `PickerOnTop`, `ResendGranted` | overlapping requests, edits and a lost answer: a sign-up has its data, a screen its phone, `isLoading` is up exactly while a request is under way and lets no second one through, the picker does not open over another screen, a resend that is offered is granted |
| `image_race` | `IdsComplete`, `LimitKept`, `UniqueKeys`, `SpinnerStops`, `ChangesNoticed` | two uploads, picks, moves, removals, failures: only complete images get out, limit and keys hold, no spinner stays, every change to the images is noticed |
| `toast` | `UnseenGoes`, `TimerFits`, `AutoGoes` | toasts that replace one another: what should go goes, and the timer that runs is that of the toast shown |
| `client_lockout` (violated) | `FailedRefreshLogsOut` | see section 6 |
| `client_cleared` (violated) | `SignedOutHasNoTokens` | see section 6 |
| `otp_cooldown` (violated) | `TextsSpaced` | see section 6 |
| `image_undefined` (violated) | `ImagesAreUrls` | see section 6 |

### Bounds

* Two requests, calls, uploads or request slots are enough for every race of two
  that the hazards describe; a third would add no new kind of stale read, and the
  theorems of section 4 hold for any number.
* `MaxTokens = 3`: a session with two rotations, or two sessions and a rotation.
  Cooldown and expiry are one tick, so that a behaviour of two or three ticks is
  inside, at and beyond each limit. `MaxOtps = 2`: an OTP and its successor.
  `OTP_MAX_ATTEMPTS` is 2: a guess below, at and beyond the limit. Codes are two,
  a right and a wrong one. `MaxUncounted = 1`: of the UPDATEs of an OTP's attempts, one
  may fail (more only while requests of a phone overlap).
* `accounts_race`: one phone, two OAuth subjects and one e-mail, so that two
  identities clash in the e-mail; one loss.
* `client_race`: three token pairs (one sign-in and two rotations, or two sign-ins
  and one) and one fault; `ClientDues = {2}` is a client whose clock is right.
  `client_live` has `ClientDues = {0, 4}`: a clock so far ahead that every fresh
  token is due within the refresh cooldown, and one so far behind that the client
  learns of the expiry by a 401, the longest path through the interceptors; it has
  no faults, which `InvalidLogsOut` excuses and after which `client_lockout` applies.
* `image_race`: two images allowed, two sizes, three picks and four ids, of
  which none, one or two exist at the start: a full list, a list that an upload replaces, and a
  file picked and lost in between.
* `screens`: a registered and an unregistered phone, one provider, a cooldown of one
  second, three screens, one lost answer. `toast`: four toasts, two messages, two
  presses.

A bound disables an action (no more tokens, picks, toasts): that is why the runs do
not check deadlock. The programs, too, may stop: a user need not do anything.

### Symmetry and views

Symmetry sets are used only in runs without liveness properties. A view drops what
no guard and no property of its run reads: the answer of a finished request
(`sessions_race`, `otp_race`), the messages that have arrived (`otp_race`), and
`isLoading` of the client and which session a pair belongs to (`client_race`). `TypeOK` of `AuthClient`,
`ImageUpload`, `Toast` and `AuthScreens` is proved (section 4) and is not among the
properties of a run.

### Fairness

* `Accounts`: a request that has begun goes on and a clean-up is done (`waitUntil`
  keeps the Worker alive). `OrphanResolved` excuses behaviours in which a Worker or
  a clean-up is lost.
* `AuthClient`: requests are answered or time out (axios has a timeout), timers
  fire, the storage is read. `RefreshInvalid` is strongly fair since the bound on
  concurrent log-outs, which the code does not have, disables it now and then.
* `Toast`: timers fire.

Nothing is assumed of users, clocks, failures or losses.

## 4. What is proved

For every value of the constants: any number of requests, calls, uploads, screens,
tokens, phones, faults and ticks. The assumptions are named in the modules: numbers
are naturals, cooldowns and lifetimes not negative, the registered phones are phones
and the value for no phone is not one (`PhonesAssumption`), and there are ids for a
full list (`maxImages <= MaxIds`, `ImageUpload`). Every invariant and every action
property of a passing run is a theorem; most are not inductive, and each module has
its strengthening. TLC checked the invariants of the mobile modules on the instances
of the runs before they were proved.

* `SessionsProofs`: `TypeOK`, `NoLateGrant`, `TokenSeparation`, `RotationSpacing`,
  `RevocationFinal`. The inductive invariant adds that the numbers given out bound
  all tokens (`Numbered`), that a token on its way to the table is nowhere else
  (`NewTokens`), what a request carries (`CarriedRows`), and the heart of the
  argument, `Snapshot`: as long as the token a refresh was given is stored, its row
  was not used since the refresh read it. So an UPDATE either finds the row as it
  was read, and the cooldown that was checked then holds now, or finds none.
  `Spaced`, `GrantedFor` and `History` relate the values of the UPDATE and the
  history variables to the table.
* `SessionServiceProofs`: `RefreshStoresToken`, `LogoutRevokes`, and the refinement
  `ImplementsService`. On top of that invariant, `Presented` says that the session
  a request read still has the token presented, or that this token has been rotated
  away: so an UPDATE WHERE token that finds nothing can be told from one that hits.
  For the refinement, a statement that writes is an `Open` or a `Rotate`
  (`InsertOpens`, `UpdateRotates`), an answer that drops a generated token is a
  `Discard` (`AnswerIsStep`), a logout and the cascade are an `End` (`Ends`), and
  every other step leaves both mapped variables alone (`Hidden`, `Drawn`).
* `OtpProofs`: `TypeOK`, `NoLateAccept`, `TextedWasStored`, `GuessLimit`,
  `AcceptedOnce`, `CooldownKept`. The first invariant says that a stored OTP is not
  spent (`Stored`), that one on its way to the table is nowhere else (`OnItsWay`),
  and that no verification under way read a spent one (`NotLate`): the UPDATE of the
  attempts never brings a deleted row back. `TextInv` adds that a request that texts
  has written its row. `AloneInv` is what the exception of the other three buys: as
  long as no two requests of a phone overlapped, a phone has one request at most
  (`Alone`), and what that request read is what the table holds (`Current`). On it,
  `CountInv` says that a stored OTP was compared with no more wrong codes than its row
  counts and UPDATEs failed, and that none was accepted (`Counted`), and `SpaceInv`
  that the cooldown of a message is over unless its row is still there to keep it
  (`Cooled`), also for a request that is past the check (`Spaced`).
* `AccountsProofs`: `TypeOK`, `SessionHasProfile`, `AnsweredOwnAccount`,
  `OrphanAccountedFor`, `SignedInAccountKept`. The invariant says that ids are given
  out once (`IdsGivenOut`), that a sign-up between its INSERTs owns its auth row
  (`Owned`: without profile, not to be deleted, nobody else's), that tokens are
  issued only for complete accounts (`Complete`), that without a loss the clean-up
  only has incomplete ones (`CleanupsIncomplete`), and that a request carries its own
  account from the SELECT or INSERT on (`OwnAccount`).

* `AuthClientProofs`: `TypeOK`, `NobodyLeftWaiting`, `SignedInHasTokens`,
  `HeldIsLive`, `SignedOutNotLoading`, `SignedOutForCause`. The invariant says that
  nothing is under way before the store is loaded (`Quiet`), that without a fault no
  refresh goes on without a client that waits for it (`Faultless`), and that a refresh
  that the server has read has, and brings, a pair that is in service or whose session
  is over (`Brought`): with that, an UPDATE that misses is one whose session ended
  meanwhile. `Safe` is the heart of `SignedOutForCause`:
  a user without a cause to be signed out has no `logOut` under way and no invalid
  answer on its way, and the pair held, or the one that is coming, is live. The
  attempt to prove the earlier form of `SignedOutNotLoading`, which did not except a
  client that got tokens back, showed it to be false with a third pair of tokens.
* `ImageUploadProofs`: `TypeOK`, `IdsComplete`, `LimitKept`, `UniqueKeys`,
  `SpinnerStops`, `ChangesNoticed`. Every list that may be put back, and not only the
  one that is shown, is within the limit, without duplicates and with complete ids:
  the form's (`ShownOK`), the one a pick captured (`PickOK`), those of the runs
  (`RunsOK`, with the ids assigned so far and the sizes still being sent) and those
  returned (`ReturnedOK`). `SpinnersOK` relates the spinners to the runs, `Remembered`
  the first list to the one the form was opened with. Lemmas on lists (`InsertedList`,
  `RemovedList`, `MovedList`, `WithoutList`) say what the grid's splices keep.
* `ToastProofs`: `TypeOK`, `UnseenGoes`, `TimerFits`.
* `AuthScreensProofs`: `TypeOK`, `SignupDataComplete`, `ScreensMatchPhone`,
  `OneAtATime`, `PickerOnTop`, `ResendGranted`. `ScreenOK` holds of each screen
  alone: a sign-up has what its earlier steps ask for, and its picker is open, or
  about to be, at its own step only. `ResendOK` keeps a resend with its screen.
  `Alone`: without an overlapping request of the login screen or of OAuth there is
  one request at most, since the others wait for the store. `AccountsOK`: while the
  screens are there and nothing was lost, nobody has got an account since the start,
  and afterwards accounts are only added. `StepsOK`: below the top,
  and at the top while an answer may bring another screen, a sign-up is at its last
  step, so that its picker cannot open there. `TimersOK`: what is left of a resend
  timer covers what is left of the API's cooldown (`TimersCover`), which a second that
  passes, a new code and a used one keep; for a new code this needs that there is one
  otp screen at most, and none below the sign-up of a phone (`OtpsLast`), and that a
  request under way finds the screens it was made on (`RequestFits`).

Only model-checked, since fairness and ENABLED are beyond the prover: the liveness
properties `OrphanResolved`, `CallsEnd`, `InvalidLogsOut` and `AutoGoes`. The four
violated properties are refuted by TLC.

## 5. Hazards

`PROJECT.json` lists them at their lines with the properties that cover them: stale
reads between statements, the two INSERTs of a sign-up, lost answers, the shared
refresh, restarts of the app, closures with old lists, a selected index that outlives
its list, successive toasts in one component, the two cooldown clocks.

## 6. Findings

Shown by a run:

* **A failed refresh locks the client out** (`client_lockout`). `refreshPromise` is
  reset only after a refresh that succeeded (`api.ts:70`). After one that failed by
  timeout, rate limit or server error, every later call that needs a refresh is
  rejected with the old error, and the user stays signed in until the app is started
  anew; `packages/auth/expo/docs/api.md:104` says "If refresh fails, the user is
  automatically logged out".
* **`undefined` in the image list** (`image_undefined`). An image is picked and
  selected while an upload is under way; the upload's end puts back the shorter list
  it began with; the next press splices at an index that is not there
  (`ImageGrid.tsx:51`) and inserts `undefined`, on which rendering throws.
* **Tokens after a log-out** (`client_cleared`). The answer of a refresh that arrives
  after `clearAll` puts tokens back into the store of a signed-out user
  (`api.ts:177`); `packages/auth/expo/docs/api.md:341` says "Tokens cleared on
  logout".
* **Texts within the cooldown** (`otp_cooldown`). The cooldown is kept in the row that
  a verification deletes (`handlers.ts:101`): after a code was accepted, or its
  attempts were exhausted, the phone can be texted again at once;
  `apps/api/docs/auth.md:358` says "1-minute cooldown between OTP requests".

Known deviations, which a property names in its exception:

* Two refreshes of one token: the UPDATE of the second matches no row, and its 200
  answer has a refresh token that is stored nowhere (`handlers.ts:387`):
  `RefreshStoresToken` excepts a token rotated away meanwhile.
* A logout that races a refresh updates no row and still answers "Logged out"
  (`handlers.ts:407`): `LogoutRevokes` has the same exception.
* A wrong code is compared before the UPDATE that counts it (`handlers.ts:196`): each
  UPDATE that fails gives one guess more. `GuessLimit` adds `uncounted`, which counts
  exactly those.
* A `logOut` that read its token before a refresh replaced it posts the old one
  (`api.ts:203`); the API refuses it, the store is cleared, and the session stays on
  the server until it expires.
* A log-out that is served between the SELECT and the UPDATE of a refresh revokes the
  row that the refresh then rotates (`handlers.ts:387`): the client is answered 200
  with a pair that is not in service. `HeldIsLive` excepts it, since the user asked.
* A sign-up that was done but whose answer was lost leaves the otp screen of the
  sign-up for a phone that now has an account: every code typed there is refused.
  `ScreensMatchPhone` excepts that screen.
* Requests of the login screen, whose buttons look at their own `isLoading` and not
  at the store's (`usePhoneSignIn.ts:14`), may overlap others, and the first answer resets the flag for all
  (`service.ts:26`): `OneAtATime` and `ResendGranted` except them (`mixed`).
* Concurrent verifications write back the same count of attempts
  (`handlers.ts:198`), may accept one OTP twice (`:219`), and delete or charge an OTP
  requested meanwhile (`:181`): `GuessLimit`, `AcceptedOnce` and `CooldownKept` except
  behaviours in which requests of one phone overlapped.
* A user who signs in while a `logOut` or a refresh of the session before is still
  under way may be signed out by it (`api.ts:215`; `LeftOver`).
* A user who steps back while the sign-up's request is under way may get the birth
  year's modal over the otp screen (`useSignupFlow.ts:76`; `strayed`).
* A second request between the two INSERTs of a sign-up is answered
  `PROFILE_INCOMPLETE` with no failure anywhere (`handlers.ts:558`, "This should never
  happen").
* An e-mail that belongs to another subject of the same provider makes the INSERT
  fail instead of the conflict answer (`handlers.ts:579`).
* A Worker that ends between the two INSERTs leaves an auth row that nobody completes
  or deletes.
* `isLoading` stays true after a refresh that succeeded (`api.ts:173`);
  `SignedOutNotLoading` shows that it does not outlive the session, unless the client
  got tokens back from a late refresh (`client_cleared`): their next refresh leaves a
  signed-out client loading.
* In a form that starts empty, the first image picked becomes the baseline of
  `hasUnsavedChanges` (`use-image-upload.ts:402`).
* The forced hide of a closing toast also hides a manual toast that came in the 250 ms
  before (`alert.tsx:108`); `UnseenGoes` says that it is not left there unseen.

## 7. Assumptions

Single statements of Postgres are atomic and constraints are checked by them. React
renders between two tasks. Random tokens and ids do not repeat. `crypto`, `jose`,
Google's and Apple's dialogs, Postgres, R2 and the SMS provider are external: only
their outcomes appear. A duration given to a toast is well-formed.

## 8. Not modelled

E-mail templates and address parsing, text helpers, Zod schemas, response formatting,
SigV4 signing, `generateOTP`, logging, rendering and styling, the UI demo, the speech
recogniser, property images, the health check, the web scaffold: pure functions, I/O
or layout without state. `calculateReadingTime` only gives a timer its length, and a
timer may fire at any time. `getDb`'s cached connection and the welcome e-mail have
no state that a request can see.

## 9. Plan

Done: all modules of section 2; proofs of every safety property that a run checks,
and of the refinement of `SessionService` by `Sessions`.

Next: the invariants behind the liveness properties that need no fairness, that is,
what an unfinished call, clean-up or toast waits for is there; and lemmas on
`hasUnsavedChanges` and the grid's splices as operators of their own.
