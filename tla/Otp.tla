--------------------------------- MODULE Otp ---------------------------------
(***************************************************************************)
(* One-time passwords of the API (apps/api/src/modules/auth/handlers.ts:   *)
(* requestOTP and verifyOTPCode; sendOTP of adapters/sms.ts; the `otps'    *)
(* table of db/schema.ts).                                                 *)
(*                                                                         *)
(* requestOTP stores a code for a phone and texts it; verifyOTPCode, with  *)
(* which phoneSignup and phoneSignIn begin, compares a code with the one   *)
(* stored.  As in Sessions, an action is one SQL statement, or the         *)
(* JavaScript between two of them, and requests interleave freely.         *)
(***************************************************************************)
EXTENDS Integers, FiniteSets

CONSTANTS
  Phones,             \* phone numbers
  Codes,              \* six-digit codes
  Requests,           \* slots for HTTP requests in flight at one time
  OTP_EXPIRY,         \* AUTH_CONFIG.OTP_EXPIRY_MINUTES, in ticks
  OTP_COOLDOWN,       \* AUTH_CONFIG.OTP_COOLDOWN_MINUTES, in ticks
  OTP_MAX_ATTEMPTS,   \* AUTH_CONFIG.OTP_MAX_ATTEMPTS
  MaxOtps,            \* bound: codes generated in one behaviour
  MaxUncounted,       \* bound: failed UPDATEs of the attempts, for each OTP
  MaxClock            \* bound: last tick of the clock

ASSUME ConfigAssumption ==
  /\ OTP_EXPIRY \in Nat
  /\ OTP_COOLDOWN \in Nat
  /\ OTP_MAX_ATTEMPTS \in Nat \ {0}
  /\ MaxOtps \in Nat
  /\ MaxUncounted \in Nat
  /\ MaxClock \in Nat

VARIABLES
  clock,      \* the time
  otps,       \* the `otps' table, a set of rows
  profiles,   \* phones whose account has a profile (`auth' and `users' rows)
  lastOtp,    \* how many codes requestOTP has generated
  pc,         \* pc[r]: the statement request r is at, or the answer it gave
  loc,        \* loc[r]: the handler's local variables
  texted,     \* the text messages handed to sendOTP, in the background
  arrived,    \* the text messages that reached their phone
  phoneOf,    \* history: the phone that the n-th OTP was generated for
  spent,      \* history: OTPs whose row a verification has deleted
  replaced,   \* history: OTPs whose row a later OTP has overwritten
  wrong,      \* history: wrong[n] codes differed from that of the n-th OTP ...
  uncounted,  \* history: ... uncounted[n] of which by requests whose UPDATE failed
              \* (both are kept until requests overlap)
  accepted,   \* history: accepted[n] verifications succeeded with it
  overlapped  \* history: two requests of one phone have been in flight at once

tables == <<otps, profiles, lastOtp>>
sms == <<texted, arrived>>
tallies == <<wrong, uncounted, accepted>>
history == <<phoneOf, spent, replaced, tallies, overlapped>>

vars == <<clock, tables, pc, loc, sms, history>>

-----------------------------------------------------------------------------
(***************************************************************************)
(* Data.  `gen' numbers the OTPs in the order they are generated: a row    *)
(* keeps its phone as primary key, but is a new OTP after each upsert.     *)
(***************************************************************************)
Gen == 1 .. MaxOtps

Row == [phone : Phones, gen : Gen, code : Codes, attempts : Nat,
        expiresAt : Int, createdAt : Int]

NoRow == [gen |-> 0]   \* SELECT found nothing

None == "none"

Purposes == {"login", "signup"}

\* A handler's local variables: the submitted phone, purpose and code, the
\* row read or about to be written and, as history, whether the OTP was spent
\* already when its row was read.
Locals == [phone : Phones \union {None}, purpose : Purposes \union {None},
           guess : Codes \union {None}, row : Row \union {NoRow},
           late : BOOLEAN]

NoLocals == [phone |-> None, purpose |-> None, guess |-> None, row |-> NoRow,
             late |-> FALSE]

\* A request that is answered has no locals left; its slot may be used again.
Answers == {"idle", "sent", "skipped", "userExists", "limited", "notFound",
            "expired", "exhausted", "invalid", "accepted", "error"}

Deleting == {"deleteExpired", "deleteExhausted", "deleteAccepted"}

InFlight == {"requestCooldown", "requestUser", "requestMake", "requestUpsert",
             "requestText", "verifyCheck", "attemptUpdate"} \union Deleting

Message == [phone : Phones, gen : Gen, at : Int]

\* SELECT ... FROM otps WHERE phone = p; the phone is the primary key.
RowsOf(p) == {row \in otps : row.phone = p}

Init ==
  /\ clock = 0
  /\ otps = {}
  /\ profiles \in SUBSET Phones
  /\ lastOtp = 0
  /\ pc = [r \in Requests |-> "idle"]
  /\ loc = [r \in Requests |-> NoLocals]
  /\ texted = {} /\ arrived = {}
  /\ phoneOf = [n \in Gen |-> None]
  /\ spent = {} /\ replaced = {}
  /\ wrong = [n \in Gen |-> 0]
  /\ uncounted = [n \in Gen |-> 0]
  /\ accepted = [n \in Gen |-> 0]
  /\ overlapped = FALSE

\* Request r is answered a.
Answer(r, a) ==
  /\ pc' = [pc EXCEPT ![r] = a]
  /\ loc' = [loc EXCEPT ![r] = NoLocals]

\* Request r goes on to its next statement s.
Goto(r, s) == pc' = [pc EXCEPT ![r] = s]

\* A request about phone p arrives.
Arrives(r, p) ==
  overlapped' = (overlapped \/ \E q \in Requests \ {r} :
                                 pc[q] \in InFlight /\ loc[q].phone = p)

-----------------------------------------------------------------------------
(***************************************************************************)
(* requestOTP                                                              *)
(***************************************************************************)
\* SELECT the row of the phone.
RequestRead(r, p, purpose) ==
  /\ pc[r] \in Answers
  /\ \E row \in IF RowsOf(p) = {} THEN {NoRow} ELSE RowsOf(p) :
       loc' = [loc EXCEPT ![r] = [phone |-> p, purpose |-> purpose,
                                  guess |-> None, row |-> row, late |-> FALSE]]
  /\ Goto(r, "requestCooldown")
  /\ Arrives(r, p)
  /\ UNCHANGED <<clock, tables, sms, phoneOf, spent, replaced, tallies>>

\* Mutant: minutesFromNow for minutesAgo.
RecentlyRequestedAhead(row) == row # NoRow /\ row.createdAt > clock + OTP_COOLDOWN

\* recentOTP.createdAt > minutesAgo(OTP_COOLDOWN)
RecentlyRequested(row) == row # NoRow /\ row.createdAt > clock - OTP_COOLDOWN

RequestCooldown(r) ==
  /\ pc[r] = "requestCooldown"
  /\ \/ /\ RecentlyRequested(loc[r].row)
        /\ Answer(r, "limited")
     \/ /\ ~RecentlyRequested(loc[r].row)
        /\ Goto(r, "requestUser")
        /\ UNCHANGED loc
  /\ UNCHANGED <<clock, tables, sms, history>>

\* SELECT the auth row and then its profile.  The two reads give what one
\* read between them would: a profile comes after its auth row and goes with
\* it.  Log-in of a stranger is answered 200 without a code.
RequestUser(r) ==
  /\ pc[r] = "requestUser"
  /\ LET userExists == loc[r].phone \in profiles IN
     \/ /\ loc[r].purpose = "login" /\ ~userExists
        /\ Answer(r, "skipped")
     \/ /\ loc[r].purpose = "signup" /\ userExists
        /\ Answer(r, "userExists")
     \/ /\ (loc[r].purpose = "login") = userExists
        /\ Goto(r, "requestMake")
        /\ UNCHANGED loc
  /\ UNCHANGED <<clock, tables, sms, history>>

Text(r) == [phone |-> loc[r].phone, gen |-> loc[r].row.gen,
            at |-> loc[r].row.createdAt]

\* Mutant: the row is written without its attempts.
RequestMakeNoAttempts(r, code) ==
  /\ pc[r] = "requestMake"
  /\ lastOtp < MaxOtps
  /\ lastOtp' = lastOtp + 1
  /\ LET row == [phone |-> loc[r].phone, gen |-> lastOtp + 1, code |-> code,
                 expiresAt |-> clock + OTP_EXPIRY, createdAt |-> clock]
     IN  loc' = [loc EXCEPT ![r] = [@ EXCEPT !.row = row]]
  /\ phoneOf' = [phoneOf EXCEPT ![lastOtp + 1] = loc[r].phone]
  /\ Goto(r, "requestUpsert")
  /\ UNCHANGED <<clock, otps, profiles, sms, spent, replaced, tallies, overlapped>>

\* generateOTP and the times of the row about to be written.
RequestMake(r, code) ==
  /\ pc[r] = "requestMake"
  /\ lastOtp < MaxOtps
  /\ lastOtp' = lastOtp + 1
  /\ LET row == [phone |-> loc[r].phone, gen |-> lastOtp + 1, code |-> code,
                 attempts |-> 0, expiresAt |-> clock + OTP_EXPIRY,
                 createdAt |-> clock]
     IN  loc' = [loc EXCEPT ![r] = [@ EXCEPT !.row = row]]
  /\ phoneOf' = [phoneOf EXCEPT ![lastOtp + 1] = loc[r].phone]
  /\ Goto(r, "requestUpsert")
  /\ UNCHANGED <<clock, otps, profiles, sms, spent, replaced, tallies, overlapped>>

\* Mutant: the text message is sent off before the row is stored.
RequestUpsertTexted(r) ==
  /\ pc[r] = "requestUpsert"
  /\ texted' = texted \union {Text(r)}
  /\ Goto(r, "requestText")
  /\ UNCHANGED <<clock, tables, loc, arrived, history>>

\* INSERT ... ON CONFLICT (phone) DO UPDATE
RequestUpsert(r) ==
  /\ pc[r] = "requestUpsert"
  /\ otps' = (otps \ RowsOf(loc[r].phone)) \union {loc[r].row}
  /\ replaced' = replaced \union {row.gen : row \in RowsOf(loc[r].phone)}
  /\ Goto(r, "requestText")
  /\ UNCHANGED <<clock, profiles, lastOtp, loc, sms, phoneOf, spent, tallies,
                 overlapped>>

\* The text message is left to the background (waitUntil), and the request
\* answered.
RequestText(r) ==
  /\ pc[r] = "requestText"
  /\ texted' = texted \union {Text(r)}
  /\ Answer(r, "sent")
  /\ UNCHANGED <<clock, tables, arrived, history>>

\* sendOTP hands the message to the provider, who sends it.  A message that
\* is not sent (SMS is not configured, the provider cannot be reached or refuses,
\* the Worker ends) stays where it is: nobody is told.
SmsSent(m) ==
  /\ m \in texted \ arrived
  /\ arrived' = arrived \union {m}
  /\ UNCHANGED <<clock, tables, pc, loc, texted, history>>

-----------------------------------------------------------------------------
(***************************************************************************)
(* verifyOTPCode                                                           *)
(***************************************************************************)
\* SELECT the row of the phone.
VerifyRead(r, p, guess) ==
  /\ pc[r] \in Answers
  /\ \/ /\ RowsOf(p) = {}
        /\ Answer(r, "notFound")
     \/ \E row \in RowsOf(p) :
          /\ loc' = [loc EXCEPT ![r] =
                       [phone |-> p, purpose |-> None, guess |-> guess,
                        row |-> row, late |-> row.gen \in spent]]
          /\ Goto(r, "verifyCheck")
  /\ Arrives(r, p)
  /\ UNCHANGED <<clock, tables, sms, phoneOf, spent, replaced, tallies>>

\* What the checks make of a row and a guess: the statement that follows.
Verdict(row, guess) ==
  CASE row.expiresAt < clock            -> "deleteExpired"
    [] row.expiresAt >= clock /\ row.attempts >= OTP_MAX_ATTEMPTS
                                        -> "deleteExhausted"
    [] row.expiresAt >= clock /\ row.attempts < OTP_MAX_ATTEMPTS
         /\ row.code # guess            -> "attemptUpdate"
    [] OTHER                            -> "deleteAccepted"

\* The checks; a wrong code is tallied here, where it is compared.
VerifyCheck(r) ==
  /\ pc[r] = "verifyCheck"
  /\ LET verdict == Verdict(loc[r].row, loc[r].guess) IN
       /\ Goto(r, verdict)
       /\ wrong' = IF verdict = "attemptUpdate" /\ ~overlapped
                     THEN [wrong EXCEPT ![loc[r].row.gen] = @ + 1] ELSE wrong
  /\ UNCHANGED <<clock, tables, loc, sms, phoneOf, spent, replaced, uncounted,
                 accepted, overlapped>>

\* What follows the UPDATE of the attempts.
AttemptAnswer(r) ==
  /\ \/ /\ loc[r].row.attempts + 1 >= OTP_MAX_ATTEMPTS
        /\ Goto(r, "deleteExhausted")
        /\ UNCHANGED loc
     \/ /\ loc[r].row.attempts + 1 < OTP_MAX_ATTEMPTS
        /\ Answer(r, "invalid")
  /\ UNCHANGED <<clock, profiles, lastOtp, sms, history>>

\* Mutant: the attempts are upserted, as in requestOTP.
AttemptUpsert(r) ==
  /\ pc[r] = "attemptUpdate"
  /\ otps' = (otps \ RowsOf(loc[r].phone))
               \union {[loc[r].row EXCEPT !.attempts = @ + 1]}
  /\ AttemptAnswer(r)

\* Mutant: the attempts are not stored.
AttemptNotStored(r) ==
  /\ pc[r] = "attemptUpdate"
  /\ AttemptAnswer(r)
  /\ UNCHANGED otps

\* UPDATE otps SET attempts = <the attempts read> + 1 WHERE phone: whatever
\* OTP the phone has by now.
AttemptUpdate(r) ==
  /\ pc[r] = "attemptUpdate"
  /\ otps' = {IF row.phone = loc[r].phone
                THEN [row EXCEPT !.attempts = loc[r].row.attempts + 1]
                ELSE row : row \in otps}
  /\ AttemptAnswer(r)

\* What follows the DELETE.
DeleteAnswer(r) ==
  /\ \/ /\ pc[r] = "deleteExpired"
        /\ Answer(r, "expired")
        /\ UNCHANGED accepted
     \/ /\ pc[r] = "deleteExhausted"
        /\ Answer(r, "exhausted")
        /\ UNCHANGED accepted
     \/ /\ pc[r] = "deleteAccepted"
        /\ Answer(r, "accepted")
        /\ accepted' = [accepted EXCEPT ![loc[r].row.gen] = @ + 1]
  /\ UNCHANGED <<clock, profiles, lastOtp, sms, phoneOf, replaced, wrong, uncounted,
                 overlapped>>

\* Mutant: an accepted OTP is left in the table.
DeleteUnlessAccepted(r) ==
  /\ pc[r] \in Deleting
  /\ otps' = IF pc[r] = "deleteAccepted" THEN otps
                                         ELSE otps \ RowsOf(loc[r].phone)
  /\ DeleteAnswer(r)
  /\ UNCHANGED spent

\* DELETE FROM otps WHERE phone, then the answer.
VerifyDelete(r) ==
  /\ pc[r] \in Deleting
  /\ otps' = otps \ RowsOf(loc[r].phone)
  /\ spent' = spent \union {row.gen : row \in RowsOf(loc[r].phone)}
  /\ DeleteAnswer(r)

-----------------------------------------------------------------------------
(***************************************************************************)
(* The environment.                                                        *)
(***************************************************************************)
\* A failed statement, a lost answer of the database or the end of the
\* Worker, at any point of a request.
Fail(r) ==
  /\ pc[r] \in InFlight
  /\ \/ /\ pc[r] = "attemptUpdate" /\ ~overlapped
        /\ uncounted[loc[r].row.gen] < MaxUncounted
        /\ uncounted' = [uncounted EXCEPT ![loc[r].row.gen] = @ + 1]
     \/ /\ pc[r] # "attemptUpdate" \/ overlapped
        /\ UNCHANGED uncounted
  /\ Answer(r, "error")
  /\ UNCHANGED <<clock, tables, sms, phoneOf, spent, replaced, wrong, accepted,
                 overlapped>>

\* phoneSignup goes on, after an accepted code, to create the account.
ProfileCreated(p) ==
  /\ p \notin profiles
  /\ \E n \in Gen : phoneOf[n] = p /\ accepted[n] > 0
  /\ profiles' = profiles \union {p}
  /\ UNCHANGED <<clock, otps, lastOtp, pc, loc, sms, history>>

Tick ==
  /\ clock < MaxClock
  /\ clock' = clock + 1
  /\ UNCHANGED <<tables, pc, loc, sms, history>>

Handler(r) ==
  \/ \E p \in Phones, purpose \in Purposes : RequestRead(r, p, purpose)
  \/ RequestCooldown(r)
  \/ RequestUser(r)
  \/ \E code \in Codes : RequestMake(r, code)
  \/ RequestUpsert(r)
  \/ RequestText(r)
  \/ \E p \in Phones, guess \in Codes : VerifyRead(r, p, guess)
  \/ VerifyCheck(r)
  \/ AttemptUpdate(r)
  \/ VerifyDelete(r)
  \/ Fail(r)

Next ==
  \/ \E r \in Requests : Handler(r)
  \/ \E m \in texted : SmsSent(m)
  \/ \E p \in Phones : ProfileCreated(p)
  \/ Tick

Spec == Init /\ [][Next]_vars

-----------------------------------------------------------------------------
(***************************************************************************)
(* Properties.                                                             *)
(***************************************************************************)
TypeOK ==
  /\ clock \in Int
  /\ otps \subseteq Row
  /\ profiles \subseteq Phones
  /\ lastOtp \in 0 .. MaxOtps
  /\ pc \in [Requests -> Answers \union InFlight]
  /\ loc \in [Requests -> Locals]
  /\ texted \subseteq Message /\ arrived \subseteq texted
  /\ phoneOf \in [Gen -> Phones \union {None}]
  /\ spent \subseteq Gen /\ replaced \subseteq Gen
  /\ wrong \in [Gen -> Nat]
  /\ uncounted \in [Gen -> 0 .. MaxUncounted]
  /\ accepted \in [Gen -> Nat]
  /\ overlapped \in BOOLEAN

\* A verification that reads the table after an OTP was deleted - because it
\* was used, was exhausted or had expired - never accepts that OTP, whatever
\* statements of older requests reach the table in between.
NoLateAccept ==
  \A r \in Requests : pc[r] = "deleteAccepted" => ~loc[r].late

\* "Maximum 3 failed attempts per OTP": no OTP has more than OTP_MAX_ATTEMPTS
\* wrong codes compared with it, as long as no two requests of a phone overlap.
\* The comparison comes before the UPDATE that counts it, so every UPDATE that
\* fails gives one guess more; no other failure does, at whatever statement, and
\* neither does a code that is verified again after one.
GuessLimit ==
  ~overlapped => \A n \in Gen : wrong[n] <= OTP_MAX_ATTEMPTS + uncounted[n]

\* One-time: no OTP is accepted twice, as long as no two requests of a phone
\* overlap.
AcceptedOnce == ~overlapped => \A n \in Gen : accepted[n] <= 1

\* A code that a phone receives, or is about to, is the one stored for the
\* phone, unless that was used up or a later code was stored: requestOTP hands
\* the message to sendOTP only once its row is written.
TextedWasStored ==
  \A m \in texted :
    \/ m.gen \in spent \union replaced
    \/ \E row \in otps : row.phone = m.phone /\ row.gen = m.gen

\* Two text messages to a phone are OTP_COOLDOWN apart, unless the first code was
\* used up by a verification or two requests of a phone overlapped.
CooldownKept ==
  ~overlapped =>
    \A m1, m2 \in texted :
      m1.phone = m2.phone /\ m1.gen < m2.gen /\ m1.gen \notin spent
        => m2.at >= m1.at + OTP_COOLDOWN

\* "1-minute cooldown between OTP requests".
TextsSpaced ==
  \A m1, m2 \in arrived :
    m1.phone = m2.phone /\ m1.gen < m2.gen => m2.at >= m1.at + OTP_COOLDOWN

=============================================================================
