----------------------------- MODULE AuthScreens -----------------------------
(***************************************************************************)
(* The screens for users who are not signed in (login, signup and otp of   *)
(* apps/mobile/src/app/(auth)) with their hooks (usePhoneSignIn,           *)
(* useGoogleSignIn, useAppleSignIn, useSignupFlow and useOtpFlow of        *)
(* packages/auth/expo/src/hooks), and what the API answers them.           *)
(*                                                                         *)
(* JavaScript runs one task at a time: an action is a press, a timer or an *)
(* answer, with the rendering and the promise reactions it sets off.  What *)
(* follows an `await' has the values that its closure captured.  Screens   *)
(* are kept on a stack; those below the top one stay mounted, and a        *)
(* request goes on after the screen that made it is gone.                  *)
(***************************************************************************)
EXTENDS Integers, Sequences

CONSTANTS
  Phones,       \* valid phone numbers
  Registered,   \* those that have an account to begin with
  Providers,    \* of OAuth: "google" and "apple"
  Cooldown,     \* OTP_RESEND_COOLDOWN, and the API's OTP_COOLDOWN_MINUTES
  Requests,     \* bound: slots for requests of service.ts under way
  MaxScreens,   \* bound: screens on the stack
  MaxFaults     \* bound: answers that are lost

ASSUME ConfigAssumption ==
  /\ Cooldown \in Nat
  /\ MaxScreens \in Nat
  /\ MaxFaults \in Nat

VARIABLES
  stack,      \* the screens, the one that is shown last; empty when signed in
  phone,      \* what the phone field of the login screen holds; None if invalid
  native,     \* providers whose own sign-in dialog is under way
  isLoading,  \* of the store
  reqs,       \* reqs[q]: a request of service.ts
  otpAge,     \* API: otpAge[p], since when the OTP of p exists; None if none does
  registered, \* API: the phones that have an account
  limited,    \* history: a resend was refused by the API's cooldown
  mixed,      \* history: a request of the login screen overlapped another one
  strayed,    \* history: the user went elsewhere while a request was under way
  faults      \* answers lost so far

vars == <<stack, phone, native, isLoading, reqs, otpAge, registered, limited, mixed,
          strayed, faults>>

\* what the presses and timers within a screen leave alone
rest == <<phone, native, isLoading, reqs, otpAge, registered, limited, mixed, strayed,
          faults>>

-----------------------------------------------------------------------------
None == "none"
NoAge == -1

ASSUME PhonesAssumption == Registered \subseteq Phones /\ None \notin Phones

\* The profile of a sign-up.  A name is typed, and may be invalid; a birth year
\* and a gender are chosen from what is offered.
Profile == [name : {None, "bad", "good"}, birthYear : BOOLEAN, gender : BOOLEAN]
NoProfile == [name |-> None, birthYear |-> FALSE, gender |-> FALSE]
Complete == [name |-> "good", birthYear |-> TRUE, gender |-> TRUE]

Login == [at |-> "login"]

\* Mutant: the birth year is asked for last.
StepsYearLast == <<"name", "gender", "birthYear">>

Steps == <<"name", "birthYear", "gender">>

\* A sign-up is for a phone or, by OAuth, for none; `step' is the index of the
\* step it is at, `error' is form.errors.name.  The birth year is chosen in a
\* <Picker/>, whose modal is `open', or will be opened by a `timer'.
Signup(p) == [at |-> "signup", phone |-> p, step |-> 1, data |-> NoProfile,
              error |-> FALSE, open |-> FALSE, timer |-> FALSE]

AtStep(s, step) == s.at = "signup" /\ Steps[s.step] = step

\* setCurrentStep: the effect of the step before clears its timer, the one of
\* the step "birthYear" starts one; the picker is mounted, closed, at that step.
StepTo(s, i) == [s EXCEPT !.step = i, !.open = FALSE,
                          !.timer = (Steps[i] = "birthYear")]

\* An otp screen has `data' if its purpose is to sign up.
Otp(p, purpose, data) ==
  [at |-> "otp", phone |-> p, purpose |-> purpose, data |-> data,
   resendTimer |-> Cooldown]

Top == stack[Len(stack)]

\* The modal of a picker covers every screen, also those above its own.
Covered == \E i \in 1 .. Len(stack) : stack[i].at = "signup" /\ stack[i].open

At(screen) == stack # <<>> /\ Top.at = screen /\ ~Covered

\* The top screen becomes s.
Rendered(s) == [stack EXCEPT ![Len(stack)] = s]

\* A request, with what the handler that awaits it goes on with.
Free == [kind |-> "free"]

Kinds == {"login", "resend", "complete", "oauthSignIn", "oauthSignUp", "verify"}

InFlight == {q \in Requests : reqs[q] # Free}

Busy(kind) == \E q \in Requests : reqs[q].kind = kind

Init ==
  /\ stack = <<Login>>
  /\ phone = None
  /\ native = {}
  /\ isLoading = FALSE
  /\ reqs = [q \in Requests |-> Free]
  /\ otpAge = [p \in Phones |-> NoAge]
  /\ registered = Registered
  /\ limited = FALSE /\ mixed = FALSE /\ strayed = FALSE /\ faults = 0

\* A function of service.ts is called: the store is loading, the request is sent.
Post(req) ==
  /\ \E q \in Requests : reqs[q] = Free /\ reqs' = [reqs EXCEPT ![q] = req]
  /\ isLoading' = TRUE
  /\ LET ofLogin == req.kind \in {"login", "oauthSignIn"} IN
     /\ mixed' = (mixed \/ (ofLogin /\ InFlight # {}))
     /\ strayed' = (strayed \/ (ofLogin /\ (InFlight # {} \/ ~At("login"))))

-----------------------------------------------------------------------------
(***************************************************************************)
(* The login screen                                                        *)
(***************************************************************************)
PhoneTyped(p) ==
  /\ At("login")
  /\ phone' = p
  /\ UNCHANGED <<stack, native, isLoading, reqs, otpAge, registered, limited, mixed,
                 strayed, faults>>

\* handleSendOtp; its own isLoading disables the button, the store's does not.
SendOtpPressed ==
  /\ At("login")
  /\ ~Busy("login")
  /\ phone # None
  /\ Post([kind |-> "login", phone |-> phone])
  /\ UNCHANGED <<stack, phone, native, otpAge, registered, limited, faults>>

\* isLoading of useGoogleSignIn or useAppleSignIn: from the press to the end of
\* the request that follows the provider's dialog
SigningIn(provider) ==
  \/ provider \in native
  \/ \E q \in InFlight : reqs[q] = [kind |-> "oauthSignIn", provider |-> provider]

\* handleGoogleSignIn, handleAppleSignIn: the provider's dialog
OAuthPressed(provider) ==
  /\ At("login")
  /\ ~SigningIn(provider)
  /\ native' = native \union {provider}
  /\ UNCHANGED <<stack, phone, isLoading, reqs, otpAge, registered, limited, mixed,
                 strayed, faults>>

\* The dialog gives an id token, with which the API is asked.
OAuthToken(provider) ==
  /\ provider \in native
  /\ native' = native \ {provider}
  /\ Post([kind |-> "oauthSignIn", provider |-> provider])
  /\ UNCHANGED <<stack, phone, otpAge, registered, limited, faults>>

\* It is cancelled or fails.
OAuthCancelled(provider) ==
  /\ provider \in native
  /\ native' = native \ {provider}
  /\ UNCHANGED <<stack, phone, isLoading, reqs, otpAge, registered, limited, mixed,
                 strayed, faults>>

-----------------------------------------------------------------------------
(***************************************************************************)
(* The signup screen                                                       *)
(***************************************************************************)
\* form.set("name", ...), which also clears the field's error
NameTyped(name) ==
  /\ At("signup") /\ AtStep(Top, "name")
  /\ stack' = Rendered([Top EXCEPT !.data.name = name, !.error = FALSE])
  /\ UNCHANGED rest

\* The field is left: form.validate("name")
NameBlurred ==
  /\ At("signup") /\ AtStep(Top, "name")
  /\ stack' = Rendered([Top EXCEPT !.error = Top.data.name # "good"])
  /\ UNCHANGED rest

GenderChosen ==
  /\ At("signup") /\ AtStep(Top, "gender")
  /\ stack' = Rendered([Top EXCEPT !.data.gender = TRUE])
  /\ UNCHANGED rest

\* The picker is pressed, or its timer fires, which may be when another screen
\* is on top.
PickerOpened ==
  /\ \E i \in 1 .. Len(stack) :
       /\ AtStep(stack[i], "birthYear")
       /\ \/ stack[i].timer /\ stack' = [stack EXCEPT ![i].open = TRUE,
                                                     ![i].timer = FALSE]
          \/ At("signup") /\ i = Len(stack) /\ stack' = [stack EXCEPT ![i].open = TRUE]
  /\ UNCHANGED rest

\* handleItemSelect: a year is chosen; or closeModal: none is.
PickerClosed ==
  /\ \E i \in 1 .. Len(stack) :
       /\ stack[i].at = "signup" /\ stack[i].open
       /\ \E year \in {TRUE, stack[i].data.birthYear} :
            stack' = [stack EXCEPT ![i].open = FALSE, ![i].data.birthYear = year]
  /\ UNCHANGED rest

isCurrentStepValid(s) ==
  CASE AtStep(s, "name")      -> ~s.error /\ s.data.name # None
    [] AtStep(s, "birthYear") -> s.data.birthYear
    [] AtStep(s, "gender")    -> s.data.gender

\* Mutant: the name is not validated.
NextUnchecked ==
  /\ At("signup") /\ Top.step < Len(Steps)
  /\ isCurrentStepValid(Top)
  /\ stack' = Rendered(StepTo(Top, Top.step + 1))
  /\ UNCHANGED rest

\* handleNext, up to the last step: the button, unless the store is loading, or
\* the keyboard's `next'.  Of what can be entered, only a name may be invalid.
NextPressed ==
  /\ At("signup") /\ Top.step < Len(Steps)
  /\ isCurrentStepValid(Top)
  /\ ~AtStep(Top, "name") => ~isLoading
  /\ stack' = Rendered(IF AtStep(Top, "name") /\ Top.data.name # "good"
                         THEN [Top EXCEPT !.error = TRUE]
                         ELSE StepTo(Top, Top.step + 1))
  /\ UNCHANGED rest

\* handleNext at the last step: handleCompleteSignup
CompletePressed ==
  /\ At("signup") /\ Top.step = Len(Steps)
  /\ ~isLoading
  /\ isCurrentStepValid(Top)
  /\ Post(IF Top.phone = None
            THEN [kind |-> "oauthSignUp", data |-> Top.data]
            ELSE [kind |-> "complete", phone |-> Top.phone, data |-> Top.data])
  /\ UNCHANGED <<stack, phone, native, otpAge, registered, limited, faults>>

\* handleBack within the signup screen; never disabled.
StepBackPressed ==
  /\ At("signup") /\ Top.step > 1
  /\ stack' = Rendered(StepTo(Top, Top.step - 1))
  /\ strayed' = (strayed \/ InFlight # {})
  /\ UNCHANGED <<phone, native, isLoading, reqs, otpAge, registered, limited, mixed,
                 faults>>

\* router.back(), by handleBack of the otp screen and of the first step, or the
\* platform's way back, which does not know of steps: a resend of the screen that
\* goes has no timer to set any more.
BackPressed ==
  /\ At("otp") \/ At("signup")
  /\ stack' = SubSeq(stack, 1, Len(stack) - 1)
  /\ reqs' = [q \in Requests |->
                IF reqs[q].kind = "resend" /\ reqs[q].screen = Len(stack)
                  THEN [reqs[q] EXCEPT !.screen = 0] ELSE reqs[q]]
  /\ UNCHANGED <<phone, native, isLoading, otpAge, registered, limited, mixed, strayed,
                 faults>>

-----------------------------------------------------------------------------
(***************************************************************************)
(* The otp screen                                                          *)
(***************************************************************************)
\* Mutant: the input is never disabled.
OtpInputAlways == At("otp")

\* <OtpInput/> takes digits, and hands over the code with the last one, unless it
\* is disabled.
OtpInput == At("otp") /\ ~isLoading

\* The last digit is typed: handleVerifyOtp.  Without the data of a sign-up it
\* ends with "Signup data not found".
CodeTyped ==
  /\ OtpInput
  /\ Top.purpose = "signup" => Top.data = Complete
  /\ Post([kind |-> "verify", phone |-> Top.phone, purpose |-> Top.purpose])
  /\ UNCHANGED <<stack, phone, native, otpAge, registered, limited, faults>>

\* Mutant: the timer does not disable the button.
ResendPressedAnyTime ==
  /\ At("otp")
  /\ ~isLoading
  /\ Post([kind |-> "resend", phone |-> Top.phone, purpose |-> Top.purpose,
           screen |-> Len(stack)])
  /\ UNCHANGED <<stack, phone, native, otpAge, registered, limited, faults>>

\* handleResendOtp
ResendPressed ==
  /\ At("otp")
  /\ Top.resendTimer = 0
  /\ ~isLoading
  /\ Post([kind |-> "resend", phone |-> Top.phone, purpose |-> Top.purpose,
           screen |-> Len(stack)])
  /\ UNCHANGED <<stack, phone, native, otpAge, registered, limited, faults>>

\* A second passes; the timers of the screens may be late.
Tick ==
  /\ \E late \in SUBSET (1 .. Len(stack)) :
       stack' = [i \in 1 .. Len(stack) |->
                   IF /\ stack[i].at = "otp" /\ i \notin late
                      /\ stack[i].resendTimer > 0
                     THEN [stack[i] EXCEPT !.resendTimer = @ - 1] ELSE stack[i]]
  /\ otpAge' = [p \in Phones |-> IF otpAge[p] \in 0 .. Cooldown - 1
                                   THEN otpAge[p] + 1 ELSE otpAge[p]]
  /\ UNCHANGED <<phone, native, isLoading, reqs, registered, limited, mixed, strayed,
                 faults>>

-----------------------------------------------------------------------------
(***************************************************************************)
(* The answers                                                             *)
(***************************************************************************)
\* The answer of request q arrives: the store is not loading any more.
Settled(q) ==
  /\ reqs' = [reqs EXCEPT ![q] = Free]
  /\ isLoading' = FALSE
  /\ UNCHANGED <<phone, native, mixed, strayed>>

\* router.push; (auth) is not accessible to a user who is signed in.
Push(s) ==
  /\ Len(stack) < MaxScreens
  /\ stack' = IF stack = <<>> THEN <<>> ELSE Append(stack, s)

\* requestOTP of the API: it may refuse, by its cooldown or since the phone of a
\* sign-up has an account; it may have nobody to send a code to; or it sends one.
Recent(p) == otpAge[p] # NoAge /\ otpAge[p] < Cooldown

Refused(p, purpose) == Recent(p) \/ (purpose = "signup" /\ p \in registered)

Sends(p, purpose) ==
  /\ ~Refused(p, purpose)
  /\ purpose = "login" => p \in registered
  /\ otpAge' = [otpAge EXCEPT ![p] = 0]

\* Mutant: the screen is for the phone that the field holds by now.
LoginAnsweredLatest(q) ==
  /\ reqs[q].kind = "login"
  /\ phone # None
  /\ Sends(reqs[q].phone, "login")
  /\ Push(Otp(phone, "login", NoProfile))
  /\ Settled(q)
  /\ UNCHANGED <<registered, limited, faults>>

\* Login: the otp screen for a phone with an account, the signup screen else.
LoginAnswered(q) ==
  /\ reqs[q].kind = "login"
  /\ LET p == reqs[q].phone IN
     \/ /\ Sends(p, "login")
        /\ Push(Otp(p, "login", NoProfile))
     \/ /\ ~Refused(p, "login")
        /\ p \notin registered
        /\ Push(Signup(p))
        /\ UNCHANGED otpAge
     \/ /\ Refused(p, "login")
        /\ UNCHANGED <<stack, otpAge>>
  /\ Settled(q)
  /\ UNCHANGED <<registered, limited, faults>>

\* The sign-up by phone is complete: a code is sent, and asked for.
CompleteAnswered(q) ==
  /\ reqs[q].kind = "complete"
  /\ LET p == reqs[q].phone IN
     \/ /\ Sends(p, "signup")
        /\ Push(Otp(p, "signup", reqs[q].data))
     \/ /\ Refused(p, "signup")
        /\ UNCHANGED <<stack, otpAge>>
  /\ Settled(q)
  /\ UNCHANGED <<registered, limited, faults>>

\* A resend: the timer of the screen that asked, if it is there, starts anew.
ResendAnswered(q) ==
  /\ reqs[q].kind = "resend"
  /\ LET p == reqs[q].phone
         i == reqs[q].screen
     IN  \/ /\ Sends(p, reqs[q].purpose)
            /\ stack' = IF i \in 1 .. Len(stack)
                          THEN [stack EXCEPT ![i].resendTimer = Cooldown] ELSE stack
            /\ UNCHANGED limited
         \/ /\ Refused(p, reqs[q].purpose)
            /\ limited' = TRUE
            /\ UNCHANGED <<stack, otpAge>>
  /\ Settled(q)
  /\ UNCHANGED <<registered, faults>>

\* phoneSignIn and phoneSignup of the API, with a code that is right: it is used
\* up, and the account is there or is made.
CodeAccepted(p, purpose) ==
  /\ otpAge[p] # NoAge
  /\ (purpose = "login") = (p \in registered)
  /\ otpAge' = [otpAge EXCEPT ![p] = NoAge]
  /\ registered' = registered \union {p}

\* The user is signed in; or the code is refused, or is right and the account is
\* not as it must be (and then the code may be deleted).
VerifyAnswered(q) ==
  /\ reqs[q].kind = "verify"
  /\ LET p == reqs[q].phone IN
     \/ /\ CodeAccepted(p, reqs[q].purpose)
        /\ stack' = <<>>
     \/ /\ \E age \in {otpAge[p], NoAge} : otpAge' = [otpAge EXCEPT ![p] = age]
        /\ UNCHANGED <<stack, registered>>
  /\ Settled(q)
  /\ UNCHANGED <<limited, faults>>

\* OAuth: signed in, or (at the sign-in) told to sign up.
OAuthAnswered(q) ==
  /\ reqs[q].kind \in {"oauthSignIn", "oauthSignUp"}
  /\ \/ stack' = <<>>
     \/ reqs[q].kind = "oauthSignIn" /\ Push(Signup(None))
  /\ Settled(q)
  /\ UNCHANGED <<otpAge, registered, limited, faults>>

\* An error, without effect: the API is not reached, or fails at once.
Fails(q) ==
  /\ reqs[q] # Free
  /\ Settled(q)
  /\ UNCHANGED <<stack, otpAge, registered, limited, faults>>

\* A code was sent, but the client is not told.
SentUntold(q) ==
  /\ reqs[q].kind \in {"login", "complete", "resend"}
  /\ faults < MaxFaults
  /\ faults' = faults + 1
  /\ Sends(reqs[q].phone, CASE reqs[q].kind = "login" -> "login"
                            [] reqs[q].kind = "complete" -> "signup"
                            [] OTHER -> reqs[q].purpose)
  /\ Settled(q)
  /\ UNCHANGED <<stack, registered, limited>>

\* The code was right and the account is there, or was made, but the tokens do not
\* reach the client: to the user it is an error, and the screen stays.
VerifyUntold(q) ==
  /\ reqs[q].kind = "verify"
  /\ faults < MaxFaults
  /\ faults' = faults + 1
  /\ CodeAccepted(reqs[q].phone, reqs[q].purpose)
  /\ Settled(q)
  /\ UNCHANGED <<stack, limited>>

-----------------------------------------------------------------------------
Next ==
  \/ \E p \in Phones \union {None} : PhoneTyped(p)
  \/ SendOtpPressed
  \/ \E provider \in Providers : \/ OAuthPressed(provider)
                                  \/ OAuthToken(provider)
                                  \/ OAuthCancelled(provider)
  \/ \E name \in {None, "bad", "good"} : NameTyped(name)
  \/ NameBlurred
  \/ GenderChosen
  \/ PickerOpened
  \/ PickerClosed
  \/ NextPressed
  \/ CompletePressed
  \/ StepBackPressed
  \/ BackPressed
  \/ CodeTyped
  \/ ResendPressed
  \/ Tick
  \/ \E q \in Requests : \/ LoginAnswered(q)
                          \/ CompleteAnswered(q)
                          \/ ResendAnswered(q)
                          \/ VerifyAnswered(q)
                          \/ OAuthAnswered(q)
                          \/ Fails(q)
                          \/ SentUntold(q)
                          \/ VerifyUntold(q)

Spec == Init /\ [][Next]_vars

-----------------------------------------------------------------------------
(***************************************************************************)
(* Properties                                                              *)
(***************************************************************************)
Screen ==
  {Login}
  \union [at : {"signup"}, phone : Phones \union {None},
          step : 1 .. Len(Steps), data : Profile,
          error : BOOLEAN, open : BOOLEAN, timer : BOOLEAN]
  \union [at : {"otp"}, phone : Phones, purpose : {"login", "signup"},
          data : Profile, resendTimer : 0 .. Cooldown]

\* The values that the variables take, for the reader.
TypeOK ==
  /\ stack \in Seq(Screen)
  /\ phone \in Phones \union {None}
  /\ native \subseteq Providers
  /\ \A q \in Requests : reqs[q].kind \in Kinds \union {"free"}
  /\ otpAge \in [Phones -> NoAge .. Cooldown]
  /\ registered \subseteq Phones
  /\ isLoading \in BOOLEAN /\ limited \in BOOLEAN /\ mixed \in BOOLEAN
  /\ strayed \in BOOLEAN
  /\ faults \in 0 .. MaxFaults

\* "Signup data not found. Please try again." is never met: however the user
\* goes back and forth, also while a request is under way, the otp screen of a
\* sign-up and an OAuth sign-up have a complete and valid profile.
SignupDataComplete ==
  /\ \A i \in 1 .. Len(stack) :
       stack[i].at = "otp" /\ stack[i].purpose = "signup" => stack[i].data = Complete
  /\ \A q \in Requests : reqs[q].kind = "oauthSignUp" => reqs[q].data = Complete

\* A screen is for the phone that the API was asked about, whatever the field
\* holds when the answer arrives and whatever happens to accounts afterwards:
\* only the owner of an account is asked for a code to log in, and only somebody
\* without one is asked to sign up, or for the code of a sign-up.  Excepted is
\* the phone whose account such a screen made when the answer was lost.
ScreensMatchPhone ==
  \A i \in 1 .. Len(stack) :
    /\ stack[i].at = "otp" /\ stack[i].purpose = "login"
         => stack[i].phone \in registered
    /\ stack[i].at = "signup" \/ (stack[i].at = "otp" /\ stack[i].purpose = "signup")
         => /\ stack[i].phone \notin Registered
            /\ faults = 0 => stack[i].phone \notin registered

\* The store's one flag does for all the screens: unless a request of the login
\* screen, whose buttons do not look at it, overlapped another one, it is up
\* exactly while a request is under way, however the user goes back and forth,
\* and there is never a second one, of the same screen or of another.
OneAtATime ==
  ~mixed => /\ isLoading = (InFlight # {})
            /\ \A q, r \in InFlight : q = r

\* The modal of the birth year, which opens by itself some time after its step
\* does, never covers another screen, or another step, than its own: it would
\* hide what the user is asked there.  Excepted is a user who stepped back, or
\* had another sign-in under way, when the answer brought the next screen.
PickerOnTop ==
  ~strayed => \A i \in 1 .. Len(stack) :
                stack[i].at = "signup" /\ stack[i].open
                  => i = Len(stack) /\ AtStep(stack[i], "birthYear")

\* The otp screen offers a resend only when the API will grant it: its timer does
\* not run ahead of the API's cooldown, unless requests overlap or an answer was
\* lost.
ResendGranted == ~mixed /\ faults = 0 => ~limited

=============================================================================
