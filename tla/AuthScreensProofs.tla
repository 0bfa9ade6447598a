------------------------- MODULE AuthScreensProofs -------------------------
(***************************************************************************)
(* Theorems about AuthScreens, for any phones, providers and cooldown, and *)
(* any number of requests, screens and faults.                             *)
(***************************************************************************)
EXTENDS AuthScreens, SequenceTheorems, TLAPS

USE DEF rest

-----------------------------------------------------------------------------
(***************************************************************************)
(* Screens                                                                 *)
(***************************************************************************)
\* What holds of a screen whatever else is going on: an otp screen of a sign-up
\* has the whole profile; a sign-up is for somebody without an account to begin
\* with, has what its earlier steps ask for, and its picker is open, or about to
\* be, at its own step only.
ScreenOK(s) ==
  /\ s.at = "otp" /\ s.purpose = "signup" =>
       s.data = Complete /\ s.phone \notin Registered
  /\ s.at = "signup" =>
       /\ s.phone \notin Registered
       /\ s.step >= 2 => s.data.name = "good"
       /\ s.step >= 3 => s.data.birthYear
       /\ s.open \/ s.timer => s.step = 2

Good == {s \in Screen : ScreenOK(s)}

Signups == [at : {"signup"}, phone : Phones \union {None},
            step : 1 .. 3, data : Profile,
            error : BOOLEAN, open : BOOLEAN, timer : BOOLEAN]

Otps == [at : {"otp"}, phone : Phones, purpose : {"login", "signup"},
         data : Profile, resendTimer : 0 .. Cooldown]

LEMMA StepsDef ==
  Len(Steps) = 3 /\ Steps[1] = "name" /\ Steps[2] = "birthYear" /\ Steps[3] = "gender"
  BY DEF Steps

LEMMA ScreenDef == Screen = {Login} \union Signups \union Otps
  BY StepsDef DEF Screen, Signups, Otps

\* A screen is of the kind that `at' says.
LEMMA ScreenShape ==
  ASSUME NEW s \in Good
  PROVE  /\ s.at \in {"login", "signup", "otp"}
         /\ s.at = "signup" => s \in Signups
         /\ s.at = "otp" => s \in Otps
  BY ScreenDef DEF Good, Login, Signups, Otps

LEMMA NewScreens ==
  /\ Login \in Good /\ Login.at = "login"
  /\ \A p \in (Phones \union {None}) \ Registered :
       /\ Signup(p) \in Good /\ Signup(p).at = "signup" /\ Signup(p).phone = p
       /\ Signup(p).step = 1
  /\ \A p \in Phones, purpose \in {"login", "signup"}, data \in Profile :
       (purpose = "signup" => data = Complete /\ p \notin Registered)
       => /\ Otp(p, purpose, data) \in Good /\ Otp(p, purpose, data).at = "otp"
          /\ Otp(p, purpose, data).phone = p /\ Otp(p, purpose, data).purpose = purpose
          /\ Otp(p, purpose, data).resendTimer = Cooldown
<1>1. Login \in Good /\ Login.at = "login"
  BY ScreenDef DEF Good, ScreenOK, Login
<1>2. ASSUME NEW p \in (Phones \union {None}) \ Registered
      PROVE  /\ Signup(p) \in Good /\ Signup(p).at = "signup" /\ Signup(p).phone = p
             /\ Signup(p).step = 1
  <2>1. Signup(p) \in Signups
    BY DEF Signup, Signups, NoProfile, Profile, None
  <2> QED BY <2>1, ScreenDef DEF Good, ScreenOK, Signup
<1>3. ASSUME NEW p \in Phones, NEW purpose \in {"login", "signup"}, NEW data \in Profile,
             purpose = "signup" => data = Complete /\ p \notin Registered
      PROVE  /\ Otp(p, purpose, data) \in Good /\ Otp(p, purpose, data).at = "otp"
             /\ Otp(p, purpose, data).phone = p /\ Otp(p, purpose, data).purpose = purpose
             /\ Otp(p, purpose, data).resendTimer = Cooldown
  <2>1. Otp(p, purpose, data) \in Otps
    BY ConfigAssumption DEF Otp, Otps, ConfigAssumption
  <2> QED BY <1>3, <2>1, ScreenDef DEF Good, ScreenOK, Otp
<1> QED BY <1>1, <1>2, <1>3

\* What a screen keeps when it is rendered anew.
Same(t, s) ==
  /\ t.at = s.at
  /\ s.at # "login" => t.phone = s.phone
  /\ s.at = "otp" => t.purpose = s.purpose

LEMMA SignupGood ==
  ASSUME NEW t \in Signups, t.phone \notin Registered,
         t.step >= 2 => t.data.name = "good", t.step >= 3 => t.data.birthYear,
         t.open \/ t.timer => t.step = 2
  PROVE  t \in Good
  BY ScreenDef DEF Good, ScreenOK, Signups

\* The i-th screen, which is one to sign up, becomes t.
Rerenders(i, t) ==
  /\ i \in 1 .. Len(stack) /\ stack[i].at = "signup" /\ t \in Good
  /\ Same(t, stack[i])
  /\ stack' = [stack EXCEPT ![i] = t]

\* The screen on top, if it is one to sign up.
LEMMA TopSignup ==
  ASSUME stack \in Seq(Good), At("signup")
  PROVE  /\ Len(stack) \in 1 .. Len(stack) /\ Top = stack[Len(stack)]
         /\ Top \in Good /\ Top \in Signups /\ Top.at = "signup"
<1>1. Len(stack) \in 1 .. Len(stack)
  BY EmptySeq DEF At
<1>2. Top \in Good
  BY <1>1, ElementOfSeq DEF Top
<1> QED BY <1>1, <1>2, ScreenShape DEF At, Top

\* A name that is typed, a name that is checked, a gender that is chosen.
LEMMA TopRenders ==
  ASSUME stack \in Seq(Good),
         \/ \E name \in {None, "bad", "good"} : NameTyped(name)
         \/ NameBlurred
         \/ GenderChosen
  PROVE  \E t : Rerenders(Len(stack), t) /\ t.step = Top.step
<1> DEFINE s == Top
<1>0. At("signup")
  BY DEF NameTyped, NameBlurred, GenderChosen
<1>1. /\ Len(stack) \in 1 .. Len(stack) /\ s = stack[Len(stack)]
      /\ s \in Good /\ s \in Signups /\ s.at = "signup"
  BY <1>0, TopSignup
<1>2. ScreenOK(s)
  BY <1>1 DEF Good
<1> HIDE DEF s
<1>3. ASSUME NEW t \in Signups, t.phone = s.phone, t.step = s.step, t.open = s.open,
             t.timer = s.timer, t.data.birthYear = s.data.birthYear,
             s.step >= 2 => t.data.name = s.data.name, stack' = Rendered(t)
      PROVE  Rerenders(Len(stack), t) /\ t.step = s.step
  <2>1. t \in Good
    BY <1>1, <1>2, <1>3, SignupGood DEF ScreenOK
  <2>2. Same(t, s)
    BY <1>1, <1>3 DEF Same, Signups
  <2> QED BY <1>1, <1>3, <2>1, <2>2 DEF Rerenders, Rendered
<1>4. ASSUME NEW name \in {None, "bad", "good"}, NameTyped(name)
      PROVE  \E t : Rerenders(Len(stack), t) /\ t.step = s.step
  <2> DEFINE t == [s EXCEPT !.data.name = name, !.error = FALSE]
  <2>1. /\ t \in Signups /\ t.phone = s.phone /\ t.step = s.step /\ t.open = s.open
        /\ t.timer = s.timer /\ t.data.birthYear = s.data.birthYear
    BY <1>1 DEF Signups, Profile
  <2>2. s.step = 1 /\ stack' = Rendered(t)
    BY <1>1, <1>4, StepsDef DEF NameTyped, AtStep, s, Signups
  <2> HIDE DEF t
  <2> QED BY <1>3, <2>1, <2>2
<1>5. ASSUME NameBlurred PROVE \E t : Rerenders(Len(stack), t) /\ t.step = s.step
  <2> DEFINE t == [s EXCEPT !.error = s.data.name # "good"]
  <2>1. t \in Signups /\ t.phone = s.phone /\ t.step = s.step /\ t.open = s.open
        /\ t.timer = s.timer /\ t.data = s.data
    BY <1>1 DEF Signups
  <2>2. stack' = Rendered(t)
    BY <1>5 DEF NameBlurred, s
  <2> HIDE DEF t
  <2> QED BY <1>3, <2>1, <2>2
<1>6. ASSUME GenderChosen PROVE \E t : Rerenders(Len(stack), t) /\ t.step = s.step
  <2> DEFINE t == [s EXCEPT !.data.gender = TRUE]
  <2>1. /\ t \in Signups /\ t.phone = s.phone /\ t.step = s.step /\ t.open = s.open
        /\ t.timer = s.timer /\ t.data.birthYear = s.data.birthYear
        /\ t.data.name = s.data.name
    BY <1>1 DEF Signups, Profile
  <2>2. stack' = Rendered(t)
    BY <1>6 DEF GenderChosen, s
  <2> HIDE DEF t
  <2> QED BY <1>3, <2>1, <2>2
<1> QED BY <1>4, <1>5, <1>6 DEF s

\* The picker's modal opens or closes, with a year chosen or without.
LEMMA PickerRenders ==
  ASSUME stack \in Seq(Good), PickerOpened \/ PickerClosed
  PROVE  \E i, t : Rerenders(i, t) /\ t.step = stack[i].step
<1>1. ASSUME NEW i \in 1 .. Len(stack), NEW t \in Signups, stack[i].at = "signup",
             t.phone = stack[i].phone, t.step = stack[i].step,
             t.data.name = stack[i].data.name,
             t.data.birthYear \in {TRUE, stack[i].data.birthYear},
             t.open \/ t.timer => t.step = 2,
             stack' = [stack EXCEPT ![i] = t]
      PROVE  Rerenders(i, t) /\ t.step = stack[i].step
  <2>1. stack[i] \in Good
    BY ElementOfSeq
  <2>2. stack[i] \in Signups /\ ScreenOK(stack[i])
    BY <1>1, <2>1, ScreenShape DEF Good
  <2>3. t \in Good
    BY <1>1, <2>2, SignupGood DEF ScreenOK, Signups
  <2>4. Same(t, stack[i])
    BY <1>1 DEF Same, Signups
  <2> QED BY <1>1, <2>3, <2>4 DEF Rerenders
<1>2. CASE PickerOpened
  <2>1. PICK i \in 1 .. Len(stack) :
          /\ AtStep(stack[i], "birthYear")
          /\ \/ stack' = [stack EXCEPT ![i].open = TRUE, ![i].timer = FALSE]
             \/ stack' = [stack EXCEPT ![i].open = TRUE]
    BY <1>2 DEF PickerOpened
  <2> DEFINE t == IF stack' = [stack EXCEPT ![i].open = TRUE, ![i].timer = FALSE]
                    THEN [stack[i] EXCEPT !.open = TRUE, !.timer = FALSE]
                    ELSE [stack[i] EXCEPT !.open = TRUE]
  <2>2. stack[i] \in Good
    BY ElementOfSeq
  <2>3. stack[i].at = "signup" /\ stack[i] \in Signups
    BY <2>1, <2>2, ScreenShape DEF AtStep
  <2>4. stack[i].step = 2
    BY <2>1, <2>3, StepsDef DEF AtStep, Signups
  <2>5. /\ t \in Signups /\ t.phone = stack[i].phone /\ t.step = stack[i].step
        /\ t.data = stack[i].data
    BY <2>3 DEF Signups
  <2>6. stack' = [stack EXCEPT ![i] = t]
    BY <2>1
  <2> HIDE DEF t
  <2> QED BY <1>1, <2>3, <2>4, <2>5, <2>6
<1>3. CASE PickerClosed
  <2>i. PICK i \in 1 .. Len(stack) :
          /\ stack[i].at = "signup"
          /\ \E year \in {TRUE, stack[i].data.birthYear} :
               stack' = [stack EXCEPT ![i].open = FALSE, ![i].data.birthYear = year]
    BY <1>3 DEF PickerClosed
  <2>1. PICK year \in {TRUE, stack[i].data.birthYear} :
          stack' = [stack EXCEPT ![i].open = FALSE, ![i].data.birthYear = year]
    BY <2>i
  <2> DEFINE t == [stack[i] EXCEPT !.open = FALSE, !.data.birthYear = year]
  <2>2. stack[i] \in Good
    BY ElementOfSeq
  <2>3. stack[i] \in Signups /\ ScreenOK(stack[i])
    BY <2>i, <2>2, ScreenShape DEF Good
  <2>4. /\ t \in Signups /\ t.phone = stack[i].phone /\ t.step = stack[i].step
        /\ t.data.name = stack[i].data.name /\ t.data.birthYear = year
    BY <2>3 DEF Signups, Profile
  <2>5. t.open \/ t.timer => t.step = 2
    BY <2>i, <2>3 DEF ScreenOK, Signups
  <2>6. stack' = [stack EXCEPT ![i] = t]
    BY <2>1
  <2> HIDE DEF t
  <2> QED BY <1>1, <2>i, <2>4, <2>5, <2>6
<1> QED BY <1>2, <1>3

\* A step to another one; a name that is not valid stops it.
LEMMA StepRenders ==
  ASSUME stack \in Seq(Good), NextPressed \/ StepBackPressed
  PROVE  /\ \E t : Rerenders(Len(stack), t)
         /\ NextPressed => Top.step < 3
<1> DEFINE s == Top
<1>0. At("signup")
  BY DEF NextPressed, StepBackPressed
<1>1. /\ Len(stack) \in 1 .. Len(stack) /\ s = stack[Len(stack)]
      /\ s \in Good /\ s \in Signups /\ s.at = "signup"
  BY <1>0, TopSignup
<1>2. ScreenOK(s)
  BY <1>1 DEF Good
<1>p. NextPressed => Top.step < 3
  BY StepsDef DEF NextPressed
<1>3. ASSUME NEW t \in Good, t.phone = s.phone, t.at = s.at, stack' = Rendered(t)
      PROVE  Rerenders(Len(stack), t)
  BY <1>1, <1>3 DEF Rerenders, Same, Rendered
<1>4. ASSUME NEW i \in 1 .. 3, i >= 2 => s.data.name = "good",
             i >= 3 => s.data.birthYear
      PROVE  LET t == StepTo(s, i) IN t \in Good /\ t.phone = s.phone /\ t.at = s.at
  <2> DEFINE t == StepTo(s, i)
  <2>1. /\ t \in Signups /\ t.phone = s.phone /\ t.at = s.at /\ t.step = i
        /\ t.data = s.data /\ t.open = FALSE /\ t.timer = (Steps[i] = "birthYear")
    BY <1>1 DEF StepTo, Signups
  <2> HIDE DEF t
  <2>2. t.timer => i = 2
    <3>1. i # 2 => Steps[i] # "birthYear"
      BY StepsDef
    <3> QED BY <2>1, <3>1
  <2>3. t \in Good
    BY <1>1, <1>2, <1>4, <2>1, <2>2, SignupGood DEF ScreenOK, Signups
  <2> QED BY <2>1, <2>3 DEF t
<1>5. CASE NextPressed
  <2>1. /\ Top.step < Len(Steps) /\ isCurrentStepValid(Top)
        /\ stack' = Rendered(IF AtStep(Top, "name") /\ Top.data.name # "good"
                               THEN [Top EXCEPT !.error = TRUE]
                               ELSE StepTo(Top, Top.step + 1))
    BY <1>5 DEF NextPressed
  <2>2. CASE AtStep(Top, "name") /\ Top.data.name # "good"
    <3> DEFINE t == [s EXCEPT !.error = TRUE]
    <3>1. /\ t \in Signups /\ t.phone = s.phone /\ t.at = s.at /\ t.step = s.step
          /\ t.data = s.data /\ t.open = s.open /\ t.timer = s.timer
      BY <1>1 DEF Signups
    <3>2. stack' = Rendered(t)
      BY <2>1, <2>2
    <3> HIDE DEF s, t
    <3>3. t \in Good
      BY <1>1, <1>2, <3>1, SignupGood DEF ScreenOK
    <3> QED BY <1>3, <1>p, <3>1, <3>2, <3>3
  <2>3. CASE ~(AtStep(Top, "name") /\ Top.data.name # "good")
    <3>1. s.step + 1 \in 1 .. 3 /\ stack' = Rendered(StepTo(s, s.step + 1))
      BY <1>1, <2>1, <2>3, StepsDef DEF Signups
    <3>2. s.data.name = "good"
      BY <1>1, <1>2, <2>1, <2>3, StepsDef DEF AtStep, ScreenOK, Signups
    <3>3. s.step + 1 >= 3 => s.data.birthYear
      <4>1. CASE s.step = 2
        <5>1. AtStep(s, "birthYear") /\ ~AtStep(s, "name") /\ ~AtStep(s, "gender")
          BY <1>1, <4>1, StepsDef DEF AtStep
        <5> QED BY <2>1, <5>1 DEF isCurrentStepValid
      <4> QED BY <1>1, <2>1, <4>1, StepsDef DEF Signups
    <3> HIDE DEF s
    <3> QED BY <1>3, <1>4, <1>p, <3>1, <3>2, <3>3
  <2> QED BY <2>2, <2>3
<1>6. CASE StepBackPressed
  <2>1. s.step - 1 \in 1 .. 3 /\ stack' = Rendered(StepTo(s, s.step - 1))
    BY <1>1, <1>6, StepsDef DEF StepBackPressed, Signups
  <2>2. /\ s.step - 1 >= 2 => s.data.name = "good"
        /\ s.step - 1 >= 3 => s.data.birthYear
    BY <1>1, <1>2, <2>1 DEF ScreenOK, Signups
  <2> HIDE DEF s
  <2> QED BY <1>3, <1>4, <1>p, <2>1, <2>2
<1> QED BY <1>5, <1>6

-----------------------------------------------------------------------------
(***************************************************************************)
(* Requests                                                                *)
(***************************************************************************)
Logins == [kind : {"login"}, phone : Phones]
Completes == [kind : {"complete"}, phone : Phones, data : {Complete}]
Resends == [kind : {"resend"}, phone : Phones, purpose : {"login", "signup"}, screen : Nat]
Verifies == [kind : {"verify"}, phone : Phones, purpose : {"login", "signup"}]

Request ==
  {Free} \union Logins \union Completes \union Resends \union Verifies
  \union [kind : {"oauthSignIn"}, provider : Providers]
  \union [kind : {"oauthSignUp"}, data : {Complete}]

LEMMA RequestShape ==
  ASSUME NEW r \in Request
  PROVE  /\ r = Free <=> r.kind = "free"
         /\ r.kind \in Kinds \union {"free"}
         /\ r.kind = "login" => r \in Logins
         /\ r.kind = "complete" => r \in Completes
         /\ r.kind = "resend" => r \in Resends
         /\ r.kind = "verify" => r \in Verifies
         /\ r.kind = "oauthSignUp" => r.data = Complete
  BY DEF Request, Free, Logins, Completes, Resends, Verifies, Kinds

Stacked ==
  /\ stack \in Seq(Good)
  /\ \A i \in 1 .. Len(stack) : i > 1 => stack[i].at # "login"

\* A resend comes from an otp screen, which its timer is for as long as it is there.
ResendOK(screens, r) ==
  r.kind = "resend" =>
    /\ r.purpose = "signup" => r.phone \notin Registered
    /\ screens # <<>> /\ r.screen # 0 =>
         r.screen \in 1 .. Len(screens) /\ screens[r.screen].at = "otp"

Requested ==
  /\ reqs \in [Requests -> Request]
  /\ \A q \in Requests : ResendOK(stack, reqs[q])

\* The types of the other variables, but for the truth values.
Typed ==
  /\ phone \in Phones \union {None}
  /\ native \subseteq Providers
  /\ otpAge \in [Phones -> NoAge .. Cooldown]
  /\ registered \subseteq Phones /\ Registered \subseteq registered
  /\ faults \in 0 .. MaxFaults

Switches ==
  /\ isLoading \in BOOLEAN /\ limited \in BOOLEAN /\ mixed \in BOOLEAN
  /\ strayed \in BOOLEAN

Basic == Stacked /\ Requested /\ Typed /\ Switches

\* A call of service.ts takes a free slot.
LEMMA Posts ==
  ASSUME reqs \in [Requests -> Request], NEW req \in Request \ {Free}, Post(req)
  PROVE  /\ reqs' \in [Requests -> Request] /\ isLoading' = TRUE
         /\ \E q \in Requests : /\ reqs[q] = Free /\ reqs'[q] = req
                                /\ \A r \in Requests \ {q} : reqs'[r] = reqs[r]
  BY DEF Post

LEMMA Settles ==
  ASSUME reqs \in [Requests -> Request], NEW q \in Requests, Settled(q)
  PROVE  /\ reqs' \in [Requests -> Request] /\ isLoading' = FALSE
         /\ reqs'[q] = Free /\ \A r \in Requests \ {q} : reqs'[r] = reqs[r]
<1>1. Free \in Request
  BY DEF Request
<1> QED BY <1>1 DEF Settled

\* What the presses ask for.
LEMMA NewRequests ==
  ASSUME Basic
  PROVE  /\ SendOtpPressed => [kind |-> "login", phone |-> phone] \in Request \ {Free}
         /\ \A provider \in Providers :
              [kind |-> "oauthSignIn", provider |-> provider] \in Request \ {Free}
         /\ CompletePressed =>
              (IF Top.phone = None
                 THEN [kind |-> "oauthSignUp", data |-> Top.data]
                 ELSE [kind |-> "complete", phone |-> Top.phone, data |-> Top.data])
                \in Request \ {Free}
         /\ CodeTyped =>
              [kind |-> "verify", phone |-> Top.phone, purpose |-> Top.purpose]
                \in Request \ {Free}
         /\ ResendPressed =>
              [kind |-> "resend", phone |-> Top.phone, purpose |-> Top.purpose,
               screen |-> Len(stack)] \in Request \ {Free}
<1> USE DEF Request, Free, Logins, Completes, Resends, Verifies
<1>1. SendOtpPressed => [kind |-> "login", phone |-> phone] \in Request \ {Free}
  BY DEF SendOtpPressed, Basic, Typed
<1>2. ASSUME NEW provider \in Providers
      PROVE  [kind |-> "oauthSignIn", provider |-> provider] \in Request \ {Free}
  OBVIOUS
<1>3. ASSUME CompletePressed
      PROVE  (IF Top.phone = None
                THEN [kind |-> "oauthSignUp", data |-> Top.data]
                ELSE [kind |-> "complete", phone |-> Top.phone, data |-> Top.data])
               \in Request \ {Free}
  <2>1. Top \in Signups /\ Top \in Good /\ Top.at = "signup"
    BY <1>3, TopSignup DEF CompletePressed, Basic, Stacked
  <2>2. Top.step = 3 /\ Top.data \in Profile /\ Top.phone \in Phones \union {None}
    BY <1>3, <2>1, StepsDef DEF CompletePressed, Signups
  <2>3. Top.data.name = "good" /\ Top.data.birthYear
    BY <2>1, <2>2 DEF Good, ScreenOK
  <2>4. Top.data.gender
    <3>1. AtStep(Top, "gender") /\ ~AtStep(Top, "name") /\ ~AtStep(Top, "birthYear")
      BY <2>1, <2>2, StepsDef DEF AtStep
    <3>2. isCurrentStepValid(Top)
      BY <1>3 DEF CompletePressed
    <3> QED BY <3>1, <3>2 DEF isCurrentStepValid
  <2>5. Top.data = Complete
    BY <2>2, <2>3, <2>4 DEF Profile, Complete
  <2> QED BY <2>2, <2>5
<1>4. ASSUME At("otp") PROVE Top \in Otps /\ Len(stack) \in Nat
  <2>1. Len(stack) \in 1 .. Len(stack)
    BY <1>4, EmptySeq DEF At, Basic, Stacked
  <2>2. Top \in Good
    BY <2>1, ElementOfSeq DEF Top, Basic, Stacked
  <2> QED BY <1>4, <2>1, <2>2, ScreenShape, LenProperties DEF At, Basic, Stacked
<1>5. CodeTyped =>
        [kind |-> "verify", phone |-> Top.phone, purpose |-> Top.purpose]
          \in Request \ {Free}
  BY <1>4 DEF CodeTyped, OtpInput, Otps
<1>6. ResendPressed =>
        [kind |-> "resend", phone |-> Top.phone, purpose |-> Top.purpose,
         screen |-> Len(stack)] \in Request \ {Free}
  BY <1>4 DEF ResendPressed, Otps
<1> QED BY <1>1, <1>2, <1>3, <1>5, <1>6

-----------------------------------------------------------------------------
(***************************************************************************)
(* The stack                                                               *)
(***************************************************************************)
\* A code to log in is asked of the owner of an account.
Owner(s) == s.at = "otp" /\ s.purpose = "login" => s.phone \in registered

\* A screen keeps its place, its kind and its phone until it is left.
StackKept ==
  /\ stack' \in Seq(Good)
  /\ Len(stack') <= Len(stack) + 1
  /\ \A i \in 1 .. Len(stack') :
       IF i <= Len(stack) THEN Same(stack'[i], stack[i])
                          ELSE stack'[i].at # "login" /\ Owner(stack'[i])
  /\ stack = <<>> => stack' = <<>>
  /\ BackPressed \/ stack' = <<>> \/ Len(stack') >= Len(stack)

LEMMA RenderKept ==
  ASSUME stack \in Seq(Good), NEW i, NEW t, Rerenders(i, t)
  PROVE  /\ StackKept /\ Len(stack') = Len(stack) /\ stack'[i] = t
         /\ \A j \in 1 .. Len(stack) : j # i => stack'[j] = stack[j]
<1>1. i \in 1 .. Len(stack) /\ t \in Good /\ Len(stack) \in Nat
  BY LenProperties DEF Rerenders
<1>2. /\ stack' \in Seq(Good) /\ Len(stack') = Len(stack)
      /\ \A j \in 1 .. Len(stack) : stack'[j] = IF j = i THEN t ELSE stack[j]
  BY <1>1, ExceptSeq DEF Rerenders
<1>3. stack # <<>>
  BY <1>1
<1>4. \A j \in 1 .. Len(stack) : Same(stack'[j], stack[j])
  BY <1>2 DEF Rerenders, Same
<1> QED BY <1>1, <1>2, <1>3, <1>4 DEF StackKept

LEMMA PushKept ==
  ASSUME stack \in Seq(Good), NEW s \in Good, s.at # "login", Owner(s), Push(s)
  PROVE  /\ StackKept
         /\ stack # <<>> => /\ Len(stack') = Len(stack) + 1 /\ stack'[Len(stack) + 1] = s
                            /\ \A j \in 1 .. Len(stack) : stack'[j] = stack[j]
<1>0. Len(stack) \in Nat
  BY LenProperties
<1>1. CASE stack = <<>>
  <2>1. stack' = <<>> /\ Len(stack') = 0
    BY <1>1 DEF Push
  <2> QED BY <1>0, <1>1, <2>1 DEF StackKept
<1>2. CASE stack # <<>>
  <2>1. stack' = Append(stack, s)
    BY <1>2 DEF Push
  <2>2. /\ stack' \in Seq(Good) /\ Len(stack') = Len(stack) + 1
        /\ \A j \in 1 .. Len(stack) : stack'[j] = stack[j]
        /\ stack'[Len(stack) + 1] = s
    BY <2>1, AppendProperties
  <2>3. \A j \in 1 .. Len(stack') : j <= Len(stack) \/ j = Len(stack) + 1
    BY <1>0, <2>2
  <2> QED BY <1>0, <1>2, <2>2, <2>3 DEF StackKept, Same
<1> QED BY <1>1, <1>2

LEMMA BackKept ==
  ASSUME stack \in Seq(Good), BackPressed
  PROVE  /\ StackKept /\ stack # <<>> /\ Len(stack') = Len(stack) - 1
         /\ \A j \in 1 .. Len(stack) - 1 : stack'[j] = stack[j]
<1>0. Len(stack) \in Nat \ {0} /\ stack # <<>>
  BY EmptySeq DEF BackPressed, At
<1>1. /\ stack' \in Seq(Good) /\ Len(stack') = Len(stack) - 1
      /\ \A j \in 1 .. Len(stack) - 1 : stack'[j] = stack[j]
  <2>1. \A j \in 1 .. Len(stack) - 1 : stack[j] \in Good
    BY <1>0, ElementOfSeq
  <2> DEFINE n == Len(stack) - 1
  <2>2. stack' = SubSeq(stack, 1, n) /\ n \in Nat /\ 1 \in Int /\ n \in Int
    BY <1>0 DEF BackPressed
  <2>3. \A j \in 1 .. n : stack[j] \in Good
    BY <2>1
  <2> HIDE DEF n
  <2>4. /\ SubSeq(stack, 1, n) \in Seq(Good)
        /\ Len(SubSeq(stack, 1, n)) = IF 1 <= n THEN n - 1 + 1 ELSE 0
        /\ \A j \in 1 .. n - 1 + 1 : SubSeq(stack, 1, n)[j] = stack[1 + j - 1]
    BY <2>2, <2>3, SubSeqProperties
  <2>5. stack' \in Seq(Good) /\ Len(stack') = n
    BY <2>2, <2>4
  <2>6. \A j \in 1 .. n : stack'[j] = stack[j]
    BY <2>2, <2>4
  <2> QED BY <2>5, <2>6 DEF n
<1> QED BY <1>0, <1>1 DEF StackKept, Same

LEMMA TickKept ==
  ASSUME stack \in Seq(Good), Tick
  PROVE  /\ StackKept /\ Len(stack') = Len(stack)
         /\ \A j \in 1 .. Len(stack) :
              /\ stack[j].at # "otp" => stack'[j] = stack[j]
              /\ stack[j].at = "otp" => stack'[j].resendTimer >= stack[j].resendTimer - 1
<1>0. Len(stack) \in Nat
  BY LenProperties
<1>1. PICK late \in SUBSET (1 .. Len(stack)) :
        stack' = [i \in 1 .. Len(stack) |->
                    IF /\ stack[i].at = "otp" /\ i \notin late
                       /\ stack[i].resendTimer > 0
                      THEN [stack[i] EXCEPT !.resendTimer = @ - 1] ELSE stack[i]]
  BY DEF Tick
<1>2. ASSUME NEW j \in 1 .. Len(stack)
      PROVE  /\ stack'[j] \in Good /\ Same(stack'[j], stack[j])
             /\ stack[j].at # "otp" => stack'[j] = stack[j]
             /\ stack[j].at = "otp" => stack'[j].resendTimer >= stack[j].resendTimer - 1
  <2>1. stack[j] \in Good
    BY ElementOfSeq
  <2>2. CASE stack'[j] = stack[j]
    BY <2>1, <2>2, ScreenShape, ConfigAssumption DEF Same, Otps, ConfigAssumption
  <2>3. CASE /\ stack[j].at = "otp" /\ stack[j].resendTimer > 0
             /\ stack'[j] = [stack[j] EXCEPT !.resendTimer = @ - 1]
    <3> DEFINE t == [stack[j] EXCEPT !.resendTimer = @ - 1]
    <3>1. stack[j] \in Otps /\ ScreenOK(stack[j])
      BY <2>1, <2>3, ScreenShape DEF Good
    <3>2. /\ t \in Otps /\ t.at = "otp" /\ t.phone = stack[j].phone
          /\ t.purpose = stack[j].purpose /\ t.data = stack[j].data
          /\ t.resendTimer = stack[j].resendTimer - 1
      BY <2>3, <3>1, ConfigAssumption DEF Otps, ConfigAssumption
    <3>3. t.resendTimer >= stack[j].resendTimer - 1
      BY <2>3, <3>1, <3>2, ConfigAssumption DEF Otps, ConfigAssumption
    <3>4. stack'[j] = t
      BY <2>3
    <3> HIDE DEF t
    <3>5. t \in Good
      BY <2>3, <3>1, <3>2, ScreenDef DEF Good, ScreenOK
    <3> QED BY <2>3, <3>2, <3>3, <3>4, <3>5 DEF Same
  <2> QED BY <1>1, <2>2, <2>3
<1>3. stack' \in Seq(Good) /\ Len(stack') = Len(stack)
  <2>1. stack' \in [1 .. Len(stack) -> Good]
    BY <1>1, <1>2
  <2> QED BY <1>0, <2>1
<1>4. stack = <<>> => stack' = <<>>
  BY <1>3
<1> QED BY <1>0, <1>2, <1>3, <1>4 DEF StackKept

\* The timer of an otp screen starts anew.
LEMMA ResendKept ==
  ASSUME stack \in Seq(Good), NEW i \in 1 .. Len(stack), stack[i].at = "otp",
         stack' = [stack EXCEPT ![i].resendTimer = Cooldown]
  PROVE  /\ StackKept /\ Len(stack') = Len(stack) /\ stack'[i].resendTimer = Cooldown
         /\ \A j \in 1 .. Len(stack) : j # i => stack'[j] = stack[j]
<1> DEFINE t == [stack[i] EXCEPT !.resendTimer = Cooldown]
<1>0. Len(stack) \in Nat /\ stack[i] \in Good
  BY LenProperties, ElementOfSeq
<1>1. stack[i] \in Otps /\ ScreenOK(stack[i])
  BY <1>0, ScreenShape DEF Good
<1>2. /\ t \in Otps /\ t.at = "otp" /\ t.phone = stack[i].phone
      /\ t.purpose = stack[i].purpose /\ t.data = stack[i].data
      /\ t.resendTimer = Cooldown
  BY <1>1, ConfigAssumption DEF Otps, ConfigAssumption
<1>3. stack' = [stack EXCEPT ![i] = t]
  OBVIOUS
<1> HIDE DEF t
<1>4. t \in Good
  BY <1>1, <1>2, ScreenDef DEF Good, ScreenOK
<1>5. /\ stack' \in Seq(Good) /\ Len(stack') = Len(stack)
      /\ \A j \in 1 .. Len(stack) : stack'[j] = IF j = i THEN t ELSE stack[j]
  BY <1>3, <1>4, ExceptSeq
<1>6. \A j \in 1 .. Len(stack) : Same(stack'[j], stack[j])
  BY <1>2, <1>5 DEF Same
<1>7. stack # <<>>
  BY <1>0
<1> QED BY <1>0, <1>2, <1>5, <1>6, <1>7 DEF StackKept

LEMMA SameKept ==
  ASSUME stack \in Seq(Good), stack' = stack
  PROVE  StackKept
<1>1. Len(stack) \in Nat
  BY LenProperties
<1> QED BY <1>1 DEF StackKept, Same

LEMMA SignedInKept ==
  ASSUME stack \in Seq(Good), stack' = <<>>
  PROVE  StackKept /\ Len(stack') = 0
<1>1. Len(stack) \in Nat /\ Len(stack') = 0 /\ stack' \in Seq(Good)
  BY LenProperties, EmptySeq
<1> QED BY <1>1 DEF StackKept

\* The otp screen for p opens: a code has just been sent.
Asked(p) ==
  /\ p \in Phones
  /\ \E s \in Good : /\ s.at = "otp" /\ s.phone = p /\ s.resendTimer = Cooldown
                     /\ Owner(s) /\ Push(s)
  /\ otpAge' = [otpAge EXCEPT ![p] = 0]

\* The signup screen for p, or for OAuth, opens.
Invited(p) ==
  /\ \E s \in Good : s.at = "signup" /\ s.phone = p /\ Push(s)
  /\ otpAge' = otpAge

\* The phone of a code that is sent is one that a code was asked for.
LEMMA LoginStep ==
  ASSUME Basic, NEW q \in Requests, LoginAnswered(q)
  PROVE  /\ reqs[q].phone \in Phones
         /\ \/ Asked(reqs[q].phone)
            \/ Invited(reqs[q].phone)
            \/ stack' = stack /\ otpAge' = otpAge
<1> DEFINE p == reqs[q].phone
<1>1. reqs[q] \in Request /\ reqs[q].kind = "login"
  BY DEF Basic, Requested, LoginAnswered
<1>2. p \in Phones
  BY <1>1, RequestShape DEF Logins
<1>3. \/ Sends(p, "login") /\ Push(Otp(p, "login", NoProfile))
      \/ p \notin registered /\ Push(Signup(p)) /\ otpAge' = otpAge
      \/ stack' = stack /\ otpAge' = otpAge
  BY DEF LoginAnswered
<1> HIDE DEF p
<1>4. ASSUME Sends(p, "login"), Push(Otp(p, "login", NoProfile))
      PROVE  Asked(p)
  <2>1. NoProfile \in Profile
    BY DEF NoProfile, Profile
  <2>2. p \in registered
    BY <1>4 DEF Sends
  <2>3. /\ Otp(p, "login", NoProfile) \in Good /\ Otp(p, "login", NoProfile).at = "otp"
        /\ Otp(p, "login", NoProfile).phone = p
        /\ Otp(p, "login", NoProfile).resendTimer = Cooldown
    BY <1>2, <2>1, NewScreens
  <2>4. Owner(Otp(p, "login", NoProfile))
    BY <2>2, <2>3 DEF Owner
  <2> QED BY <1>2, <1>4, <2>3, <2>4 DEF Asked, Sends
<1>5. ASSUME p \notin registered, Push(Signup(p)), otpAge' = otpAge
      PROVE  Invited(p)
  <2>1. Signup(p) \in Good /\ Signup(p).at = "signup" /\ Signup(p).phone = p
    BY <1>2, <1>5, NewScreens DEF Basic, Typed
  <2> QED BY <1>5, <2>1 DEF Invited
<1> QED BY <1>2, <1>3, <1>4, <1>5 DEF p

LEMMA CompleteStep ==
  ASSUME Basic, NEW q \in Requests, CompleteAnswered(q)
  PROVE  /\ reqs[q].phone \in Phones
         /\ \/ Asked(reqs[q].phone)
            \/ stack' = stack /\ otpAge' = otpAge
<1> DEFINE p == reqs[q].phone
<1>1. reqs[q] \in Request /\ reqs[q].kind = "complete"
  BY DEF Basic, Requested, CompleteAnswered
<1>2. p \in Phones /\ reqs[q].data = Complete
  BY <1>1, RequestShape DEF Completes
<1>3. \/ Sends(p, "signup") /\ Push(Otp(p, "signup", Complete))
      \/ stack' = stack /\ otpAge' = otpAge
  BY <1>2 DEF CompleteAnswered
<1> HIDE DEF p
<1>4. ASSUME Sends(p, "signup"), Push(Otp(p, "signup", Complete))
      PROVE  Asked(p)
  <2>1. Complete \in Profile
    BY DEF Complete, Profile
  <2>2. p \notin Registered
    BY <1>4 DEF Sends, Refused, Basic, Typed
  <2>3. /\ Otp(p, "signup", Complete) \in Good /\ Otp(p, "signup", Complete).at = "otp"
        /\ Otp(p, "signup", Complete).phone = p
        /\ Otp(p, "signup", Complete).purpose = "signup"
        /\ Otp(p, "signup", Complete).resendTimer = Cooldown
    BY <1>2, <2>1, <2>2, NewScreens
  <2>4. Owner(Otp(p, "signup", Complete))
    BY <2>3 DEF Owner
  <2> QED BY <1>2, <1>4, <2>3, <2>4 DEF Asked, Sends
<1> QED BY <1>2, <1>3, <1>4 DEF p

\* The screen that a resend is for, when its answer arrives.
LEMMA ResendStep ==
  ASSUME Basic, NEW q \in Requests, ResendAnswered(q)
  PROVE  /\ reqs[q].phone \in Phones
         /\ \/ /\ otpAge' = [otpAge EXCEPT ![reqs[q].phone] = 0] /\ limited' = limited
               /\ \/ /\ reqs[q].screen \in 1 .. Len(stack)
                     /\ stack[reqs[q].screen].at = "otp"
                     /\ stack' = [stack EXCEPT ![reqs[q].screen].resendTimer = Cooldown]
                  \/ reqs[q].screen \notin 1 .. Len(stack) /\ stack' = stack
            \/ /\ Recent(reqs[q].phone) \/ registered # Registered
               /\ stack' = stack /\ otpAge' = otpAge
<1>1. reqs[q] \in Request /\ reqs[q].kind = "resend" /\ ResendOK(stack, reqs[q])
  BY DEF Basic, Requested, ResendAnswered
<1>2. reqs[q].phone \in Phones
  BY <1>1, RequestShape DEF Resends
<1>3. reqs[q].screen \in 1 .. Len(stack) => stack[reqs[q].screen].at = "otp"
  <2>1. reqs[q].screen \in 1 .. Len(stack) => stack # <<>> /\ reqs[q].screen # 0
    OBVIOUS
  <2> QED BY <1>1, <2>1 DEF ResendOK
<1>4. Refused(reqs[q].phone, reqs[q].purpose)
        => Recent(reqs[q].phone) \/ registered # Registered
  BY <1>1 DEF ResendOK, Refused
<1> QED BY <1>2, <1>3, <1>4 DEF ResendAnswered, Sends

LEMMA OAuthStep ==
  ASSUME Basic, NEW q \in Requests, OAuthAnswered(q)
  PROVE  stack' = <<>> \/ (reqs[q].kind = "oauthSignIn" /\ Invited(None))
<1>1. None \in (Phones \union {None}) \ Registered
  BY PhonesAssumption DEF PhonesAssumption
<1>2. Signup(None) \in Good /\ Signup(None).at = "signup" /\ Signup(None).phone = None
  BY <1>1, NewScreens
<1> QED BY <1>2 DEF OAuthAnswered, Invited

LEMMA PushedKept ==
  ASSUME stack \in Seq(Good), NEW p, Asked(p) \/ Invited(p)
  PROVE  StackKept
<1>1. \A s : s.at = "signup" => Owner(s)
  BY DEF Owner
<1> QED BY <1>1, PushKept DEF Asked, Invited

LEMMA StackStep ==
  ASSUME Basic, Next
  PROVE  StackKept
<1>0. stack \in Seq(Good)
  BY DEF Basic, Stacked
<1>1. CASE stack' = stack
  BY <1>0, <1>1, SameKept
<1>2. CASE \/ \E name \in {None, "bad", "good"} : NameTyped(name)
           \/ NameBlurred
           \/ GenderChosen
  BY <1>0, <1>2, TopRenders, RenderKept
<1>3. CASE PickerOpened \/ PickerClosed
  BY <1>0, <1>3, PickerRenders, RenderKept
<1>4. CASE NextPressed \/ StepBackPressed
  BY <1>0, <1>4, StepRenders, RenderKept
<1>5. CASE BackPressed
  BY <1>0, <1>5, BackKept
<1>6. CASE Tick
  BY <1>0, <1>6, TickKept
<1>7. ASSUME NEW q \in Requests, LoginAnswered(q) PROVE StackKept
  BY <1>0, <1>1, <1>7, LoginStep, PushedKept
<1>8. ASSUME NEW q \in Requests, CompleteAnswered(q) PROVE StackKept
  BY <1>0, <1>1, <1>8, CompleteStep, PushedKept
<1>9. ASSUME NEW q \in Requests, ResendAnswered(q) PROVE StackKept
  BY <1>0, <1>1, <1>9, ResendStep, ResendKept
<1>10. ASSUME NEW q \in Requests, VerifyAnswered(q) PROVE StackKept
  BY <1>0, <1>1, <1>10, SignedInKept DEF VerifyAnswered
<1>11. ASSUME NEW q \in Requests, OAuthAnswered(q) PROVE StackKept
  BY <1>0, <1>1, <1>11, OAuthStep, PushedKept, SignedInKept
<1>12. ASSUME \/ \E p \in Phones \union {None} : PhoneTyped(p)
              \/ SendOtpPressed
              \/ \E provider \in Providers : \/ OAuthPressed(provider)
                                              \/ OAuthToken(provider)
                                              \/ OAuthCancelled(provider)
              \/ CompletePressed
              \/ CodeTyped
              \/ ResendPressed
              \/ \E q \in Requests : Fails(q) \/ SentUntold(q) \/ VerifyUntold(q)
       PROVE  stack' = stack
  BY <1>12 DEF PhoneTyped, SendOtpPressed, OAuthPressed, OAuthToken, OAuthCancelled,
     CompletePressed, CodeTyped, ResendPressed, Fails, SentUntold, VerifyUntold
<1> QED BY <1>1, <1>2, <1>3, <1>4, <1>5, <1>6, <1>7, <1>8, <1>9, <1>10, <1>11, <1>12
        DEF Next

-----------------------------------------------------------------------------
(***************************************************************************)
(* Requests come and go                                                    *)
(***************************************************************************)
\* A press makes a request; only those of the login screen and of OAuth do not
\* wait for the store.
Asks ==
  \E req \in Request \ {Free} :
    /\ Post(req) /\ stack' = stack
    /\ req.kind \in {"login", "oauthSignIn"} \/ ~isLoading
    /\ ResendOK(stack, req)
    /\ req.kind = "resend" => stack # <<>>

Answered == \E q \in Requests : reqs[q] # Free /\ Settled(q)

Quiet == UNCHANGED <<reqs, isLoading, mixed>>

LEMMA TopOtp ==
  ASSUME stack \in Seq(Good), At("otp")
  PROVE  /\ Len(stack) \in 1 .. Len(stack) /\ Top = stack[Len(stack)]
         /\ Top \in Good /\ Top \in Otps /\ Top.at = "otp"
<1>1. Len(stack) \in 1 .. Len(stack)
  BY EmptySeq DEF At
<1>2. Top \in Good
  BY <1>1, ElementOfSeq DEF Top
<1> QED BY <1>1, <1>2, ScreenShape DEF At, Top

LEMMA RequestStep ==
  ASSUME Basic, Next
  PROVE  Quiet \/ Asks \/ Answered \/ BackPressed
<1>0. /\ stack \in Seq(Good)
      /\ \A q \in Requests : reqs[q] \in Request
  BY DEF Basic, Stacked, Requested
<1>1. ASSUME NEW req \in Request \ {Free}, Post(req), stack' = stack,
             req.kind \in {"login", "oauthSignIn"} \/ ~isLoading, req.kind # "resend"
      PROVE  Asks
  BY <1>1 DEF Asks, ResendOK
<1>2. ASSUME SendOtpPressed PROVE Asks
  <2> DEFINE req == [kind |-> "login", phone |-> phone]
  <2>1. req \in Request \ {Free} /\ Post(req) /\ stack' = stack /\ req.kind = "login"
    BY <1>2, NewRequests DEF SendOtpPressed
  <2> HIDE DEF req
  <2> QED BY <1>1, <2>1
<1>3. ASSUME NEW provider \in Providers, OAuthToken(provider) PROVE Asks
  <2> DEFINE req == [kind |-> "oauthSignIn", provider |-> provider]
  <2>1. req \in Request \ {Free} /\ Post(req) /\ stack' = stack /\ req.kind = "oauthSignIn"
    BY <1>3, NewRequests DEF OAuthToken
  <2> HIDE DEF req
  <2> QED BY <1>1, <2>1
<1>4. ASSUME CompletePressed PROVE Asks
  <2> DEFINE req == IF Top.phone = None
                      THEN [kind |-> "oauthSignUp", data |-> Top.data]
                      ELSE [kind |-> "complete", phone |-> Top.phone, data |-> Top.data]
  <2>1. req \in Request \ {Free} /\ Post(req) /\ stack' = stack /\ req.kind # "resend"
    BY <1>4, NewRequests DEF CompletePressed
  <2> HIDE DEF req
  <2> QED BY <1>1, <1>4, <2>1 DEF CompletePressed
<1>5. ASSUME CodeTyped PROVE Asks
  <2> DEFINE req == [kind |-> "verify", phone |-> Top.phone, purpose |-> Top.purpose]
  <2>1. req \in Request \ {Free} /\ Post(req) /\ stack' = stack /\ req.kind = "verify"
    BY <1>5, NewRequests DEF CodeTyped
  <2> HIDE DEF req
  <2> QED BY <1>1, <1>5, <2>1 DEF CodeTyped, OtpInput
<1>6. ASSUME ResendPressed PROVE Asks
  <2> DEFINE req == [kind |-> "resend", phone |-> Top.phone, purpose |-> Top.purpose,
                     screen |-> Len(stack)]
  <2>1. /\ req \in Request \ {Free} /\ Post(req) /\ stack' = stack /\ ~isLoading
        /\ req.phone = Top.phone /\ req.purpose = Top.purpose /\ req.screen = Len(stack)
    BY <1>6, NewRequests DEF ResendPressed
  <2> HIDE DEF req
  <2>2. /\ Len(stack) \in 1 .. Len(stack) /\ stack[Len(stack)].at = "otp"
        /\ Top.purpose = "signup" => Top.phone \notin Registered
        /\ stack # <<>>
    BY <1>0, <1>6, TopOtp DEF ResendPressed, Good, ScreenOK, At
  <2>3. ResendOK(stack, req)
    BY <2>1, <2>2 DEF ResendOK
  <2> QED BY <2>1, <2>2, <2>3 DEF Asks
<1>7. ASSUME NEW q \in Requests,
             \/ LoginAnswered(q) \/ CompleteAnswered(q) \/ ResendAnswered(q)
             \/ VerifyAnswered(q) \/ OAuthAnswered(q) \/ Fails(q) \/ SentUntold(q)
             \/ VerifyUntold(q)
      PROVE  Answered
  <2>1. Settled(q)
    BY <1>7 DEF LoginAnswered, CompleteAnswered, ResendAnswered, VerifyAnswered,
       OAuthAnswered, Fails, SentUntold, VerifyUntold
  <2>2. reqs[q].kind # "free" \/ reqs[q] # Free
    BY <1>7 DEF LoginAnswered, CompleteAnswered, ResendAnswered, VerifyAnswered,
       OAuthAnswered, Fails, SentUntold, VerifyUntold
  <2>3. reqs[q] # Free
    BY <1>0, <2>2, RequestShape
  <2> QED BY <2>1, <2>3 DEF Answered
<1>8. ASSUME \/ \E p \in Phones \union {None} : PhoneTyped(p)
             \/ \E provider \in Providers : OAuthPressed(provider) \/ OAuthCancelled(provider)
             \/ \E name \in {None, "bad", "good"} : NameTyped(name)
             \/ NameBlurred \/ GenderChosen \/ PickerOpened \/ PickerClosed
             \/ NextPressed \/ StepBackPressed \/ Tick
      PROVE  Quiet
  BY <1>8 DEF Quiet, PhoneTyped, OAuthPressed, OAuthCancelled, NameTyped, NameBlurred,
     GenderChosen, PickerOpened, PickerClosed, NextPressed, StepBackPressed, Tick
<1> QED BY <1>2, <1>3, <1>4, <1>5, <1>6, <1>7, <1>8 DEF Next

\* A resend stays with its screen.
LEMMA ResendStays ==
  ASSUME stack \in Seq(Good), StackKept, ~BackPressed, NEW r, ResendOK(stack, r)
  PROVE  ResendOK(stack', r)
<1>0. Len(stack) \in Nat /\ Len(stack') \in Nat
  BY LenProperties DEF StackKept
<1> SUFFICES ASSUME r.kind = "resend", stack' # <<>>, r.screen # 0
             PROVE  r.screen \in 1 .. Len(stack') /\ stack'[r.screen].at = "otp"
  BY DEF ResendOK
<1>1. stack # <<>> /\ Len(stack') >= Len(stack)
  BY DEF StackKept
<1>2. r.screen \in 1 .. Len(stack) /\ stack[r.screen].at = "otp"
  BY <1>1 DEF ResendOK
<1>3. r.screen \in 1 .. Len(stack') /\ r.screen <= Len(stack)
  BY <1>0, <1>1, <1>2
<1> QED BY <1>2, <1>3 DEF StackKept, Same

\* The user leaves a screen: its resend is on its own.
LEMMA BackRequests ==
  ASSUME Basic, BackPressed, NEW q \in Requests
  PROVE  /\ reqs'[q] \in Request /\ reqs'[q].kind = reqs[q].kind
         /\ reqs[q].kind # "resend" => reqs'[q] = reqs[q]
         /\ reqs[q].kind = "resend" =>
              /\ reqs'[q].phone = reqs[q].phone /\ reqs'[q].purpose = reqs[q].purpose
              /\ reqs'[q].screen = IF reqs[q].screen = Len(stack) THEN 0
                                                                  ELSE reqs[q].screen
         /\ ResendOK(stack', reqs'[q])
<1>0. stack \in Seq(Good) /\ reqs[q] \in Request /\ ResendOK(stack, reqs[q])
  BY DEF Basic, Stacked, Requested
<1>1. reqs'[q] = IF reqs[q].kind = "resend" /\ reqs[q].screen = Len(stack)
                   THEN [reqs[q] EXCEPT !.screen = 0] ELSE reqs[q]
  BY DEF BackPressed
<1>2. CASE reqs[q].kind # "resend"
  BY <1>0, <1>1, <1>2 DEF ResendOK
<1>3. CASE reqs[q].kind = "resend"
  <2>1. reqs[q] \in Resends
    BY <1>0, <1>3, RequestShape
  <2>2. /\ reqs'[q] \in Resends /\ reqs'[q].kind = "resend"
        /\ reqs'[q].phone = reqs[q].phone /\ reqs'[q].purpose = reqs[q].purpose
        /\ reqs'[q].screen = IF reqs[q].screen = Len(stack) THEN 0 ELSE reqs[q].screen
    BY <1>1, <1>3, <2>1 DEF Resends
  <2>3. reqs'[q] \in Request
    BY <2>2 DEF Request
  <2>4. /\ Len(stack) \in Nat /\ stack # <<>> /\ Len(stack') = Len(stack) - 1
        /\ \A j \in 1 .. Len(stack) - 1 : stack'[j] = stack[j]
    BY <1>0, BackKept, LenProperties
  <2>5. ASSUME reqs'[q].screen # 0
        PROVE  reqs'[q].screen \in 1 .. Len(stack') /\ stack'[reqs'[q].screen].at = "otp"
    <3>1. reqs'[q].screen = reqs[q].screen /\ reqs[q].screen # Len(stack)
      BY <2>2, <2>5
    <3>2. reqs[q].screen \in 1 .. Len(stack) /\ stack[reqs[q].screen].at = "otp"
      BY <1>0, <1>3, <2>4, <2>5, <3>1 DEF ResendOK
    <3>3. reqs[q].screen \in 1 .. Len(stack) - 1
      BY <2>4, <3>1, <3>2
    <3> QED BY <2>4, <3>1, <3>2, <3>3
  <2>6. reqs[q].purpose = "signup" => reqs[q].phone \notin Registered
    BY <1>0, <1>3 DEF ResendOK
  <2> QED BY <1>3, <2>2, <2>3, <2>5, <2>6 DEF ResendOK
<1> QED BY <1>2, <1>3

LEMMA RequestedStep ==
  ASSUME Basic, Next
  PROVE  Requested'
<1>0. /\ stack \in Seq(Good) /\ reqs \in [Requests -> Request]
      /\ \A q \in Requests : ResendOK(stack, reqs[q])
  BY DEF Basic, Stacked, Requested
<1>1. StackKept
  BY StackStep
<1>2. CASE BackPressed
  <2>1. \A q \in Requests : reqs'[q] \in Request /\ ResendOK(stack', reqs'[q])
    BY <1>2, BackRequests
  <2>2. reqs' \in [Requests -> Request]
    BY <1>2, <2>1 DEF BackPressed
  <2> QED BY <2>1, <2>2 DEF Requested
<1>3. CASE ~BackPressed /\ Quiet
  <2>1. \A q \in Requests : ResendOK(stack', reqs[q])
    BY <1>0, <1>1, <1>3, ResendStays
  <2> QED BY <1>0, <1>3, <2>1 DEF Requested, Quiet
<1>4. CASE ~BackPressed /\ Asks
  <2>1. PICK req \in Request \ {Free} :
               Post(req) /\ stack' = stack /\ ResendOK(stack, req)
    BY <1>4 DEF Asks
  <2>2. /\ reqs' \in [Requests -> Request]
        /\ \A q \in Requests : reqs'[q] = req \/ reqs'[q] = reqs[q]
    BY <1>0, <2>1, Posts
  <2>3. \A q \in Requests : ResendOK(stack', reqs'[q])
    BY <1>0, <2>1, <2>2
  <2> QED BY <2>2, <2>3 DEF Requested
<1>5. CASE ~BackPressed /\ Answered
  <2>1. /\ reqs' \in [Requests -> Request]
        /\ \A q \in Requests : reqs'[q] = Free \/ reqs'[q] = reqs[q]
    BY <1>0, <1>5, Settles DEF Answered
  <2>2. \A q \in Requests : ResendOK(stack', reqs[q])
    BY <1>0, <1>1, <1>5, ResendStays
  <2>3. ResendOK(stack', Free)
    BY DEF ResendOK, Free
  <2>4. \A q \in Requests : ResendOK(stack', reqs'[q])
    BY <2>1, <2>2, <2>3
  <2> QED BY <2>1, <2>4 DEF Requested
<1> QED BY <1>2, <1>3, <1>4, <1>5, RequestStep

LEMMA StackedStep ==
  ASSUME Basic, Next
  PROVE  Stacked'
<1>1. StackKept /\ Stacked /\ Len(stack) \in Nat
  BY StackStep, LenProperties DEF Basic, Stacked
<1>2. \A i \in 1 .. Len(stack') : i > 1 => stack'[i].at # "login"
  BY <1>1 DEF StackKept, Stacked, Same
<1> QED BY <1>1, <1>2 DEF StackKept, Stacked

\* The API's codes grow older, are sent, or are used up.
LEMMA AgesStep ==
  ASSUME Basic, Next
  PROVE  otpAge' \in [Phones -> NoAge .. Cooldown]
<1>0. /\ otpAge \in [Phones -> NoAge .. Cooldown] /\ Cooldown \in Nat
      /\ 0 \in NoAge .. Cooldown /\ NoAge \in NoAge .. Cooldown
      /\ \A q \in Requests : reqs[q] \in Request
  BY ConfigAssumption DEF Basic, Typed, Requested, ConfigAssumption, NoAge
<1>1. CASE otpAge' = otpAge
  BY <1>0, <1>1
<1>2. CASE Tick
  BY <1>0, <1>2 DEF Tick, NoAge
<1>3. ASSUME NEW q \in Requests,
             LoginAnswered(q) \/ CompleteAnswered(q) \/ ResendAnswered(q)
      PROVE  otpAge' \in [Phones -> NoAge .. Cooldown]
  BY <1>0, <1>1, <1>3, LoginStep, CompleteStep, ResendStep DEF Asked, Invited
<1>4. ASSUME NEW q \in Requests, VerifyAnswered(q) \/ VerifyUntold(q)
      PROVE  otpAge' \in [Phones -> NoAge .. Cooldown]
  <2>1. reqs[q].phone \in Phones
    BY <1>0, <1>4, RequestShape DEF VerifyAnswered, VerifyUntold, Verifies
  <2>2. \E age \in {otpAge[reqs[q].phone], NoAge} :
          otpAge' = [otpAge EXCEPT ![reqs[q].phone] = age]
    BY <1>4 DEF VerifyAnswered, VerifyUntold, CodeAccepted
  <2> QED BY <1>0, <2>1, <2>2
<1>5. ASSUME NEW q \in Requests, SentUntold(q)
      PROVE  otpAge' \in [Phones -> NoAge .. Cooldown]
  <2>1. reqs[q].phone \in Phones
    BY <1>0, <1>5, RequestShape DEF SentUntold, Logins, Completes, Resends
  <2> QED BY <1>0, <1>5, <2>1 DEF SentUntold, Sends
<1>6. ASSUME \/ \E p \in Phones \union {None} : PhoneTyped(p)
             \/ SendOtpPressed
             \/ \E provider \in Providers : \/ OAuthPressed(provider)
                                             \/ OAuthToken(provider)
                                             \/ OAuthCancelled(provider)
             \/ \E name \in {None, "bad", "good"} : NameTyped(name)
             \/ NameBlurred \/ GenderChosen \/ PickerOpened \/ PickerClosed
             \/ NextPressed \/ CompletePressed \/ StepBackPressed \/ BackPressed
             \/ CodeTyped \/ ResendPressed
             \/ \E q \in Requests : OAuthAnswered(q) \/ Fails(q)
      PROVE  otpAge' = otpAge
  BY <1>6 DEF PhoneTyped, SendOtpPressed, OAuthPressed, OAuthToken, OAuthCancelled,
     NameTyped, NameBlurred, GenderChosen, PickerOpened, PickerClosed, NextPressed,
     CompletePressed, StepBackPressed, BackPressed, CodeTyped, ResendPressed,
     OAuthAnswered, Fails
<1> QED BY <1>1, <1>2, <1>3, <1>4, <1>5, <1>6 DEF Next

\* Who has an account changes by a sign-up only, which ends with the user signed
\* in, or is one that the client is not told of.
LEMMA RegisteredStep ==
  ASSUME Basic, Next
  PROVE  /\ registered' \subseteq Phones /\ Registered \subseteq registered'
         /\ registered \subseteq registered'
         /\ \/ registered' = registered
            \/ \E q \in Requests : VerifyAnswered(q) /\ stack' = <<>>
            \/ \E q \in Requests : VerifyUntold(q)
<1>0. registered \subseteq Phones /\ Registered \subseteq registered
  BY DEF Basic, Typed
<1>1. ASSUME NEW q \in Requests, VerifyAnswered(q) \/ VerifyUntold(q)
      PROVE  registered' = registered \/ registered' = registered \union {reqs[q].phone}
  BY <1>1 DEF VerifyAnswered, VerifyUntold, CodeAccepted
<1>2. ASSUME NEW q \in Requests, VerifyAnswered(q) \/ VerifyUntold(q)
      PROVE  reqs[q].phone \in Phones
  BY <1>2, RequestShape DEF VerifyAnswered, VerifyUntold, Verifies, Basic, Requested
<1>3. \/ registered' = registered
      \/ \E q \in Requests : VerifyAnswered(q) \/ VerifyUntold(q)
  BY DEF Next, PhoneTyped, SendOtpPressed, OAuthPressed, OAuthToken,
     OAuthCancelled, NameTyped, NameBlurred, GenderChosen, PickerOpened, PickerClosed,
     NextPressed, CompletePressed, StepBackPressed, BackPressed, CodeTyped,
     ResendPressed, Tick, LoginAnswered, CompleteAnswered, ResendAnswered,
     OAuthAnswered, Fails, SentUntold
<1>4. \A q \in Requests : VerifyAnswered(q) => registered' = registered \/ stack' = <<>>
  BY DEF VerifyAnswered
<1> QED BY <1>0, <1>1, <1>2, <1>3, <1>4

LEMMA TypedStep ==
  ASSUME Basic, Next
  PROVE  Typed'
<1>0. Typed
  BY DEF Basic
<1>1. otpAge' \in [Phones -> NoAge .. Cooldown]
  BY AgesStep
<1>2. phone' \in Phones \union {None} /\ native' \subseteq Providers
  BY <1>0, Zenon DEF Typed, Next, PhoneTyped, SendOtpPressed, OAuthPressed, OAuthToken,
     OAuthCancelled, NameTyped, NameBlurred, GenderChosen, PickerOpened, PickerClosed,
     NextPressed, CompletePressed, StepBackPressed, BackPressed, CodeTyped,
     ResendPressed, Tick, LoginAnswered, CompleteAnswered, ResendAnswered,
     VerifyAnswered, OAuthAnswered, Fails, SentUntold, VerifyUntold, Settled
<1>3. faults' \in 0 .. MaxFaults
  <2>1. faults' = faults \/ \E q \in Requests : SentUntold(q) \/ VerifyUntold(q)
    BY DEF Next, PhoneTyped, SendOtpPressed, OAuthPressed, OAuthToken,
       OAuthCancelled, NameTyped, NameBlurred, GenderChosen, PickerOpened, PickerClosed,
       NextPressed, CompletePressed, StepBackPressed, BackPressed, CodeTyped,
       ResendPressed, Tick, LoginAnswered, CompleteAnswered, ResendAnswered,
       VerifyAnswered, OAuthAnswered, Fails
  <2> QED BY <1>0, <2>1, ConfigAssumption
          DEF Typed, SentUntold, VerifyUntold, ConfigAssumption
<1> QED BY <1>1, <1>2, <1>3, RegisteredStep DEF Typed

LEMMA SwitchesStep ==
  ASSUME Switches, Next
  PROVE  Switches'
<1>1. ASSUME NEW req, Post(req)
      PROVE  isLoading' \in BOOLEAN /\ mixed' \in BOOLEAN /\ strayed' \in BOOLEAN
  BY <1>1, Zenon DEF Post, Switches
<1>2. ASSUME NEW q, Settled(q)
      PROVE  isLoading' \in BOOLEAN /\ mixed' \in BOOLEAN /\ strayed' \in BOOLEAN
  BY <1>2, Zenon DEF Settled, Switches
<1>3. limited' = limited \/ limited' = TRUE
  BY DEF Next, PhoneTyped, SendOtpPressed, OAuthPressed, OAuthToken,
     OAuthCancelled, NameTyped, NameBlurred, GenderChosen, PickerOpened, PickerClosed,
     NextPressed, CompletePressed, StepBackPressed, BackPressed, CodeTyped,
     ResendPressed, Tick, LoginAnswered, CompleteAnswered, ResendAnswered,
     VerifyAnswered, OAuthAnswered, Fails, SentUntold, VerifyUntold
<1>4. isLoading' \in BOOLEAN /\ mixed' \in BOOLEAN /\ strayed' \in BOOLEAN
  <2>1. \/ \E req : Post(req)
        \/ \E q : Settled(q)
        \/ /\ isLoading' = isLoading /\ mixed' = mixed
           /\ strayed' = strayed \/ StepBackPressed
    BY DEF Next, PhoneTyped, SendOtpPressed, OAuthPressed, OAuthToken,
       OAuthCancelled, NameTyped, NameBlurred, GenderChosen, PickerOpened, PickerClosed,
       NextPressed, CompletePressed, StepBackPressed, BackPressed, CodeTyped,
       ResendPressed, Tick, LoginAnswered, CompleteAnswered, ResendAnswered,
       VerifyAnswered, OAuthAnswered, Fails, SentUntold, VerifyUntold
  <2>2. StepBackPressed => strayed' \in BOOLEAN
    BY Zenon DEF StepBackPressed, Switches
  <2> QED BY <1>1, <1>2, <2>1, <2>2, Zenon DEF Switches
<1> QED BY <1>3, <1>4, Zenon DEF Switches

LEMMA BasicStep ==
  ASSUME Basic, Next
  PROVE  Basic'
  BY StackedStep, RequestedStep, TypedStep, SwitchesStep DEF Basic

-----------------------------------------------------------------------------
(***************************************************************************)
(* The store is loading                                                    *)
(***************************************************************************)
\* Requests do not overlap, unless one of the login screen or of OAuth did: the
\* others wait for the store.
Alone ==
  ~mixed => /\ \A q, r \in Requests : reqs[q] # Free /\ reqs[r] # Free => q = r
            /\ \A q \in Requests : reqs[q] # Free => isLoading
            /\ isLoading => \E q \in Requests : reqs[q] # Free

\* Then an answer is to the only request there is.
LEMMA LastAnswer ==
  ASSUME Basic, Alone, ~mixed, NEW q \in Requests, reqs[q] # Free, Settled(q)
  PROVE  \A r \in Requests : reqs'[r] = Free
  BY Settles DEF Basic, Requested, Alone

LEMMA AloneStep ==
  ASSUME Basic, Alone, Next
  PROVE  Alone' /\ (mixed => mixed')
<1>0. reqs \in [Requests -> Request]
  BY DEF Basic, Requested
<1>1. CASE Quiet
  BY <1>1 DEF Quiet, Alone
<1>2. CASE Asks
  <2>1. PICK req \in Request \ {Free} :
               Post(req) /\ (req.kind \in {"login", "oauthSignIn"} \/ ~isLoading)
    BY <1>2 DEF Asks
  <2>2. mixed => mixed'
    BY <2>1 DEF Post
  <2>3. ASSUME ~mixed' PROVE \A q \in Requests : reqs[q] = Free
    BY <2>1, <2>3 DEF Post, InFlight, Alone
  <2>4. /\ isLoading' = TRUE
        /\ \E q \in Requests : /\ reqs'[q] = req
                               /\ \A r \in Requests \ {q} : reqs'[r] = reqs[r]
    BY <1>0, <2>1, Posts
  <2> QED BY <2>2, <2>3, <2>4 DEF Alone
<1>3. CASE Answered
  <2>1. mixed' = mixed /\ isLoading' = FALSE
    BY <1>3 DEF Answered, Settled
  <2>2. ~mixed => \A r \in Requests : reqs'[r] = Free
    BY <1>3, LastAnswer DEF Answered
  <2> QED BY <2>1, <2>2 DEF Alone
<1>4. CASE BackPressed
  <2>1. \A q \in Requests : reqs'[q] = Free <=> reqs[q] = Free
    BY <1>0, <1>4, BackRequests, RequestShape
  <2>2. isLoading' = isLoading /\ mixed' = mixed
    BY <1>4 DEF BackPressed
  <2> QED BY <2>1, <2>2 DEF Alone
<1> QED BY <1>1, <1>2, <1>3, <1>4, RequestStep

-----------------------------------------------------------------------------
(***************************************************************************)

-----------------------------------------------------------------------------
(***************************************************************************)
(* Who has an account                                                      *)
(***************************************************************************)
\* A code to log in is asked of owners of accounts.  While nothing was lost, a
\* screen to sign up is not for somebody who has got an account since: it is gone
\* by then; and, while requests do not overlap, nor is a resend.
AccountsOK ==
  /\ \A i \in 1 .. Len(stack) : Owner(stack[i])
  /\ faults = 0 /\ stack # <<>> => registered = Registered
  /\ ~mixed /\ faults = 0 =>
       \A q \in Requests : reqs[q].kind = "resend" => registered = Registered

\* What is lost stays lost.
LEMMA FaultsStep ==
  ASSUME Basic, Next, faults' = 0
  PROVE  faults = 0 /\ \A q \in Requests : ~SentUntold(q) /\ ~VerifyUntold(q)
<1>0. faults \in Nat
  BY DEF Basic, Typed
<1>1. \A q \in Requests : ~SentUntold(q) /\ ~VerifyUntold(q)
  BY <1>0 DEF SentUntold, VerifyUntold
<1>2. faults' = faults
  BY <1>1 DEF Next, PhoneTyped, SendOtpPressed, OAuthPressed, OAuthToken,
     OAuthCancelled, NameTyped, NameBlurred, GenderChosen, PickerOpened, PickerClosed,
     NextPressed, CompletePressed, StepBackPressed, BackPressed, CodeTyped,
     ResendPressed, Tick, LoginAnswered, CompleteAnswered, ResendAnswered,
     VerifyAnswered, OAuthAnswered, Fails
<1> QED BY <1>1, <1>2

LEMMA AccountsStep ==
  ASSUME Basic, Alone, AccountsOK, Next
  PROVE  AccountsOK'
<1>0. StackKept /\ registered \subseteq registered'
  BY StackStep, RegisteredStep
<1>1. ASSUME NEW i \in 1 .. Len(stack') PROVE Owner(stack[i])'
  <2>1. Len(stack) \in Nat /\ Len(stack') \in Nat
    BY <1>0, LenProperties DEF StackKept, Basic, Stacked
  <2>2. CASE i <= Len(stack)
    <3>1. Owner(stack[i]) /\ Same(stack'[i], stack[i])
      BY <1>0, <2>1, <2>2 DEF AccountsOK, StackKept
    <3> QED BY <1>0, <3>1 DEF Owner, Same
  <2>3. CASE ~(i <= Len(stack))
    <3>1. stack'[i].at = "otp" /\ stack'[i].purpose = "login"
            => stack'[i].phone \in registered
      BY <1>0, <2>3 DEF StackKept, Owner
    <3> QED BY <1>0, <3>1 DEF Owner
  <2> QED BY <2>2, <2>3
<1>2. ASSUME faults' = 0, stack' # <<>> PROVE registered' = Registered
  <2>1. faults = 0 /\ \A q \in Requests : ~VerifyUntold(q)
    BY <1>2, FaultsStep
  <2>2. registered' = registered
    BY <1>2, <2>1, RegisteredStep
  <2>3. stack # <<>>
    BY <1>0, <1>2 DEF StackKept
  <2> QED BY <2>1, <2>2, <2>3 DEF AccountsOK
<1>3. ASSUME ~mixed', faults' = 0, NEW q \in Requests, reqs'[q].kind = "resend"
      PROVE  registered' = Registered
  <2>1. ~mixed /\ faults = 0 /\ \A r \in Requests : ~VerifyUntold(r)
    BY <1>3, FaultsStep, AloneStep
  <2>2. CASE \E r \in Requests : VerifyAnswered(r)
    <3>1. PICK r \in Requests : VerifyAnswered(r)
      BY <2>2
    <3>2. reqs[r] # Free /\ Settled(r)
      BY <3>1 DEF VerifyAnswered, Free
    <3>3. reqs'[q] = Free
      BY <2>1, <3>2, LastAnswer
    <3> QED BY <1>3, <3>3 DEF Free
  <2>3. CASE ~\E r \in Requests : VerifyAnswered(r)
    <3>1. registered' = registered
      BY <2>1, <2>3, RegisteredStep
    <3>2. CASE reqs[q].kind = "resend"
      BY <2>1, <3>1, <3>2 DEF AccountsOK
    <3>3. CASE reqs[q].kind # "resend"
      <4>1. Asks
        <5>1. ~Quiet
          BY <1>3, <3>3 DEF Quiet
        <5>2. ~Answered
          <6>1. Answered => reqs'[q] = Free \/ reqs'[q] = reqs[q]
            BY Settles DEF Answered, Basic, Requested
          <6>2. Free.kind = "free"
            BY DEF Free
          <6> QED BY <1>3, <3>3, <6>1, <6>2
        <5>3. ~BackPressed
          BY <1>3, <3>3, BackRequests
        <5> QED BY <5>1, <5>2, <5>3, RequestStep
      <4>2. PICK req \in Request \ {Free} :
              Post(req) /\ (req.kind = "resend" => stack # <<>>)
        BY <4>1 DEF Asks
      <4>3. reqs'[q] = req \/ reqs'[q] = reqs[q]
        BY <4>2, Posts DEF Basic, Requested
      <4>4. stack # <<>>
        BY <1>3, <3>3, <4>2, <4>3
      <4> QED BY <2>1, <3>1, <4>4 DEF AccountsOK
    <3> QED BY <3>2, <3>3
  <2> QED BY <2>2, <2>3
<1> QED BY <1>1, <1>2, <1>3 DEF AccountsOK

-----------------------------------------------------------------------------
(***************************************************************************)
(* The picker is on top                                                    *)
(***************************************************************************)
\* A sign-up that the user can leave behind is at its last step.
Chosen(s) == s.at = "signup" => s.step = 3

\* The requests whose answers bring another screen.
Pushes == \E q \in Requests : reqs[q].kind \in {"login", "oauthSignIn", "complete"}

\* Below the top, and at the top too while another screen may come, there is no
\* sign-up but at its last step: its picker is neither open nor about to be.
StepsOK ==
  /\ mixed => strayed
  /\ ~strayed =>
       /\ \A i \in 1 .. Len(stack) : i < Len(stack) => Chosen(stack[i])
       /\ Pushes => \A i \in 1 .. Len(stack) : Chosen(stack[i])

LEMMA StepsKept ==
  ASSUME StepsOK, mixed' = mixed, strayed' = strayed, Len(stack') = Len(stack),
         \A i \in 1 .. Len(stack) : Chosen(stack[i]) => Chosen(stack'[i]),
         Pushes' => Pushes
  PROVE  StepsOK'
  BY DEF StepsOK

\* A request that cannot bring another screen, or that starts when all is chosen.
LEMMA AskSteps ==
  ASSUME Basic, StepsOK, NEW req \in Request \ {Free}, Post(req), stack' = stack,
         \/ req.kind \notin {"login", "oauthSignIn", "complete"}
         \/ ~strayed' => Chosen(Top)
  PROVE  StepsOK'
<1>0. /\ Len(stack) \in Nat /\ reqs \in [Requests -> Request]
  BY LenProperties DEF Basic, Stacked, Requested
<1>1. /\ mixed' => strayed'
      /\ strayed => strayed'
  BY DEF Post, StepsOK
<1>2. \A q \in Requests : reqs'[q] = req \/ reqs'[q] = reqs[q]
  BY <1>0, Posts
<1>3. ASSUME ~strayed' PROVE \A i \in 1 .. Len(stack) : i < Len(stack) => Chosen(stack[i])
  BY <1>1, <1>3 DEF StepsOK
<1>4. ASSUME ~strayed', Pushes' PROVE \A i \in 1 .. Len(stack) : Chosen(stack[i])
  <2>1. CASE Pushes
    BY <1>1, <1>4, <2>1 DEF StepsOK
  <2>2. CASE ~Pushes
    <3>1. req.kind \in {"login", "oauthSignIn", "complete"}
      BY <1>2, <1>4, <2>2 DEF Pushes
    <3>2. Chosen(stack[Len(stack)])
      BY <1>4, <3>1 DEF Top
    <3>3. \A i \in 1 .. Len(stack) : i < Len(stack) \/ i = Len(stack)
      BY <1>0
    <3> QED BY <1>3, <1>4, <3>2, <3>3
  <2> QED BY <2>1, <2>2
<1> QED BY <1>1, <1>3, <1>4 DEF StepsOK

\* An answer that brings another screen finds all of them chosen, and no other
\* request under way.
LEMMA PushSteps ==
  ASSUME Basic, Alone, StepsOK, NEW q \in Requests,
         reqs[q].kind \in {"login", "oauthSignIn", "complete"}, Settled(q),
         NEW p, Asked(p) \/ Invited(p)
  PROVE  StepsOK'
<1>0. /\ stack \in Seq(Good) /\ Len(stack) \in Nat /\ reqs[q] # Free
  BY LenProperties DEF Basic, Stacked, Free
<1>1. mixed' = mixed /\ strayed' = strayed
  BY DEF Settled
<1>2. ASSUME ~strayed PROVE ~Pushes'
  <2>1. ~mixed
    BY <1>2 DEF StepsOK
  <2>2. \A r \in Requests : reqs'[r] = Free
    BY <1>0, <2>1, LastAnswer
  <2> QED BY <2>2 DEF Pushes, Free
<1>3. ASSUME ~strayed, NEW i \in 1 .. Len(stack'), i < Len(stack')
      PROVE  Chosen(stack'[i])
  <2>1. \A j \in 1 .. Len(stack) : Chosen(stack[j])
    BY <1>3 DEF StepsOK, Pushes
  <2>2. PICK s \in Good : s.at # "login" /\ Owner(s) /\ Push(s)
    BY DEF Asked, Invited, Owner
  <2>3. stack # <<>>
    <3>1. CASE stack = <<>>
      BY <1>3, <2>2, <3>1 DEF Push
    <3> QED BY <3>1
  <2>4. Len(stack') = Len(stack) + 1 /\ \A j \in 1 .. Len(stack) : stack'[j] = stack[j]
    BY <1>0, <2>2, <2>3, PushKept
  <2>5. i \in 1 .. Len(stack)
    BY <1>0, <1>3, <2>4
  <2> QED BY <2>1, <2>4, <2>5
<1> QED BY <1>1, <1>2, <1>3 DEF StepsOK

\* An answer that does not.
LEMMA AnswerSteps ==
  ASSUME Basic, StepsOK, NEW q \in Requests, Settled(q),
         \/ stack' = stack
         \/ stack' = <<>>
         \/ /\ Len(stack') = Len(stack)
            /\ \A i \in 1 .. Len(stack) : Chosen(stack[i]) => Chosen(stack'[i])
  PROVE  StepsOK'
<1>1. mixed' = mixed /\ strayed' = strayed
  BY DEF Settled
<1>2. Pushes' => Pushes
  <2>1. \A r \in Requests : reqs'[r] = Free \/ reqs'[r] = reqs[r]
    BY Settles DEF Basic, Requested
  <2> QED BY <2>1 DEF Pushes, Free
<1>3. CASE stack' = <<>>
  <2>1. Len(stack') = 0
    BY <1>3
  <2> QED BY <1>1, <2>1 DEF StepsOK
<1>4. CASE stack' # <<>>
  BY <1>1, <1>2, <1>4, StepsKept
<1> QED BY <1>3, <1>4

LEMMA StepsStep ==
  ASSUME Basic, Alone, StepsOK, Next
  PROVE  StepsOK'
<1>0. /\ stack \in Seq(Good) /\ Len(stack) \in Nat
      /\ \A q \in Requests : reqs[q] \in Request
  BY LenProperties DEF Basic, Stacked, Requested
<1>1. ASSUME \/ \E p \in Phones \union {None} : PhoneTyped(p)
             \/ \E provider \in Providers : OAuthPressed(provider) \/ OAuthCancelled(provider)
      PROVE  StepsOK'
  BY <1>1 DEF StepsOK, Pushes, PhoneTyped, OAuthPressed, OAuthCancelled
<1>2. ASSUME SendOtpPressed PROVE StepsOK'
  <2> DEFINE req == [kind |-> "login", phone |-> phone]
  <2>1. req \in Request \ {Free} /\ Post(req) /\ stack' = stack /\ Chosen(Top)
    BY <1>2, NewRequests DEF SendOtpPressed, At, Chosen
  <2> HIDE DEF req
  <2> QED BY <2>1, AskSteps
<1>3. ASSUME NEW provider \in Providers, OAuthToken(provider) PROVE StepsOK'
  <2> DEFINE req == [kind |-> "oauthSignIn", provider |-> provider]
  <2>1. req \in Request \ {Free} /\ Post(req) /\ stack' = stack
    BY <1>3, NewRequests DEF OAuthToken
  <2>2. ~strayed' => Chosen(Top)
    BY <1>3 DEF OAuthToken, Post, At, Chosen
  <2> HIDE DEF req
  <2> QED BY <2>1, <2>2, AskSteps
<1>4. ASSUME CompletePressed PROVE StepsOK'
  <2> DEFINE req == IF Top.phone = None
                      THEN [kind |-> "oauthSignUp", data |-> Top.data]
                      ELSE [kind |-> "complete", phone |-> Top.phone, data |-> Top.data]
  <2>1. req \in Request \ {Free} /\ Post(req) /\ stack' = stack /\ Chosen(Top)
    BY <1>4, NewRequests, StepsDef DEF CompletePressed, Chosen
  <2> HIDE DEF req
  <2> QED BY <2>1, AskSteps
<1>5. ASSUME CodeTyped PROVE StepsOK'
  <2> DEFINE req == [kind |-> "verify", phone |-> Top.phone, purpose |-> Top.purpose]
  <2>1. req \in Request \ {Free} /\ Post(req) /\ stack' = stack /\ req.kind = "verify"
    BY <1>5, NewRequests DEF CodeTyped
  <2> HIDE DEF req
  <2> QED BY <2>1, AskSteps
<1>6. ASSUME ResendPressed PROVE StepsOK'
  <2> DEFINE req == [kind |-> "resend", phone |-> Top.phone, purpose |-> Top.purpose,
                     screen |-> Len(stack)]
  <2>1. req \in Request \ {Free} /\ Post(req) /\ stack' = stack /\ req.kind = "resend"
    BY <1>6, NewRequests DEF ResendPressed
  <2> HIDE DEF req
  <2> QED BY <2>1, AskSteps
<1>7. ASSUME NEW i, NEW t, Rerenders(i, t), t.step = stack[i].step,
             mixed' = mixed, strayed' = strayed, reqs' = reqs
      PROVE  StepsOK'
  <2>1. /\ Len(stack') = Len(stack) /\ stack'[i] = t
        /\ \A j \in 1 .. Len(stack) : j # i => stack'[j] = stack[j]
    BY <1>0, <1>7, RenderKept
  <2>2. \A j \in 1 .. Len(stack) : Chosen(stack[j]) => Chosen(stack'[j])
    BY <1>7, <2>1 DEF Chosen, Rerenders
  <2>3. Pushes' => Pushes
    BY <1>7 DEF Pushes
  <2> QED BY <1>7, <2>1, <2>2, <2>3, StepsKept
<1>8. ASSUME \/ \E name \in {None, "bad", "good"} : NameTyped(name)
             \/ NameBlurred
             \/ GenderChosen
      PROVE  StepsOK'
  <2>1. \E t : Rerenders(Len(stack), t) /\ t.step = stack[Len(stack)].step
    BY <1>0, <1>8, TopRenders DEF Top
  <2>2. mixed' = mixed /\ strayed' = strayed /\ reqs' = reqs
    BY <1>8 DEF NameTyped, NameBlurred, GenderChosen
  <2> QED BY <1>7, <2>1, <2>2
<1>9. ASSUME PickerOpened \/ PickerClosed PROVE StepsOK'
  <2>1. \E i, t : Rerenders(i, t) /\ t.step = stack[i].step
    BY <1>0, <1>9, PickerRenders
  <2>2. mixed' = mixed /\ strayed' = strayed /\ reqs' = reqs
    BY <1>9 DEF PickerOpened, PickerClosed
  <2> QED BY <1>7, <2>1, <2>2
<1>10. ASSUME NextPressed \/ StepBackPressed PROVE StepsOK'
  <2>1. PICK t : Rerenders(Len(stack), t)
    BY <1>0, <1>10, StepRenders
  <2>2. /\ Len(stack') = Len(stack) /\ Len(stack) \in 1 .. Len(stack)
        /\ \A j \in 1 .. Len(stack) : j # Len(stack) => stack'[j] = stack[j]
    BY <1>0, <2>1, RenderKept DEF Rerenders
  <2>s. /\ NextPressed => strayed' = strayed
        /\ StepBackPressed => strayed' = (strayed \/ InFlight # {})
    BY Zenon DEF NextPressed, StepBackPressed
  <2>3. /\ mixed' = mixed /\ reqs' = reqs /\ (strayed => strayed')
    <3>1. mixed' = mixed /\ reqs' = reqs
      BY <1>10 DEF NextPressed, StepBackPressed
    <3>2. strayed => strayed'
      BY <1>10, <2>s, Zenon
    <3> QED BY <3>1, <3>2
  <2>4. ASSUME ~strayed' PROVE ~Pushes
    <3>1. CASE NextPressed
      <4>1. Top.at = "signup" /\ Top.step < 3 /\ Top \in Signups
        BY <1>0, <3>1, StepRenders, TopSignup DEF NextPressed, At
      <4>2. ~Chosen(stack[Len(stack)])
        BY <4>1 DEF Chosen, Top, Signups
      <4> QED BY <2>2, <2>3, <2>4, <4>2 DEF StepsOK
    <3>2. CASE StepBackPressed
      <4>1. InFlight = {}
        BY <2>4, <2>s, <3>2
      <4>2. \A q \in Requests : reqs[q].kind = "free"
        BY <4>1 DEF InFlight, Free
      <4> QED BY <4>2 DEF Pushes
    <3> QED BY <1>10, <3>1, <3>2
  <2>5. Pushes' => Pushes
    BY <2>3 DEF Pushes
  <2>6. \A i \in 1 .. Len(stack) : i < Len(stack) => i # Len(stack)
    BY <1>0
  <2> QED BY <2>2, <2>3, <2>4, <2>5, <2>6 DEF StepsOK
<1>11. ASSUME BackPressed PROVE StepsOK'
  <2>1. /\ Len(stack') = Len(stack) - 1
        /\ \A j \in 1 .. Len(stack) - 1 : stack'[j] = stack[j]
    BY <1>0, <1>11, BackKept
  <2>2. \A q \in Requests : reqs'[q].kind = reqs[q].kind
    BY <1>11, BackRequests
  <2>3. mixed' = mixed /\ strayed' = strayed
    BY <1>11 DEF BackPressed
  <2>4. \A i \in 1 .. Len(stack') : /\ i \in 1 .. Len(stack) /\ i < Len(stack)
                                    /\ stack'[i] = stack[i]
    BY <1>0, <2>1
  <2> QED BY <2>2, <2>3, <2>4 DEF StepsOK, Pushes
<1>12. ASSUME Tick PROVE StepsOK'
  <2>1. /\ StackKept /\ Len(stack') = Len(stack)
        /\ \A j \in 1 .. Len(stack) : stack[j].at # "otp" => stack'[j] = stack[j]
    BY <1>0, <1>12, TickKept
  <2>2. \A j \in 1 .. Len(stack) : Same(stack'[j], stack[j])
    BY <1>0, <2>1 DEF StackKept
  <2>3. \A j \in 1 .. Len(stack) : Chosen(stack[j]) => Chosen(stack'[j])
    BY <2>1, <2>2 DEF Chosen, Same
  <2>4. mixed' = mixed /\ strayed' = strayed /\ (Pushes' => Pushes)
    BY <1>12 DEF Tick, Pushes
  <2> QED BY <2>1, <2>3, <2>4, StepsKept
<1>13. ASSUME NEW q \in Requests, LoginAnswered(q) PROVE StepsOK'
  BY <1>13, LoginStep, PushSteps, AnswerSteps DEF LoginAnswered
<1>14. ASSUME NEW q \in Requests, CompleteAnswered(q) PROVE StepsOK'
  BY <1>14, CompleteStep, PushSteps, AnswerSteps DEF CompleteAnswered
<1>15. ASSUME NEW q \in Requests, OAuthAnswered(q) PROVE StepsOK'
  BY <1>15, OAuthStep, PushSteps, AnswerSteps DEF OAuthAnswered
<1>16. ASSUME NEW q \in Requests, ResendAnswered(q) PROVE StepsOK'
  <2>1. Settled(q)
    BY <1>16 DEF ResendAnswered
  <2>2. CASE stack' = stack
    BY <2>1, <2>2, AnswerSteps
  <2>3. ASSUME NEW i \in 1 .. Len(stack), stack[i].at = "otp",
               stack' = [stack EXCEPT ![i].resendTimer = Cooldown]
        PROVE  StepsOK'
    <3>1. /\ StackKept /\ Len(stack') = Len(stack)
          /\ \A j \in 1 .. Len(stack) : j # i => stack'[j] = stack[j]
      BY <1>0, <2>3, ResendKept
    <3>2. stack'[i].at = "otp"
      BY <1>0, <2>3, <3>1 DEF StackKept, Same
    <3>3. \A j \in 1 .. Len(stack) : Chosen(stack[j]) => Chosen(stack'[j])
      BY <3>1, <3>2 DEF Chosen
    <3> QED BY <2>1, <3>1, <3>3, AnswerSteps
  <2> QED BY <1>16, <2>2, <2>3, ResendStep
<1>17. ASSUME NEW q \in Requests,
              VerifyAnswered(q) \/ Fails(q) \/ SentUntold(q) \/ VerifyUntold(q)
       PROVE  StepsOK'
  <2>1. Settled(q) /\ (stack' = stack \/ stack' = <<>>)
    BY <1>17 DEF VerifyAnswered, Fails, SentUntold, VerifyUntold
  <2> QED BY <2>1, AnswerSteps
<1> QED BY <1>1, <1>2, <1>3, <1>4, <1>5, <1>6, <1>8, <1>9, <1>10, <1>11, <1>12, <1>13,
           <1>14, <1>15, <1>16, <1>17 DEF Next

-----------------------------------------------------------------------------
(***************************************************************************)
(* The timers and the API's cooldown                                       *)
(***************************************************************************)
\* The timer of an otp screen does not run ahead of the API's cooldown: what is
\* left of the one covers what is left of the other.
TimersCover ==
  \A i \in 1 .. Len(stack) : stack[i].at = "otp" =>
    \/ otpAge[stack[i].phone] = NoAge
    \/ otpAge[stack[i].phone] + stack[i].resendTimer >= Cooldown

\* There is one otp screen at most, and none below the sign-up of a phone.
OtpsLast ==
  /\ \A i, j \in 1 .. Len(stack) : stack[i].at = "otp" /\ stack[j].at = "otp" => i = j
  /\ \A i, j \in 1 .. Len(stack) :
       stack[i].at = "signup" /\ stack[i].phone # None /\ j < i => stack[j].at # "otp"

\* What requests under way find: no otp screen where one will be opened; and
\* the API grants a resend, whose screen is the only one for a code.
RequestFits(r) ==
  /\ r.kind = "login" => \A j \in 1 .. Len(stack) : stack[j].at = "login"
  /\ r.kind = "complete" => \A j \in 1 .. Len(stack) : stack[j].at # "otp"
  /\ r.kind = "resend" =>
       /\ ~Recent(r.phone)
       /\ \A j \in 1 .. Len(stack) : stack[j].at = "otp" => r.screen = j

TimersOK ==
  ~mixed /\ faults = 0 =>
    TimersCover /\ OtpsLast /\ \A q \in Requests : RequestFits(reqs[q])

Timed == TimersCover /\ OtpsLast /\ \A q \in Requests : RequestFits(reqs[q])

\* The same screens in the same places.
LEMMA PlacesKept ==
  ASSUME stack \in Seq(Good), StackKept, Len(stack') = Len(stack)
  PROVE  /\ OtpsLast => OtpsLast'
         /\ \A q \in Requests :
              /\ RequestFits(reqs[q]) /\ reqs'[q] = reqs[q]
              /\ reqs[q].kind = "resend" => ~Recent(reqs[q].phone)'
              => RequestFits(reqs[q])'
<1>1. \A i \in 1 .. Len(stack) :
        /\ stack'[i].at = stack[i].at
        /\ stack[i].at # "login" => stack'[i].phone = stack[i].phone
  <2>1. \A i \in 1 .. Len(stack) : i <= Len(stack)
    BY LenProperties
  <2> QED BY <2>1 DEF StackKept, Same
<1>2. OtpsLast => OtpsLast'
  BY <1>1 DEF OtpsLast
<1>3. ASSUME NEW q \in Requests, RequestFits(reqs[q]), reqs'[q] = reqs[q],
             reqs[q].kind = "resend" => ~Recent(reqs[q].phone)'
      PROVE  RequestFits(reqs[q])'
  BY <1>1, <1>3 DEF RequestFits
<1> QED BY <1>2, <1>3

LEMMA RenderTimers ==
  ASSUME stack \in Seq(Good), Timed, reqs' = reqs, otpAge' = otpAge,
         NEW i, NEW t, Rerenders(i, t)
  PROVE  Timed'
<1>1. /\ StackKept /\ Len(stack') = Len(stack) /\ stack'[i] = t /\ t.at = "signup"
      /\ \A j \in 1 .. Len(stack) : j # i => stack'[j] = stack[j]
  BY RenderKept DEF Rerenders, Same
<1>2. TimersCover'
  BY <1>1 DEF Timed, TimersCover
<1>3. \A q \in Requests : reqs[q].kind = "resend" => ~Recent(reqs[q].phone)'
  BY DEF Timed, RequestFits, Recent
<1> QED BY <1>1, <1>2, <1>3, PlacesKept DEF Timed

LEMMA AskTimers ==
  ASSUME Basic, Timed, NEW req \in Request \ {Free}, Post(req), stack' = stack,
         otpAge' = otpAge, RequestFits(req)
  PROVE  Timed'
<1>1. \A q \in Requests : reqs'[q] = req \/ reqs'[q] = reqs[q]
  BY Posts DEF Basic, Requested
<1>2. \A q \in Requests : RequestFits(reqs[q])'
  BY <1>1 DEF Timed, RequestFits, Recent
<1>3. TimersCover' /\ OtpsLast'
  BY DEF Timed, TimersCover, OtpsLast
<1> QED BY <1>2, <1>3 DEF Timed

LEMMA BackTimers ==
  ASSUME Basic, Timed, BackPressed
  PROVE  Timed'
<1>0. stack \in Seq(Good) /\ Len(stack) \in Nat /\ otpAge' = otpAge
  BY LenProperties DEF Basic, Stacked, BackPressed
<1>1. /\ Len(stack') = Len(stack) - 1
      /\ \A j \in 1 .. Len(stack) - 1 : stack'[j] = stack[j]
  BY <1>0, BackKept
<1>2. \A i \in 1 .. Len(stack') : /\ i \in 1 .. Len(stack) /\ i # Len(stack)
                                  /\ stack'[i] = stack[i]
  BY <1>0, <1>1
<1>3. TimersCover'
  BY <1>0, <1>2 DEF Timed, TimersCover
<1>4. OtpsLast'
  BY <1>2 DEF Timed, OtpsLast
<1>5. ASSUME NEW q \in Requests PROVE RequestFits(reqs[q])'
  <2>1. /\ reqs'[q].kind = reqs[q].kind
        /\ reqs[q].kind = "resend" =>
             /\ reqs'[q].phone = reqs[q].phone
             /\ reqs'[q].screen = IF reqs[q].screen = Len(stack) THEN 0
                                                                 ELSE reqs[q].screen
    BY BackRequests
  <2>2. RequestFits(reqs[q])
    BY DEF Timed
  <2> QED BY <1>0, <1>2, <2>1, <2>2 DEF RequestFits, Recent
<1> QED BY <1>3, <1>4, <1>5 DEF Timed

\* A second passes: a timer may lose what the cooldown does, never more.
LEMMA SecondPasses ==
  ASSUME NEW c \in Nat, NEW a \in -1 .. c, NEW b, NEW t \in Nat, NEW u \in Nat,
         a = -1 \/ a + t >= c, u >= t - 1,
         b = IF a \in 0 .. c - 1 THEN a + 1 ELSE a
  PROVE  b = -1 \/ b + u >= c
  OBVIOUS

LEMMA TickTimers ==
  ASSUME Basic, Timed, Tick
  PROVE  Timed'
<1>0. /\ stack \in Seq(Good) /\ otpAge \in [Phones -> NoAge .. Cooldown]
      /\ Cooldown \in Nat /\ reqs' = reqs
      /\ \A q \in Requests : reqs[q] \in Request
      /\ \A p \in Phones : otpAge'[p] = IF otpAge[p] \in 0 .. Cooldown - 1
                                          THEN otpAge[p] + 1 ELSE otpAge[p]
  BY ConfigAssumption DEF Basic, Stacked, Requested, Typed, Tick, ConfigAssumption
<1>1. /\ StackKept /\ Len(stack') = Len(stack)
      /\ \A j \in 1 .. Len(stack) :
           stack[j].at = "otp" => stack'[j].resendTimer >= stack[j].resendTimer - 1
  BY <1>0, TickKept
<1>2. ASSUME NEW i \in 1 .. Len(stack'), stack'[i].at = "otp"
      PROVE  \/ otpAge'[stack'[i].phone] = NoAge
             \/ otpAge'[stack'[i].phone] + stack'[i].resendTimer >= Cooldown
  <2>1. i \in 1 .. Len(stack) /\ i <= Len(stack)
    BY <1>0, <1>1, LenProperties
  <2>2. stack[i].at = "otp" /\ stack'[i].phone = stack[i].phone
    BY <1>1, <1>2, <2>1 DEF StackKept, Same
  <2>3. stack[i] \in Otps /\ stack'[i] \in Otps
    BY <1>0, <1>1, <1>2, <2>1, <2>2, ElementOfSeq, ScreenShape DEF StackKept
  <2>4. \/ otpAge[stack[i].phone] = NoAge
        \/ otpAge[stack[i].phone] + stack[i].resendTimer >= Cooldown
    BY <2>1, <2>2 DEF Timed, TimersCover
  <2>5. /\ stack[i].phone \in Phones /\ stack[i].resendTimer \in Nat
        /\ stack'[i].resendTimer \in Nat /\ otpAge[stack[i].phone] \in NoAge .. Cooldown
        /\ stack'[i].resendTimer >= stack[i].resendTimer - 1
    BY <1>0, <1>1, <2>1, <2>2, <2>3 DEF Otps
  <2> DEFINE a == otpAge[stack[i].phone]
             b == otpAge'[stack[i].phone]
  <2>6. b = IF a \in 0 .. Cooldown - 1 THEN a + 1 ELSE a
    BY <1>0, <2>5
  <2>7. /\ a \in NoAge .. Cooldown
        /\ a = NoAge \/ a + stack[i].resendTimer >= Cooldown
    BY <2>4, <2>5
  <2> DEFINE t == stack[i].resendTimer
             u == stack'[i].resendTimer
  <2>8. /\ Cooldown \in Nat /\ t \in Nat /\ u \in Nat /\ u >= t - 1
        /\ a \in -1 .. Cooldown /\ (a = -1 \/ a + t >= Cooldown)
    BY <1>0, <2>5, <2>7 DEF NoAge
  <2> HIDE DEF a, b, t, u
  <2>9. b = -1 \/ b + u >= Cooldown
    BY <2>6, <2>8, SecondPasses
  <2> QED BY <2>2, <2>9 DEF b, u, NoAge
<1>3. ASSUME NEW q \in Requests, reqs[q].kind = "resend"
      PROVE  ~Recent(reqs[q].phone)'
  <2>1. reqs[q].phone \in Phones
    BY <1>0, <1>3, RequestShape DEF Resends
  <2>2. ~Recent(reqs[q].phone)
    BY <1>3 DEF Timed, RequestFits
  <2> QED BY <1>0, <2>1, <2>2 DEF Recent, NoAge
<1>4. TimersCover'
  BY <1>2 DEF TimersCover
<1> QED BY <1>0, <1>1, <1>3, <1>4, PlacesKept DEF Timed

\* A code is asked for where there was no otp screen.
LEMMA AskedTimers ==
  ASSUME Basic, OtpsLast, NEW p, Asked(p), \A j \in 1 .. Len(stack) : stack[j].at # "otp"
  PROVE  TimersCover' /\ OtpsLast'
<1>0. /\ stack \in Seq(Good) /\ Len(stack) \in Nat /\ p \in Phones
      /\ otpAge \in [Phones -> NoAge .. Cooldown] /\ Cooldown \in Nat
      /\ otpAge' = [otpAge EXCEPT ![p] = 0]
  BY LenProperties, ConfigAssumption DEF Basic, Stacked, Typed, Asked, ConfigAssumption
<1>1. PICK s \in Good :
        s.at = "otp" /\ s.phone = p /\ s.resendTimer = Cooldown /\ Owner(s) /\ Push(s)
  BY DEF Asked
<1>2. CASE stack = <<>>
  <2>1. Len(stack') = 0
    BY <1>1, <1>2 DEF Push
  <2> QED BY <2>1 DEF TimersCover, OtpsLast
<1>3. CASE stack # <<>>
  <2>1. /\ Len(stack') = Len(stack) + 1 /\ stack'[Len(stack) + 1] = s
        /\ \A j \in 1 .. Len(stack) : stack'[j] = stack[j]
    BY <1>0, <1>1, <1>3, PushKept
  <2>2. \A i \in 1 .. Len(stack') : \/ i \in 1 .. Len(stack) /\ stack'[i] = stack[i]
                                    \/ i = Len(stack) + 1 /\ stack'[i] = s
    BY <1>0, <2>1
  <2>3. TimersCover'
    BY <1>0, <1>1, <2>2 DEF TimersCover
  <2>4. \A i, j \in 1 .. Len(stack') :
          stack'[i].at = "otp" /\ stack'[j].at = "otp" => i = j
    BY <2>2
  <2>5. ASSUME NEW i \in 1 .. Len(stack'), NEW j \in 1 .. Len(stack'),
               stack'[i].at = "signup", j < i
        PROVE  stack'[j].at # "otp"
    <3>1. i \in 1 .. Len(stack)
      BY <1>1, <2>2, <2>5
    <3>2. j \in 1 .. Len(stack)
      BY <1>0, <2>5, <3>1
    <3> QED BY <2>1, <3>2
  <2> QED BY <2>3, <2>4, <2>5 DEF OtpsLast
<1> QED BY <1>2, <1>3

LEMMA InvitedTimers ==
  ASSUME Basic, TimersCover, OtpsLast, NEW p, Invited(p),
         p = None \/ \A j \in 1 .. Len(stack) : stack[j].at # "otp"
  PROVE  TimersCover' /\ OtpsLast'
<1>0. stack \in Seq(Good) /\ Len(stack) \in Nat /\ otpAge' = otpAge
  BY LenProperties DEF Basic, Stacked, Invited
<1>1. PICK s \in Good : s.at = "signup" /\ s.phone = p /\ Owner(s) /\ Push(s)
  BY DEF Invited, Owner
<1>2. CASE stack = <<>>
  <2>1. Len(stack') = 0
    BY <1>1, <1>2 DEF Push
  <2> QED BY <2>1 DEF TimersCover, OtpsLast
<1>3. CASE stack # <<>>
  <2>1. /\ Len(stack') = Len(stack) + 1 /\ stack'[Len(stack) + 1] = s
        /\ \A j \in 1 .. Len(stack) : stack'[j] = stack[j]
    BY <1>0, <1>1, <1>3, PushKept
  <2>2. \A i \in 1 .. Len(stack') : \/ i \in 1 .. Len(stack) /\ stack'[i] = stack[i]
                                    \/ i = Len(stack) + 1 /\ stack'[i] = s
    BY <1>0, <2>1
  <2>3. TimersCover'
    BY <1>0, <1>1, <2>2 DEF TimersCover
  <2>4. \A i, j \in 1 .. Len(stack') :
          stack'[i].at = "otp" /\ stack'[j].at = "otp" => i = j
    BY <1>1, <2>2 DEF OtpsLast
  <2>5. ASSUME NEW i \in 1 .. Len(stack'), NEW j \in 1 .. Len(stack'),
               stack'[i].at = "signup", stack'[i].phone # None, j < i
        PROVE  stack'[j].at # "otp"
    <3>1. j \in 1 .. Len(stack) /\ stack'[j] = stack[j]
      BY <1>0, <2>1, <2>5
    <3> QED BY <1>1, <2>2, <2>5, <3>1 DEF OtpsLast
  <2> QED BY <2>3, <2>4, <2>5 DEF OtpsLast
<1> QED BY <1>2, <1>3

\* A resend is answered: the API granted it, and the timer starts anew.
LEMMA ResendTimers ==
  ASSUME Basic, Timed, registered = Registered, NEW q \in Requests, ResendAnswered(q)
  PROVE  TimersCover' /\ OtpsLast' /\ limited' = limited
<1>0. /\ stack \in Seq(Good) /\ Len(stack) \in Nat /\ Cooldown \in Nat
      /\ otpAge \in [Phones -> NoAge .. Cooldown]
  BY LenProperties, ConfigAssumption DEF Basic, Stacked, Typed, ConfigAssumption
<1>1. /\ reqs[q].kind = "resend" /\ ~Recent(reqs[q].phone)
      /\ \A j \in 1 .. Len(stack) : stack[j].at = "otp" => reqs[q].screen = j
  BY DEF ResendAnswered, Timed, RequestFits
<1>2. /\ reqs[q].phone \in Phones /\ limited' = limited
      /\ otpAge' = [otpAge EXCEPT ![reqs[q].phone] = 0]
      /\ \/ /\ reqs[q].screen \in 1 .. Len(stack)
            /\ stack[reqs[q].screen].at = "otp"
            /\ stack' = [stack EXCEPT ![reqs[q].screen].resendTimer = Cooldown]
         \/ reqs[q].screen \notin 1 .. Len(stack) /\ stack' = stack
  BY <1>1, ResendStep
<1>3. CASE reqs[q].screen \notin 1 .. Len(stack) /\ stack' = stack
  BY <1>1, <1>2, <1>3 DEF TimersCover, OtpsLast, Timed
<1>4. CASE /\ reqs[q].screen \in 1 .. Len(stack)
           /\ stack[reqs[q].screen].at = "otp"
           /\ stack' = [stack EXCEPT ![reqs[q].screen].resendTimer = Cooldown]
  <2> DEFINE i == reqs[q].screen
  <2>1. /\ StackKept /\ Len(stack') = Len(stack) /\ stack'[i].resendTimer = Cooldown
        /\ \A j \in 1 .. Len(stack) : j # i => stack'[j] = stack[j]
    BY <1>0, <1>4, ResendKept
  <2>2. OtpsLast'
    BY <1>0, <2>1, PlacesKept DEF Timed
  <2>3. ASSUME NEW j \in 1 .. Len(stack'), stack'[j].at = "otp"
        PROVE  \/ otpAge'[stack'[j].phone] = NoAge
               \/ otpAge'[stack'[j].phone] + stack'[j].resendTimer >= Cooldown
    <3>1. j = i
      BY <1>1, <2>1, <2>3
    <3>2. stack'[j] \in Otps
      BY <2>1, <2>3, ElementOfSeq, ScreenShape DEF StackKept
    <3>3. otpAge'[stack'[j].phone] \in NoAge .. Cooldown
      BY <1>0, <1>2, <3>2 DEF Otps, NoAge
    <3> QED BY <1>0, <2>1, <3>1, <3>3 DEF NoAge
  <2> QED BY <1>2, <2>2, <2>3 DEF TimersCover
<1> QED BY <1>2, <1>3, <1>4

LEMMA VerifyTimers ==
  ASSUME Basic, Timed, NEW q \in Requests, VerifyAnswered(q)
  PROVE  TimersCover' /\ OtpsLast'
<1>0. /\ stack \in Seq(Good) /\ otpAge \in [Phones -> NoAge .. Cooldown]
  BY DEF Basic, Stacked, Typed
<1>1. CASE stack' = <<>>
  <2>1. Len(stack') = 0
    BY <1>1
  <2> QED BY <2>1 DEF TimersCover, OtpsLast
<1>2. CASE stack' = stack /\ \E age \in {otpAge[reqs[q].phone], NoAge} :
                               otpAge' = [otpAge EXCEPT ![reqs[q].phone] = age]
  <2>1. \A p \in Phones : otpAge'[p] \in {otpAge[p], NoAge}
    BY <1>0, <1>2
  <2>2. \A i \in 1 .. Len(stack) : stack[i].at = "otp" => stack[i].phone \in Phones
    BY <1>0, ElementOfSeq, ScreenShape DEF Otps
  <2>3. TimersCover'
    BY <1>2, <2>1, <2>2 DEF Timed, TimersCover
  <2>4. OtpsLast'
    BY <1>2 DEF Timed, OtpsLast
  <2> QED BY <2>3, <2>4
<1> QED BY <1>1, <1>2 DEF VerifyAnswered, CodeAccepted

\* Whatever is pressed, the request is one that fits.
LEMMA AsksTimers ==
  ASSUME Basic, Timed,
         \/ SendOtpPressed
         \/ \E provider \in Providers : OAuthToken(provider)
         \/ CompletePressed
         \/ CodeTyped
         \/ ResendPressed
  PROVE  Timed'
<1>0. /\ stack \in Seq(Good) /\ Len(stack) \in Nat
      /\ \A i \in 1 .. Len(stack) : i > 1 => stack[i].at # "login"
  BY LenProperties DEF Basic, Stacked
<1>1. CASE SendOtpPressed
  <2> DEFINE req == [kind |-> "login", phone |-> phone]
  <2>1. /\ req \in Request \ {Free} /\ Post(req) /\ stack' = stack /\ otpAge' = otpAge
        /\ req.kind = "login"
    BY <1>1, NewRequests DEF SendOtpPressed
  <2>2. stack # <<>> /\ stack[Len(stack)].at = "login"
    BY <1>1 DEF SendOtpPressed, At, Top
  <2>3. Len(stack) = 1
    <3>1. Len(stack) # 0
      BY <1>0, <2>2, EmptySeq
    <3>2. Len(stack) \in 1 .. Len(stack)
      BY <1>0, <3>1
    <3>3. ~(Len(stack) > 1)
      BY <1>0, <2>2, <3>2
    <3>4. Len(stack) \in Nat
      BY <1>0
    <3>5. \A n \in Nat : n # 0 /\ ~(n > 1) => n = 1
      OBVIOUS
    <3> QED BY <3>1, <3>3, <3>4, <3>5, Zenon
  <2>4. \A j \in 1 .. Len(stack) : stack[j].at = "login"
    BY <2>2, <2>3
  <2> HIDE DEF req
  <2>5. RequestFits(req)
    BY <2>1, <2>4 DEF RequestFits
  <2> QED BY <2>1, <2>5, AskTimers
<1>2. ASSUME NEW provider \in Providers, OAuthToken(provider) PROVE Timed'
  <2> DEFINE req == [kind |-> "oauthSignIn", provider |-> provider]
  <2>1. /\ req \in Request \ {Free} /\ Post(req) /\ stack' = stack /\ otpAge' = otpAge
        /\ req.kind = "oauthSignIn"
    BY <1>2, NewRequests DEF OAuthToken
  <2> HIDE DEF req
  <2>2. RequestFits(req)
    BY <2>1 DEF RequestFits
  <2> QED BY <2>1, <2>2, AskTimers
<1>3. CASE CompletePressed
  <2> DEFINE req == IF Top.phone = None
                      THEN [kind |-> "oauthSignUp", data |-> Top.data]
                      ELSE [kind |-> "complete", phone |-> Top.phone, data |-> Top.data]
  <2>1. /\ req \in Request \ {Free} /\ Post(req) /\ stack' = stack /\ otpAge' = otpAge
        /\ req.kind \in {"oauthSignUp", "complete"}
        /\ req.kind = "complete" => Top.phone # None
    BY <1>3, NewRequests DEF CompletePressed
  <2>2. Len(stack) \in 1 .. Len(stack) /\ Top = stack[Len(stack)] /\ Top.at = "signup"
    BY <1>0, <1>3, TopSignup DEF CompletePressed
  <2>3. ASSUME Top.phone # None, NEW j \in 1 .. Len(stack) PROVE stack[j].at # "otp"
    <3>1. CASE j = Len(stack)
      BY <2>2, <3>1
    <3>2. CASE j < Len(stack)
      BY <2>2, <2>3, <3>2 DEF Timed, OtpsLast
    <3> QED BY <1>0, <3>1, <3>2
  <2> HIDE DEF req
  <2>4. RequestFits(req)
    BY <2>1, <2>3 DEF RequestFits
  <2> QED BY <2>1, <2>4, AskTimers
<1>4. CASE CodeTyped
  <2> DEFINE req == [kind |-> "verify", phone |-> Top.phone, purpose |-> Top.purpose]
  <2>1. /\ req \in Request \ {Free} /\ Post(req) /\ stack' = stack /\ otpAge' = otpAge
        /\ req.kind = "verify"
    BY <1>4, NewRequests DEF CodeTyped
  <2> HIDE DEF req
  <2>2. RequestFits(req)
    BY <2>1 DEF RequestFits
  <2> QED BY <2>1, <2>2, AskTimers
<1>5. CASE ResendPressed
  <2> DEFINE req == [kind |-> "resend", phone |-> Top.phone, purpose |-> Top.purpose,
                     screen |-> Len(stack)]
  <2>1. /\ req \in Request \ {Free} /\ Post(req) /\ stack' = stack /\ otpAge' = otpAge
        /\ req.kind = "resend" /\ req.phone = Top.phone /\ req.screen = Len(stack)
        /\ Top.resendTimer = 0
    BY <1>5, NewRequests DEF ResendPressed
  <2>2. /\ Len(stack) \in 1 .. Len(stack) /\ Top = stack[Len(stack)]
        /\ Top \in Otps /\ Top.at = "otp"
    BY <1>0, <1>5, TopOtp DEF ResendPressed
  <2>3. otpAge[Top.phone] = NoAge \/ otpAge[Top.phone] + Top.resendTimer >= Cooldown
    BY <2>2 DEF Timed, TimersCover
  <2>4. /\ otpAge[Top.phone] \in NoAge .. Cooldown /\ Cooldown \in Nat
    BY <2>2, ConfigAssumption DEF Basic, Typed, Otps, ConfigAssumption
  <2>5. ~Recent(Top.phone)
    BY <2>1, <2>3, <2>4 DEF Recent, NoAge
  <2>6. \A j \in 1 .. Len(stack) : stack[j].at = "otp" => j = Len(stack)
    BY <2>2 DEF Timed, OtpsLast
  <2> HIDE DEF req
  <2>7. RequestFits(req)
    BY <2>1, <2>5, <2>6 DEF RequestFits
  <2> QED BY <2>1, <2>7, AskTimers
<1> QED BY <1>1, <1>2, <1>3, <1>4, <1>5

LEMMA AnswersTimers ==
  ASSUME Basic, Alone, AccountsOK, Timed, ~mixed, faults = 0, NEW q \in Requests,
         \/ LoginAnswered(q) \/ CompleteAnswered(q) \/ ResendAnswered(q)
         \/ VerifyAnswered(q) \/ OAuthAnswered(q) \/ Fails(q)
  PROVE  Timed'
<1>0. reqs[q] \in Request /\ RequestFits(reqs[q]) /\ TimersCover /\ OtpsLast
  BY DEF Basic, Requested, Timed
<1>1. reqs[q] # Free /\ Settled(q)
  BY DEF Free, LoginAnswered, CompleteAnswered, ResendAnswered, VerifyAnswered,
     OAuthAnswered, Fails
<1>2. \A r \in Requests : reqs'[r] = Free
  BY <1>1, LastAnswer
<1>3. \A r \in Requests : RequestFits(reqs[r])'
  BY <1>2 DEF RequestFits, Free
<1>4. CASE stack' = stack /\ otpAge' = otpAge
  BY <1>0, <1>3, <1>4 DEF Timed, TimersCover, OtpsLast
<1>5. CASE LoginAnswered(q)
  <2>1. \A j \in 1 .. Len(stack) : stack[j].at # "otp"
    BY <1>0, <1>5 DEF LoginAnswered, RequestFits
  <2>2. Asked(reqs[q].phone) => TimersCover' /\ OtpsLast'
    BY <1>0, <2>1, AskedTimers
  <2>3. Invited(reqs[q].phone) => TimersCover' /\ OtpsLast'
    BY <1>0, <2>1, InvitedTimers
  <2> QED BY <1>3, <1>4, <1>5, <2>2, <2>3, LoginStep DEF Timed
<1>6. CASE CompleteAnswered(q)
  <2>1. \A j \in 1 .. Len(stack) : stack[j].at # "otp"
    BY <1>0, <1>6 DEF CompleteAnswered, RequestFits
  <2>2. Asked(reqs[q].phone) => TimersCover' /\ OtpsLast'
    BY <1>0, <2>1, AskedTimers
  <2> QED BY <1>3, <1>4, <1>6, <2>2, CompleteStep DEF Timed
<1>7. CASE ResendAnswered(q)
  BY <1>3, <1>7, ResendTimers DEF Timed, AccountsOK, ResendAnswered
<1>8. CASE VerifyAnswered(q)
  BY <1>3, <1>8, VerifyTimers DEF Timed
<1>9. CASE OAuthAnswered(q)
  <2>1. CASE stack' = <<>>
    <3>1. Len(stack') = 0
      BY <2>1
    <3> QED BY <1>3, <3>1 DEF Timed, TimersCover, OtpsLast
  <2>2. CASE Invited(None)
    <3>1. TimersCover' /\ OtpsLast'
      BY <1>0, <2>2, InvitedTimers
    <3> QED BY <1>3, <3>1 DEF Timed
  <2> QED BY <1>9, <2>1, <2>2, OAuthStep
<1>10. CASE Fails(q)
  BY <1>4, <1>10 DEF Fails
<1> QED BY <1>5, <1>6, <1>7, <1>8, <1>9, <1>10

LEMMA TimersStep ==
  ASSUME Basic, Alone, AccountsOK, TimersOK, ResendGranted, Next
  PROVE  TimersOK' /\ ResendGranted'
<1> SUFFICES ASSUME ~mixed', faults' = 0
             PROVE  Timed' /\ ~limited'
  BY DEF TimersOK, ResendGranted, Timed
<1>0. stack \in Seq(Good)
  BY DEF Basic, Stacked
<1>1. \A q \in Requests : ~SentUntold(q) /\ ~VerifyUntold(q)
  BY FaultsStep
<1>2. ~mixed
  BY AloneStep
<1>3. faults = 0
  BY FaultsStep
<1>4. Timed /\ ~limited
  BY <1>2, <1>3 DEF TimersOK, Timed, ResendGranted
<1>5. ~limited'
  <2>1. limited' = limited \/ \E q \in Requests : ResendAnswered(q)
    BY DEF Next, PhoneTyped, SendOtpPressed, OAuthPressed, OAuthToken,
       OAuthCancelled, NameTyped, NameBlurred, GenderChosen, PickerOpened, PickerClosed,
       NextPressed, CompletePressed, StepBackPressed, BackPressed, CodeTyped,
       ResendPressed, Tick, LoginAnswered, CompleteAnswered,
       VerifyAnswered, OAuthAnswered, Fails, SentUntold, VerifyUntold
  <2>2. (\E q \in Requests : ResendAnswered(q)) => limited' = limited
    <3> SUFFICES ASSUME NEW q \in Requests, ResendAnswered(q)
                 PROVE  limited' = limited
      OBVIOUS
    <3>1. registered = Registered
      BY <1>2, <1>3 DEF AccountsOK, ResendAnswered
    <3> QED BY <1>4, <3>1, ResendTimers
  <2> QED BY <1>4, <2>1, <2>2
<1>6. ASSUME \/ \E p \in Phones \union {None} : PhoneTyped(p)
             \/ \E provider \in Providers : OAuthPressed(provider) \/ OAuthCancelled(provider)
      PROVE  Timed'
  <2>1. stack' = stack /\ otpAge' = otpAge /\ reqs' = reqs
    BY <1>6 DEF PhoneTyped, OAuthPressed, OAuthCancelled
  <2> QED BY <1>4, <2>1 DEF Timed, TimersCover, OtpsLast, RequestFits, Recent
<1>7. ASSUME \/ SendOtpPressed
             \/ \E provider \in Providers : OAuthToken(provider)
             \/ CompletePressed
             \/ CodeTyped
             \/ ResendPressed
      PROVE  Timed'
  BY <1>4, <1>7, AsksTimers
<1>8. ASSUME \/ \E name \in {None, "bad", "good"} : NameTyped(name)
             \/ NameBlurred \/ GenderChosen
             \/ PickerOpened \/ PickerClosed \/ NextPressed \/ StepBackPressed
      PROVE  Timed'
  <2>1. \E i, t : Rerenders(i, t)
    BY <1>0, <1>8, TopRenders, PickerRenders, StepRenders
  <2>2. reqs' = reqs /\ otpAge' = otpAge
    BY <1>8 DEF NameTyped, NameBlurred, GenderChosen, PickerOpened, PickerClosed,
       NextPressed, StepBackPressed
  <2> QED BY <1>0, <1>4, <2>1, <2>2, RenderTimers
<1>9. BackPressed => Timed'
  BY <1>4, BackTimers
<1>10. Tick => Timed'
  BY <1>4, TickTimers
<1>11. ASSUME NEW q \in Requests,
              \/ LoginAnswered(q) \/ CompleteAnswered(q) \/ ResendAnswered(q)
              \/ VerifyAnswered(q) \/ OAuthAnswered(q) \/ Fails(q)
       PROVE  Timed'
  BY <1>2, <1>3, <1>4, <1>11, AnswersTimers
<1>12. Timed'
  BY <1>1, <1>6, <1>7, <1>8, <1>9, <1>10, <1>11 DEF Next
<1> QED BY <1>5, <1>12

-----------------------------------------------------------------------------
(***************************************************************************)
(* The theorems                                                            *)
(***************************************************************************)
\* The inductive invariant.
ScreensInv ==
  Basic /\ Alone /\ AccountsOK /\ StepsOK /\ TimersOK /\ ResendGranted

LEMMA InitInv == Init => ScreensInv
<1> SUFFICES ASSUME Init PROVE ScreensInv
  OBVIOUS
<1>0. /\ stack = <<Login>> /\ Len(stack) = 1 /\ stack[1] = Login /\ Login.at = "login"
      /\ stack \in Seq(Good)
  BY NewScreens DEF Init
<1>1. Stacked
  BY <1>0 DEF Stacked
<1>2. \A q \in Requests : reqs[q] = Free /\ reqs[q].kind = "free"
  BY DEF Init, Free
<1>3. Requested
  <2>1. reqs \in [Requests -> Request]
    BY DEF Init, Request
  <2> QED BY <1>2, <2>1 DEF Requested, ResendOK
<1>4. Typed
  BY ConfigAssumption, PhonesAssumption
     DEF Init, Typed, NoAge, ConfigAssumption, PhonesAssumption
<1>5. Switches
  BY DEF Init, Switches
<1>6. Alone /\ AccountsOK /\ ResendGranted
  BY <1>0, <1>2 DEF Init, Alone, AccountsOK, Owner, ResendGranted
<1>7. StepsOK
  BY <1>0, <1>2 DEF Init, StepsOK, Pushes, Chosen
<1>8. TimersOK
  BY <1>0, <1>2 DEF TimersOK, TimersCover, OtpsLast, RequestFits
<1> QED BY <1>1, <1>3, <1>4, <1>5, <1>6, <1>7, <1>8 DEF ScreensInv, Basic

LEMMA StepInv ==
  ASSUME ScreensInv, [Next]_vars
  PROVE  ScreensInv'
<1>1. CASE Next
  BY <1>1, BasicStep, AloneStep, AccountsStep, StepsStep, TimersStep DEF ScreensInv
<1>2. CASE UNCHANGED vars
  BY <1>2 DEF vars, ScreensInv, Basic, Stacked, Requested, ResendOK, Typed, Switches,
     Alone, AccountsOK, Owner, StepsOK, Pushes, TimersOK, TimersCover, OtpsLast,
     RequestFits, Recent, ResendGranted
<1> QED BY <1>1, <1>2

LEMMA Invariance == Spec => []ScreensInv
  BY InitInv, StepInv, PTL DEF Spec

LEMMA GoodScreen ==
  ASSUME Basic, NEW i \in 1 .. Len(stack)
  PROVE  stack[i] \in Good /\ ScreenOK(stack[i])
<1>1. stack[i] \in Good
  BY ElementOfSeq DEF Basic, Stacked
<1> QED BY <1>1 DEF Good

\* The variables of the screens, of the store and of the API keep their types.
THEOREM TypeCorrect == Spec => []TypeOK
<1>1. ScreensInv => TypeOK
  <2> SUFFICES ASSUME ScreensInv PROVE TypeOK
    OBVIOUS
  <2>1. stack \in Seq(Screen)
    <3>1. stack \in Seq(Good) /\ Good \subseteq Screen
      BY DEF ScreensInv, Basic, Stacked, Good
    <3> QED BY <3>1
  <2>2. \A q \in Requests : reqs[q].kind \in Kinds \union {"free"}
    BY RequestShape DEF ScreensInv, Basic, Requested
  <2>3. Typed
    BY DEF ScreensInv, Basic
  <2>4. Switches
    BY DEF ScreensInv, Basic
  <2> QED BY <2>1, <2>2, <2>3, <2>4, Zenon DEF TypeOK, Typed, Switches
<1> QED BY <1>1, Invariance, PTL

\* "Signup data not found" is never met: the otp screen of a sign-up
\* (otp.tsx, useOtpFlow) and an OAuth sign-up have a complete and valid profile,
\* however the user goes back and forth.
THEOREM SignupDataIsComplete == Spec => []SignupDataComplete
<1>1. ScreensInv => SignupDataComplete
  BY GoodScreen, RequestShape
     DEF ScreensInv, SignupDataComplete, ScreenOK, Basic, Requested
<1> QED BY <1>1, Invariance, PTL

\* The owner of an account is asked for a code to log in, everybody else to sign
\* up (usePhoneSignIn), whatever the phone field holds when the answer arrives and
\* whichever accounts are made by sign-ups, also by one whose answer is lost: only
\* the screen that made it is then still there.
THEOREM ScreensAreForTheirPhone == Spec => []ScreensMatchPhone
<1>1. ScreensInv => ScreensMatchPhone
  <2> SUFFICES ASSUME ScreensInv, NEW i \in 1 .. Len(stack)
               PROVE  /\ stack[i].at = "otp" /\ stack[i].purpose = "login"
                           => stack[i].phone \in registered
                      /\ \/ stack[i].at = "signup"
                         \/ stack[i].at = "otp" /\ stack[i].purpose = "signup"
                         => /\ stack[i].phone \notin Registered
                            /\ faults = 0 => stack[i].phone \notin registered
    BY DEF ScreensMatchPhone
  <2>1. ScreenOK(stack[i]) /\ Owner(stack[i])
    BY GoodScreen DEF ScreensInv, AccountsOK
  <2>2. faults = 0 => registered = Registered
    <3>1. stack # <<>>
      OBVIOUS
    <3> QED BY <3>1 DEF ScreensInv, AccountsOK
  <2> QED BY <2>1, <2>2 DEF ScreenOK, Owner
<1> QED BY <1>1, Invariance, PTL

\* The store's flag (isLoading of service.ts) keeps the requests of the signup and
\* otp screens from overlapping each other, and is up exactly while one is under
\* way, as long as none of the login screen overlapped.
THEOREM RequestsOneAtATime == Spec => []OneAtATime
<1>1. ScreensInv => OneAtATime
  <2> SUFFICES ASSUME ScreensInv, ~mixed
               PROVE  /\ isLoading = (InFlight # {})
                      /\ \A q, r \in InFlight : q = r
    BY DEF OneAtATime
  <2>1. \A q, r \in InFlight : q = r
    BY DEF ScreensInv, Alone, InFlight
  <2>2. isLoading <=> InFlight # {}
    BY DEF ScreensInv, Alone, InFlight
  <2>3. isLoading \in BOOLEAN
    BY DEF ScreensInv, Basic, Switches
  <2> QED BY <2>1, <2>2, <2>3, Zenon
<1> QED BY <1>1, Invariance, PTL

\* The modal of the birth year (signup.tsx, <Picker/>) never covers another screen
\* or step, unless the user strayed while a request was under way.
THEOREM PickerStaysOnTop == Spec => []PickerOnTop
<1>1. ScreensInv => PickerOnTop
  <2> SUFFICES ASSUME ScreensInv, ~strayed, NEW i \in 1 .. Len(stack),
                      stack[i].at = "signup", stack[i].open
               PROVE  i = Len(stack) /\ AtStep(stack[i], "birthYear")
    BY DEF PickerOnTop
  <2>1. stack[i].step = 2
    BY GoodScreen DEF ScreensInv, ScreenOK
  <2>2. AtStep(stack[i], "birthYear")
    BY <2>1, StepsDef DEF AtStep
  <2>3. ~Chosen(stack[i])
    BY <2>1 DEF Chosen
  <2>4. ~(i < Len(stack))
    BY <2>3 DEF ScreensInv, StepsOK
  <2>5. i = Len(stack)
    BY <2>4, LenProperties DEF ScreensInv, Basic, Stacked
  <2> QED BY <2>2, <2>5
<1> QED BY <1>1, Invariance, PTL

\* A resend that the otp screen offers (resendTimer of useOtpFlow) is never refused
\* by the API's cooldown, unless requests overlap or an answer was lost.
THEOREM ResendIsGranted == Spec => []ResendGranted
<1>1. ScreensInv => ResendGranted
  BY DEF ScreensInv
<1> QED BY <1>1, Invariance, PTL

=============================================================================
