------------------------------ MODULE OtpProofs ------------------------------
(***************************************************************************)
(* Theorems about Otp, for any number of phones, codes, requests, OTPs and *)
(* ticks.                                                                  *)
(***************************************************************************)
EXTENDS Otp, TLAPS

USE DEF tables, sms, tallies, history

-----------------------------------------------------------------------------
(***************************************************************************)
(* The inductive invariant.                                                *)
(***************************************************************************)
Requesting == {"requestCooldown", "requestUser", "requestMake", "requestUpsert",
               "requestText"}

Verifying == {"verifyCheck", "attemptUpdate"} \union Deleting

\* The numbers given out so far bound those of all OTPs.
Numbered ==
  /\ \A row \in otps : row.gen <= lastOtp
  /\ \A n \in spent : n <= lastOtp
  /\ \A r \in Requests : pc[r] \in {"requestUpsert", "requestText"}
       => loc[r].row.gen <= lastOtp

\* What a request carries.
Carried ==
  \A r \in Requests :
    /\ pc[r] \in Requesting => loc[r].phone \in Phones
    /\ pc[r] \in {"requestUpsert", "requestText"} \union Verifying
         => loc[r].row \in Row

\* A stored OTP is not spent, and is stored once.
Stored ==
  /\ \A row \in otps : row.gen \notin spent
  /\ \A row1, row2 \in otps : row1.gen = row2.gen => row1 = row2

\* An OTP on its way to the table is nowhere else.
OnItsWay ==
  \A r \in Requests : pc[r] = "requestUpsert" =>
    /\ loc[r].row.gen \notin spent
    /\ \A row \in otps : row.gen # loc[r].row.gen
    /\ \A q \in Requests \ {r} :
         pc[q] = "requestUpsert" => loc[q].row.gen # loc[r].row.gen

\* No verification under way read the row of a spent OTP.
NotLate == \A r \in Requests : pc[r] \in Verifying => ~loc[r].late

IndInv ==
  /\ TypeOK
  /\ Numbered
  /\ Carried
  /\ Stored
  /\ OnItsWay
  /\ NotLate

-----------------------------------------------------------------------------
(***************************************************************************)
(* The steps                                                               *)
(***************************************************************************)
\* An answer that leaves the tables alone.
LEMMA AnswerStep ==
  ASSUME IndInv, NEW r \in Requests, NEW a \in Answers, Answer(r, a),
         UNCHANGED <<clock, tables, arrived, phoneOf, spent, replaced, wrong, accepted>>,
         uncounted' \in [Gen -> 0 .. MaxUncounted],
         texted' \subseteq Message, texted \subseteq texted',
         overlapped' \in BOOLEAN
  PROVE  IndInv'
<1> USE DEF IndInv
<1>1. /\ \A q \in Requests \ {r} : pc'[q] = pc[q] /\ loc'[q] = loc[q]
      /\ pc'[r] = a /\ loc' \in [Requests -> Locals]
      /\ pc' \in [Requests -> Answers \union InFlight]
  BY DEF Answer, TypeOK, Locals, NoLocals
<1>2. a \notin Requesting \union Verifying
  BY DEF Answers, Requesting, Verifying, Deleting
<1>3. TypeOK'
  BY <1>1 DEF TypeOK
<1>4. Numbered' /\ Carried'
  BY <1>1, <1>2 DEF Numbered, Carried, Requesting
<1>5. Stored' /\ OnItsWay' /\ NotLate'
  BY <1>1, <1>2 DEF Stored, OnItsWay, NotLate, Requesting
<1> QED BY <1>3, <1>4, <1>5

\* A step to a later statement of the same handler, the tables left alone.
LEMMA GotoStep ==
  ASSUME IndInv, NEW r \in Requests, NEW s, Goto(r, s),
         \/ /\ pc[r] \in {"requestCooldown", "requestUser"}
            /\ s \in {"requestUser", "requestMake"}
         \/ pc[r] = "verifyCheck" /\ s \in Verifying,
         UNCHANGED <<clock, tables, loc, sms, phoneOf, spent, replaced, uncounted,
                     accepted, overlapped>>,
         wrong' \in [Gen -> Nat]
  PROVE  IndInv'
<1> USE DEF IndInv
<1>1. /\ \A q \in Requests \ {r} : pc'[q] = pc[q]
      /\ pc'[r] = s
      /\ pc' \in [Requests -> Answers \union InFlight]
  BY DEF Goto, TypeOK, InFlight, Verifying
<1>2. TypeOK'
  BY <1>1 DEF TypeOK
<1>3. Numbered' /\ Carried'
  BY <1>1 DEF Numbered, Carried, Requesting, Verifying, Deleting
<1>4. Stored' /\ OnItsWay' /\ NotLate'
  BY <1>1 DEF Stored, OnItsWay, NotLate, Verifying, Deleting
<1> QED BY <1>2, <1>3, <1>4

LEMMA ArrivesTyped ==
  ASSUME IndInv, NEW r \in Requests, NEW p, Arrives(r, p)
  PROVE  overlapped' \in BOOLEAN
  BY DEF Arrives

LEMMA RequestReadStep ==
  ASSUME IndInv, NEW r \in Requests, NEW p \in Phones, NEW purpose \in Purposes,
         RequestRead(r, p, purpose)
  PROVE  IndInv'
<1> USE DEF IndInv
<1>1. PICK row \in IF RowsOf(p) = {} THEN {NoRow} ELSE RowsOf(p) :
        loc' = [loc EXCEPT ![r] = [phone |-> p, purpose |-> purpose,
                                   guess |-> None, row |-> row, late |-> FALSE]]
  BY DEF RequestRead
<1>2. row \in Row \union {NoRow}
  BY DEF RowsOf, TypeOK
<1>3. [phone |-> p, purpose |-> purpose, guess |-> None, row |-> row,
       late |-> FALSE] \in Locals
  BY <1>2 DEF Locals
<1>4. /\ \A q \in Requests \ {r} : pc'[q] = pc[q] /\ loc'[q] = loc[q]
      /\ pc'[r] = "requestCooldown" /\ loc'[r].phone = p
      /\ loc' \in [Requests -> Locals]
      /\ pc' \in [Requests -> Answers \union InFlight]
      /\ UNCHANGED <<clock, tables, sms, phoneOf, spent, replaced, tallies>>
      /\ overlapped' \in BOOLEAN
  BY <1>1, <1>3, ArrivesTyped DEF RequestRead, Goto, TypeOK, InFlight
<1>5. TypeOK'
  BY <1>4 DEF TypeOK
<1>6. Numbered' /\ Carried'
  BY <1>4 DEF Numbered, Carried, Requesting, Verifying, Deleting
<1>7. Stored' /\ OnItsWay' /\ NotLate'
  BY <1>4 DEF Stored, OnItsWay, NotLate, Verifying, Deleting
<1> QED BY <1>5, <1>6, <1>7

LEMMA RequestMakeStep ==
  ASSUME IndInv, NEW r \in Requests, NEW code \in Codes, RequestMake(r, code)
  PROVE  IndInv'
<1> USE ConfigAssumption DEF ConfigAssumption, IndInv
<1> DEFINE row == [phone |-> loc[r].phone, gen |-> lastOtp + 1, code |-> code,
                   attempts |-> 0, expiresAt |-> clock + OTP_EXPIRY,
                   createdAt |-> clock]
           new == [loc[r] EXCEPT !.row = row]
<1>1. /\ pc[r] = "requestMake" /\ lastOtp' = lastOtp + 1
      /\ lastOtp + 1 \in Gen /\ clock + OTP_EXPIRY \in Int
      /\ loc' = [loc EXCEPT ![r] = new]
      /\ UNCHANGED <<clock, otps, profiles, sms, spent, replaced, tallies,
                     overlapped>>
  BY DEF RequestMake, TypeOK, Gen
<1>2. row \in Row /\ row.gen = lastOtp + 1
  BY <1>1 DEF Carried, Requesting, TypeOK, Row
<1> HIDE DEF row
<1>3. new \in Locals /\ new.row = row /\ new.phone = loc[r].phone
  BY <1>2 DEF TypeOK, Locals
<1>4. /\ \A q \in Requests \ {r} : pc'[q] = pc[q] /\ loc'[q] = loc[q]
      /\ pc'[r] = "requestUpsert" /\ loc'[r].row = row
      /\ loc'[r].phone = loc[r].phone
      /\ loc' \in [Requests -> Locals]
      /\ pc' \in [Requests -> Answers \union InFlight]
  BY <1>1, <1>3 DEF RequestMake, Goto, TypeOK, InFlight
<1> HIDE DEF new
<1>b. phoneOf' \in [Gen -> Phones \union {None}]
  BY <1>1 DEF RequestMake, Carried, Requesting, TypeOK
<1>5. TypeOK'
  BY <1>1, <1>4, <1>b DEF TypeOK, Gen
<1>a. /\ \A q \in Requests : pc[q] \in {"requestUpsert", "requestText"}
           => loc[q].row.gen \in Int
      /\ \A stored \in otps : stored.gen \in Int
      /\ \A n \in spent : n \in Int
      /\ lastOtp \in Int
  <2>1. \A held \in Row : held.gen \in Int
    BY DEF Row, Gen
  <2>2. \A q \in Requests : pc[q] \in {"requestUpsert", "requestText"}
          => loc[q].row \in Row
    BY DEF Carried
  <2>3. otps \subseteq Row /\ spent \subseteq Gen /\ lastOtp \in Int
    BY DEF TypeOK
  <2> QED BY <2>1, <2>2, <2>3 DEF Gen
<1>6. Numbered'
  BY <1>1, <1>2, <1>4, <1>a DEF Numbered
<1>7. Carried'
  BY <1>1, <1>2, <1>4 DEF Carried, Requesting, Verifying, Deleting
<1>8. Stored'
  BY <1>1 DEF Stored
<1>9. OnItsWay'
  BY <1>1, <1>2, <1>4, <1>a DEF OnItsWay, Numbered
<1>10. NotLate'
  BY <1>1, <1>4 DEF NotLate, Verifying, Deleting
<1> QED BY <1>5, <1>6, <1>7, <1>8, <1>9, <1>10

LEMMA RequestUpsertStep ==
  ASSUME IndInv, NEW r \in Requests, RequestUpsert(r)
  PROVE  IndInv'
<1> USE DEF IndInv
<1>1. /\ pc[r] = "requestUpsert"
      /\ \A row \in otps' : row \in otps \/ row = loc[r].row
      /\ \A q \in Requests \ {r} : pc'[q] = pc[q]
      /\ pc'[r] = "requestText"
      /\ pc' \in [Requests -> Answers \union InFlight]
      /\ UNCHANGED <<clock, profiles, lastOtp, loc, sms, phoneOf, spent, tallies,
                     overlapped>>
      /\ replaced' \subseteq Gen
  BY DEF RequestUpsert, Goto, TypeOK, InFlight, RowsOf, Row
<1>2. loc[r].row \in Row
  BY <1>1 DEF Carried
<1>3. TypeOK'
  BY <1>1, <1>2 DEF TypeOK
<1>4. Numbered' /\ Carried'
  BY <1>1 DEF Numbered, Carried, Requesting, Verifying, Deleting
<1>5. Stored' /\ OnItsWay'
  BY <1>1 DEF Stored, OnItsWay
<1>6. NotLate'
  BY <1>1 DEF NotLate, Verifying, Deleting
<1> QED BY <1>3, <1>4, <1>5, <1>6

LEMMA VerifyReadStep ==
  ASSUME IndInv, NEW r \in Requests, NEW p \in Phones, NEW guess \in Codes,
         VerifyRead(r, p, guess)
  PROVE  IndInv'
<1> USE DEF IndInv
<1>1. CASE Answer(r, "notFound")
  BY <1>1, AnswerStep, ArrivesTyped DEF VerifyRead, Answers, TypeOK
<1>2. ASSUME NEW row \in RowsOf(p), Goto(r, "verifyCheck"),
             loc' = [loc EXCEPT ![r] =
                       [phone |-> p, purpose |-> None, guess |-> guess,
                        row |-> row, late |-> row.gen \in spent]]
      PROVE  IndInv'
  <2>1. row \in otps /\ row \in Row
    BY <1>2 DEF RowsOf, TypeOK
  <2>2. (row.gen \in spent) = FALSE
    BY <2>1 DEF Stored
  <2> DEFINE new == [phone |-> p, purpose |-> None, guess |-> guess,
                     row |-> row, late |-> FALSE]
  <2>3. loc' = [loc EXCEPT ![r] = new]
    BY <1>2, <2>2
  <2>4. new \in Locals
    BY <2>1 DEF Locals
  <2>5. /\ \A q \in Requests \ {r} : pc'[q] = pc[q] /\ loc'[q] = loc[q]
        /\ pc'[r] = "verifyCheck" /\ loc'[r] = new
        /\ loc' \in [Requests -> Locals]
        /\ pc' \in [Requests -> Answers \union InFlight]
        /\ UNCHANGED <<clock, tables, sms, phoneOf, spent, replaced, tallies>>
        /\ overlapped' \in BOOLEAN
    <3>1. /\ pc \in [Requests -> Answers \union InFlight]
          /\ loc \in [Requests -> Locals]
          /\ "verifyCheck" \in Answers \union InFlight
      BY DEF TypeOK, InFlight
    <3>2. pc' = [pc EXCEPT ![r] = "verifyCheck"]
      BY <1>2 DEF Goto
    <3>3. /\ Arrives(r, p)
          /\ UNCHANGED <<clock, tables, sms, phoneOf, spent, replaced, tallies>>
      BY DEF VerifyRead
    <3>4. overlapped' \in BOOLEAN
      BY <3>3, ArrivesTyped
    <3> HIDE DEF IndInv, new
    <3> QED BY <2>3, <2>4, <3>1, <3>2, <3>3, <3>4
  <2>6. TypeOK'
    BY <2>5 DEF TypeOK
  <2>7. Numbered' /\ Carried'
    BY <2>1, <2>5 DEF Numbered, Carried, Requesting
  <2>8. Stored' /\ OnItsWay' /\ NotLate'
    BY <2>5 DEF Stored, OnItsWay, NotLate
  <2> QED BY <2>6, <2>7, <2>8
<1> QED BY <1>1, <1>2 DEF VerifyRead

LEMMA AttemptUpdateStep ==
  ASSUME IndInv, NEW r \in Requests, AttemptUpdate(r)
  PROVE  IndInv'
<1> USE ConfigAssumption DEF ConfigAssumption, IndInv
<1>1. /\ loc[r].row \in Row /\ pc[r] = "attemptUpdate"
      /\ loc[r].row.attempts + 1 \in Nat
      /\ UNCHANGED <<clock, profiles, lastOtp, sms, history>>
  BY DEF AttemptUpdate, AttemptAnswer, Carried, Verifying, Row
<1>3. \A new \in otps' : \E row \in otps :
        /\ new \in Row /\ new.gen = row.gen
        /\ new = IF row.phone = loc[r].phone
                   THEN [row EXCEPT !.attempts = loc[r].row.attempts + 1]
                   ELSE row
  BY <1>1 DEF AttemptUpdate, TypeOK, Row
<1>4. /\ \A q \in Requests \ {r} : pc'[q] = pc[q] /\ loc'[q] = loc[q]
      /\ pc'[r] \in {"deleteExhausted", "invalid"}
      /\ pc'[r] = "deleteExhausted" => loc'[r] = loc[r]
      /\ loc' \in [Requests -> Locals]
      /\ pc' \in [Requests -> Answers \union InFlight]
  <2>1. NoLocals \in Locals
    BY DEF NoLocals, Locals
  <2>2. CASE Goto(r, "deleteExhausted") /\ UNCHANGED loc
    BY <2>2 DEF Goto, TypeOK, InFlight, Deleting
  <2>3. CASE Answer(r, "invalid")
    BY <2>1, <2>3 DEF Answer, TypeOK, Answers
  <2> QED BY <2>2, <2>3 DEF AttemptUpdate, AttemptAnswer
<1>5. TypeOK'
  BY <1>1, <1>3, <1>4 DEF TypeOK
<1>6. Numbered' /\ Carried'
  BY <1>1, <1>3, <1>4 DEF Numbered, Carried, Requesting, Verifying, Deleting
<1>7. Stored'
  <2>1. \A row \in otps' : row.gen \notin spent'
    BY <1>1, <1>3 DEF Stored
  <2>2. ASSUME NEW new1 \in otps', NEW new2 \in otps', new1.gen = new2.gen
        PROVE  new1 = new2
    <3>1. PICK row1 \in otps :
            /\ new1.gen = row1.gen
            /\ new1 = IF row1.phone = loc[r].phone
                        THEN [row1 EXCEPT !.attempts = loc[r].row.attempts + 1]
                        ELSE row1
      BY <1>3
    <3>2. PICK row2 \in otps :
            /\ new2.gen = row2.gen
            /\ new2 = IF row2.phone = loc[r].phone
                        THEN [row2 EXCEPT !.attempts = loc[r].row.attempts + 1]
                        ELSE row2
      BY <1>3
    <3>3. row1 = row2
      BY <2>2, <3>1, <3>2 DEF Stored
    <3> QED BY <3>1, <3>2, <3>3
  <2> QED BY <2>1, <2>2 DEF Stored
<1>8. OnItsWay' /\ NotLate'
  BY <1>1, <1>3, <1>4 DEF OnItsWay, NotLate, Verifying, Deleting
<1> QED BY <1>5, <1>6, <1>7, <1>8

LEMMA VerifyDeleteStep ==
  ASSUME IndInv, NEW r \in Requests, VerifyDelete(r)
  PROVE  IndInv'
<1> USE DEF IndInv
<1>1. /\ otps' \subseteq otps
      /\ \A n \in spent' : n \in spent \/ \E row \in otps \ otps' : n = row.gen
      /\ pc[r] \in Deleting /\ loc[r].row \in Row
      /\ UNCHANGED <<clock, profiles, lastOtp, sms, phoneOf, replaced, wrong,
                     uncounted, overlapped>>
  BY DEF VerifyDelete, DeleteAnswer, RowsOf, Carried, Verifying
<1>2. accepted' \in [Gen -> Nat]
  BY <1>1 DEF VerifyDelete, DeleteAnswer, TypeOK, Row
<1>3. /\ \A q \in Requests \ {r} : pc'[q] = pc[q] /\ loc'[q] = loc[q]
      /\ pc'[r] \in {"expired", "exhausted", "accepted"}
      /\ loc' \in [Requests -> Locals]
      /\ pc' \in [Requests -> Answers \union InFlight]
  <2>1. NoLocals \in Locals
    BY DEF NoLocals, Locals
  <2>2. PICK a \in {"expired", "exhausted", "accepted"} : Answer(r, a)
    BY DEF VerifyDelete, DeleteAnswer
  <2> QED BY <2>1, <2>2 DEF Answer, TypeOK, Answers
<1>4. TypeOK'
  BY <1>1, <1>2, <1>3 DEF TypeOK, Row
<1>5. Numbered' /\ Carried'
  BY <1>1, <1>3 DEF Numbered, Carried, Requesting, Verifying, Deleting
<1>6. Stored' /\ OnItsWay'
  BY <1>1, <1>3 DEF Stored, OnItsWay
<1>7. NotLate'
  BY <1>3 DEF NotLate, Verifying, Deleting
<1> QED BY <1>4, <1>5, <1>6, <1>7

-----------------------------------------------------------------------------
(***************************************************************************)
(* The theorems                                                            *)
(***************************************************************************)
LEMMA InitInv == Init => IndInv
<1> SUFFICES ASSUME Init PROVE IndInv
  OBVIOUS
<1>1. NoLocals \in Locals
  BY DEF NoLocals, Locals
<1>2. TypeOK
  <2>1. /\ lastOtp \in 0 .. MaxOtps /\ clock \in Int
        /\ wrong \in [Gen -> Nat] /\ accepted \in [Gen -> Nat]
        /\ uncounted \in [Gen -> 0 .. MaxUncounted]
    BY ConfigAssumption DEF ConfigAssumption, Init
  <2>2. phoneOf \in [Gen -> Phones \union {None}] /\ overlapped \in BOOLEAN
    BY DEF Init
  <2> QED BY <1>1, <2>1, <2>2 DEF Init, TypeOK, Answers
<1> QED
  BY <1>2 DEF Init, IndInv, Numbered, Carried, Stored, OnItsWay, NotLate,
       Requesting, Verifying, Deleting

LEMMA NextInv == IndInv /\ [Next]_vars => IndInv'
<1> SUFFICES ASSUME IndInv, [Next]_vars PROVE IndInv'
  OBVIOUS
<1>1. CASE UNCHANGED vars
  BY <1>1 DEF vars, IndInv, TypeOK, Numbered, Carried, Stored, OnItsWay, NotLate
<1>2. ASSUME NEW r \in Requests, Handler(r) PROVE IndInv'
  <2>1. CASE \E p \in Phones, purpose \in Purposes : RequestRead(r, p, purpose)
    BY <2>1, RequestReadStep
  <2>2. CASE RequestCooldown(r)
    <3>1. CASE Answer(r, "limited")
      BY <2>2, <3>1, AnswerStep DEF RequestCooldown, Answers, IndInv, TypeOK
    <3>2. CASE Goto(r, "requestUser") /\ UNCHANGED loc
      BY <2>2, <3>2, GotoStep DEF RequestCooldown, IndInv, TypeOK
    <3> QED BY <2>2, <3>1, <3>2 DEF RequestCooldown
  <2>3. CASE RequestUser(r)
    <3>1. CASE Answer(r, "skipped") \/ Answer(r, "userExists")
      BY <2>3, <3>1, AnswerStep DEF RequestUser, Answers, IndInv, TypeOK
    <3>2. CASE Goto(r, "requestMake") /\ UNCHANGED loc
      BY <2>3, <3>2, GotoStep DEF RequestUser, IndInv, TypeOK
    <3> QED BY <2>3, <3>1, <3>2 DEF RequestUser
  <2>4. CASE \E code \in Codes : RequestMake(r, code)
    BY <2>4, RequestMakeStep
  <2>5. CASE RequestUpsert(r)
    BY <2>5, RequestUpsertStep
  <2>6. CASE RequestText(r)
    <3>1. /\ loc[r].row \in Row /\ loc[r].phone \in Phones
      BY <2>6 DEF RequestText, IndInv, Carried, Requesting
    <3>2. texted' \subseteq Message
      BY <2>6, <3>1 DEF RequestText, Text, Message, IndInv, TypeOK, Row
    <3> QED BY <2>6, <3>2, AnswerStep DEF RequestText, Answers, IndInv, TypeOK
  <2>7. CASE \E p \in Phones, guess \in Codes : VerifyRead(r, p, guess)
    BY <2>7, VerifyReadStep
  <2>8. CASE VerifyCheck(r)
    <3>1. Verdict(loc[r].row, loc[r].guess) \in Verifying
      BY DEF Verdict, Verifying, Deleting
    <3>2. loc[r].row \in Row
      BY <2>8 DEF VerifyCheck, IndInv, Carried, Verifying
    <3>3. wrong' \in [Gen -> Nat]
      BY <2>8, <3>2 DEF VerifyCheck, IndInv, TypeOK, Row
    <3> QED BY <2>8, <3>1, <3>3, GotoStep DEF VerifyCheck
  <2>9. CASE AttemptUpdate(r)
    BY <2>9, AttemptUpdateStep
  <2>10. CASE VerifyDelete(r)
    BY <2>10, VerifyDeleteStep
  <2>11. CASE Fail(r)
    <3>1. pc[r] = "attemptUpdate" => loc[r].row \in Row
      BY DEF IndInv, Carried, Verifying
    <3>2. uncounted' \in [Gen -> 0 .. MaxUncounted]
      BY <2>11, <3>1, ConfigAssumption DEF Fail, ConfigAssumption, IndInv, TypeOK, Row
    <3> QED BY <2>11, <3>2, AnswerStep DEF Fail, Answers, IndInv, TypeOK
  <2> QED
    BY <1>2, <2>1, <2>2, <2>3, <2>4, <2>5, <2>6, <2>7, <2>8, <2>9, <2>10, <2>11
       DEF Handler
<1>3. CASE \/ \E m \in texted : SmsSent(m)
           \/ \E p \in Phones : ProfileCreated(p)
           \/ Tick
  BY <1>3 DEF SmsSent, ProfileCreated, Tick, IndInv, TypeOK, Numbered, Carried, Stored,
       OnItsWay, NotLate
<1> QED BY <1>1, <1>2, <1>3 DEF Next

\* The inductive invariant holds in every reachable state of the handlers.
THEOREM Invariance == Spec => []IndInv
  BY InitInv, NextInv, PTL DEF Spec

\* Type correctness of the otps table and of the handlers' locals.
THEOREM TypeCorrect == Spec => []TypeOK
<1>1. IndInv => TypeOK
  BY DEF IndInv
<1> QED BY <1>1, Invariance, PTL

\* verifyOTPCode never accepts an OTP whose row was deleted before it read the
\* table, however many requests race.
THEOREM LateNeverAccepted == Spec => []NoLateAccept
<1>1. IndInv => NoLateAccept
  BY DEF IndInv, NotLate, NoLateAccept, Verifying, Deleting
<1> QED BY <1>1, Invariance, PTL

-----------------------------------------------------------------------------
(***************************************************************************)
(* What the steps do, for the invariants that follow                       *)
(***************************************************************************)
\* A handler changes nothing of the other requests.
LEMMA OthersKept ==
  ASSUME IndInv, NEW r \in Requests, Handler(r)
  PROVE  \A q \in Requests \ {r} : pc'[q] = pc[q] /\ loc'[q] = loc[q]
<1> USE DEF IndInv, TypeOK, Goto, Answer
<1>1. CASE \E p \in Phones, purpose \in Purposes : RequestRead(r, p, purpose)
  BY <1>1 DEF RequestRead
<1>2. CASE RequestCooldown(r) \/ RequestUser(r) \/ RequestUpsert(r) \/ RequestText(r)
  BY <1>2 DEF RequestCooldown, RequestUser, RequestUpsert, RequestText
<1>3. CASE \E code \in Codes : RequestMake(r, code)
  BY <1>3 DEF RequestMake
<1>4. CASE \E p \in Phones, guess \in Codes : VerifyRead(r, p, guess)
  BY <1>4 DEF VerifyRead
<1>5. CASE VerifyCheck(r) \/ AttemptUpdate(r) \/ VerifyDelete(r) \/ Fail(r)
  BY <1>5 DEF VerifyCheck, AttemptUpdate, AttemptAnswer, VerifyDelete, DeleteAnswer, Fail
<1> QED BY <1>1, <1>2, <1>3, <1>4, <1>5 DEF Handler

\* What requestOTP leaves behind when it has made its row.
LEMMA Made ==
  ASSUME IndInv, NEW r \in Requests, NEW code \in Codes, RequestMake(r, code)
  PROVE  /\ pc[r] = "requestMake" /\ pc'[r] = "requestUpsert"
         /\ lastOtp + 1 \in Gen /\ lastOtp' = lastOtp + 1
         /\ loc'[r].phone = loc[r].phone /\ loc[r].phone \in Phones
         /\ loc'[r].row \in Row
         /\ loc'[r].row.phone = loc[r].phone /\ loc'[r].row.gen = lastOtp + 1
         /\ loc'[r].row.createdAt = clock
         /\ UNCHANGED <<clock, otps, profiles, sms, spent, replaced, tallies,
                        overlapped>>
<1> USE ConfigAssumption DEF ConfigAssumption, IndInv
<1> DEFINE row == [phone |-> loc[r].phone, gen |-> lastOtp + 1, code |-> code,
                   attempts |-> 0, expiresAt |-> clock + OTP_EXPIRY,
                   createdAt |-> clock]
           new == [loc[r] EXCEPT !.row = row]
<1>1. /\ pc[r] = "requestMake" /\ lastOtp' = lastOtp + 1 /\ loc[r].phone \in Phones
      /\ lastOtp + 1 \in Gen /\ clock + OTP_EXPIRY \in Int /\ clock \in Int
      /\ loc' = [loc EXCEPT ![r] = new] /\ loc[r] \in Locals
      /\ UNCHANGED <<clock, otps, profiles, sms, spent, replaced, tallies,
                     overlapped>>
  BY DEF RequestMake, TypeOK, Gen, Carried, Requesting
<1>2. /\ row \in Row /\ row.phone = loc[r].phone /\ row.gen = lastOtp + 1
      /\ row.createdAt = clock
  BY <1>1 DEF Row
<1> HIDE DEF row
<1>3. new.row = row /\ new.phone = loc[r].phone
  BY <1>1 DEF Locals
<1>4. pc'[r] = "requestUpsert" /\ loc'[r] = new
  BY <1>1 DEF RequestMake, Goto, TypeOK
<1> QED BY <1>1, <1>2, <1>3, <1>4

\* UPDATE ... SET attempts gives each row but its attempts back.
LEMMA Updated ==
  ASSUME IndInv, NEW r \in Requests, AttemptUpdate(r)
  PROVE  /\ pc[r] = "attemptUpdate" /\ loc[r].row \in Row
         /\ \A row \in otps : \E new \in otps' :
              /\ new.phone = row.phone /\ new.gen = row.gen
              /\ new.createdAt = row.createdAt
              /\ row.phone # loc[r].phone => new = row
         /\ \A new \in otps' : \E row \in otps :
              /\ new.phone = row.phone /\ new.gen = row.gen
              /\ new.createdAt = row.createdAt
              /\ new = IF row.phone = loc[r].phone
                         THEN [row EXCEPT !.attempts = loc[r].row.attempts + 1]
                         ELSE row
              /\ new.attempts = IF row.phone = loc[r].phone
                                  THEN loc[r].row.attempts + 1 ELSE row.attempts
         /\ \/ pc'[r] = "deleteExhausted" /\ loc'[r] = loc[r]
            \/ pc'[r] = "invalid"
         /\ UNCHANGED <<clock, profiles, lastOtp, sms, history>>
<1> USE DEF IndInv
<1>1. /\ pc[r] = "attemptUpdate" /\ loc[r].row \in Row /\ otps \subseteq Row
      /\ otps' = {IF row.phone = loc[r].phone
                    THEN [row EXCEPT !.attempts = loc[r].row.attempts + 1]
                    ELSE row : row \in otps}
      /\ UNCHANGED <<clock, profiles, lastOtp, sms, history>>
  BY DEF AttemptUpdate, AttemptAnswer, Carried, Verifying, TypeOK
<1>2. \/ pc'[r] = "deleteExhausted" /\ loc'[r] = loc[r]
      \/ pc'[r] = "invalid"
  BY DEF AttemptUpdate, AttemptAnswer, Goto, Answer, TypeOK
<1> DEFINE New(row) == IF row.phone = loc[r].phone
                         THEN [row EXCEPT !.attempts = loc[r].row.attempts + 1]
                         ELSE row
<1>3. otps' = {New(row) : row \in otps}
  BY <1>1
<1>4. \A row \in Row :
        /\ New(row).phone = row.phone /\ New(row).gen = row.gen
        /\ New(row).createdAt = row.createdAt
        /\ New(row).attempts = IF row.phone = loc[r].phone
                                 THEN loc[r].row.attempts + 1 ELSE row.attempts
        /\ row.phone # loc[r].phone => New(row) = row
        /\ New(row) = IF row.phone = loc[r].phone
                        THEN [row EXCEPT !.attempts = loc[r].row.attempts + 1]
                        ELSE row
  BY DEF Row
<1> HIDE DEF New
<1>5. \A row \in otps : \E new \in otps' :
        /\ new.phone = row.phone /\ new.gen = row.gen
        /\ new.createdAt = row.createdAt
        /\ row.phone # loc[r].phone => new = row
  BY <1>1, <1>3, <1>4
<1>6. \A new \in otps' : \E row \in otps : new = New(row)
  BY <1>3
<1> QED BY <1>1, <1>2, <1>4, <1>5, <1>6

\* DELETE takes every row of the phone, and no other.
LEMMA Deleted ==
  ASSUME IndInv, NEW r \in Requests, VerifyDelete(r)
  PROVE  /\ pc[r] \in Deleting /\ loc[r].row \in Row
         /\ otps' \subseteq otps /\ spent \subseteq spent'
         /\ \A row \in otps : \/ row \in otps' /\ row.phone # loc[r].phone
                              \/ row.gen \in spent' /\ row.phone = loc[r].phone
         /\ pc'[r] \in {"expired", "exhausted", "accepted"}
         /\ UNCHANGED <<clock, profiles, lastOtp, sms, phoneOf, replaced, wrong,
                        uncounted, overlapped>>
<1> USE DEF IndInv
<1>1. /\ otps' = otps \ RowsOf(loc[r].phone)
      /\ spent' = spent \union {row.gen : row \in RowsOf(loc[r].phone)}
      /\ pc[r] \in Deleting /\ loc[r].row \in Row
      /\ UNCHANGED <<clock, profiles, lastOtp, sms, phoneOf, replaced, wrong,
                     uncounted, overlapped>>
  BY DEF VerifyDelete, DeleteAnswer, Carried, Verifying
<1>2. pc'[r] \in {"expired", "exhausted", "accepted"}
  BY DEF VerifyDelete, DeleteAnswer, Answer, TypeOK
<1> QED BY <1>1, <1>2 DEF RowsOf

-----------------------------------------------------------------------------
(***************************************************************************)
(* Text messages and the table, whatever requests race                     *)
(***************************************************************************)
\* An OTP is known of a phone: its row is stored, or was deleted or overwritten.
Known(n, p) ==
  \/ n \in spent \union replaced
  \/ \E row \in otps : row.phone = p /\ row.gen = n

\* The phone is the primary key of `otps', and the row that a request carries is
\* of its own phone.
Keyed ==
  /\ \A row1, row2 \in otps : row1.phone = row2.phone => row1 = row2
  /\ \A r \in Requests : pc[r] \in {"requestUpsert", "requestText"} \union Verifying
       => loc[r].row.phone = loc[r].phone

\* The row is written by the time the text message is handed over.
Written ==
  \A r \in Requests :
    pc[r] = "requestText" => Known(loc[r].row.gen, loc[r].phone)

TextInv == Keyed /\ Written /\ TextedWasStored

\* What was known stays known.
LEMMA KnownKept ==
  ASSUME IndInv, [Next]_vars, NEW n, NEW p, Known(n, p)
  PROVE  Known(n, p)'
<1>1. CASE UNCHANGED <<otps, spent, replaced>>
  BY <1>1 DEF Known
<1>2. CASE \E r \in Requests : RequestUpsert(r)
  BY <1>2 DEF RequestUpsert, Known, RowsOf
<1>3. CASE \E r \in Requests : AttemptUpdate(r)
  BY <1>3, Updated DEF Known
<1>4. CASE \E r \in Requests : VerifyDelete(r)
  BY <1>4, Deleted DEF Known
<1> QED
  BY <1>1, <1>2, <1>3, <1>4 DEF Next, Handler, vars, RequestRead, RequestCooldown,
     RequestUser, RequestMake, RequestText, VerifyRead, VerifyCheck, Fail, SmsSent,
     ProfileCreated, Tick

LEMMA KeyedStep == ASSUME IndInv, Keyed, [Next]_vars PROVE Keyed'
<1> USE DEF Requesting, Verifying, Deleting
<1> DEFINE Holding == {"requestUpsert", "requestText"} \union Verifying
<1>1. CASE UNCHANGED <<otps, pc, loc>>
  BY <1>1 DEF Keyed
<1>2. ASSUME NEW r \in Requests, Handler(r) PROVE Keyed'
  <2>o. \A q \in Requests \ {r} : pc'[q] = pc[q] /\ loc'[q] = loc[q]
    BY <1>2, OthersKept
  <2>t. TypeOK
    BY DEF IndInv
  <2>1. CASE /\ UNCHANGED otps
             /\ pc'[r] \in Holding => loc'[r].row.phone = loc'[r].phone
    BY <2>1, <2>o DEF Keyed
  <2>2. CASE \E p \in Phones, purpose \in Purposes : RequestRead(r, p, purpose)
    <3>1. pc'[r] = "requestCooldown" /\ UNCHANGED otps
      BY <2>2, <2>t DEF RequestRead, Goto, TypeOK
    <3> QED BY <3>1, <2>1
  <2>3. CASE RequestCooldown(r) \/ RequestUser(r) \/ RequestText(r) \/ Fail(r)
    <3>1. /\ pc'[r] \in Answers \union {"requestUser", "requestMake"}
          /\ UNCHANGED otps
      BY <2>3, <2>t DEF RequestCooldown, RequestUser, RequestText, Fail, Goto,
         Answer, TypeOK, Answers
    <3> QED BY <3>1, <2>1 DEF Answers
  <2>4. CASE \E code \in Codes : RequestMake(r, code)
    <3>1. loc'[r].row.phone = loc'[r].phone /\ UNCHANGED otps
      BY <2>4, Made
    <3> QED BY <3>1, <2>1
  <2>5. CASE RequestUpsert(r)
    <3>1. /\ pc[r] = "requestUpsert" /\ pc'[r] = "requestText" /\ UNCHANGED loc
          /\ otps' = (otps \ RowsOf(loc[r].phone)) \union {loc[r].row}
      BY <2>5, <2>t DEF RequestUpsert, Goto, TypeOK
    <3> QED BY <3>1, <2>o DEF Keyed, RowsOf
  <2>6. CASE \E p \in Phones, guess \in Codes : VerifyRead(r, p, guess)
    <3>1. PICK p \in Phones, guess \in Codes : VerifyRead(r, p, guess)
      BY <2>6
    <3>2. CASE Answer(r, "notFound")
      BY <3>1, <3>2, <2>1, <2>t DEF VerifyRead, Answer, TypeOK
    <3>3. ASSUME NEW row \in RowsOf(p), Goto(r, "verifyCheck"),
                 loc' = [loc EXCEPT ![r] =
                           [phone |-> p, purpose |-> None, guess |-> guess,
                            row |-> row, late |-> row.gen \in spent]]
          PROVE  loc'[r].row.phone = loc'[r].phone
      BY <3>3, <2>t DEF RowsOf, TypeOK
    <3> QED BY <3>1, <3>2, <3>3, <2>1 DEF VerifyRead
  <2>7. CASE VerifyCheck(r)
    <3>1. UNCHANGED <<otps, loc>> /\ pc[r] = "verifyCheck"
      BY <2>7 DEF VerifyCheck
    <3> QED BY <3>1, <2>1 DEF Keyed
  <2>8. CASE AttemptUpdate(r)
    <3>1. pc'[r] \in Holding => loc'[r].row.phone = loc'[r].phone
      BY <2>8, Updated DEF Keyed
    <3>2. ASSUME NEW new1 \in otps', NEW new2 \in otps', new1.phone = new2.phone
          PROVE  new1 = new2
      <4>1. PICK row1 \in otps :
              /\ new1.phone = row1.phone
              /\ new1 = IF row1.phone = loc[r].phone
                          THEN [row1 EXCEPT !.attempts = loc[r].row.attempts + 1]
                          ELSE row1
        BY <2>8, Updated
      <4>2. PICK row2 \in otps :
              /\ new2.phone = row2.phone
              /\ new2 = IF row2.phone = loc[r].phone
                          THEN [row2 EXCEPT !.attempts = loc[r].row.attempts + 1]
                          ELSE row2
        BY <2>8, Updated
      <4>3. row1 = row2
        BY <3>2, <4>1, <4>2 DEF Keyed
      <4> QED BY <4>1, <4>2, <4>3
    <3> QED BY <3>1, <3>2, <2>o DEF Keyed
  <2>9. CASE VerifyDelete(r)
    BY <2>9, <2>o, Deleted DEF Keyed
  <2> QED
    BY <1>2, <2>2, <2>3, <2>4, <2>5, <2>6, <2>7, <2>8, <2>9 DEF Handler
<1> QED BY <1>1, <1>2 DEF Next, vars, SmsSent, ProfileCreated, Tick

LEMMA TextStep == ASSUME IndInv, TextInv, [Next]_vars PROVE TextInv'
<1> USE DEF TextInv
<1>1. Keyed'
  BY KeyedStep
<1>2. \A n, p : Known(n, p) => Known(n, p)'
  BY KnownKept
<1>3. ASSUME NEW r \in Requests, pc'[r] = "requestText", NEW q \in Requests, Handler(q)
      PROVE  Known(loc[r].row.gen, loc[r].phone)' /\ UNCHANGED <<loc[r]>>
  <2>1. CASE q # r
    <3>1. UNCHANGED <<pc[r], loc[r]>>
      BY <1>3, <2>1, OthersKept
    <3> QED BY <3>1, <1>2, <1>3 DEF Written
  <2>2. CASE q = r
    <3>1. RequestUpsert(r)
      BY <1>3, <2>2, Made, Updated, Deleted DEF Handler, RequestRead, RequestCooldown,
         RequestUser, RequestText, VerifyRead, VerifyCheck, Verdict, Fail, Goto, Answer,
         Answers, IndInv, TypeOK
    <3> QED
      BY <3>1 DEF RequestUpsert, Known, IndInv, Carried, Keyed
  <2> QED BY <2>1, <2>2
<1>4. Written'
  BY <1>2, <1>3 DEF Next, vars, SmsSent, ProfileCreated, Tick, Written
<1>5. TextedWasStored <=> \A m \in texted : Known(m.gen, m.phone)
  BY DEF TextedWasStored, Known
<1>6. ASSUME NEW m \in texted' PROVE Known(m.gen, m.phone)'
  <2>1. CASE m \in texted
    BY <2>1, <1>2, <1>5
  <2>2. CASE m \notin texted
    <3>1. PICK r \in Requests : RequestText(r)
      BY <2>2, Made, Updated, Deleted DEF Next, vars, Handler, RequestRead,
         RequestCooldown, RequestUser, RequestUpsert, VerifyRead, VerifyCheck, Fail,
         SmsSent, ProfileCreated, Tick
    <3>2. m.gen = loc[r].row.gen /\ m.phone = loc[r].phone /\ pc[r] = "requestText"
      BY <2>2, <3>1 DEF RequestText, Text
    <3> QED BY <3>2, <1>2 DEF Written
  <2> QED BY <2>1, <2>2
<1>7. TextedWasStored'
  BY <1>6 DEF TextedWasStored, Known
<1> QED BY <1>1, <1>4, <1>7

\* Every text message carries an OTP that is, or was, in the table for its phone.
THEOREM TextedAreStored == Spec => []TextedWasStored
<1>1. Init => TextInv
  BY DEF Init, TextInv, Keyed, Written, TextedWasStored, Verifying, Deleting
<1>2. IndInv /\ TextInv /\ [Next]_vars => TextInv'
  BY TextStep
<1>3. TextInv => TextedWasStored
  BY DEF TextInv
<1> QED BY <1>1, <1>2, <1>3, Invariance, PTL DEF Spec

-----------------------------------------------------------------------------
(***************************************************************************)
(* As long as no two requests of a phone have overlapped                   *)
(***************************************************************************)
\* No two requests in flight are about the same phone.
Alone ==
  \A q, r \in Requests :
    q # r /\ pc[q] \in InFlight /\ pc[r] \in InFlight
      => loc[q].phone # loc[r].phone

\* What a request has read, or has written, is what the table still holds.
CurrentOf(r) ==
  /\ pc[r] \in {"verifyCheck", "attemptUpdate", "deleteAccepted", "requestText"}
       => loc[r].row \in RowsOf(loc[r].phone)
  /\ pc[r] = "requestCooldown"
       => \/ loc[r].row \in RowsOf(loc[r].phone)
          \/ loc[r].row = NoRow /\ RowsOf(loc[r].phone) = {}

Current == \A r \in Requests : CurrentOf(r)

AloneInv == ~overlapped => Alone /\ Current

\* A request in flight was so before, about the same phone, or has just arrived.
LEMMA PhoneKept ==
  ASSUME IndInv, NEW r \in Requests, Handler(r)
  PROVE  /\ overlapped => overlapped'
         /\ pc'[r] \in InFlight =>
              \/ Arrives(r, loc'[r].phone)
              \/ pc[r] \in InFlight /\ loc'[r].phone = loc[r].phone
<1> USE DEF IndInv
<1>t. pc \in [Requests -> Answers \union InFlight] /\ loc \in [Requests -> Locals]
  BY DEF TypeOK
<1>a. \A p : Arrives(r, p) => (overlapped => overlapped')
  BY DEF Arrives
<1>d. \A a \in Answers : a \notin InFlight
  BY DEF Answers, InFlight, Deleting
<1>1. CASE \E p \in Phones, purpose \in Purposes : RequestRead(r, p, purpose)
  <2>1. PICK p \in Phones, purpose \in Purposes : RequestRead(r, p, purpose)
    BY <1>1
  <2>2. loc'[r].phone = p /\ Arrives(r, p)
    BY <2>1, <1>t DEF RequestRead
  <2> QED BY <2>2, <1>a
<1>2. CASE RequestCooldown(r) \/ RequestUser(r) \/ RequestUpsert(r) \/ RequestText(r)
  <2>1. /\ pc[r] \in InFlight /\ UNCHANGED overlapped
        /\ UNCHANGED loc \/ pc'[r] \in Answers
    BY <1>2, <1>t DEF RequestCooldown, RequestUser, RequestUpsert, RequestText,
       Goto, Answer, InFlight, Answers
  <2> QED BY <2>1, <1>d
<1>3. CASE \E code \in Codes : RequestMake(r, code)
  BY <1>3, Made DEF InFlight
<1>4. CASE \E p \in Phones, guess \in Codes : VerifyRead(r, p, guess)
  <2>1. PICK p \in Phones, guess \in Codes : VerifyRead(r, p, guess)
    BY <1>4
  <2>2. CASE Answer(r, "notFound")
    BY <2>1, <2>2, <1>a, <1>t DEF VerifyRead, Answer, InFlight, Deleting
  <2>3. CASE ~ Answer(r, "notFound")
    <3>1. loc'[r].phone = p /\ Arrives(r, p)
      BY <2>1, <2>3, <1>t DEF VerifyRead
    <3> QED BY <3>1, <1>a
  <2> QED BY <2>2, <2>3
<1>5. CASE VerifyCheck(r) \/ Fail(r)
  BY <1>5, <1>t DEF VerifyCheck, Fail, Answer, InFlight, Deleting
<1>6. CASE AttemptUpdate(r)
  BY <1>6, Updated DEF InFlight, Deleting
<1>7. CASE VerifyDelete(r)
  BY <1>7, Deleted DEF InFlight, Deleting
<1> QED BY <1>1, <1>2, <1>3, <1>4, <1>5, <1>6, <1>7 DEF Handler

\* A request changes the rows of no phone but its own, and those in flight only.
LEMMA OtherRows ==
  ASSUME IndInv, TextInv, NEW r \in Requests, Handler(r)
  PROVE  \/ UNCHANGED otps
         \/ /\ pc[r] \in InFlight
            /\ \A p : p # loc[r].phone => RowsOf(p)' = RowsOf(p)
<1>1. CASE RequestUpsert(r)
  <2>1. /\ pc[r] = "requestUpsert" /\ loc[r].row.phone = loc[r].phone
        /\ otps' = (otps \ RowsOf(loc[r].phone)) \union {loc[r].row}
    BY <1>1 DEF RequestUpsert, TextInv, Keyed
  <2> QED BY <2>1 DEF RowsOf, InFlight
<1>2. CASE AttemptUpdate(r)
  <2>1. ASSUME NEW p, p # loc[r].phone PROVE RowsOf(p)' = RowsOf(p)
    <3>1. \A row \in RowsOf(p) : row \in RowsOf(p)'
      BY <1>2, <2>1, Updated DEF RowsOf
    <3>2. \A row \in RowsOf(p)' : row \in RowsOf(p)
      BY <1>2, <2>1, Updated DEF RowsOf
    <3> QED BY <3>1, <3>2
  <2> QED BY <1>2, <2>1, Updated DEF InFlight
<1>3. CASE VerifyDelete(r)
  BY <1>3, Deleted DEF RowsOf, InFlight
<1> QED
  BY <1>1, <1>2, <1>3 DEF Handler, RequestRead, RequestCooldown, RequestUser,
     RequestMake, RequestText, VerifyRead, VerifyCheck, Fail

\* What a request has read or written is current when it has just been so.
LEMMA CurrentStep ==
  ASSUME IndInv, TextInv, Alone, Current, NEW r \in Requests, Handler(r)
  PROVE  CurrentOf(r)'
<1> USE DEF CurrentOf
<1>t. pc \in [Requests -> Answers \union InFlight] /\ loc \in [Requests -> Locals]
  BY DEF IndInv, TypeOK
<1>1. CASE \E p \in Phones, purpose \in Purposes : RequestRead(r, p, purpose)
  <2>1. PICK p \in Phones, purpose \in Purposes : RequestRead(r, p, purpose)
    BY <1>1
  <2>2. PICK row \in IF RowsOf(p) = {} THEN {NoRow} ELSE RowsOf(p) :
          loc' = [loc EXCEPT ![r] = [phone |-> p, purpose |-> purpose,
                                     guess |-> None, row |-> row, late |-> FALSE]]
    BY <2>1 DEF RequestRead
  <2>3. /\ loc'[r].phone = p /\ loc'[r].row = row
        /\ pc'[r] = "requestCooldown" /\ otps' = otps
    BY <2>1, <2>2, <1>t DEF RequestRead, Goto
  <2> QED BY <2>2, <2>3 DEF RowsOf
<1>2. CASE RequestCooldown(r) \/ RequestUser(r) \/ RequestText(r) \/ Fail(r)
  <2>1. pc'[r] \in Answers \union {"requestUser", "requestMake"}
    BY <1>2, <1>t DEF RequestCooldown, RequestUser, RequestText, Fail, Goto, Answer,
       Answers
  <2> QED BY <2>1 DEF Answers
<1>3. CASE \E code \in Codes : RequestMake(r, code)
  BY <1>3, Made
<1>4. CASE RequestUpsert(r)
  BY <1>4, <1>t DEF RequestUpsert, Goto, RowsOf, TextInv, Keyed
<1>5. CASE \E p \in Phones, guess \in Codes : VerifyRead(r, p, guess)
  <2>1. PICK p \in Phones, guess \in Codes : VerifyRead(r, p, guess)
    BY <1>5
  <2>2. CASE Answer(r, "notFound")
    BY <2>2, <1>t DEF Answer
  <2>3. ASSUME NEW row \in RowsOf(p), Goto(r, "verifyCheck"),
               loc' = [loc EXCEPT ![r] =
                         [phone |-> p, purpose |-> None, guess |-> guess,
                          row |-> row, late |-> row.gen \in spent]]
        PROVE  /\ loc'[r].phone = p /\ loc'[r].row = row
               /\ pc'[r] = "verifyCheck" /\ otps' = otps
    BY <2>1, <2>3, <1>t DEF VerifyRead, Goto
  <2> QED BY <2>1, <2>2, <2>3 DEF VerifyRead, RowsOf
<1>6. CASE VerifyCheck(r)
  <2>1. /\ pc[r] = "verifyCheck" /\ UNCHANGED <<otps, loc>>
        /\ pc'[r] # "requestCooldown"
    BY <1>6, <1>t DEF VerifyCheck, Goto, Verdict
  <2> QED BY <2>1 DEF Current, RowsOf
<1>7. CASE AttemptUpdate(r)
  BY <1>7, Updated
<1>8. CASE VerifyDelete(r)
  BY <1>8, Deleted
<1> QED BY <1>1, <1>2, <1>3, <1>4, <1>5, <1>6, <1>7, <1>8 DEF Handler

LEMMA AloneStep == ASSUME IndInv, TextInv, AloneInv, [Next]_vars PROVE AloneInv'
<1>1. CASE UNCHANGED <<otps, pc, loc, overlapped>>
  BY <1>1 DEF AloneInv, Alone, Current, CurrentOf, RowsOf
<1>2. ASSUME NEW r \in Requests, Handler(r), ~overlapped' PROVE Alone' /\ Current'
  <2>1. ~overlapped /\ Alone /\ Current
    BY <1>2, PhoneKept DEF AloneInv
  <2>2. \A q \in Requests \ {r} : pc'[q] = pc[q] /\ loc'[q] = loc[q]
    BY <1>2, OthersKept
  <2>3. ASSUME NEW q \in Requests \ {r}, pc'[q] \in InFlight, pc'[r] \in InFlight
        PROVE  loc'[q].phone # loc'[r].phone
    <3>1. CASE Arrives(r, loc'[r].phone)
      BY <1>2, <2>2, <2>3, <3>1 DEF Arrives
    <3>2. CASE pc[r] \in InFlight /\ loc'[r].phone = loc[r].phone
      BY <2>1, <2>2, <2>3, <3>2 DEF Alone
    <3> QED BY <1>2, <2>3, <3>1, <3>2, PhoneKept
  <2>4. Alone'
    BY <2>1, <2>2, <2>3 DEF Alone
  <2>5. ASSUME NEW q \in Requests \ {r} PROVE CurrentOf(q)'
    <3>1. CASE pc[q] \notin InFlight
      BY <2>2, <3>1 DEF CurrentOf, InFlight, Deleting
    <3>2. CASE UNCHANGED otps
      BY <2>1, <2>2, <3>2 DEF Current, CurrentOf, RowsOf
    <3>3. CASE /\ pc[q] \in InFlight /\ pc[r] \in InFlight
               /\ \A p : p # loc[r].phone => RowsOf(p)' = RowsOf(p)
      <4>1. loc[q].phone # loc[r].phone
        BY <2>1, <3>3 DEF Alone
      <4>2. {row \in otps' : row.phone = loc[q].phone}
              = {row \in otps : row.phone = loc[q].phone}
        BY <3>3, <4>1 DEF RowsOf
      <4> QED BY <2>1, <2>2, <4>2 DEF Current, CurrentOf, RowsOf
    <3> QED BY <1>2, <3>1, <3>2, <3>3, OtherRows
  <2>6. Current'
    BY <1>2, <2>1, <2>5, CurrentStep DEF Current
  <2> QED BY <2>4, <2>6
<1> QED BY <1>1, <1>2 DEF Next, vars, SmsSent, ProfileCreated, Tick, AloneInv

-----------------------------------------------------------------------------
(***************************************************************************)
(* Guesses and acceptances                                                 *)
(***************************************************************************)
\* A guess is counted only against a row that has attempts left.
Allowed ==
  \A r \in Requests :
    pc[r] = "attemptUpdate" => loc[r].row.attempts < OTP_MAX_ATTEMPTS

\* Request r has compared its code with that of the row, and not yet counted it.
Pending(row) ==
  \E r \in Requests : pc[r] = "attemptUpdate" /\ loc[r].row.gen = row.gen

\* The guesses that the row's attempts account for.
Tallied(row) ==
  \/ wrong[row.gen] <= row.attempts + uncounted[row.gen]
  \/ wrong[row.gen] <= row.attempts + uncounted[row.gen] + 1 /\ Pending(row)

\* An OTP that is not stored yet has seen no guess, and one that is stored as
\* many as its row says, but for those whose UPDATE failed or is about to come.
Counted ==
  /\ \A n \in Gen : n > lastOtp => wrong[n] = 0 /\ accepted[n] = 0
  /\ \A r \in Requests : pc[r] = "requestUpsert"
       => wrong[loc[r].row.gen] = 0 /\ accepted[loc[r].row.gen] = 0
  /\ \A row \in otps : Tallied(row) /\ accepted[row.gen] = 0

CountInv ==
  /\ Allowed
  /\ ~overlapped => Counted
  /\ GuessLimit
  /\ AcceptedOnce

LEMMA AllowedStep == ASSUME IndInv, Allowed, [Next]_vars PROVE Allowed'
<1>1. CASE UNCHANGED <<pc, loc>>
  BY <1>1 DEF Allowed
<1>2. ASSUME NEW r \in Requests, Handler(r), pc'[r] = "attemptUpdate"
      PROVE  loc'[r].row.attempts < OTP_MAX_ATTEMPTS
  <2>1. VerifyCheck(r)
    BY <1>2, Made, Updated, Deleted DEF Handler, RequestRead, RequestCooldown,
       RequestUser, RequestUpsert, RequestText, VerifyRead, Fail, Goto, Answer,
       IndInv, TypeOK
  <2>2. Verdict(loc[r].row, loc[r].guess) = "attemptUpdate" /\ UNCHANGED loc
    BY <1>2, <2>1 DEF VerifyCheck, Goto, IndInv, TypeOK
  <2>3. loc[r].row \in Row /\ clock \in Int
    BY <2>1 DEF VerifyCheck, IndInv, Carried, TypeOK, Verifying
  <2> QED BY <2>2, <2>3, ConfigAssumption DEF ConfigAssumption, Verdict, Row
<1> QED
  BY <1>1, <1>2, OthersKept DEF Next, vars, SmsSent, ProfileCreated, Tick, Allowed

\* The tallies are numbers.
LEMMA TalliesTyped ==
  ASSUME IndInv, NEW n \in Gen
  PROVE  wrong[n] \in Nat /\ uncounted[n] \in Nat /\ accepted[n] \in Nat
  BY ConfigAssumption DEF ConfigAssumption, IndInv, TypeOK

LEMMA RowTyped ==
  ASSUME IndInv, NEW row \in otps
  PROVE  row \in Row /\ row.gen \in Gen /\ row.attempts \in Nat
  BY DEF IndInv, TypeOK, Row

\* A guess that was pending still is, unless its own request moved.
LEMMA PendingKept ==
  ASSUME IndInv, NEW r \in Requests, Handler(r), NEW row, Pending(row),
         pc[r] = "attemptUpdate" => loc[r].row.gen # row.gen
  PROVE  Pending(row)'
<1>1. PICK q \in Requests : pc[q] = "attemptUpdate" /\ loc[q].row.gen = row.gen
  BY DEF Pending
<1>2. q # r
  BY <1>1
<1>3. pc'[q] = pc[q] /\ loc'[q] = loc[q]
  BY <1>2, OthersKept
<1>4. pc'[q] = "attemptUpdate" /\ loc'[q].row.gen = row.gen
  BY <1>1, <1>3
<1> QED BY <1>4 DEF Pending

\* The counts as long as nothing is counted.
LEMMA CountKept ==
  ASSUME IndInv, Counted, NEW r \in Requests, Handler(r),
         UNCHANGED <<lastOtp, tallies>>, otps' \subseteq otps,
         pc[r] # "attemptUpdate",
         pc'[r] = "requestUpsert" => pc[r] = "requestUpsert" /\ loc'[r] = loc[r]
  PROVE  Counted'
<1>1. \A row \in otps : Pending(row) => Pending(row)'
  BY PendingKept
<1>2. \A row \in otps' : Tallied(row)' /\ accepted'[row.gen] = 0
  BY <1>1 DEF Counted, Tallied
<1> QED BY <1>2, OthersKept DEF Counted

LEMMA MakeCounted ==
  ASSUME IndInv, Counted, NEW r \in Requests, NEW code \in Codes,
         RequestMake(r, code), Handler(r)
  PROVE  Counted'
<1>1. /\ lastOtp \in Nat /\ lastOtp + 1 \in Gen /\ lastOtp' = lastOtp + 1
      /\ UNCHANGED <<otps, tallies>> /\ loc'[r].row.gen = lastOtp + 1
      /\ pc[r] # "attemptUpdate"
  BY Made DEF IndInv, TypeOK
<1>2. \A n \in Gen : n > lastOtp' => n > lastOtp
  BY <1>1 DEF Gen
<1>3. wrong[lastOtp + 1] = 0 /\ accepted[lastOtp + 1] = 0
  BY <1>1 DEF Counted
<1>4. \A row \in otps : Pending(row) => Pending(row)'
  BY <1>1, PendingKept
<1>5. \A row \in otps' : Tallied(row)' /\ accepted'[row.gen] = 0
  BY <1>1, <1>4 DEF Counted, Tallied
<1> QED BY <1>1, <1>2, <1>3, <1>5, OthersKept DEF Counted

LEMMA UpsertCounted ==
  ASSUME IndInv, Counted, NEW r \in Requests, RequestUpsert(r), Handler(r)
  PROVE  Counted'
<1>1. /\ pc[r] = "requestUpsert" /\ loc[r].row \in Row
      /\ \A row \in otps' : row \in otps \/ row = loc[r].row
      /\ \A q \in Requests : pc'[q] = "requestUpsert" => pc[q] = "requestUpsert"
      /\ UNCHANGED <<lastOtp, loc, tallies>>
  BY DEF RequestUpsert, Goto, IndInv, TypeOK, Carried
<1>2. loc[r].row.attempts \in Nat /\ loc[r].row.gen \in Gen
  BY <1>1 DEF Row
<1>3. \A row \in otps : Pending(row) => Pending(row)'
  BY <1>1, PendingKept
<1>4. ASSUME NEW row \in otps' PROVE Tallied(row)' /\ accepted'[row.gen] = 0
  <2>1. CASE row \in otps
    BY <1>1, <1>3, <2>1 DEF Counted, Tallied
  <2>2. CASE row = loc[r].row
    <3>1. wrong[row.gen] = 0 /\ accepted[row.gen] = 0 /\ uncounted[row.gen] \in Nat
      BY <1>1, <1>2, <2>2, TalliesTyped DEF Counted
    <3>2. wrong'[row.gen] <= row.attempts + uncounted'[row.gen]
      BY <1>1, <1>2, <2>2, <3>1
    <3> QED BY <1>1, <3>1, <3>2 DEF Tallied
  <2> QED BY <1>1, <2>1, <2>2
<1> QED BY <1>1, <1>4 DEF Counted

\* A request that overlaps with no other and compares its code with a row: no
\* other has done so.
LEMMA AloneWithRow ==
  ASSUME IndInv, TextInv, Alone, Current, NEW r \in Requests,
         pc[r] \in {"verifyCheck", "attemptUpdate"}
  PROVE  /\ loc[r].row \in otps /\ loc[r].row \in Row /\ loc[r].row.gen \in Gen
         /\ loc[r].row.attempts \in Nat /\ loc[r].row.phone = loc[r].phone
         /\ \A q \in Requests \ {r} : pc[q] = "attemptUpdate" =>
              loc[q].row.gen # loc[r].row.gen
         /\ \A row \in otps : row.gen = loc[r].row.gen => row = loc[r].row
<1> USE DEF IndInv
<1>1. \A q \in Requests : pc[q] \in {"verifyCheck", "attemptUpdate"} =>
        /\ loc[q].row \in otps /\ loc[q].row.phone = loc[q].phone
        /\ pc[q] \in InFlight
  BY DEF Current, CurrentOf, RowsOf, InFlight
<1>2. \A row \in otps : row.gen = loc[r].row.gen => row = loc[r].row
  BY <1>1 DEF Stored
<1>3. ASSUME NEW q \in Requests \ {r}, pc[q] = "attemptUpdate"
      PROVE  loc[q].row.gen # loc[r].row.gen
  <2>1. loc[q].phone # loc[r].phone
    BY <1>1, <1>3 DEF Alone
  <2>2. loc[q].row # loc[r].row
    BY <1>1, <1>3, <2>1
  <2> QED BY <1>1, <1>2, <1>3, <2>2
<1> QED BY <1>1, <1>2, <1>3, RowTyped

\* A wrong code is tallied when it is compared.
LEMMA CheckCounted ==
  ASSUME IndInv, TextInv, Alone, Current, Counted, NEW r \in Requests,
         VerifyCheck(r), Handler(r), pc'[r] = "attemptUpdate", ~overlapped
  PROVE  /\ Counted'
         /\ \A n \in Gen \ {loc[r].row.gen} : wrong'[n] = wrong[n]
         /\ wrong'[loc[r].row.gen] <= loc[r].row.attempts + uncounted[loc[r].row.gen] + 1
<1> DEFINE g == loc[r].row.gen
<1>0. /\ pc[r] = "verifyCheck" /\ Verdict(loc[r].row, loc[r].guess) = "attemptUpdate"
      /\ wrong' = [wrong EXCEPT ![g] = @ + 1]
      /\ UNCHANGED <<otps, lastOtp, loc, uncounted, accepted>>
  BY DEF VerifyCheck, Goto, IndInv, TypeOK
<1>1. /\ loc[r].row \in otps /\ g \in Gen /\ loc[r].row.attempts \in Nat
      /\ \A q \in Requests \ {r} : pc[q] = "attemptUpdate" => loc[q].row.gen # g
      /\ \A row \in otps : row.gen = g => row = loc[r].row
  BY <1>0, AloneWithRow
<1>2. /\ wrong[g] \in Nat /\ uncounted[g] \in Nat
      /\ wrong \in [Gen -> Nat]
  BY <1>1, TalliesTyped DEF IndInv, TypeOK
<1>3. /\ \A n \in Gen \ {g} : wrong'[n] = wrong[n]
      /\ wrong'[g] = wrong[g] + 1
  BY <1>0, <1>1, <1>2
<1>4. ~Pending(loc[r].row)
  BY <1>0, <1>1 DEF Pending
<1>5. wrong[g] <= loc[r].row.attempts + uncounted[g]
  BY <1>1, <1>4 DEF Counted, Tallied
<1>6. wrong'[g] <= loc[r].row.attempts + uncounted[g] + 1
  BY <1>1, <1>2, <1>3, <1>5
<1>7. g <= lastOtp /\ lastOtp \in Nat
  BY <1>1 DEF IndInv, Numbered, TypeOK
<1>8. \A n \in Gen : n > lastOtp' => n # g /\ n > lastOtp
  BY <1>0, <1>1, <1>7 DEF Gen
<1>9. \A n \in Gen : n > lastOtp' => wrong'[n] = 0 /\ accepted'[n] = 0
  BY <1>0, <1>3, <1>8 DEF Counted
<1>10. ASSUME NEW q \in Requests, pc'[q] = "requestUpsert"
       PROVE  wrong'[loc'[q].row.gen] = 0 /\ accepted'[loc'[q].row.gen] = 0
  <2>1. q # r /\ pc[q] = "requestUpsert" /\ loc'[q] = loc[q]
    BY <1>10, OthersKept
  <2>2. loc[q].row.gen # g /\ loc[q].row.gen \in Gen
    BY <2>1, <1>1 DEF IndInv, OnItsWay, Carried, Row
  <2> QED BY <2>1, <2>2, <1>0, <1>3 DEF Counted
<1>11. ASSUME NEW row \in otps' PROVE Tallied(row)' /\ accepted'[row.gen] = 0
  <2>0. row \in otps /\ row.gen \in Gen /\ accepted'[row.gen] = 0
    BY <1>0, RowTyped DEF Counted
  <2>1. CASE row.gen = g
    <3>1. Pending(row)'
      BY <1>0, <2>1 DEF Pending
    <3>2. row.attempts = loc[r].row.attempts
      BY <1>1, <2>0, <2>1
    <3>3. wrong'[row.gen] <= row.attempts + uncounted'[row.gen] + 1
      BY <1>0, <1>6, <2>1, <3>2
    <3> QED BY <2>0, <3>1, <3>3 DEF Tallied
  <2>2. CASE row.gen # g
    <3>1. Pending(row) => Pending(row)'
      BY <1>0, PendingKept
    <3>2. wrong'[row.gen] = wrong[row.gen]
      BY <1>3, <2>0, <2>2
    <3> QED BY <1>0, <2>0, <3>1, <3>2 DEF Counted, Tallied
  <2> QED BY <2>1, <2>2
<1> QED BY <1>3, <1>6, <1>9, <1>10, <1>11 DEF Counted

\* It is counted in the row that it was compared with.
LEMMA AttemptCounted ==
  ASSUME IndInv, TextInv, Alone, Current, Counted, NEW r \in Requests,
         AttemptUpdate(r), Handler(r)
  PROVE  Counted'
<1> DEFINE g == loc[r].row.gen
<1>0. pc[r] = "attemptUpdate" /\ UNCHANGED <<lastOtp, tallies>>
  BY Updated
<1>1. /\ loc[r].row \in otps /\ g \in Gen /\ loc[r].row.attempts \in Nat
      /\ loc[r].row.phone = loc[r].phone
      /\ \A row \in otps : row.gen = g => row = loc[r].row
  BY <1>0, AloneWithRow
<1>2. /\ wrong[g] \in Nat /\ uncounted[g] \in Nat
      /\ wrong[g] <= loc[r].row.attempts + uncounted[g] + 1
  <2>1. wrong[g] \in Nat /\ uncounted[g] \in Nat
    BY <1>1, TalliesTyped
  <2>2. Tallied(loc[r].row)
    BY <1>1 DEF Counted
  <2> QED BY <1>1, <2>1, <2>2 DEF Tallied
<1>3. \A q \in Requests : pc'[q] = "requestUpsert" =>
        pc[q] = "requestUpsert" /\ loc'[q] = loc[q]
  BY Updated, OthersKept
<1>4. ASSUME NEW new \in otps' PROVE Tallied(new)' /\ accepted'[new.gen] = 0
  <2>1. PICK row \in otps :
          /\ new.gen = row.gen
          /\ new.attempts = IF row.phone = loc[r].phone
                              THEN loc[r].row.attempts + 1 ELSE row.attempts
    BY Updated
  <2>2. accepted'[new.gen] = 0
    BY <2>1, <1>0 DEF Counted
  <2>3. CASE row.phone = loc[r].phone
    <3>1. row = loc[r].row
      BY <2>3, <1>1 DEF TextInv, Keyed
    <3>2. wrong'[new.gen] <= new.attempts + uncounted'[new.gen]
      BY <1>0, <1>1, <1>2, <2>1, <2>3, <3>1
    <3> QED BY <2>2, <3>2 DEF Tallied
  <2>4. CASE row.phone # loc[r].phone
    <3>1. row.gen # g
      BY <2>4, <1>1
    <3>2. Pending(row) => Pending(row)'
      BY <3>1, PendingKept
    <3>3. Tallied(row)
      BY DEF Counted
    <3>4. Pending(row)' => Pending(new)'
      BY <2>1 DEF Pending
    <3> QED BY <1>0, <2>1, <2>2, <2>4, <3>2, <3>3, <3>4 DEF Tallied
  <2> QED BY <2>3, <2>4
<1> QED BY <1>0, <1>3, <1>4 DEF Counted

\* One whose UPDATE fails is accounted for as well.
LEMMA FailCounted ==
  ASSUME IndInv, TextInv, Alone, Current, Counted, NEW r \in Requests,
         Fail(r), Handler(r), pc[r] = "attemptUpdate", ~overlapped
  PROVE  /\ Counted' /\ UNCHANGED <<wrong, accepted>>
         /\ \A n \in Gen : uncounted'[n] >= uncounted[n] /\ uncounted'[n] \in Nat
<1> DEFINE g == loc[r].row.gen
<1>0. /\ uncounted' = [uncounted EXCEPT ![g] = @ + 1]
      /\ UNCHANGED <<otps, lastOtp, wrong, accepted>> /\ pc'[r] = "error"
  BY DEF Fail, Answer, IndInv, TypeOK
<1>1. /\ loc[r].row \in otps /\ g \in Gen /\ loc[r].row.attempts \in Nat
      /\ \A row \in otps : row.gen = g => row = loc[r].row
  BY AloneWithRow
<1>2. /\ \A n \in Gen : uncounted[n] \in Nat /\ wrong[n] \in Nat
      /\ uncounted \in [Gen -> 0 .. MaxUncounted]
  BY TalliesTyped DEF IndInv, TypeOK
<1>3. /\ uncounted'[g] = uncounted[g] + 1
      /\ \A n \in Gen \ {g} : uncounted'[n] = uncounted[n]
  BY <1>0, <1>1, <1>2
<1>4. ASSUME NEW row \in otps' PROVE Tallied(row)' /\ accepted'[row.gen] = 0
  <2>0. /\ row \in otps /\ row.gen \in Gen /\ row.attempts \in Nat
        /\ Tallied(row) /\ accepted'[row.gen] = 0
    BY <1>0, RowTyped DEF Counted
  <2>1. CASE row.gen = g
    <3>1. wrong[g] <= row.attempts + uncounted[g] + 1
      BY <1>1, <1>2, <2>0, <2>1 DEF Tallied
    <3>2. wrong'[row.gen] <= row.attempts + uncounted'[row.gen]
      BY <1>0, <1>1, <1>2, <1>3, <2>0, <2>1, <3>1
    <3> QED BY <2>0, <3>2 DEF Tallied
  <2>2. CASE row.gen # g
    <3>1. Pending(row) => Pending(row)'
      BY <2>2, PendingKept
    <3>2. uncounted'[row.gen] = uncounted[row.gen]
      BY <1>3, <2>0, <2>2
    <3> QED BY <1>0, <2>0, <3>1, <3>2 DEF Tallied
  <2> QED BY <2>1, <2>2
<1>5. \A q \in Requests : pc'[q] = "requestUpsert" =>
        pc[q] = "requestUpsert" /\ loc'[q] = loc[q]
  BY <1>0, OthersKept
<1>6. \A n \in Gen : uncounted'[n] >= uncounted[n] /\ uncounted'[n] \in Nat
  BY <1>2, <1>3
<1> QED BY <1>0, <1>4, <1>5, <1>6 DEF Counted

\* The row whose code is accepted goes, with all that was counted against it.
LEMMA DeleteCounted ==
  ASSUME IndInv, TextInv, Alone, Current, Counted, NEW r \in Requests,
         VerifyDelete(r), Handler(r)
  PROVE  /\ Counted'
         /\ \A n \in Gen : accepted'[n] = accepted[n] \/ accepted'[n] = 1
<1> USE DEF IndInv
<1> DEFINE g == loc[r].row.gen
<1>0. pc[r] # "attemptUpdate" /\ pc'[r] # "requestUpsert" /\ otps' \subseteq otps
        /\ UNCHANGED <<lastOtp, wrong, uncounted>>
  BY Deleted DEF Deleting
<1>1. CASE UNCHANGED accepted
  BY <1>0, <1>1, CountKept
<1>2. CASE pc[r] = "deleteAccepted" /\ accepted' = [accepted EXCEPT ![g] = @ + 1]
  <2>1. loc[r].row \in otps /\ loc[r].row \notin otps' /\ g \in Gen
    <3>1. loc[r].row \in RowsOf(loc[r].phone)
      BY <1>2 DEF Current, CurrentOf
    <3>2. loc[r].row \in otps /\ loc[r].row.phone = loc[r].phone /\ g \in Gen
      BY <3>1 DEF RowsOf, TypeOK, Row
    <3>3. loc[r].row \notin otps'
      BY <3>1 DEF VerifyDelete
    <3> QED BY <3>2, <3>3
  <2>2. accepted[g] = 0
    BY <2>1 DEF Counted
  <2>3. accepted'[g] = 1 /\ \A n \in Gen \ {g} : accepted'[n] = accepted[n]
    BY <1>2, <2>1, <2>2 DEF TypeOK
  <2>4. \A n \in Gen : n > lastOtp' => wrong'[n] = 0 /\ accepted'[n] = 0
    <3>1. g <= lastOtp /\ lastOtp \in Nat
      BY <2>1 DEF Numbered, TypeOK
    <3>2. \A n \in Gen : n > lastOtp' => n # g /\ n > lastOtp
      BY <1>0, <2>1, <3>1 DEF Gen
    <3> QED BY <1>0, <2>3, <3>2 DEF Counted
  <2>5. ASSUME NEW q \in Requests, pc'[q] = "requestUpsert"
        PROVE  wrong'[loc'[q].row.gen] = 0 /\ accepted'[loc'[q].row.gen] = 0
    <3>1. q # r /\ pc[q] = "requestUpsert" /\ loc'[q] = loc[q]
      BY <2>5, <1>0, OthersKept
    <3>2. loc[q].row.gen # g /\ loc[q].row.gen \in Gen
      BY <3>1, <2>1 DEF OnItsWay, Carried, Row
    <3> QED BY <3>1, <3>2, <1>0, <2>3 DEF Counted
  <2>6. ASSUME NEW row \in otps' PROVE Tallied(row)' /\ accepted'[row.gen] = 0
    <3>1. row \in otps /\ row.gen # g /\ row.gen \in Gen
      BY <1>0, <2>1, <2>6 DEF Stored, TypeOK, Row
    <3>2. Pending(row) => Pending(row)'
      BY <1>0, PendingKept
    <3>3. accepted'[row.gen] = 0 /\ Tallied(row)
      BY <3>1, <2>3 DEF Counted
    <3> QED BY <1>0, <3>2, <3>3 DEF Tallied
  <2> QED BY <2>4, <2>5, <2>6, <2>3 DEF Counted
<1> QED BY <1>1, <1>2 DEF VerifyDelete, DeleteAnswer

\* The limits, as CountStep carries them on.
Limited ==
  \A n \in Gen : wrong[n] <= OTP_MAX_ATTEMPTS + uncounted[n] /\ accepted[n] <= 1

LEMMA CountStep ==
  ASSUME IndInv, TextInv, AloneInv, CountInv, [Next]_vars
  PROVE  CountInv'
<1>1. Allowed'
  BY AllowedStep DEF CountInv
<1>2. CASE UNCHANGED <<otps, lastOtp, pc, loc, tallies, overlapped>>
  BY <1>1, <1>2 DEF CountInv, Counted, Tallied, Pending, GuessLimit, AcceptedOnce
<1>3. ASSUME NEW r \in Requests, Handler(r), ~overlapped' PROVE Counted' /\ Limited'
  <2>1. ~overlapped /\ Alone /\ Current /\ Counted /\ Limited
    BY <1>3, PhoneKept DEF AloneInv, CountInv, GuessLimit, AcceptedOnce, Limited
  <2>2. CASE \E code \in Codes : RequestMake(r, code)
    BY <1>3, <2>1, <2>2, Made, MakeCounted DEF Limited
  <2>3. CASE RequestUpsert(r)
    BY <1>3, <2>1, <2>3, UpsertCounted DEF RequestUpsert, Limited
  <2>4. CASE AttemptUpdate(r)
    BY <1>3, <2>1, <2>4, AttemptCounted, Updated DEF Limited
  <2>5. CASE VerifyDelete(r)
    <3>1. /\ Counted' /\ UNCHANGED <<wrong, uncounted>>
          /\ \A n \in Gen : accepted'[n] = accepted[n] \/ accepted'[n] = 1
      BY <1>3, <2>1, <2>5, DeleteCounted, Deleted
    <3> QED BY <3>1, <2>1 DEF Limited
  <2>6. CASE /\ UNCHANGED <<otps, lastOtp, tallies>>
             /\ pc'[r] # "requestUpsert" /\ pc[r] # "attemptUpdate"
    BY <1>3, <2>1, <2>6, CountKept DEF Limited
  <2>7. CASE \/ \E p \in Phones, purpose \in Purposes : RequestRead(r, p, purpose)
             \/ RequestCooldown(r) \/ RequestUser(r) \/ RequestText(r)
             \/ \E p \in Phones, guess \in Codes : VerifyRead(r, p, guess)
    <3>1. /\ UNCHANGED <<otps, lastOtp, tallies>>
          /\ pc'[r] # "requestUpsert" /\ pc[r] # "attemptUpdate"
      BY <2>7 DEF RequestRead, RequestCooldown, RequestUser, RequestText, VerifyRead,
         Goto, Answer, Answers, IndInv, TypeOK
    <3> QED BY <3>1, <2>6
  <2>8. CASE VerifyCheck(r)
    <3>1. CASE pc'[r] = "attemptUpdate"
      <4>1. /\ Counted' /\ UNCHANGED <<uncounted, accepted, loc>>
            /\ \A n \in Gen \ {loc[r].row.gen} : wrong'[n] = wrong[n]
            /\ wrong'[loc[r].row.gen] <=
                 loc[r].row.attempts + uncounted[loc[r].row.gen] + 1
        BY <1>3, <2>1, <2>8, <3>1, CheckCounted DEF VerifyCheck
      <4>2. /\ loc[r].row.attempts \in Nat /\ loc[r].row.gen \in Gen
            /\ loc[r].row.attempts < OTP_MAX_ATTEMPTS /\ OTP_MAX_ATTEMPTS \in Nat
        BY <1>1, <2>1, <2>8, <3>1, <4>1, AloneWithRow, ConfigAssumption
           DEF VerifyCheck, Allowed, ConfigAssumption
      <4>3. uncounted[loc[r].row.gen] \in Nat /\ wrong'[loc[r].row.gen] \in Nat
        BY <4>2, <1>3, TalliesTyped, NextInv DEF Next, IndInv, TypeOK
      <4>4. wrong'[loc[r].row.gen] <= OTP_MAX_ATTEMPTS + uncounted[loc[r].row.gen]
        BY <4>1, <4>2, <4>3
      <4> QED BY <4>1, <4>4, <2>1 DEF Limited
    <3>2. CASE pc'[r] # "attemptUpdate"
      <4>1. /\ UNCHANGED <<otps, lastOtp, tallies>>
            /\ pc'[r] # "requestUpsert" /\ pc[r] # "attemptUpdate"
        BY <2>8, <3>2 DEF VerifyCheck, Verdict, Goto, IndInv, TypeOK
      <4> QED BY <4>1, <2>6
    <3> QED BY <3>1, <3>2
  <2>9. CASE Fail(r)
    <3>1. CASE pc[r] = "attemptUpdate"
      <4>1. /\ Counted' /\ UNCHANGED <<wrong, accepted>>
            /\ \A n \in Gen : uncounted'[n] >= uncounted[n] /\ uncounted'[n] \in Nat
        BY <1>3, <2>1, <2>9, <3>1, FailCounted
      <4>2. \A n \in Gen : wrong[n] \in Nat /\ uncounted[n] \in Nat
        BY TalliesTyped
      <4> QED BY <4>1, <4>2, <2>1, ConfigAssumption DEF Limited, ConfigAssumption
    <3>2. CASE pc[r] # "attemptUpdate"
      <4>1. UNCHANGED <<otps, lastOtp, tallies>> /\ pc'[r] # "requestUpsert"
        BY <2>9, <3>2 DEF Fail, Answer, IndInv, TypeOK
      <4> QED BY <3>2, <4>1, <2>6
    <3> QED BY <3>1, <3>2
  <2> QED BY <1>3, <2>2, <2>3, <2>4, <2>5, <2>7, <2>8, <2>9 DEF Handler
<1>4. ASSUME NEW r \in Requests, Handler(r) PROVE CountInv'
  BY <1>1, <1>3, <1>4 DEF CountInv, GuessLimit, AcceptedOnce, Limited
<1> QED BY <1>2, <1>4 DEF Next, vars, SmsSent, ProfileCreated, Tick

LEMMA CountInvariance == Spec => [](TextInv /\ AloneInv /\ CountInv)
<1>1. Init => TextInv /\ AloneInv
  BY DEF Init, TextInv, Keyed, Written, TextedWasStored, Verifying, Deleting,
     AloneInv, Alone, Current, CurrentOf, InFlight
<1>2. Init => CountInv
  BY ConfigAssumption DEF ConfigAssumption, Init, CountInv, Allowed, Counted,
     GuessLimit, AcceptedOnce
<1>3. IndInv /\ TextInv /\ AloneInv /\ CountInv /\ [Next]_vars
        => TextInv' /\ AloneInv' /\ CountInv'
  BY TextStep, AloneStep, CountStep
<1> QED BY <1>1, <1>2, <1>3, Invariance, PTL DEF Spec

\* No OTP has more than OTP_MAX_ATTEMPTS wrong codes compared with it, and one more
\* for each UPDATE of the attempts that failed, as long as no two requests of a
\* phone overlap and whatever else fails half way.
THEOREM GuessesLimited == Spec => []GuessLimit
<1>1. CountInv => GuessLimit
  BY DEF CountInv
<1> QED BY <1>1, CountInvariance, PTL

\* No OTP is accepted twice, as long as no two requests of a phone overlap.
THEOREM AcceptedAtMostOnce == Spec => []AcceptedOnce
<1>1. CountInv => AcceptedOnce
  BY DEF CountInv
<1> QED BY <1>1, CountInvariance, PTL

-----------------------------------------------------------------------------
(***************************************************************************)
(* The cooldown                                                            *)
(***************************************************************************)
\* Times and numbers of what was sent, or is about to be, lie in the past.
Timed ==
  /\ \A m \in texted : m.gen <= lastOtp
  /\ \A r \in Requests : pc[r] \in {"requestUpsert", "requestText"}
       => loc[r].row.createdAt <= clock

\* The message's cooldown is over by time t, or its OTP was spent.
Over(m, t) == m.gen \in spent \/ t >= m.at + OTP_COOLDOWN

\* The cooldown of a message is over unless the table still holds its row, whose
\* creation is the time of the message.
Cooled ==
  \A m \in texted :
    \/ Over(m, clock)
    \/ \E row \in otps : /\ row.phone = m.phone /\ row.gen = m.gen
                         /\ row.createdAt = m.at

\* A request past its cooldown check comes after the cooldown of every message
\* to its phone, and the OTP it has made is later than theirs.
SpacedOf(r) ==
  \A m \in texted : m.phone = loc[r].phone =>
    /\ pc[r] \in {"requestUser", "requestMake"} => Over(m, clock)
    /\ pc[r] \in {"requestUpsert", "requestText"}
         => m.gen < loc[r].row.gen /\ Over(m, loc[r].row.createdAt)

Spaced == \A r \in Requests : SpacedOf(r)

SpaceInv ==
  /\ Timed
  /\ ~overlapped => Cooled /\ Spaced
  /\ CooldownKept

\* What is over stays so, as time passes and OTPs are spent.
LEMMA OverKept ==
  ASSUME IndInv, NEW m \in Message, NEW t \in Int, NEW u \in Int, t <= u,
         spent \subseteq spent', Over(m, t)
  PROVE  Over(m, u)' /\ Over(m, u)
  BY ConfigAssumption DEF ConfigAssumption, Over, Message

LEMMA ClockStep ==
  ASSUME IndInv, [Next]_vars
  PROVE  clock \in Int /\ clock' \in Int /\ clock <= clock' /\ spent \subseteq spent'
<1>1. clock \in Int /\ clock' \in Int
  BY NextInv DEF IndInv, TypeOK
<1>2. UNCHANGED clock \/ clock' = clock + 1
  BY Made, Updated, Deleted DEF Next, vars, Handler, RequestRead, RequestCooldown,
     RequestUser, RequestUpsert, RequestText, VerifyRead, VerifyCheck, Fail, SmsSent,
     ProfileCreated, Tick
<1>3. spent \subseteq spent'
  BY Made, Updated, Deleted DEF Next, vars, Handler, RequestRead, RequestCooldown,
     RequestUser, RequestUpsert, RequestText, VerifyRead, VerifyCheck, Fail, SmsSent,
     ProfileCreated, Tick
<1> QED BY <1>1, <1>2, <1>3

\* A text message comes from RequestText.
LEMMA NewText ==
  ASSUME IndInv, [Next]_vars, NEW m \in texted', m \notin texted
  PROVE  \E r \in Requests : /\ RequestText(r) /\ Handler(r) /\ pc[r] = "requestText"
                             /\ m = Text(r) /\ UNCHANGED <<clock, tables, history>>
                             /\ pc'[r] = "sent"
<1>1. PICK r \in Requests : RequestText(r)
  BY Made, Updated, Deleted DEF Next, vars, Handler, RequestRead,
     RequestCooldown, RequestUser, RequestUpsert, VerifyRead, VerifyCheck, Fail,
     SmsSent, ProfileCreated, Tick
<1>2. m = Text(r) /\ pc[r] = "requestText" /\ UNCHANGED <<clock, tables, history>>
  BY <1>1 DEF RequestText
<1>3. pc'[r] = "sent"
  BY <1>1 DEF RequestText, Answer, IndInv, TypeOK
<1> QED BY <1>1, <1>2, <1>3 DEF Handler

LEMMA TimedStep == ASSUME IndInv, Timed, [Next]_vars PROVE Timed'
<1>1. /\ clock \in Int /\ clock' \in Int /\ clock <= clock'
      /\ lastOtp \in Int /\ texted \subseteq Message /\ texted' \subseteq Message
  BY ClockStep, NextInv DEF IndInv, TypeOK
<1>2. lastOtp <= lastOtp' /\ lastOtp' \in Int
  <2>1. UNCHANGED lastOtp \/ lastOtp' = lastOtp + 1
    BY Made, Updated, Deleted DEF Next, vars, Handler, RequestRead, RequestCooldown,
       RequestUser, RequestUpsert, RequestText, VerifyRead, VerifyCheck, Fail, SmsSent,
       ProfileCreated, Tick
  <2> QED BY <1>1, <2>1
<1>3. ASSUME NEW m \in texted' PROVE m.gen <= lastOtp'
  <2>1. m.gen \in Int
    BY <1>1, <1>3 DEF Message, Gen
  <2>2. CASE m \in texted
    BY <2>1, <2>2, <1>1, <1>2 DEF Timed
  <2>3. CASE m \notin texted
    <3>1. PICK r \in Requests : pc[r] = "requestText" /\ m = Text(r)
      BY <2>3, NewText
    <3>2. m.gen <= lastOtp
      BY <3>1 DEF Text, IndInv, Numbered
    <3> QED BY <2>1, <3>2, <1>1, <1>2
  <2> QED BY <2>2, <2>3
<1>4. ASSUME NEW q \in Requests, pc'[q] \in {"requestUpsert", "requestText"}
      PROVE  loc'[q].row.createdAt <= clock'
  <2>1. CASE pc[q] \in {"requestUpsert", "requestText"} /\ loc'[q] = loc[q]
    <3>1. loc[q].row.createdAt \in Int
      BY <2>1 DEF IndInv, Carried, Row
    <3> QED BY <2>1, <3>1, <1>1 DEF Timed
  <2>2. CASE UNCHANGED <<pc, loc>>
    BY <1>4, <2>1, <2>2
  <2>3. ASSUME NEW r \in Requests, Handler(r), q # r PROVE loc'[q].row.createdAt <= clock'
    BY <1>4, <2>1, <2>3, OthersKept
  <2>4. CASE Handler(q)
    <3>1. CASE \E code \in Codes : RequestMake(q, code)
      BY <3>1, <1>1, Made
    <3>2. CASE RequestUpsert(q)
      BY <3>2, <2>1 DEF RequestUpsert
    <3>3. CASE ~RequestUpsert(q) /\ ~ \E code \in Codes : RequestMake(q, code)
      BY <1>4, <2>4, <3>3, Updated, Deleted DEF Handler, RequestRead, RequestCooldown,
         RequestUser, RequestText, VerifyRead, VerifyCheck, Verdict, Fail, Goto, Answer,
         Answers, IndInv, TypeOK
    <3> QED BY <3>1, <3>2, <3>3
  <2> QED BY <2>2, <2>3, <2>4 DEF Next, vars, SmsSent, ProfileCreated, Tick
<1> QED BY <1>3, <1>4 DEF Timed

\* A message is covered by its row, or its cooldown is over.
LEMMA CooledStep ==
  ASSUME IndInv, TextInv, Alone, Current, Timed, Cooled, Spaced, [Next]_vars
  PROVE  Cooled'
<1>t. texted \subseteq Message /\ texted' \subseteq Message
  BY NextInv DEF IndInv, TypeOK
<1>1. SUFFICES ASSUME NEW m \in texted'
               PROVE  \/ Over(m, clock)'
                      \/ \E row \in otps' : /\ row.phone = m.phone /\ row.gen = m.gen
                                            /\ row.createdAt = m.at
  BY DEF Cooled
<1>2. CASE m \notin texted
  <2>1. PICK r \in Requests : /\ pc[r] = "requestText" /\ m = Text(r)
                              /\ UNCHANGED tables
    BY <1>2, NewText
  <2>2. loc[r].row \in otps /\ loc[r].row.phone = loc[r].phone
    BY <2>1 DEF Current, CurrentOf, RowsOf
  <2> QED BY <2>1, <2>2 DEF Text
<1>3. CASE m \in texted /\ Over(m, clock)
  BY <1>3, <1>t, OverKept, ClockStep
<1>4. ASSUME m \in texted, NEW row \in otps,
             row.phone = m.phone, row.gen = m.gen, row.createdAt = m.at
      PROVE  \/ Over(m, clock)'
             \/ \E new \in otps' : /\ new.phone = m.phone /\ new.gen = m.gen
                                   /\ new.createdAt = m.at
  <2>1. CASE UNCHANGED otps
    BY <1>4, <2>1
  <2>2. ASSUME NEW r \in Requests, RequestUpsert(r)
        PROVE  row \in otps' \/ Over(m, clock)'
    <3>1. CASE row.phone # loc[r].phone
      BY <2>2, <3>1 DEF RequestUpsert, RowsOf
    <3>2. CASE row.phone = loc[r].phone
      <4>1. /\ pc[r] = "requestUpsert" /\ UNCHANGED <<clock, spent>>
            /\ Over(m, loc[r].row.createdAt)
        BY <2>2, <3>2, <1>4 DEF RequestUpsert, Spaced, SpacedOf
      <4>2. /\ loc[r].row.createdAt <= clock /\ loc[r].row.createdAt \in Int
            /\ clock \in Int
        BY <4>1 DEF Timed, IndInv, TypeOK, Carried, Row
      <4>3. Over(m, clock)
        BY <4>1, <4>2, <1>t, <1>4, OverKept
      <4> QED BY <4>1, <4>3 DEF Over
    <3> QED BY <3>1, <3>2
  <2>3. CASE \E r \in Requests : AttemptUpdate(r)
    BY <1>4, <2>3, Updated
  <2>4. CASE \E r \in Requests : VerifyDelete(r)
    BY <1>4, <2>4, Deleted DEF Over
  <2> QED
    BY <1>4, <2>1, <2>2, <2>3, <2>4 DEF Next, Handler, vars, RequestRead, RequestCooldown,
       RequestUser, RequestMake, RequestText, VerifyRead, VerifyCheck, Fail, SmsSent,
       ProfileCreated, Tick
<1> QED BY <1>2, <1>3, <1>4 DEF Cooled

\* A request in its own steps: the cooldown check is what makes it Spaced.
LEMMA SpacedOwn ==
  ASSUME IndInv, TextInv, Alone, Current, Timed, Cooled, Spaced,
         NEW r \in Requests, Handler(r), UNCHANGED texted
  PROVE  SpacedOf(r)'
<1> USE DEF SpacedOf
<1>t. /\ pc \in [Requests -> Answers \union InFlight] /\ loc \in [Requests -> Locals]
      /\ texted \subseteq Message /\ clock \in Int /\ otps \subseteq Row
  BY DEF IndInv, TypeOK
<1>0. CASE pc'[r] \notin {"requestUser", "requestMake", "requestUpsert", "requestText"}
  BY <1>0
<1>1. CASE RequestCooldown(r)
  <2>1. CASE Answer(r, "limited")
    BY <2>1, <1>0, <1>t DEF Answer
  <2>2. CASE ~RecentlyRequested(loc[r].row) /\ Goto(r, "requestUser") /\ UNCHANGED loc
    <3>1. /\ pc[r] = "requestCooldown" /\ pc'[r] = "requestUser"
          /\ UNCHANGED <<clock, spent, loc>>
      BY <1>1, <2>2, <1>t DEF RequestCooldown, Goto
    <3>2. ASSUME NEW m \in texted, m.phone = loc[r].phone PROVE Over(m, clock)
      <4>1. ASSUME NEW row \in otps, row.phone = m.phone, row.createdAt = m.at
            PROVE  Over(m, clock)
        <5>1. row \in RowsOf(loc[r].phone)
          BY <3>2, <4>1 DEF RowsOf
        <5>2. loc[r].row \in RowsOf(loc[r].phone)
          BY <3>1, <5>1 DEF Current, CurrentOf
        <5>3. loc[r].row = row
          BY <5>1, <5>2 DEF RowsOf, TextInv, Keyed
        <5>4. row # NoRow /\ row.createdAt \in Int
          BY <1>t DEF Row, NoRow, Gen
        <5> QED
          BY <2>2, <4>1, <5>3, <5>4, <1>t, ConfigAssumption
             DEF RecentlyRequested, Over, ConfigAssumption
      <4> QED BY <4>1 DEF Cooled
    <3> QED BY <3>1, <3>2 DEF Over
  <2> QED BY <1>1, <2>1, <2>2 DEF RequestCooldown
<1>2. CASE RequestUser(r)
  <2>1. CASE Answer(r, "skipped") \/ Answer(r, "userExists")
    BY <2>1, <1>0, <1>t DEF Answer
  <2>2. CASE Goto(r, "requestMake") /\ UNCHANGED loc
    <3>1. /\ pc[r] = "requestUser" /\ pc'[r] = "requestMake"
          /\ UNCHANGED <<clock, spent, loc>>
      BY <1>2, <2>2, <1>t DEF RequestUser, Goto
    <3> QED BY <3>1 DEF Spaced, Over
  <2> QED BY <1>2, <2>1, <2>2 DEF RequestUser
<1>3. CASE \E code \in Codes : RequestMake(r, code)
  <2>1. /\ pc[r] = "requestMake" /\ pc'[r] = "requestUpsert"
        /\ loc'[r].phone = loc[r].phone /\ loc'[r].row.gen = lastOtp + 1
        /\ loc'[r].row.createdAt = clock /\ UNCHANGED spent
    BY <1>3, Made
  <2>2. ASSUME NEW m \in texted PROVE m.gen < lastOtp + 1
    <3>1. m.gen \in Int /\ lastOtp \in Int /\ m.gen <= lastOtp
      BY <1>t, <2>2 DEF Message, Gen, IndInv, TypeOK, Timed
    <3> QED BY <3>1
  <2> QED BY <2>1, <2>2 DEF Spaced, Over
<1>4. CASE RequestUpsert(r)
  <2>1. /\ pc[r] = "requestUpsert" /\ pc'[r] = "requestText"
        /\ UNCHANGED <<loc, spent>>
    BY <1>4, <1>t DEF RequestUpsert, Goto
  <2> QED BY <2>1 DEF Spaced, Over
<1>5. CASE AttemptUpdate(r) \/ VerifyDelete(r)
  BY <1>5, <1>0, Updated, Deleted
<1>6. CASE \/ \E p \in Phones, purpose \in Purposes : RequestRead(r, p, purpose)
           \/ RequestText(r)
           \/ \E p \in Phones, guess \in Codes : VerifyRead(r, p, guess)
           \/ VerifyCheck(r) \/ Fail(r)
  <2>1. pc'[r] \notin {"requestUser", "requestMake", "requestUpsert", "requestText"}
    BY <1>6, <1>t DEF RequestRead, RequestText, VerifyRead, VerifyCheck, Verdict, Fail,
       Goto, Answer
  <2> QED BY <2>1, <1>0
<1> QED BY <1>1, <1>2, <1>3, <1>4, <1>5, <1>6 DEF Handler

LEMMA SpacedStep ==
  ASSUME IndInv, TextInv, Alone, Current, Timed, Cooled, Spaced, [Next]_vars
  PROVE  Spaced'
<1>t. /\ texted \subseteq Message /\ clock \in Int /\ clock' \in Int
      /\ clock <= clock' /\ spent \subseteq spent'
  BY ClockStep DEF IndInv, TypeOK
<1>1. ASSUME NEW q \in Requests, UNCHANGED <<pc[q], loc[q]>>,
             NEW m \in texted, m.phone = loc'[q].phone
      PROVE  /\ pc'[q] \in {"requestUser", "requestMake"} => Over(m, clock)'
             /\ pc'[q] \in {"requestUpsert", "requestText"}
                  => m.gen < loc'[q].row.gen /\ Over(m, loc[q].row.createdAt)'
  <2>1. CASE pc[q] \in {"requestUser", "requestMake"}
    <3>1. Over(m, clock)
      BY <1>1, <2>1 DEF Spaced, SpacedOf
    <3>2. \/ m.gen \in spent'
          \/ clock >= m.at + OTP_COOLDOWN /\ m.at \in Int /\ OTP_COOLDOWN \in Int
      BY <3>1, <1>t, ConfigAssumption DEF Over, Message, ConfigAssumption
    <3> QED BY <1>1, <2>1, <3>2, <1>t DEF Over
  <2>2. CASE pc[q] \in {"requestUpsert", "requestText"}
    BY <1>1, <2>2, <1>t DEF Spaced, SpacedOf, Over
  <2> QED BY <1>1, <2>1, <2>2
<1>2. CASE UNCHANGED <<pc, loc, texted>>
  BY <1>1, <1>2 DEF Spaced, SpacedOf
<1>3. ASSUME NEW r \in Requests, Handler(r), UNCHANGED texted PROVE Spaced'
  <2>1. SpacedOf(r)'
    BY <1>3, SpacedOwn
  <2>2. \A q \in Requests \ {r} : SpacedOf(q)'
    BY <1>1, <1>3, OthersKept DEF SpacedOf
  <2> QED BY <2>1, <2>2 DEF Spaced
<1>4. ASSUME NEW r \in Requests, RequestText(r) PROVE Spaced'
  <2>1. /\ pc[r] = "requestText" /\ pc'[r] = "sent"
        /\ texted' = texted \union {Text(r)} /\ Handler(r)
    BY <1>4 DEF RequestText, Answer, IndInv, TypeOK, Handler
  <2>2. SpacedOf(r)'
    BY <2>1 DEF SpacedOf
  <2>3. ASSUME NEW q \in Requests \ {r} PROVE SpacedOf(q)'
    <3>1. UNCHANGED <<pc[q], loc[q]>>
      BY <2>1, OthersKept
    <3>2. pc[q] \in {"requestUser", "requestMake", "requestUpsert", "requestText"}
            => loc[q].phone # Text(r).phone
      BY <2>1 DEF Alone, InFlight, Text
    <3> QED BY <1>1, <2>1, <3>1, <3>2 DEF SpacedOf
  <2> QED BY <2>2, <2>3 DEF Spaced
<1>5. UNCHANGED texted \/ \E r \in Requests : RequestText(r)
  BY Made, Updated, Deleted DEF Next, vars, Handler, RequestRead,
     RequestCooldown, RequestUser, RequestUpsert, VerifyRead, VerifyCheck, Fail,
     SmsSent, ProfileCreated, Tick
<1> QED
  BY <1>2, <1>3, <1>4, <1>5 DEF Next, vars, SmsSent, ProfileCreated, Tick

LEMMA SpaceStep ==
  ASSUME IndInv, TextInv, AloneInv, SpaceInv, [Next]_vars
  PROVE  SpaceInv'
<1>1. Timed'
  BY TimedStep DEF SpaceInv
<1>2. ~overlapped' => ~overlapped
  <2>1. CASE UNCHANGED overlapped
    BY <2>1
  <2>2. CASE \E r \in Requests : Handler(r)
    BY <2>2, PhoneKept
  <2> QED BY <2>1, <2>2 DEF Next, vars, SmsSent, ProfileCreated, Tick
<1>3. ~overlapped' => Cooled' /\ Spaced'
  BY <1>2, CooledStep, SpacedStep DEF AloneInv, SpaceInv
<1>4. ASSUME ~overlapped', NEW m1 \in texted', NEW m2 \in texted',
             m1.phone = m2.phone, m1.gen < m2.gen, m1.gen \notin spent'
      PROVE  m2.at >= m1.at + OTP_COOLDOWN
  <2>1. ~overlapped /\ Spaced /\ spent \subseteq spent'
    BY <1>2, <1>4, ClockStep DEF SpaceInv
  <2>2. CASE m1 \in texted /\ m2 \in texted
    BY <1>4, <2>1, <2>2 DEF SpaceInv, CooldownKept
  <2>3. CASE m2 \notin texted /\ m1 \in texted
    <3>1. PICK r \in Requests : pc[r] = "requestText" /\ m2 = Text(r)
      BY <2>3, NewText
    <3> QED BY <1>4, <2>1, <2>3, <3>1 DEF Text, Spaced, SpacedOf, Over
  <2>4. CASE m1 \notin texted /\ m2 \in texted
    <3>1. PICK r \in Requests : pc[r] = "requestText" /\ m1 = Text(r)
      BY <2>4, NewText
    <3>2. m2.gen < m1.gen
      BY <1>4, <2>1, <2>4, <3>1 DEF Text, Spaced, SpacedOf
    <3>3. m1.gen \in Int /\ m2.gen \in Int
      BY <1>4, NextInv DEF IndInv, TypeOK, Message, Gen
    <3> QED BY <1>4, <3>2, <3>3
  <2>5. CASE m1 \notin texted /\ m2 \notin texted
    <3>1. \A m \in texted' \ texted : \E r \in Requests :
            RequestText(r) /\ texted' = texted \union {Text(r)}
      BY NewText DEF RequestText
    <3>2. m1 = m2
      BY <1>4, <2>5, <3>1
    <3>3. m1.gen \in Int /\ m2.gen \in Int
      BY <1>4, NextInv DEF IndInv, TypeOK, Message, Gen
    <3> QED BY <1>4, <3>2, <3>3
  <2> QED BY <2>2, <2>3, <2>4, <2>5
<1> QED BY <1>1, <1>3, <1>4 DEF SpaceInv, CooldownKept

\* The texts to a phone keep the cooldown, unless the earlier code was spent or
\* two requests of a phone have overlapped.
THEOREM CooldownIsKept == Spec => []CooldownKept
<1>1. Init => SpaceInv
  BY DEF Init, SpaceInv, Timed, Cooled, Spaced, SpacedOf, CooldownKept
<1>2. IndInv /\ TextInv /\ AloneInv /\ SpaceInv /\ [Next]_vars => SpaceInv'
  BY SpaceStep
<1>3. SpaceInv => CooldownKept
  BY DEF SpaceInv
<1> QED BY <1>1, <1>2, <1>3, Invariance, CountInvariance, PTL DEF Spec

=============================================================================
