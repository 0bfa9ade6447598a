---------------------------- MODULE AccountsProofs ----------------------------
(***************************************************************************)
(* Theorems about Accounts, for any number of requests, phones, subjects,  *)
(* e-mails and accounts, and any number of failures.                       *)
(***************************************************************************)
EXTENDS Accounts, TLAPS

-----------------------------------------------------------------------------
(***************************************************************************)
(* The inductive invariant.                                                *)
(***************************************************************************)
\* Ids are given out once: those in use are among the first lastId.
IdsGivenOut ==
  /\ \A id \in AuthIds \union cleanups : id <= lastId
  /\ \A r \in Requests : loc[r].authId <= lastId

\* What a request carries.
Carried ==
  \A r \in Requests :
    /\ pc[r] \in {"readEmail", "insertAuth"} => loc[r].who \in Identity
    /\ pc[r] \in {"readUser", "insertUser", "issue", "reply"}
         => loc[r].authId \in Id

\* A sign-up between its two INSERTs owns its auth row: the row is there, has no
\* profile, is not to be deleted, and is no other sign-up's.
Owned ==
  \A r \in Requests : pc[r] = "insertUser" =>
    /\ loc[r].authId \in AuthIds
    /\ loc[r].authId \notin users \union cleanups
    /\ \A q \in Requests \ {r} :
         pc[q] = "insertUser" => loc[q].authId # loc[r].authId

\* Tokens are only issued for a complete account, or one that is gone.
Complete ==
  \A r \in Requests : pc[r] = "issue" /\ loc[r].authId \in AuthIds
    => loc[r].authId \in users

\* Unless something was lost, what is to be deleted has no profile.
CleanupsIncomplete == lost = 0 => cleanups \intersect users = {}

\* An id is of one row.
IdsOnce == \A row1, row2 \in auth : row1.id = row2.id => row1 = row2

\* The row is of the identity.
IsOf(row, who) ==
  row.who.provider = who.provider /\ row.who.identifier = who.identifier

\* The account a request has read or inserted is of the request's identity, if
\* it is still there.
OwnAccount ==
  \A r \in Requests : pc[r] \in {"readUser", "insertUser", "issue", "reply"} =>
    \A row \in auth : row.id = loc[r].authId => IsOf(row, loc[r].who)

\* Unless something was lost, whoever is about to be answered is signed in.
SignedIn ==
  \A r \in Requests : pc[r] = "reply" /\ lost = 0 => loc[r].authId \in sessions

IndInv ==
  /\ TypeOK
  /\ IdsGivenOut
  /\ Carried
  /\ Owned
  /\ Complete
  /\ CleanupsIncomplete
  /\ SessionHasProfile
  /\ IdsOnce
  /\ OwnAccount
  /\ SignedIn
  /\ OrphanAccountedFor

-----------------------------------------------------------------------------
(***************************************************************************)
(* The steps                                                               *)
(***************************************************************************)
\* What a step of request r leaves of the other requests, with the type of what
\* it does to its own.
LocalStep(r) ==
  /\ \A q \in Requests \ {r} : pc'[q] = pc[q] /\ loc'[q] = loc[q]
  /\ pc' \in [Requests -> Answers \union InFlight]
  /\ loc' \in [Requests -> Locals]

LEMMA AnswerLocal ==
  ASSUME TypeOK, NEW r \in Requests, NEW a \in Answers, Answer(r, a)
  PROVE  LocalStep(r) /\ pc'[r] = a /\ loc'[r].authId = 0
<1>1. NoLocals \in Locals /\ NoLocals.authId = 0
  BY DEF NoLocals, Locals
<1> QED BY <1>1 DEF Answer, LocalStep, TypeOK

LEMMA GotoLocal ==
  ASSUME TypeOK, NEW r \in Requests, NEW s \in InFlight, NEW l \in Locals,
         Goto(r, s, l)
  PROVE  LocalStep(r) /\ pc'[r] = s /\ loc'[r] = l
BY DEF Goto, LocalStep, TypeOK

\* Request r moves on, but not to or from "insertUser"; the tables stay.
LEMMA QuietStep ==
  ASSUME IndInv, NEW r \in Requests, LocalStep(r),
         pc[r] # "insertUser", pc'[r] # "insertUser",
         pc'[r] \in {"readEmail", "insertAuth"} => loc'[r].who \in Identity,
         pc'[r] \in {"readUser", "issue"} => loc'[r].authId \in Id,
         pc'[r] = "issue" => loc'[r].authId \in users,
         pc'[r] \in {"readUser", "issue"}
           => \A row \in auth : row.id = loc'[r].authId
                                  => IsOf(row, loc'[r].who),
         pc'[r] # "reply",
         loc'[r].authId <= lastId,
         welcomed' \subseteq Id,
         UNCHANGED <<auth, users, sessions, lastId, cleanups, lost>>
  PROVE  IndInv'
<1> USE DEF IndInv
<1>1. TypeOK'
  BY DEF TypeOK, LocalStep
<1>2. IdsGivenOut' /\ Carried'
  BY DEF IdsGivenOut, Carried, LocalStep, AuthIds
<1>3. Owned' /\ Complete'
  BY DEF Owned, Complete, LocalStep, AuthIds
<1>4. CleanupsIncomplete' /\ SessionHasProfile' /\ IdsOnce'
  BY DEF CleanupsIncomplete, SessionHasProfile, IdsOnce, AuthIds
<1>5. OrphanAccountedFor'
  BY DEF OrphanAccountedFor, LocalStep, AuthIds
<1>6. OwnAccount' /\ SignedIn'
  BY DEF OwnAccount, SignedIn, LocalStep, IsOf
<1> QED BY <1>1, <1>2, <1>3, <1>4, <1>5, <1>6

\* An answer that changes no table.
LEMMA QuietAnswer ==
  ASSUME IndInv, NEW r \in Requests, NEW a \in Answers, Answer(r, a),
         pc[r] # "insertUser", welcomed' \subseteq Id,
         UNCHANGED <<auth, users, sessions, lastId, cleanups, lost>>
  PROVE  IndInv'
<1>1. LocalStep(r) /\ pc'[r] = a /\ loc'[r].authId = 0
  BY AnswerLocal DEF IndInv
<1>2. a \notin InFlight /\ 0 <= lastId
  BY DEF Answers, InFlight, IndInv, TypeOK
<1> QED BY <1>1, <1>2, QuietStep DEF InFlight

\* The Worker is killed, or a lost answer taken for a failure: whatever the
\* tables hold is left, and lost is positive from then on.
LEMMA KilledStep ==
  ASSUME IndInv, NEW r \in Requests, Killed(r)
  PROVE  IndInv'
<1> USE DEF IndInv
<1>1. LocalStep(r) /\ pc'[r] = "error" /\ loc'[r].authId = 0
  BY AnswerLocal DEF Killed, Answers
<1>2. lost' # 0 /\ lost' \in 0 .. MaxLost
  BY BoundAssumption DEF BoundAssumption, Killed, TypeOK
<1>3. UNCHANGED <<auth, users, sessions, lastId, cleanups, welcomed>>
  BY DEF Killed
<1>4. TypeOK'
  BY <1>1, <1>2, <1>3 DEF TypeOK, LocalStep
<1>5. IdsGivenOut' /\ Carried'
  BY <1>1, <1>3 DEF IdsGivenOut, Carried, LocalStep, AuthIds, TypeOK
<1>6. Owned' /\ Complete'
  BY <1>1, <1>3 DEF Owned, Complete, LocalStep, AuthIds
<1>7. SessionHasProfile' /\ IdsOnce'
  BY <1>3 DEF SessionHasProfile, IdsOnce, AuthIds
<1>8. CleanupsIncomplete' /\ OrphanAccountedFor' /\ SignedIn'
  BY <1>2 DEF CleanupsIncomplete, OrphanAccountedFor, SignedIn
<1>9. OwnAccount'
  BY <1>1, <1>3 DEF OwnAccount, LocalStep, IsOf
<1> QED BY <1>4, <1>5, <1>6, <1>7, <1>8, <1>9

LEMMA FindAuthStep ==
  ASSUME IndInv, NEW r \in Requests, NEW who \in Identity,
         NEW flow \in FlowsOf(who), FindAuth(r, who, flow)
  PROVE  IndInv'
<1> USE DEF IndInv
<1> DEFINE l == [flow |-> flow, who |-> who, authId |-> 0, created |-> FALSE]
<1>1. /\ pc[r] # "insertUser" /\ flow \in Flows
      /\ UNCHANGED <<auth, users, sessions, lastId, cleanups, welcomed, lost>>
  BY DEF FindAuth, Answers, FlowsOf, Flows
<1>2. l \in Locals
  BY <1>1 DEF Locals
<1>3. 0 <= lastId /\ welcomed' \subseteq Id
  BY <1>1 DEF TypeOK
<1>4. ASSUME NEW row \in RowsFor(who),
             Goto(r, "readUser", [l EXCEPT !.authId = row.id])
      PROVE  IndInv'
  <2>1. row \in auth /\ row.id \in Id /\ row.id \in AuthIds
    BY DEF RowsFor, TypeOK, Row, AuthIds
  <2>2. [l EXCEPT !.authId = row.id] \in Locals
    BY <1>1, <2>1 DEF Locals
  <2>3. row.id <= lastId
    BY <2>1 DEF IdsGivenOut
  <2>4. /\ LocalStep(r) /\ pc'[r] = "readUser"
        /\ loc'[r].authId = row.id /\ loc'[r].who = who
    BY <1>4, <2>2, GotoLocal DEF InFlight
  <2>5. \A row2 \in auth : row2.id = row.id => IsOf(row2, who)
    BY <2>1 DEF RowsFor, IsOf, IdsOnce
  <2> QED BY <1>1, <1>3, <2>1, <2>3, <2>4, <2>5, QuietStep
<1>5. CASE Answer(r, "userNotFound")
  BY <1>1, <1>3, <1>5, QuietAnswer DEF Answers
<1>6. ASSUME NEW s \in {"insertAuth", "readEmail"}, Goto(r, s, l) PROVE IndInv'
  <2>1. LocalStep(r) /\ pc'[r] = s /\ loc'[r] = l
    BY <1>2, <1>6, GotoLocal DEF InFlight
  <2> QED BY <1>1, <1>3, <2>1, QuietStep
<1> QED BY <1>4, <1>5, <1>6 DEF FindAuth

\* A step on to a later statement with the same locals.
LEMMA GoOnStep ==
  ASSUME IndInv, NEW r \in Requests, NEW s \in {"issue", "insertAuth"},
         Goto(r, s, loc[r]),
         \/ s = "issue" /\ pc[r] = "readUser" /\ loc[r].authId \in users
         \/ s = "insertAuth" /\ pc[r] = "readEmail",
         UNCHANGED <<auth, users, sessions, lastId, cleanups, welcomed, lost>>
  PROVE  IndInv'
<1> USE DEF IndInv
<1>1. loc[r] \in Locals /\ loc[r].authId <= lastId
  BY DEF TypeOK, IdsGivenOut
<1>2. LocalStep(r) /\ pc'[r] = s /\ loc'[r] = loc[r]
  BY <1>1, GotoLocal DEF InFlight
<1>3. welcomed' \subseteq Id
  BY DEF TypeOK
<1>4. pc[r] = "readUser"
        => \A row \in auth : row.id = loc[r].authId => IsOf(row, loc[r].who)
  BY DEF OwnAccount
<1> QED BY <1>1, <1>2, <1>3, <1>4, QuietStep DEF Carried

LEMMA InsertAuthStep ==
  ASSUME IndInv, NEW r \in Requests, InsertAuth(r)
  PROVE  IndInv'
<1> USE BoundAssumption DEF BoundAssumption, IndInv
<1>1. CASE Answer(r, "duplicate") /\ UNCHANGED <<auth, lastId>>
  BY <1>1, QuietAnswer DEF InsertAuth, Answers, TypeOK
<1>2. CASE /\ ~Taken(loc[r].who)
           /\ lastId < MaxIds
           /\ lastId' = lastId + 1
           /\ auth' = auth \union {[id |-> lastId + 1, who |-> loc[r].who]}
           /\ Goto(r, "insertUser", [loc[r] EXCEPT !.authId = lastId + 1])
  <2> DEFINE new == [id |-> lastId + 1, who |-> loc[r].who]
             l == [loc[r] EXCEPT !.authId = lastId + 1]
  <2>1. /\ pc[r] = "insertAuth" /\ loc[r].who \in Identity
        /\ UNCHANGED <<users, sessions, cleanups, welcomed, lost>>
    BY DEF InsertAuth, Carried
  <2>2. /\ lastId \in Nat /\ lastId + 1 \in Id /\ lastId + 1 \in 0 .. MaxIds
        /\ \A id \in Id : id \in Int
    BY <1>2 DEF TypeOK, Id
  <2>3. new \in Row
    BY <2>1, <2>2 DEF Row
  <2>4. l \in Locals /\ l.authId = lastId + 1
    BY <2>2 DEF TypeOK, Locals
  <2>5. /\ LocalStep(r) /\ pc'[r] = "insertUser"
        /\ loc'[r].authId = lastId + 1 /\ loc'[r].who = loc[r].who
    BY <1>2, <2>4, GotoLocal DEF InFlight, TypeOK, Locals
  <2>6. AuthIds' = AuthIds \union {lastId + 1}
    <3>1. new.id = lastId + 1 /\ auth' = auth \union {new}
      BY <1>2
    <3> HIDE DEF new
    <3> QED BY <3>1 DEF AuthIds
  <2>7. /\ AuthIds \subseteq Id /\ cleanups \subseteq Id /\ users \subseteq Id
        /\ \A q \in Requests : loc[q].authId \in Id \union {0}
    BY DEF TypeOK, AuthIds, Row, Locals
  <2>8. /\ lastId + 1 \notin AuthIds \union cleanups \union users
        /\ \A q \in Requests : loc[q].authId # lastId + 1
    BY <2>2, <2>7 DEF IdsGivenOut, SessionHasProfile
  <2>9. TypeOK'
    BY <1>2, <2>1, <2>2, <2>3, <2>5 DEF TypeOK, LocalStep
  <2>10. IdsGivenOut'
    BY <1>2, <2>1, <2>2, <2>5, <2>6, <2>7 DEF IdsGivenOut, LocalStep
  <2>11. Carried'
    BY <2>2, <2>5 DEF Carried, LocalStep
  <2>12. Owned'
    BY <2>1, <2>5, <2>6, <2>8 DEF Owned, LocalStep
  <2>13. Complete'
    BY <2>1, <2>5, <2>6, <2>8 DEF Complete, LocalStep
  <2>14. CleanupsIncomplete' /\ SessionHasProfile'
    BY <2>1, <2>6 DEF CleanupsIncomplete, SessionHasProfile
  <2>15. /\ \A row \in auth : row.id # lastId + 1
         /\ \A row \in auth' : row \in auth \/ row = new
         /\ new.id = lastId + 1 /\ IsOf(new, loc[r].who)
    BY <1>2, <2>8 DEF AuthIds, IsOf
  <2>16. OrphanAccountedFor'
    BY <2>1, <2>5, <2>6 DEF OrphanAccountedFor, LocalStep
  <2>17. IdsOnce' /\ OwnAccount' /\ SignedIn'
    <3> HIDE DEF new
    <3>1. IdsOnce'
      BY <2>15 DEF IdsOnce
    <3>2. OwnAccount'
      <4> SUFFICES ASSUME NEW q \in Requests,
                          pc'[q] \in {"readUser", "insertUser", "issue", "reply"},
                          NEW row \in auth', row.id = loc'[q].authId
                   PROVE  IsOf(row, loc'[q].who)
        BY DEF OwnAccount, IsOf
      <4>1. CASE q = r
        BY <2>5, <2>15, <4>1
      <4>2. CASE q # r
        <5>1. pc'[q] = pc[q] /\ loc'[q] = loc[q] /\ row \in auth
          BY <2>5, <2>8, <2>15, <4>2 DEF LocalStep
        <5> QED BY <5>1 DEF OwnAccount
      <4> QED BY <4>1, <4>2
    <3>3. SignedIn'
      BY <2>1, <2>5 DEF SignedIn, LocalStep
    <3> QED BY <3>1, <3>2, <3>3
  <2> QED
    BY <2>9, <2>10, <2>11, <2>12, <2>13, <2>14, <2>16, <2>17
<1> QED BY <1>1, <1>2 DEF InsertAuth

LEMMA InsertUserStep ==
  ASSUME IndInv, NEW r \in Requests, InsertUser(r)
  PROVE  IndInv'
<1> USE DEF IndInv
<1> DEFINE l == [loc[r] EXCEPT !.created = TRUE]
<1>1. /\ pc[r] = "insertUser" /\ users' = users \union {loc[r].authId}
      /\ loc[r].authId \in Id
      /\ UNCHANGED <<auth, sessions, lastId, cleanups, welcomed, lost>>
  BY DEF InsertUser, Carried
<1>2. l \in Locals /\ l.authId = loc[r].authId /\ l.who = loc[r].who
  BY DEF TypeOK, Locals
<1>3. /\ LocalStep(r) /\ pc'[r] = "issue"
      /\ loc'[r].authId = loc[r].authId /\ loc'[r].who = loc[r].who
  BY <1>2, GotoLocal DEF InsertUser, InFlight
<1>4. TypeOK'
  BY <1>1, <1>3 DEF TypeOK, LocalStep
<1>5. IdsGivenOut' /\ Carried'
  BY <1>1, <1>3 DEF IdsGivenOut, Carried, LocalStep, AuthIds
<1>6. Owned' /\ Complete'
  BY <1>1, <1>3 DEF Owned, Complete, LocalStep, AuthIds
<1>7. CleanupsIncomplete' /\ SessionHasProfile' /\ IdsOnce'
  BY <1>1 DEF CleanupsIncomplete, SessionHasProfile, IdsOnce, AuthIds, Owned
<1>8. OrphanAccountedFor'
  BY <1>1, <1>3 DEF OrphanAccountedFor, LocalStep, AuthIds
<1>9. OwnAccount' /\ SignedIn'
  BY <1>1, <1>3 DEF OwnAccount, SignedIn, LocalStep, IsOf
<1> QED BY <1>4, <1>5, <1>6, <1>7, <1>8, <1>9

\* The insertion of the profile throws, having had its effect or not.
LEMMA InsertUserThrowsStep ==
  ASSUME IndInv, NEW r \in Requests, InsertUserFails(r) \/ InsertUserAnswerLost(r)
  PROVE  IndInv'
<1> USE BoundAssumption DEF BoundAssumption, IndInv
<1>1. /\ pc[r] = "insertUser" /\ loc[r].authId \in Id
      /\ loc[r].authId \in AuthIds
      /\ cleanups' = cleanups \union {loc[r].authId}
      /\ UNCHANGED <<auth, sessions, lastId, welcomed>>
  BY DEF InsertUserFails, InsertUserAnswerLost, InsertUserThrows, Carried, Owned
<1>2. LocalStep(r) /\ pc'[r] = "error" /\ loc'[r].authId = 0
  BY AnswerLocal
     DEF InsertUserFails, InsertUserAnswerLost, InsertUserThrows, Answers
<1>3. \/ users' = users /\ lost' = lost
      \/ /\ users' = users \union {loc[r].authId}
         /\ lost' # 0 /\ lost' \in 0 .. MaxLost
  BY DEF InsertUserFails, InsertUserAnswerLost, TypeOK
<1>4. TypeOK'
  BY <1>1, <1>2, <1>3 DEF TypeOK, LocalStep
<1>5. IdsGivenOut' /\ Carried'
  BY <1>1, <1>2 DEF IdsGivenOut, Carried, LocalStep, AuthIds, TypeOK
<1>6. Owned' /\ Complete'
  BY <1>1, <1>2, <1>3 DEF Owned, Complete, LocalStep, AuthIds
<1>7. CleanupsIncomplete'
  BY <1>1, <1>3 DEF CleanupsIncomplete, Owned
<1>8. SessionHasProfile' /\ IdsOnce'
  BY <1>1, <1>3 DEF SessionHasProfile, IdsOnce, AuthIds
<1>9. OrphanAccountedFor'
  BY <1>1, <1>2, <1>3 DEF OrphanAccountedFor, LocalStep, AuthIds
<1>10. OwnAccount' /\ SignedIn'
  BY <1>1, <1>2, <1>3 DEF OwnAccount, SignedIn, LocalStep, IsOf
<1> QED BY <1>4, <1>5, <1>6, <1>7, <1>8, <1>9, <1>10

LEMMA IssueStep ==
  ASSUME IndInv, NEW r \in Requests, Issue(r)
  PROVE  IndInv'
<1> USE DEF IndInv
<1>1. CASE Answer(r, "error") /\ UNCHANGED sessions
  BY <1>1, QuietAnswer DEF Issue, Answers, TypeOK
<1>2. CASE /\ loc[r].authId \in AuthIds
           /\ sessions' = sessions \union {loc[r].authId}
           /\ Goto(r, "reply", loc[r])
  <2>1. /\ pc[r] = "issue" /\ loc[r].authId \in Id /\ loc[r].authId \in users
        /\ UNCHANGED <<auth, users, lastId, cleanups, welcomed, lost>>
    BY <1>2 DEF Issue, Carried, Complete
  <2>2. loc[r] \in Locals
    BY DEF TypeOK
  <2>3. LocalStep(r) /\ pc'[r] = "reply" /\ loc'[r] = loc[r]
    BY <1>2, <2>2, GotoLocal DEF InFlight
  <2>4. TypeOK'
    BY <1>2, <2>1, <2>3 DEF TypeOK, LocalStep
  <2>5. IdsGivenOut' /\ Carried'
    BY <2>1, <2>3 DEF IdsGivenOut, Carried, LocalStep, AuthIds
  <2>6. Owned' /\ Complete'
    BY <2>1, <2>3 DEF Owned, Complete, LocalStep, AuthIds
  <2>7. CleanupsIncomplete' /\ SessionHasProfile' /\ IdsOnce'
    BY <1>2, <2>1 DEF CleanupsIncomplete, SessionHasProfile, IdsOnce, AuthIds
  <2>8. OrphanAccountedFor'
    BY <2>1, <2>3 DEF OrphanAccountedFor, LocalStep, AuthIds
  <2>9. OwnAccount' /\ SignedIn'
    BY <1>2, <2>1, <2>3 DEF OwnAccount, SignedIn, LocalStep, IsOf
  <2> QED BY <2>4, <2>5, <2>6, <2>7, <2>8, <2>9
<1> QED BY <1>1, <1>2 DEF Issue

LEMMA CleanupStep ==
  ASSUME IndInv, NEW id \in cleanups, Cleanup(id)
  PROVE  IndInv'
<1> USE DEF IndInv
<1>1. /\ cleanups' = cleanups \ {id} /\ users' = users \ {id}
      /\ sessions' = sessions \ {id} /\ auth' \subseteq auth
      /\ UNCHANGED <<lastId, welcomed, lost, pc, loc>>
  BY DEF Cleanup
<1>2. AuthIds' = AuthIds \ {id}
  BY DEF Cleanup, AuthIds
<1>3. TypeOK'
  BY <1>1 DEF TypeOK
<1>4. IdsGivenOut' /\ Carried'
  BY <1>1, <1>2 DEF IdsGivenOut, Carried
<1>5. Owned' /\ Complete'
  BY <1>1, <1>2 DEF Owned, Complete
<1>6. CleanupsIncomplete' /\ SessionHasProfile' /\ IdsOnce'
  BY <1>1, <1>2 DEF CleanupsIncomplete, SessionHasProfile, IdsOnce
<1>7. OrphanAccountedFor'
  BY <1>1, <1>2 DEF OrphanAccountedFor
<1>8. OwnAccount'
  BY <1>1 DEF OwnAccount, IsOf
<1>9. SignedIn'
  <2>1. lost = 0 => id \notin sessions
    BY DEF CleanupsIncomplete, SessionHasProfile
  <2> QED BY <1>1, <2>1 DEF SignedIn
<1> QED BY <1>3, <1>4, <1>5, <1>6, <1>7, <1>8, <1>9

LEMMA CleanupLostStep ==
  ASSUME IndInv, NEW id \in cleanups, CleanupLost(id)
  PROVE  IndInv'
<1> USE BoundAssumption DEF BoundAssumption, IndInv
<1>1. /\ lost' # 0 /\ lost' \in 0 .. MaxLost /\ cleanups' = cleanups \ {id}
      /\ UNCHANGED <<auth, users, sessions, lastId, welcomed, pc, loc>>
  BY DEF CleanupLost, TypeOK
<1>2. TypeOK' /\ IdsGivenOut' /\ Carried'
  BY <1>1 DEF TypeOK, IdsGivenOut, Carried, AuthIds
<1>3. Owned' /\ Complete'
  BY <1>1 DEF Owned, Complete, AuthIds
<1>4. SessionHasProfile' /\ IdsOnce' /\ OwnAccount'
  BY <1>1 DEF SessionHasProfile, IdsOnce, OwnAccount, IsOf, AuthIds
<1>5. CleanupsIncomplete' /\ OrphanAccountedFor' /\ SignedIn'
  BY <1>1 DEF CleanupsIncomplete, OrphanAccountedFor, SignedIn
<1> QED BY <1>2, <1>3, <1>4, <1>5

-----------------------------------------------------------------------------
(***************************************************************************)
(* The theorems                                                            *)
(***************************************************************************)
LEMMA InitInv == Init => IndInv
<1> SUFFICES ASSUME Init PROVE IndInv
  OBVIOUS
<1>1. NoLocals \in Locals /\ NoLocals.authId = 0
  BY DEF NoLocals, Locals
<1>2. TypeOK
  BY <1>1, BoundAssumption DEF BoundAssumption, Init, TypeOK, Answers
<1>3. IdsGivenOut /\ Carried /\ Owned /\ Complete
  BY <1>1 DEF Init, IdsGivenOut, Carried, Owned, Complete, AuthIds
<1>4. IdsOnce /\ OwnAccount /\ SignedIn
  BY DEF Init, IdsOnce, OwnAccount, SignedIn
<1> QED
  BY <1>2, <1>3, <1>4 DEF Init, IndInv, CleanupsIncomplete, SessionHasProfile,
       OrphanAccountedFor, AuthIds

LEMMA ContinueInv ==
  ASSUME IndInv, NEW r \in Requests, Continue(r)
  PROVE  IndInv'
<1>1. CASE ReadUser(r)
  <2>1. CASE Answer(r, "profileIncomplete") \/ Answer(r, "userExists")
    BY <1>1, <2>1, QuietAnswer DEF ReadUser, Answers, IndInv, TypeOK
  <2>2. CASE loc[r].authId \in users /\ Goto(r, "issue", loc[r])
    BY <1>1, <2>2, GoOnStep DEF ReadUser
  <2> QED BY <1>1, <2>1, <2>2 DEF ReadUser
<1>2. CASE ReadEmail(r)
  <2>1. CASE Answer(r, "conflict") \/ Answer(r, "needsSignup")
    BY <1>2, <2>1, QuietAnswer DEF ReadEmail, Answers, IndInv, TypeOK
  <2>2. CASE Goto(r, "insertAuth", loc[r])
    BY <1>2, <2>2, GoOnStep DEF ReadEmail
  <2> QED BY <1>2, <2>1, <2>2 DEF ReadEmail
<1>3. CASE Reply(r)
  <2>1. welcomed' \subseteq Id
    BY <1>3 DEF Reply, IndInv, TypeOK, Carried
  <2>2. PICK a \in Answers : Answer(r, a)
    BY <1>3 DEF Reply, Answers
  <2> QED BY <1>3, <2>1, <2>2, QuietAnswer DEF Reply
<1> QED
  BY <1>1, <1>2, <1>3, InsertAuthStep, InsertUserStep, IssueStep DEF Continue

LEMMA NextInv == IndInv /\ [Next]_vars => IndInv'
<1> SUFFICES ASSUME IndInv, [Next]_vars PROVE IndInv'
  OBVIOUS
<1>1. CASE UNCHANGED vars
  <2>1. TypeOK' /\ IdsGivenOut' /\ Carried' /\ Owned' /\ Complete'
    BY <1>1 DEF vars, IndInv, TypeOK, IdsGivenOut, Carried, Owned, Complete, AuthIds
  <2>2. IdsOnce' /\ OwnAccount' /\ SignedIn'
    BY <1>1 DEF vars, IndInv, IdsOnce, OwnAccount, SignedIn, IsOf
  <2> QED
    BY <1>1, <2>1, <2>2 DEF vars, IndInv, CleanupsIncomplete, SessionHasProfile,
         OrphanAccountedFor, AuthIds
<1>2. ASSUME NEW r \in Requests, Unverified(r) PROVE IndInv'
  BY <1>2, QuietAnswer DEF Unverified, Answers, IndInv, TypeOK
<1>3. ASSUME NEW r \in Requests, Fail(r) PROVE IndInv'
  BY <1>3, QuietAnswer DEF Fail, Answers, IndInv, TypeOK
<1> QED
  BY <1>1, <1>2, <1>3, FindAuthStep, ContinueInv, InsertUserThrowsStep,
     KilledStep, CleanupStep, CleanupLostStep DEF Next

\* The inductive invariant holds in every reachable state of the handlers.
THEOREM Invariance == Spec => []IndInv
  BY InitInv, NextInv, PTL DEF Spec

\* Type correctness of the auth and users tables and of the handlers' locals.
THEOREM TypeCorrect == Spec => []TypeOK
<1>1. IndInv => TypeOK
  BY DEF IndInv
<1> QED BY <1>1, Invariance, PTL

\* However many sign-ups, sign-ins and clean-ups race and whatever is lost,
\* issueTokens never leaves a session without a profile and an auth row.
THEOREM SessionsHaveProfiles == Spec => []SessionHasProfile
<1>1. IndInv => SessionHasProfile
  BY DEF IndInv
<1> QED BY <1>1, Invariance, PTL

\* However sign-ups, sign-ins and clean-ups interleave, the tokens a sign-in or
\* sign-up answers with are of the account of the identity it verified, and, as
\* long as no Worker is killed and no answer lost, of one that still exists.
THEOREM AnsweredOwnAccounts == Spec => []AnsweredOwnAccount
<1>1. IndInv => AnsweredOwnAccount
  BY DEF IndInv, OwnAccount, SignedIn, IsOf, AnsweredOwnAccount
<1> QED BY <1>1, Invariance, PTL

\* The catch block of the sign-ups leaves no auth row without profile behind,
\* as long as no Worker is killed and no answer lost.
THEOREM OrphansAccountedFor == Spec => []OrphanAccountedFor
<1>1. IndInv => OrphanAccountedFor
  BY DEF IndInv
<1> QED BY <1>1, Invariance, PTL

\* The background DELETE of a failed sign-up signs nobody out, as long as no
\* Worker is killed and no answer lost.
THEOREM SignedInAccountsKept == Spec => SignedInAccountKept
<1>1. IndInv /\ [Next]_vars => [lost' = 0 => sessions \subseteq sessions']_vars
  <2> SUFFICES ASSUME IndInv, Next, lost' = 0
               PROVE  sessions \subseteq sessions'
    BY DEF vars
  <2>1. CASE \E id \in cleanups : Cleanup(id)
    <3>1. PICK id \in cleanups : Cleanup(id)
      BY <2>1
    <3>2. id \notin users
      BY <3>1 DEF Cleanup, IndInv, CleanupsIncomplete
    <3> QED BY <3>1, <3>2 DEF Cleanup, IndInv, SessionHasProfile
  <2>2. CASE \E id \in cleanups : CleanupLost(id)
    BY <2>2 DEF CleanupLost
  <2>3. CASE \E r \in Requests :
               \/ Unverified(r)
               \/ \E who \in Identity : \E flow \in FlowsOf(who) :
                    FindAuth(r, who, flow)
               \/ Continue(r)
               \/ InsertUserFails(r)
               \/ Fail(r)
               \/ InsertUserAnswerLost(r)
               \/ Killed(r)
    BY <2>3 DEF Unverified, FindAuth, Continue, ReadUser, ReadEmail, InsertAuth,
         InsertUser, Issue, Reply, InsertUserFails, Fail, InsertUserAnswerLost,
         InsertUserThrows, Killed
  <2> QED BY <2>1, <2>2, <2>3 DEF Next
<1> QED BY <1>1, Invariance, PTL DEF Spec, SignedInAccountKept

=============================================================================
