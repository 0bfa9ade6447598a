------------------------ MODULE SessionServiceProofs ------------------------
(***************************************************************************)
(* What the session handlers promise a client: the two answers that speak  *)
(* of the table are true, and the handlers implement SessionService.       *)
(***************************************************************************)
EXTENDS SessionsProofs

-----------------------------------------------------------------------------
(***************************************************************************)
(* The session a request read, and what became of it.                      *)
(***************************************************************************)
Presenting == Refreshing \union {"logoutUpdate"}   \* a session was read

\* The session a request read still has the token it was presented with, or
\* that token has been rotated away; its id is not one about to be given out.
Presented ==
  \A q \in Requests : pc[q] \in Presenting =>
    /\ loc[q].row \in Row
    /\ loc[q].row.id <= lastToken
    /\ \A r \in Requests : pc[r] \in Writing => loc[q].row.id # loc[r].newToken
    /\ \A row \in tokens : row.id = loc[q].row.id =>
         row.token = loc[q].tok \/ loc[q].tok \in superseded

LEMMA PresentedStep == IndInv /\ Presented /\ [Next]_vars => Presented'
<1> USE ConfigAssumption DEF ConfigAssumption
<1> SUFFICES ASSUME IndInv, Presented, [Next]_vars PROVE Presented'
  OBVIOUS
<1>t. TypeOK /\ Numbered /\ NewTokens /\ CarriedRows
  BY DEF IndInv
<1>1. CASE UNCHANGED vars
  BY <1>1 DEF vars, Presented
<1>2. ASSUME NEW r \in Requests, Handler(r) PROVE Presented'
  <2>a. ASSUME NEW a \in Answers, Answer(r, a),
               UNCHANGED <<tokens, lastToken, superseded>>
        PROVE  Presented'
    BY <1>t, <2>a DEF TypeOK, Presented, Presenting, Refreshing, Writing,
       Answer, Answers
  <2>g. ASSUME NEW s \in {"issueReply", "refreshAuth", "refreshDecide"},
               Goto(r, s), s = "issueReply" \/ pc[r] \in Presenting,
               UNCHANGED <<tokens, loc, lastToken, superseded>>
        PROVE  Presented'
    BY <1>t, <2>g DEF TypeOK, Presented, Presenting, Refreshing, Writing, Goto
  <2>r. ASSUME NEW t, NEW row \in RowsWithToken(t),
               NEW s \in {"refreshCheck", "logoutUpdate"}, Goto(r, s),
               loc'[r].tok = t, loc'[r].row = row,
               \A q \in Requests \ {r} : loc'[q] = loc[q],
               UNCHANGED <<tokens, lastToken, superseded>>
        PROVE  Presented'
    <3>1. /\ row \in tokens /\ row \in Row /\ row.token = t
          /\ row.id <= lastToken
          /\ \A row2 \in tokens : row2.id = row.id => row2.token = t
      BY <2>r DEF RowsWithToken, IndInv, TypeOK, Numbered, UniqueRows
    <3>2. /\ pc'[r] = s /\ s \notin Writing
          /\ \A q \in Requests \ {r} : pc'[q] = pc[q]
      BY <1>t, <2>r DEF TypeOK, Goto, Writing
    <3>3. \A q \in Requests : pc'[q] \in Writing =>
            pc[q] \in Writing /\ loc'[q] = loc[q] /\ row.id # loc[q].newToken
      BY <1>t, <2>r, <3>1, <3>2 DEF NewTokens
    <3> QED
      BY <2>r, <3>1, <3>2, <3>3 DEF Presented
  <2>1. ASSUME NEW a \in Accounts, IssueStart(r, a) PROVE Presented'
    <3>1. /\ lastToken' = lastToken + 1 /\ lastToken \in Nat
          /\ pc'[r] = "issueInsert" /\ loc'[r].newToken = lastToken + 1
          /\ \A q \in Requests \ {r} : pc'[q] = pc[q] /\ loc'[q] = loc[q]
          /\ UNCHANGED <<tokens, superseded>>
      BY <1>t, <2>1 DEF TypeOK, IssueStart, Goto
    <3>2. \A q \in Requests : pc[q] \in Presenting => loc[q].row.id \in Int
      BY DEF Presented, Row, Token
    <3> QED
      BY <3>1, <3>2 DEF Presented, Presenting, Refreshing, Writing
  <2>2. CASE IssueInsert(r)
    <3>1. CASE loc[r].row.authId \notin authRows
      BY <2>2, <2>a, <3>1 DEF IssueInsert, Answers
    <3>2. CASE loc[r].row.authId \in authRows
      <4>1. /\ \A new \in tokens' : new \in tokens \/ new.id = loc[r].newToken
            /\ UNCHANGED <<lastToken, loc, superseded>>
            /\ pc[r] \in Writing
        BY <1>t, <2>2, <3>2 DEF IssueInsert, CarriedRows, Writing, Row
      <4>2. /\ pc'[r] = "issueReply"
            /\ \A q \in Requests \ {r} : pc'[q] = pc[q]
        BY <1>t, <2>2, <3>2 DEF IssueInsert, Goto, TypeOK
      <4> QED
        BY <4>1, <4>2 DEF Presented, Presenting, Refreshing, Writing
    <3> QED BY <3>1, <3>2
  <2>3. CASE IssueReply(r) \/ RefreshReply(r)
    BY <2>3, <2>a DEF IssueReply, RefreshReply, Grant, Answers
  <2>4. ASSUME NEW t \in HeldTokens, RefreshRead(r, t) PROVE Presented'
    <3>1. CASE Answer(r, "refused")
      BY <2>4, <2>a, <3>1 DEF RefreshRead, Answers
    <3>2. ASSUME NEW row \in RowsWithToken(t), Goto(r, "refreshCheck"),
                 loc' = [loc EXCEPT ![r] =
                           [tok |-> t, row |-> row, newToken |-> 0, madeAt |-> 0,
                            late |-> Late(t)]]
          PROVE  Presented'
      <4>1. /\ loc'[r].tok = t /\ loc'[r].row = row
            /\ \A q \in Requests \ {r} : loc'[q] = loc[q]
            /\ UNCHANGED <<tokens, lastToken, superseded>>
        BY <1>t, <2>4, <3>2 DEF TypeOK, RefreshRead
      <4> QED BY <2>r, <3>2, <4>1
    <3> QED BY <2>4, <3>1, <3>2 DEF RefreshRead
  <2>5. CASE RefreshCheck(r)
    BY <2>5, <2>a, <2>g DEF RefreshCheck, Answers, Presenting, Refreshing
  <2>6. CASE RefreshAuth(r)
    BY <2>6, <2>a, <2>g DEF RefreshAuth, Answers, Presenting, Refreshing
  <2>7. CASE RefreshDecide(r)
    <3>1. CASE Answer(r, "limited") /\ UNCHANGED lastToken
      BY <2>7, <2>a, <3>1 DEF RefreshDecide, Answers
    <3>2. CASE /\ lastToken' = lastToken + 1
               /\ loc' = [loc EXCEPT ![r] = [@ EXCEPT !.newToken = lastToken + 1,
                                                      !.madeAt = clock]]
               /\ Goto(r, "refreshUpdate")
      <4>1. /\ lastToken \in Nat /\ pc[r] = "refreshDecide"
            /\ pc'[r] = "refreshUpdate"
            /\ loc'[r].newToken = lastToken + 1
            /\ loc'[r].row = loc[r].row /\ loc'[r].tok = loc[r].tok
            /\ \A q \in Requests \ {r} : pc'[q] = pc[q] /\ loc'[q] = loc[q]
            /\ UNCHANGED <<tokens, superseded>>
        BY <1>t, <2>7, <3>2 DEF TypeOK, RefreshDecide, Goto, Locals
      <4>2. \A q \in Requests : pc[q] \in Presenting => loc[q].row.id \in Int
        BY DEF Presented, Row, Token
      <4> QED
        BY <3>2, <4>1, <4>2 DEF Presented, Presenting, Refreshing, Writing
    <3> QED BY <2>7, <3>1, <3>2 DEF RefreshDecide
  <2>8. CASE RefreshUpdate(r)
    <3>1. /\ UNCHANGED <<lastToken, loc>>
          /\ pc[r] = "refreshUpdate" /\ pc'[r] = "refreshReply"
          /\ \A q \in Requests \ {r} : pc'[q] = pc[q]
          /\ superseded' = superseded \union
                             {row.token : row \in RowsWithToken(loc[r].tok)}
      BY <1>t, <2>8 DEF TypeOK, RefreshUpdate, Goto
    <3>2. \A new \in tokens' : \E row \in tokens :
            /\ new.id = row.id
            /\ new = row \/ row.token = loc[r].tok
      BY <2>8, UpdateEffect
    <3>3. \A row \in tokens : row.token = loc[r].tok => loc[r].tok \in superseded'
      BY <3>1 DEF RowsWithToken
    <3> QED
      BY <3>1, <3>2, <3>3 DEF Presented, Presenting, Refreshing, Writing
  <2>9. ASSUME NEW t \in HeldTokens, LogoutRead(r, t) PROVE Presented'
    <3>1. CASE Answer(r, "refused")
      BY <2>9, <2>a, <3>1 DEF LogoutRead, Answers
    <3>2. ASSUME NEW row \in RowsWithToken(t), Goto(r, "logoutUpdate"),
                 loc' = [loc EXCEPT ![r] =
                           [tok |-> t, row |-> row, newToken |-> 0, madeAt |-> 0,
                            late |-> FALSE]]
          PROVE  Presented'
      <4>1. /\ loc'[r].tok = t /\ loc'[r].row = row
            /\ \A q \in Requests \ {r} : loc'[q] = loc[q]
            /\ UNCHANGED <<tokens, lastToken, superseded>>
        BY <1>t, <2>9, <3>2 DEF TypeOK, LogoutRead
      <4> QED BY <2>r, <3>2, <4>1
    <3> QED BY <2>9, <3>1, <3>2 DEF LogoutRead
  <2>10. CASE LogoutUpdate(r)
    <3>1. /\ \A new \in tokens' : \E row \in tokens :
                new.id = row.id /\ new.token = row.token
          /\ UNCHANGED <<lastToken, superseded>>
      BY <1>t, <2>10 DEF TypeOK, LogoutUpdate, Row
    <3>2. /\ pc'[r] = "loggedOut"
          /\ \A q \in Requests \ {r} : pc'[q] = pc[q] /\ loc'[q] = loc[q]
      BY <1>t, <2>10 DEF TypeOK, LogoutUpdate, Answer
    <3> QED
      BY <3>1, <3>2 DEF Presented, Presenting, Refreshing, Writing
  <2>11. CASE Fail(r)
    BY <2>11, <2>a DEF Fail, Answers
  <2> QED
    BY <1>2, <2>1, <2>2, <2>3, <2>4, <2>5, <2>6, <2>7, <2>8, <2>9, <2>10, <2>11
       DEF Handler
<1>3. ASSUME NEW a \in Accounts, AuthDeleted(a) PROVE Presented'
  BY <1>3 DEF AuthDeleted, Presented
<1>4. CASE Tick
  BY <1>4 DEF Tick, Presented
<1> QED BY <1>1, <1>2, <1>3, <1>4 DEF Next

-----------------------------------------------------------------------------
(***************************************************************************)
(* The two promises                                                        *)
(***************************************************************************)
LEMMA PresentedAlways == Spec => [](IndInv /\ Presented)
<1>1. Init => Presented
  BY DEF Init, Presented, Presenting, Refreshing
<1>2. IndInv /\ Presented /\ [Next]_vars => IndInv' /\ Presented'
  BY NextInv, PresentedStep
<1> QED BY <1>1, <1>2, InitInv, PTL DEF Spec

\* Only the UPDATE of a request takes it to its answer.
LEMMA OwnUpdate ==
  ASSUME TypeOK, Next, NEW r \in Requests
  PROVE  /\ pc[r] = "refreshUpdate" /\ pc'[r] = "refreshReply" => RefreshUpdate(r)
         /\ pc[r] = "logoutUpdate" /\ pc'[r] = "loggedOut" => LogoutUpdate(r)
<1>1. ASSUME NEW q \in Requests, Handler(q), q # r PROVE pc'[r] = pc[r]
  BY <1>1 DEF TypeOK, Handler, Goto, Answer, IssueStart, IssueInsert, IssueReply,
     Grant, RefreshRead, RefreshCheck, RefreshAuth, RefreshDecide, RefreshUpdate,
     RefreshReply, LogoutRead, LogoutUpdate, Fail
<1>2. CASE Handler(r) /\ pc[r] = "refreshUpdate" /\ pc'[r] = "refreshReply"
  <2>1. ~Fail(r)
    BY <1>2 DEF TypeOK, Fail, Answer
  <2> QED
    BY <1>2, <2>1 DEF Handler, IssueStart, IssueInsert, IssueReply, RefreshRead,
       RefreshCheck, RefreshAuth, RefreshDecide, RefreshReply, LogoutRead,
       LogoutUpdate, Answers
<1>3. CASE Handler(r) /\ pc[r] = "logoutUpdate" /\ pc'[r] = "loggedOut"
  <2>1. ~Fail(r)
    BY <1>3 DEF TypeOK, Fail, Answer
  <2> QED
    BY <1>3, <2>1 DEF Handler, IssueStart, IssueInsert, IssueReply, RefreshRead,
       RefreshCheck, RefreshAuth, RefreshDecide, RefreshReply, LogoutRead,
       RefreshUpdate, Answers
<1> QED
  BY <1>1, <1>2, <1>3 DEF Next, AuthDeleted, Tick

\* The refresh token of a 200 answer is the one stored for the session, unless
\* another rotation came first.
THEOREM RefreshPromise == Spec => RefreshStoresToken
<1>1. ASSUME IndInv, Presented, Next, NEW r \in Requests,
             pc[r] = "refreshUpdate", pc'[r] = "refreshReply",
             NEW new \in tokens', new.id = loc[r].row.id
      PROVE  new.token = loc[r].newToken \/ loc[r].tok \in superseded
  <2>1. RefreshUpdate(r)
    BY <1>1, OwnUpdate DEF IndInv
  <2>2. PICK row \in tokens :
          /\ new.id = row.id
          /\ \/ new = row /\ row.token # loc[r].tok
             \/ new.token = loc[r].newToken
    BY <1>1, <2>1, UpdateEffect
  <2> QED
    BY <1>1, <2>2 DEF Presented, Presenting, Refreshing
<1>2. IndInv /\ Presented /\ [Next]_vars =>
        [\A r \in Requests :
           pc[r] = "refreshUpdate" /\ pc'[r] = "refreshReply" =>
             \A row \in tokens' : row.id = loc[r].row.id =>
               row.token = loc[r].newToken \/ loc[r].tok \in superseded]_vars
  BY <1>1
<1> QED BY <1>2, PresentedAlways, PTL DEF Spec, RefreshStoresToken

\* A session of which a logout said it is logged out is revoked, unless a
\* rotation came first.
THEOREM LogoutPromise == Spec => LogoutRevokes
<1>1. ASSUME IndInv, Presented, Next, NEW r \in Requests,
             pc[r] = "logoutUpdate", pc'[r] = "loggedOut",
             NEW new \in tokens', new.id = loc[r].row.id
      PROVE  new.revoked \/ loc[r].tok \in superseded
  <2>1. LogoutUpdate(r)
    BY <1>1, OwnUpdate DEF IndInv
  <2>2. PICK row \in tokens :
          new = IF row.token = loc[r].tok THEN [row EXCEPT !.revoked = TRUE]
                                          ELSE row
    BY <2>1 DEF LogoutUpdate
  <2>3. new.id = row.id /\ (row.token = loc[r].tok => new.revoked)
    BY <1>1, <2>2 DEF IndInv, TypeOK, Row
  <2> QED
    BY <1>1, <2>3 DEF Presented, Presenting
<1>2. IndInv /\ Presented /\ [Next]_vars =>
        [\A r \in Requests :
           pc[r] = "logoutUpdate" /\ pc'[r] = "loggedOut" =>
             \A row \in tokens' : row.id = loc[r].row.id =>
               row.revoked \/ loc[r].tok \in superseded]_vars
  BY <1>1
<1> QED BY <1>2, PresentedAlways, PTL DEF Spec, LogoutRevokes

-----------------------------------------------------------------------------
(***************************************************************************)
(* The refinement                                                          *)
(***************************************************************************)
InService == (1 .. lastToken) \ OnTheWay    \* what `used' of the service is

Entry(row) == [id |-> row.id, token |-> row.token]

\* A token on its way is not in service yet, and nobody else has it.
LEMMA WriterFacts ==
  ASSUME IndInv, NEW r \in Requests, pc[r] \in Writing
  PROVE  /\ loc[r].newToken \in Token
         /\ loc[r].newToken \in 1 .. lastToken
         /\ loc[r].newToken \notin InService
         /\ \A q \in Requests \ {r} :
              pc[q] \in Writing => loc[q].newToken # loc[r].newToken
<1>1. /\ loc[r].newToken \in Token /\ loc[r].newToken <= lastToken
      /\ lastToken \in Nat
  BY DEF IndInv, NewTokens, Numbered, TypeOK
<1>2. loc[r].newToken \in OnTheWay
  BY DEF OnTheWay, Writing
<1> QED
  BY <1>1, <1>2 DEF IndInv, NewTokens, Token, InService, Writing

\* A request that stops writing puts its token in service, or throws it away.
LEMMA WriterDone ==
  ASSUME IndInv, NEW r \in Requests, pc[r] \in Writing, pc'[r] \notin Writing,
         \A q \in Requests \ {r} : pc'[q] = pc[q] /\ loc'[q] = loc[q],
         UNCHANGED lastToken
  PROVE  InService' = InService \union {loc[r].newToken}
<1>1. OnTheWay' = OnTheWay \ {loc[r].newToken}
  <2>1. \A t \in OnTheWay' : t \in OnTheWay /\ t # loc[r].newToken
    BY WriterFacts DEF OnTheWay, Writing
  <2>2. \A t \in OnTheWay : t # loc[r].newToken => t \in OnTheWay'
    BY DEF OnTheWay, Writing
  <2> QED BY <2>1, <2>2
<1>2. InService' = (1 .. lastToken) \ OnTheWay'
  BY DEF InService
<1>3. loc[r].newToken \in 1 .. lastToken
  BY WriterFacts
<1> QED BY <1>1, <1>2, <1>3 DEF InService

\* The steps that a client of the service does not see.
LEMMA Hidden ==
  ASSUME IndInv, NEW r \in Requests, UNCHANGED <<tokens, lastToken>>,
         pc[r] \notin Writing, pc'[r] \notin Writing,
         \A q \in Requests \ {r} : pc'[q] = pc[q] /\ loc'[q] = loc[q]
  PROVE  UNCHANGED <<Usable, InService>>
<1>1. Usable' = Usable
  BY DEF Usable
<1>2. OnTheWay' = OnTheWay
  BY DEF OnTheWay, Writing
<1> QED BY <1>1, <1>2 DEF InService

\* Drawing a token is not seen either: it is on its way.
LEMMA Drawn ==
  ASSUME IndInv, NEW r \in Requests, UNCHANGED tokens,
         lastToken' = lastToken + 1, pc[r] \notin Writing, pc'[r] \in Writing,
         loc'[r].newToken = lastToken + 1,
         \A q \in Requests \ {r} : pc'[q] = pc[q] /\ loc'[q] = loc[q]
  PROVE  UNCHANGED <<Usable, InService>>
<1>1. Usable' = Usable
  BY DEF Usable
<1>2. OnTheWay' = OnTheWay \union {lastToken + 1}
  BY DEF OnTheWay, Writing
<1>3. lastToken \in Nat
  BY DEF IndInv, TypeOK
<1>4. (1 .. lastToken') \ OnTheWay' = (1 .. lastToken) \ OnTheWay
  BY <1>2, <1>3
<1> QED BY <1>1, <1>4 DEF InService

\* A request that answers without having written throws its token away.
LEMMA AnswerIsStep ==
  ASSUME IndInv, NEW r \in Requests, NEW a \in Answers, Answer(r, a),
         UNCHANGED <<tokens, lastToken>>
  PROVE  Service!Next \/ UNCHANGED <<Usable, InService>>
<1>1. /\ pc'[r] \notin Writing
      /\ \A q \in Requests \ {r} : pc'[q] = pc[q] /\ loc'[q] = loc[q]
  BY DEF IndInv, TypeOK, Answer, Answers, Writing
<1>2. CASE pc[r] \notin Writing
  BY <1>1, <1>2, Hidden
<1>3. CASE pc[r] \in Writing
  <2>1. InService' = InService \union {loc[r].newToken}
    BY <1>1, <1>3, WriterDone
  <2>2. loc[r].newToken \in Token /\ loc[r].newToken \notin InService
    BY <1>3, WriterFacts
  <2>3. Usable' = Usable
    BY DEF Usable
  <2>4. Service!Discard(loc[r].newToken)
    BY <2>1, <2>2, <2>3 DEF Service!Discard, InService
  <2> QED BY <2>2, <2>4 DEF Service!Next
<1> QED BY <1>2, <1>3

\* The INSERT of issueTokens opens a session.
LEMMA InsertOpens ==
  ASSUME IndInv, NEW r \in Requests, IssueInsert(r), loc[r].row.authId \in authRows
  PROVE  Service!Next
<1> DEFINE new == [loc[r].row EXCEPT !.lastUsedAt = clock]
           t == loc[r].newToken
<1>1. /\ pc[r] = "issueInsert" /\ pc[r] \in Writing /\ pc'[r] \notin Writing
      /\ tokens' = tokens \union {new}
      /\ \A q \in Requests \ {r} : pc'[q] = pc[q] /\ loc'[q] = loc[q]
      /\ UNCHANGED lastToken
  BY DEF IssueInsert, IndInv, TypeOK, Goto, Writing
<1>2. new.id = t /\ new.token = t /\ ~new.revoked
  BY <1>1 DEF IndInv, CarriedRows, Row
<1> HIDE DEF new
<1>3. Usable' = Usable \union {[id |-> t, token |-> t]}
  <2>1. \A u \in Usable' : u \in Usable \/ u = [id |-> t, token |-> t]
    BY <1>1, <1>2 DEF Usable
  <2>2. \A u \in Usable : u \in Usable'
    BY <1>1 DEF Usable
  <2>3. [id |-> t, token |-> t] \in Usable'
    BY <1>1, <1>2 DEF Usable
  <2> QED BY <2>1, <2>2, <2>3
<1>4. InService' = InService \union {t}
  BY <1>1, WriterDone
<1>5. t \in Token /\ t \notin InService
  BY <1>1, WriterFacts
<1>6. Service!Open(t)
  BY <1>3, <1>4, <1>5 DEF Service!Open, InService
<1> QED BY <1>5, <1>6 DEF Service!Next

\* The UPDATE of refreshTokens rotates the session, or throws its token away.
LEMMA UpdateRotates ==
  ASSUME IndInv, NEW r \in Requests, RefreshUpdate(r)
  PROVE  Service!Next
<1> DEFINE t == loc[r].newToken
<1>1. /\ pc[r] \in Writing /\ pc'[r] \notin Writing
      /\ \A q \in Requests \ {r} : pc'[q] = pc[q] /\ loc'[q] = loc[q]
      /\ UNCHANGED lastToken
  BY DEF RefreshUpdate, IndInv, TypeOK, Goto, Writing
<1>2. InService' = InService \union {t}
  BY <1>1, WriterDone
<1>3. t \in Token /\ t \notin InService
  BY <1>1, WriterFacts
<1>4. \A row \in tokens : /\ Rotated(row, loc[r]).id = row.id
                          /\ Rotated(row, loc[r]).token = t
                          /\ Rotated(row, loc[r]).revoked = row.revoked
  BY DEF Rotated
<1>5. tokens' = {IF row.token = loc[r].tok THEN Rotated(row, loc[r]) ELSE row :
                   row \in tokens}
  BY DEF RefreshUpdate
<1>6. ASSUME NEW old \in tokens, old.token = loc[r].tok, ~old.revoked
      PROVE  Service!Next
  <2> DEFINE new == [id |-> old.id, token |-> t]
  <2>1. \A row \in tokens : row.token = old.token \/ row.id = old.id => row = old
    BY <1>6 DEF IndInv, UniqueRows
  <2>2. Entry(old) \in Usable
    BY <1>6 DEF Usable, Entry
  <2>3. \A u \in Usable' : u \in Usable \ {Entry(old)} \/ u = new
    <3> SUFFICES ASSUME NEW u \in Usable' PROVE u \in Usable \ {Entry(old)} \/ u = new
      OBVIOUS
    <3>1. PICK q \in tokens' : ~q.revoked /\ u = Entry(q)
      BY DEF Usable, Entry
    <3>2. PICK row \in tokens :
            q = IF row.token = loc[r].tok THEN Rotated(row, loc[r]) ELSE row
      BY <1>5
    <3>3. CASE row.token = loc[r].tok
      BY <1>4, <1>6, <2>1, <3>1, <3>2, <3>3 DEF Entry
    <3>4. CASE row.token # loc[r].tok
      <4>1. u = Entry(row) /\ ~row.revoked /\ row # old
        BY <1>6, <3>1, <3>2, <3>4
      <4>2. u \in Usable /\ u # Entry(old)
        BY <1>6, <3>4, <4>1 DEF Usable, Entry
      <4> QED BY <4>2
    <3> QED BY <3>3, <3>4
  <2>4. \A u \in Usable \ {Entry(old)} : u \in Usable'
    <3> SUFFICES ASSUME NEW u \in Usable, u # Entry(old) PROVE u \in Usable'
      OBVIOUS
    <3>1. PICK row \in tokens : ~row.revoked /\ u = Entry(row)
      BY DEF Usable, Entry
    <3>2. row.token # loc[r].tok
      BY <1>6, <2>1, <3>1
    <3>3. row \in tokens'
      BY <1>5, <3>2
    <3> QED BY <3>1, <3>3 DEF Usable, Entry
  <2>5. new \in Usable'
    <3>1. Rotated(old, loc[r]) \in tokens'
      BY <1>5, <1>6
    <3> QED BY <1>4, <1>6, <3>1 DEF Usable
  <2>6. Usable' = (Usable \ {Entry(old)}) \union {new}
    BY <2>3, <2>4, <2>5
  <2>7. Entry(old).id = old.id
    BY DEF Entry
  <2>8. Service!Rotate(Entry(old), t)
    BY <1>2, <1>3, <2>2, <2>6, <2>7 DEF Service!Rotate, InService
  <2> QED BY <1>3, <2>2, <2>8 DEF Service!Next
<1>7. CASE ~ \E old \in tokens : old.token = loc[r].tok /\ ~old.revoked
  <2>1. \A u \in Usable' : u \in Usable
    <3> SUFFICES ASSUME NEW u \in Usable' PROVE u \in Usable
      OBVIOUS
    <3>1. PICK q \in tokens' : ~q.revoked /\ u = Entry(q)
      BY DEF Usable, Entry
    <3>2. PICK row \in tokens :
            q = IF row.token = loc[r].tok THEN Rotated(row, loc[r]) ELSE row
      BY <1>5
    <3>3. q = row
      BY <1>4, <1>7, <3>1, <3>2
    <3> QED BY <3>1, <3>3 DEF Usable, Entry
  <2>2. \A u \in Usable : u \in Usable'
    <3> SUFFICES ASSUME NEW u \in Usable PROVE u \in Usable'
      OBVIOUS
    <3>1. PICK row \in tokens : ~row.revoked /\ u = Entry(row)
      BY DEF Usable, Entry
    <3>2. row \in tokens'
      BY <1>5, <1>7, <3>1
    <3> QED BY <3>1, <3>2 DEF Usable, Entry
  <2>3. Service!Discard(t)
    BY <1>2, <1>3, <2>1, <2>2 DEF Service!Discard, InService
  <2> QED BY <1>3, <2>3 DEF Service!Next
<1> QED BY <1>6, <1>7

\* A logout, and the deletion of an account, only end sessions.
LEMMA Ends ==
  ASSUME \A new \in tokens' : ~new.revoked => new \in tokens,
         InService' = InService
  PROVE  Service!Next
<1>1. Usable' \subseteq Usable
  BY DEF Usable
<1>2. Service!End(Usable \ Usable')
  BY <1>1 DEF Service!End, InService
<1> QED BY <1>2 DEF Service!Next

LEMMA StepImplements == IndInv /\ [Next]_vars => [Service!Next]_(Service!vars)
<1> SUFFICES ASSUME IndInv, [Next]_vars
             PROVE  Service!Next \/ UNCHANGED <<Usable, InService>>
  BY DEF Service!vars, InService
<1>t. TypeOK
  BY DEF IndInv
<1>1. CASE UNCHANGED vars
  BY <1>1 DEF vars, Usable, InService, OnTheWay
<1>2. ASSUME NEW r \in Requests, Handler(r)
      PROVE  Service!Next \/ UNCHANGED <<Usable, InService>>
  <2>1. ASSUME NEW a \in Accounts, IssueStart(r, a)
        PROVE  UNCHANGED <<Usable, InService>>
    <3>1. /\ lastToken' = lastToken + 1 /\ UNCHANGED tokens
          /\ pc[r] \notin Writing /\ pc'[r] \in Writing
          /\ loc'[r].newToken = lastToken + 1
          /\ \A q \in Requests \ {r} : pc'[q] = pc[q] /\ loc'[q] = loc[q]
      BY <1>t, <2>1 DEF TypeOK, IssueStart, Goto, Writing, Answers
    <3> QED BY <3>1, Drawn
  <2>2. CASE IssueInsert(r)
    BY <2>2, InsertOpens, AnswerIsStep DEF IssueInsert, Answers
  <2>3. CASE IssueReply(r) \/ RefreshReply(r)
    BY <2>3, AnswerIsStep DEF IssueReply, RefreshReply, Grant, Answers
  <2>4. ASSUME NEW t \in HeldTokens, RefreshRead(r, t) \/ LogoutRead(r, t)
        PROVE  Service!Next \/ UNCHANGED <<Usable, InService>>
    <3>1. CASE Answer(r, "refused")
      BY <2>4, <3>1, AnswerIsStep DEF RefreshRead, LogoutRead, Answers
    <3>2. CASE ~Answer(r, "refused")
      <4>1. /\ UNCHANGED <<tokens, lastToken>>
            /\ pc[r] \notin Writing /\ pc'[r] \notin Writing
            /\ \A q \in Requests \ {r} : pc'[q] = pc[q] /\ loc'[q] = loc[q]
        BY <1>t, <2>4, <3>2 DEF TypeOK, RefreshRead, LogoutRead, Goto, Writing,
           Answers
      <4> QED BY <4>1, Hidden
    <3> QED BY <3>1, <3>2
  <2>5. CASE RefreshCheck(r) \/ RefreshAuth(r)
    <3>1. CASE Answer(r, "refused")
      BY <2>5, <3>1, AnswerIsStep DEF RefreshCheck, RefreshAuth, Answers
    <3>2. CASE ~Answer(r, "refused")
      <4>1. /\ UNCHANGED <<tokens, lastToken>>
            /\ pc[r] \notin Writing /\ pc'[r] \notin Writing
            /\ \A q \in Requests \ {r} : pc'[q] = pc[q] /\ loc'[q] = loc[q]
        BY <1>t, <2>5, <3>2 DEF TypeOK, RefreshCheck, RefreshAuth, Goto, Writing
      <4> QED BY <4>1, Hidden
    <3> QED BY <3>1, <3>2
  <2>6. CASE RefreshDecide(r)
    <3>1. CASE Answer(r, "limited") /\ UNCHANGED lastToken
      BY <2>6, <3>1, AnswerIsStep DEF RefreshDecide, Answers
    <3>2. CASE /\ lastToken' = lastToken + 1
               /\ loc' = [loc EXCEPT ![r] = [@ EXCEPT !.newToken = lastToken + 1,
                                                      !.madeAt = clock]]
               /\ Goto(r, "refreshUpdate")
      <4>1. /\ UNCHANGED tokens
            /\ pc[r] \notin Writing /\ pc'[r] \in Writing
            /\ loc'[r].newToken = lastToken + 1
            /\ \A q \in Requests \ {r} : pc'[q] = pc[q] /\ loc'[q] = loc[q]
        BY <1>t, <2>6, <3>2 DEF TypeOK, RefreshDecide, Goto, Writing, Locals
      <4> QED BY <3>2, <4>1, Drawn
    <3> QED BY <2>6, <3>1, <3>2 DEF RefreshDecide
  <2>7. CASE RefreshUpdate(r)
    BY <2>7, UpdateRotates
  <2>8. CASE LogoutUpdate(r)
    <3>1. /\ \A new \in tokens' : ~new.revoked => new \in tokens
          /\ UNCHANGED lastToken
          /\ pc[r] \notin Writing /\ pc'[r] \notin Writing
          /\ \A q \in Requests \ {r} : pc'[q] = pc[q] /\ loc'[q] = loc[q]
      BY <1>t, <2>8 DEF TypeOK, LogoutUpdate, Answer, Writing, Row
    <3>2. InService' = InService
      <4>1. OnTheWay' = OnTheWay
        BY <3>1 DEF OnTheWay, Writing
      <4> QED BY <3>1, <4>1 DEF InService
    <3> QED BY <3>1, <3>2, Ends
  <2>9. CASE Fail(r)
    BY <2>9, AnswerIsStep DEF Fail, Answers
  <2> QED
    BY <1>2, <2>1, <2>2, <2>3, <2>4, <2>5, <2>6, <2>7, <2>8, <2>9 DEF Handler
<1>3. ASSUME NEW a \in Accounts, AuthDeleted(a) PROVE Service!Next
  <2>1. \A new \in tokens' : ~new.revoked => new \in tokens
    BY <1>3 DEF AuthDeleted
  <2>2. InService' = InService
    BY <1>3 DEF AuthDeleted, InService, OnTheWay
  <2> QED BY <2>1, <2>2, Ends
<1>4. CASE Tick
  BY <1>4 DEF Tick, Usable, InService, OnTheWay
<1> QED BY <1>1, <1>2, <1>3, <1>4 DEF Next

\* The handlers implement the session service, whatever requests race.
THEOREM Implementation == Spec => ImplementsService
<1>1. Init => Service!Init
  BY DEF Init, Service!Init, Usable
<1> QED
  BY <1>1, StepImplements, Invariance, PTL DEF Spec, ImplementsService, Service!Spec

=============================================================================
