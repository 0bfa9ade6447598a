--------------------------- MODULE SessionsProofs ---------------------------
(***************************************************************************)
(* Theorems about Sessions, for any number of accounts, requests, tokens   *)
(* and ticks.                                                              *)
(***************************************************************************)
EXTENDS Sessions, TLAPS

-----------------------------------------------------------------------------
(***************************************************************************)
(* The inductive invariant.                                                *)
(***************************************************************************)
Writing == {"issueInsert", "refreshUpdate"}     \* a new token is on its way

Replying == {"issueReply", "refreshReply"}      \* ... was written

Refreshing == {"refreshCheck", "refreshAuth", "refreshDecide", "refreshUpdate"}

\* The numbers given out so far bound every token there is.
Numbered ==
  /\ \A row \in tokens : row.token <= lastToken /\ row.id <= lastToken
  /\ \A g \in granted : g.refreshToken <= lastToken
  /\ \A t \in superseded : t <= lastToken
  /\ \A t \in revokedIds : t <= lastToken
  /\ \A r \in Requests : loc[r].tok <= lastToken /\ loc[r].newToken <= lastToken

\* Tokens and ids identify rows.
UniqueRows ==
  \A row1, row2 \in tokens :
    row1.token = row2.token \/ row1.id = row2.id => row1 = row2

\* A token on its way to the table is nowhere else.
NewTokens ==
  \A r \in Requests : pc[r] \in Writing =>
    /\ loc[r].newToken \in Token
    /\ \A row \in tokens : row.token # loc[r].newToken /\ row.id # loc[r].newToken
    /\ \A g \in granted : g.refreshToken # loc[r].newToken
    /\ loc[r].newToken \notin superseded
    /\ loc[r].newToken \notin revokedIds
    /\ \A q \in Requests : loc[q].tok # loc[r].newToken
    /\ \A q \in Requests \ {r} :
         pc[q] \in Writing \union Replying => loc[q].newToken # loc[r].newToken

\* The row a request carries.
CarriedRows ==
  \A r \in Requests :
    /\ pc[r] \in Writing \union Replying \union Refreshing => loc[r].row \in Row
    /\ pc[r] = "issueInsert" => /\ loc[r].row.id = loc[r].newToken
                                /\ loc[r].row.token = loc[r].newToken
                                /\ ~loc[r].row.revoked

\* As long as the token a refresh was given is stored, the row it read is
\* still that row, last used when it was then.
Snapshot ==
  \A r \in Requests : pc[r] \in Refreshing =>
    \A row \in tokens : row.token = loc[r].tok =>
      /\ row.id = loc[r].row.id
      /\ row.lastUsedAt = loc[r].row.lastUsedAt

\* The cooldown had passed when the values of the UPDATE were computed.
Spaced ==
  \A r \in Requests : pc[r] = "refreshUpdate" =>
    loc[r].madeAt >= loc[r].row.lastUsedAt + REFRESH_COOLDOWN

\* A token belongs to the session it was granted, or is being granted, for.
GrantedFor ==
  /\ \A g \in granted, row \in tokens :
       row.token = g.refreshToken => row.id = g.id
  /\ \A r \in Requests, row \in tokens :
       pc[r] \in Replying /\ row.token = loc[r].newToken
         => row.id = loc[r].row.id
  /\ \A r \in Requests :
       pc[r] \in Replying => loc[r].newToken \in Token

\* What the two history variables say of the table.
History ==
  /\ \A row \in tokens : row.token \notin superseded
  /\ \A row \in tokens : row.id \in revokedIds => row.revoked

\* No refresh that passed its first check is late.
NotLate ==
  \A r \in Requests :
    pc[r] \in Refreshing \union {"refreshReply"} => ~loc[r].late

IndInv ==
  /\ TypeOK
  /\ Numbered
  /\ UniqueRows
  /\ NewTokens
  /\ CarriedRows
  /\ Snapshot
  /\ Spaced
  /\ GrantedFor
  /\ History
  /\ NotLate

-----------------------------------------------------------------------------
(***************************************************************************)
(* The proofs                                                              *)
(***************************************************************************)
LEMMA IssueStartStep ==
  ASSUME IndInv, NEW r \in Requests, NEW a \in Accounts, IssueStart(r, a)
  PROVE  IndInv'
<1> USE ConfigAssumption DEF ConfigAssumption, IndInv
<1>1. TypeOK'
  <2>1. /\ clock + REFRESH_TOKEN_EXPIRY \in Int
        /\ lastToken + 1 \in Token
    BY DEF TypeOK, IssueStart, Token
  <2>2. [id |-> lastToken + 1, authId |-> a, token |-> lastToken + 1,
         expiresAt |-> clock + REFRESH_TOKEN_EXPIRY, lastUsedAt |-> clock,
         revoked |-> FALSE] \in Row
    BY <2>1 DEF TypeOK, Row
  <2>3. loc' \in [Requests -> Locals]
    BY <2>1, <2>2 DEF TypeOK, IssueStart, Locals
  <2> QED
    BY <2>1, <2>3 DEF TypeOK, IssueStart, Goto, Answers, InFlight, Token
<1>2. Numbered'
  BY DEF TypeOK, Numbered, IssueStart, Goto, Locals, NoLocals, Row, Token
<1>3. UniqueRows'
  BY DEF UniqueRows, IssueStart
<1>4. NewTokens'
  BY DEF TypeOK, Numbered, NewTokens, IssueStart, Goto, Locals, NoLocals, Row,
       Token, Writing, Replying
<1>5. CarriedRows'
  BY DEF TypeOK, CarriedRows, IssueStart, Goto, Locals, NoLocals, Row, Token,
       Writing, Replying, Refreshing
<1>6. Snapshot'
  BY DEF TypeOK, Snapshot, IssueStart, Goto, Refreshing
<1>7. Spaced'
  BY DEF TypeOK, Spaced, IssueStart, Goto
<1>8. GrantedFor'
  BY DEF TypeOK, GrantedFor, IssueStart, Goto, Replying
<1>9. History'
  BY DEF History, IssueStart
<1>10. NotLate'
  BY DEF TypeOK, NotLate, IssueStart, Goto, Refreshing
<1> QED BY <1>1, <1>2, <1>3, <1>4, <1>5, <1>6, <1>7, <1>8, <1>9, <1>10

\* An answer that changes no table.
LEMMA AnswerStep ==
  ASSUME IndInv, NEW r \in Requests, NEW a \in Answers,
         Answer(r, a),
         UNCHANGED <<clock, authRows, tokens, lastToken, granted, superseded,
                     revokedIds>>
  PROVE  IndInv'
<1> USE ConfigAssumption DEF ConfigAssumption, IndInv
<1>1. TypeOK'
  BY DEF TypeOK, Answer, Locals, NoLocals, Row, Token, Answers, InFlight
<1>2. Numbered'
  BY DEF TypeOK, Numbered, Answer, Locals, NoLocals, Row, Token
<1>3. UniqueRows'
  BY DEF UniqueRows, Answer
<1>4. NewTokens'
  BY DEF TypeOK, Numbered, NewTokens, Answer, Locals, NoLocals, Row, Token,
       Writing, Replying, Answers
<1>5. CarriedRows'
  BY DEF TypeOK, CarriedRows, Answer, Writing, Replying, Refreshing, Answers
<1>6. Snapshot'
  BY DEF TypeOK, Snapshot, Answer, Refreshing, Answers
<1>7. Spaced'
  BY DEF TypeOK, Spaced, Answer, Answers
<1>8. GrantedFor'
  BY DEF TypeOK, GrantedFor, Answer, Replying, Answers
<1>9. History'
  BY DEF History, Answer
<1>10. NotLate'
  BY DEF TypeOK, NotLate, Answer, Refreshing, Answers
<1> QED BY <1>1, <1>2, <1>3, <1>4, <1>5, <1>6, <1>7, <1>8, <1>9, <1>10

\* A check of refreshTokens that is passed.
LEMMA CheckStep ==
  ASSUME IndInv, NEW r \in Requests,
         pc[r] \in {"refreshCheck", "refreshAuth"},
         NEW s \in {"refreshAuth", "refreshDecide"}, Goto(r, s),
         UNCHANGED <<clock, authRows, tokens, lastToken, loc, granted,
                     superseded, revokedIds>>
  PROVE  IndInv'
<1> USE ConfigAssumption DEF ConfigAssumption, IndInv
<1>1. TypeOK'
  BY DEF TypeOK, Goto, Locals, NoLocals, Row, Token, Answers, InFlight
<1>2. Numbered'
  BY DEF TypeOK, Numbered, Goto, Locals, NoLocals, Row, Token
<1>3. UniqueRows'
  BY DEF UniqueRows, Goto
<1>4. NewTokens'
  BY DEF TypeOK, Numbered, NewTokens, Goto, Locals, NoLocals, Row, Token,
       Writing, Replying, Answers
<1>5. CarriedRows'
  BY DEF TypeOK, CarriedRows, Goto, Writing, Replying, Refreshing, Answers
<1>6. Snapshot'
  BY DEF TypeOK, Snapshot, Goto, Refreshing, Answers
<1>7. Spaced'
  BY DEF TypeOK, Spaced, Goto, Answers
<1>8. GrantedFor'
  BY DEF TypeOK, GrantedFor, Goto, Replying, Answers
<1>9. History'
  BY DEF History, Goto
<1>10. NotLate'
  BY DEF TypeOK, NotLate, Goto, Refreshing, Answers
<1> QED BY <1>1, <1>2, <1>3, <1>4, <1>5, <1>6, <1>7, <1>8, <1>9, <1>10

LEMMA GrantStep ==
  ASSUME IndInv, NEW r \in Requests, pc[r] \in Replying, Grant(r)
  PROVE  IndInv'
<1> USE ConfigAssumption DEF ConfigAssumption, IndInv
<1>1. TypeOK'
  <2>1. [id |-> loc[r].row.id, refreshToken |-> loc[r].newToken]
          \in [id : Token, refreshToken : Token]
    BY DEF CarriedRows, GrantedFor, Row
  <2>2. loc' \in [Requests -> Locals]
    BY DEF TypeOK, Grant, Answer, Locals, NoLocals
  <2> QED BY <2>1, <2>2 DEF TypeOK, Grant, Answer, Answers
<1>2. Numbered'
  BY DEF TypeOK, Numbered, Grant, Answer, Locals, NoLocals, Row, Token
<1>3. UniqueRows'
  BY DEF UniqueRows, Grant, Answer
<1>4. NewTokens'
  BY DEF TypeOK, Numbered, NewTokens, Grant, Answer, Locals, NoLocals, Row,
       Token, Writing, Replying, Answers
<1>5. CarriedRows'
  BY DEF TypeOK, CarriedRows, Grant, Answer, Writing, Replying, Refreshing,
       Answers
<1>6. Snapshot'
  BY DEF TypeOK, Snapshot, Grant, Answer, Refreshing, Answers
<1>7. Spaced'
  BY DEF TypeOK, Spaced, Grant, Answer, Answers
<1>8. GrantedFor'
  BY DEF TypeOK, GrantedFor, Grant, Answer, Replying, Answers
<1>9. History'
  BY DEF History, Grant, Answer
<1>10. NotLate'
  BY DEF TypeOK, NotLate, Grant, Answer, Refreshing, Answers
<1> QED BY <1>1, <1>2, <1>3, <1>4, <1>5, <1>6, <1>7, <1>8, <1>9, <1>10

LEMMA DecideStep ==
  ASSUME IndInv, NEW r \in Requests, RefreshDecide(r)
  PROVE  IndInv'
<1> USE ConfigAssumption DEF ConfigAssumption, IndInv
<1>a. CASE RecentlyRefreshed(loc[r].row.lastUsedAt)
  BY <1>a, AnswerStep DEF RefreshDecide, Answers
<1>b. CASE ~RecentlyRefreshed(loc[r].row.lastUsedAt)
  <2> DEFINE new == [loc[r] EXCEPT !.newToken = lastToken + 1, !.madeAt = clock]
  <2>1. /\ loc' = [loc EXCEPT ![r] = new]
        /\ pc' = [pc EXCEPT ![r] = "refreshUpdate"]
        /\ lastToken' = lastToken + 1
        /\ lastToken + 1 \in Token
        /\ pc[r] = "refreshDecide"
        /\ UNCHANGED <<clock, authRows, tokens, granted, superseded, revokedIds>>
    BY <1>b DEF TypeOK, RefreshDecide, Goto, Token
  <2>2. /\ new \in Locals
        /\ new.tok = loc[r].tok /\ new.row = loc[r].row
        /\ new.late = loc[r].late
        /\ new.newToken = lastToken + 1 /\ new.madeAt = clock
    BY <2>1 DEF TypeOK, Locals
  <2>3. /\ loc' \in [Requests -> Locals]
        /\ loc'[r] = new
        /\ \A q \in Requests \ {r} : loc'[q] = loc[q] /\ pc'[q] = pc[q]
        /\ pc'[r] = "refreshUpdate"
    BY <2>1, <2>2 DEF TypeOK
  <2> HIDE DEF new
  <2>4. TypeOK'
    BY <2>1, <2>3 DEF TypeOK, InFlight, Token
  <2>5. Numbered'
    BY <2>1, <2>2, <2>3 DEF TypeOK, Numbered, Locals, Row, Token
  <2>6. UniqueRows'
    BY <2>1 DEF UniqueRows
  <2>7. NewTokens'
    BY <2>1, <2>2, <2>3 DEF TypeOK, Numbered, NewTokens, Locals, Row, Token,
                            Writing, Replying
  <2>8. CarriedRows'
    BY <2>1, <2>2, <2>3 DEF CarriedRows, Writing, Replying, Refreshing
  <2>9. Snapshot'
    BY <2>1, <2>2, <2>3 DEF Snapshot, Refreshing
  <2>10. Spaced'
    BY <1>b, <2>1, <2>2, <2>3 DEF TypeOK, CarriedRows, Row, Refreshing, Spaced,
                                  RecentlyRefreshed
  <2>11. GrantedFor'
    BY <2>1, <2>2, <2>3 DEF GrantedFor, Replying
  <2>12. History'
    BY <2>1 DEF History
  <2>13. NotLate'
    BY <2>1, <2>2, <2>3 DEF NotLate, Refreshing
  <2> QED BY <2>4, <2>5, <2>6, <2>7, <2>8, <2>9, <2>10, <2>11, <2>12, <2>13
<1> QED BY <1>a, <1>b

LEMMA TickStep ==
  ASSUME IndInv, Tick
  PROVE  IndInv'
<1> USE ConfigAssumption DEF ConfigAssumption, IndInv
<1>1. TypeOK'
  BY DEF TypeOK, Tick, Locals, NoLocals, Row, Token, Answers, InFlight
<1>2. Numbered'
  BY DEF TypeOK, Numbered, Tick, Locals, NoLocals, Row, Token
<1>3. UniqueRows'
  BY DEF UniqueRows, Tick
<1>4. NewTokens'
  BY DEF TypeOK, Numbered, NewTokens, Tick, Locals, NoLocals, Row, Token,
       Writing, Replying, Answers
<1>5. CarriedRows'
  BY DEF TypeOK, CarriedRows, Tick, Writing, Replying, Refreshing, Answers
<1>6. Snapshot'
  BY DEF TypeOK, Snapshot, Tick, Refreshing, Answers
<1>7. Spaced'
  BY DEF TypeOK, Spaced, Tick, Answers
<1>8. GrantedFor'
  BY DEF TypeOK, GrantedFor, Tick, Replying, Answers
<1>9. History'
  BY DEF History, Tick
<1>10. NotLate'
  BY DEF TypeOK, NotLate, Tick, Refreshing, Answers
<1> QED BY <1>1, <1>2, <1>3, <1>4, <1>5, <1>6, <1>7, <1>8, <1>9, <1>10

LEMMA IssueInsertStep ==
  ASSUME IndInv, NEW r \in Requests, IssueInsert(r)
  PROVE  IndInv'
<1> USE ConfigAssumption DEF ConfigAssumption, IndInv
<1>a. CASE loc[r].row.authId \notin authRows
  BY <1>a, AnswerStep DEF IssueInsert, Answers
<1>b. CASE loc[r].row.authId \in authRows
  <2> DEFINE new == [loc[r].row EXCEPT !.lastUsedAt = clock]
  <2>1. /\ tokens' = tokens \union {new}
        /\ pc' = [pc EXCEPT ![r] = "issueReply"]
        /\ pc[r] = "issueInsert"
        /\ UNCHANGED <<clock, authRows, lastToken, loc, granted, superseded,
                       revokedIds>>
    BY <1>b DEF IssueInsert, Goto
  <2>2. /\ new \in Row
        /\ new.id = loc[r].newToken
        /\ new.token = loc[r].newToken
        /\ ~new.revoked
    BY <2>1 DEF TypeOK, CarriedRows, Writing, Row
  <2>3. /\ \A q \in Requests \ {r} : pc'[q] = pc[q]
        /\ pc'[r] = "issueReply"
    BY <2>1 DEF TypeOK
  <2> HIDE DEF new
  <2>4. TypeOK'
    BY <2>1, <2>2 DEF TypeOK, InFlight
  <2>5. Numbered'
    BY <2>1, <2>2 DEF Numbered
  <2>6. UniqueRows'
    BY <2>1, <2>2 DEF UniqueRows, NewTokens, Writing
  <2>7. NewTokens'
    BY <2>1, <2>2, <2>3 DEF NewTokens, Writing, Replying
  <2>8. CarriedRows'
    BY <2>1, <2>3 DEF CarriedRows, Writing, Replying, Refreshing
  <2>9. Snapshot'
    BY <2>1, <2>2, <2>3 DEF Snapshot, NewTokens, Writing, Refreshing
  <2>10. Spaced'
    BY <2>1, <2>3 DEF Spaced
  <2>11. GrantedFor'
    <3>1. loc[r].row.id = loc[r].newToken
      BY <2>1 DEF CarriedRows
    <3> QED
      BY <2>1, <2>2, <2>3, <3>1 DEF GrantedFor, NewTokens, Writing, Replying
  <2>12. History'
    BY <2>1, <2>2 DEF History, NewTokens, Writing
  <2>13. NotLate'
    BY <2>1, <2>3 DEF NotLate, Refreshing
  <2> QED BY <2>4, <2>5, <2>6, <2>7, <2>8, <2>9, <2>10, <2>11, <2>12, <2>13
<1> QED BY <1>a, <1>b

LEMMA RefreshReadStep ==
  ASSUME IndInv, NEW r \in Requests, NEW t \in HeldTokens, RefreshRead(r, t)
  PROVE  IndInv'
<1> USE ConfigAssumption DEF ConfigAssumption, IndInv
<1>a. CASE (\A row \in RowsWithToken(t) : row.revoked) /\ Answer(r, "refused")
  BY <1>a, AnswerStep DEF RefreshRead, Answers
<1>b. ASSUME NEW row \in RowsWithToken(t), ~row.revoked,
             loc' = [loc EXCEPT ![r] =
                       [tok |-> t, row |-> row, newToken |-> 0, madeAt |-> 0,
                        late |-> Late(t)]],
             Goto(r, "refreshCheck")
      PROVE  IndInv'
  <2>1. /\ UNCHANGED <<clock, authRows, tokens, lastToken, granted, superseded,
                       revokedIds>>
        /\ pc[r] \in Answers
    BY DEF RefreshRead
  <2>2. row \in tokens /\ row.token = t /\ row \in Row /\ t \in Token
    BY <1>b DEF RowsWithToken, TypeOK, Row
  <2>3. ~Late(t)
    BY <1>b, <2>2 DEF Late, SessionsOf, History, GrantedFor
  <2> DEFINE new == [tok |-> t, row |-> row, newToken |-> 0, madeAt |-> 0,
                     late |-> FALSE]
  <2>4. Late(t) = FALSE
    BY <2>3 DEF Late
  <2>5. loc' = [loc EXCEPT ![r] = new]
    BY <1>b, <2>4
  <2>6. new \in Locals
    BY <2>2 DEF Locals
  <2>7. /\ loc' \in [Requests -> Locals]
        /\ loc'[r] = new
        /\ \A q \in Requests \ {r} : loc'[q] = loc[q] /\ pc'[q] = pc[q]
        /\ pc'[r] = "refreshCheck"
        /\ pc' \in [Requests -> Answers \union InFlight]
    BY <1>b, <2>5, <2>6 DEF TypeOK, Goto, InFlight
  <2>8. TypeOK'
    BY <2>1, <2>7 DEF TypeOK
  <2>9. Numbered'
    BY <2>1, <2>2, <2>7 DEF TypeOK, Numbered
  <2>10. UniqueRows'
    BY <2>1 DEF UniqueRows
  <2>11. NewTokens'
    BY <2>1, <2>2, <2>7 DEF NewTokens, Writing, Replying
  <2>12. CarriedRows'
    BY <2>1, <2>2, <2>7 DEF CarriedRows, Writing, Replying, Refreshing
  <2>13. Snapshot'
    BY <2>1, <2>2, <2>7 DEF Snapshot, UniqueRows, Refreshing
  <2>14. Spaced'
    BY <2>1, <2>7 DEF Spaced
  <2>15. GrantedFor'
    BY <2>1, <2>7 DEF GrantedFor, Replying
  <2>16. History'
    BY <2>1 DEF History
  <2>17. NotLate'
    BY <2>1, <2>7 DEF NotLate, Refreshing
  <2> QED BY <2>8, <2>9, <2>10, <2>11, <2>12, <2>13, <2>14, <2>15, <2>16, <2>17
<1> QED BY <1>a, <1>b DEF RefreshRead

LEMMA LogoutReadStep ==
  ASSUME IndInv, NEW r \in Requests, NEW t \in HeldTokens, LogoutRead(r, t)
  PROVE  IndInv'
<1> USE ConfigAssumption DEF ConfigAssumption, IndInv
<1>a. CASE (\A row \in RowsWithToken(t) : row.revoked) /\ Answer(r, "refused")
  BY <1>a, AnswerStep DEF LogoutRead, Answers
<1>b. ASSUME NEW row \in RowsWithToken(t), ~row.revoked,
             loc' = [loc EXCEPT ![r] =
                       [tok |-> t, row |-> row, newToken |-> 0, madeAt |-> 0,
                        late |-> FALSE]],
             Goto(r, "logoutUpdate")
      PROVE  IndInv'
  <2> DEFINE new == [tok |-> t, row |-> row, newToken |-> 0, madeAt |-> 0,
                     late |-> FALSE]
  <2>1. /\ UNCHANGED <<clock, authRows, tokens, lastToken, granted, superseded,
                       revokedIds>>
        /\ pc[r] \in Answers
    BY DEF LogoutRead
  <2>2. row \in tokens /\ row.token = t /\ row \in Row /\ t \in Token
    BY <1>b DEF RowsWithToken, TypeOK, Row
  <2>3. new \in Locals
    BY <2>2 DEF Locals
  <2>4. /\ loc' \in [Requests -> Locals]
        /\ loc'[r] = new
        /\ \A q \in Requests \ {r} : loc'[q] = loc[q] /\ pc'[q] = pc[q]
        /\ pc'[r] = "logoutUpdate"
        /\ pc' \in [Requests -> Answers \union InFlight]
    BY <1>b, <2>3 DEF TypeOK, Goto, InFlight
  <2>5. TypeOK'
    BY <2>1, <2>4 DEF TypeOK
  <2>6. Numbered'
    BY <2>1, <2>2, <2>4 DEF TypeOK, Numbered
  <2>7. UniqueRows' /\ History'
    BY <2>1 DEF UniqueRows, History
  <2>8. NewTokens'
    BY <2>1, <2>2, <2>4 DEF NewTokens, Writing, Replying
  <2>9. CarriedRows' /\ Snapshot' /\ Spaced'
    BY <2>1, <2>4 DEF CarriedRows, Snapshot, Spaced, Writing, Replying,
         Refreshing
  <2>10. GrantedFor' /\ NotLate'
    BY <2>1, <2>4 DEF GrantedFor, NotLate, Replying, Refreshing
  <2> QED BY <2>5, <2>6, <2>7, <2>8, <2>9, <2>10
<1> QED BY <1>a, <1>b DEF LogoutRead

\* The effect of the rotating UPDATE on the table, row by row: it changes a
\* row only if it still has the token presented, and then that row is the one
\* read, last used at least a cooldown ago.
LEMMA UpdateEffect ==
  ASSUME IndInv, NEW r \in Requests, RefreshUpdate(r), NEW new \in tokens'
  PROVE  \E row \in tokens :
           /\ new.id = row.id /\ new.revoked = row.revoked /\ new \in Row
           /\ new.authId = row.authId
           /\ \/ new = row /\ row.token # loc[r].tok
              \/ /\ row.token = loc[r].tok
                 /\ new.token = loc[r].newToken
                 /\ new.lastUsedAt = loc[r].madeAt
                 /\ new.id = loc[r].row.id
                 /\ new.lastUsedAt >= row.lastUsedAt + REFRESH_COOLDOWN
<1> USE ConfigAssumption DEF ConfigAssumption, IndInv
<1>1. PICK row \in tokens :
        new = IF row.token = loc[r].tok THEN Rotated(row, loc[r]) ELSE row
  BY DEF RefreshUpdate
<1>2. row \in Row /\ pc[r] = "refreshUpdate" /\ loc[r] \in Locals
  BY DEF TypeOK, RefreshUpdate
<1>3. CASE row.token # loc[r].tok
  BY <1>1, <1>2, <1>3
<1>4. CASE row.token = loc[r].tok
  <2>1. loc[r].newToken \in Token /\ loc[r].madeAt \in Int
    BY <1>2 DEF NewTokens, Writing, Locals
  <2>2. /\ Rotated(row, loc[r]) \in Row
        /\ Rotated(row, loc[r]).id = row.id
        /\ Rotated(row, loc[r]).authId = row.authId
        /\ Rotated(row, loc[r]).revoked = row.revoked
        /\ Rotated(row, loc[r]).token = loc[r].newToken
        /\ Rotated(row, loc[r]).lastUsedAt = loc[r].madeAt
    BY <1>2, <2>1 DEF Rotated, Row
  <2>3. row.id = loc[r].row.id /\ row.lastUsedAt = loc[r].row.lastUsedAt
    BY <1>2, <1>4 DEF Snapshot, Refreshing
  <2>4. loc[r].madeAt >= row.lastUsedAt + REFRESH_COOLDOWN
    BY <1>2, <2>3 DEF Spaced
  <2> QED BY <1>1, <1>4, <2>2, <2>3, <2>4
<1> QED BY <1>3, <1>4

LEMMA RefreshUpdateStep ==
  ASSUME IndInv, NEW r \in Requests, RefreshUpdate(r)
  PROVE  IndInv'
<1> USE ConfigAssumption DEF ConfigAssumption, IndInv
<1>1. /\ pc[r] = "refreshUpdate"
      /\ pc' = [pc EXCEPT ![r] = "refreshReply"]
      /\ superseded' = superseded \union
                         {row.token : row \in RowsWithToken(loc[r].tok)}
      /\ UNCHANGED <<clock, authRows, lastToken, loc, granted, revokedIds>>
  BY DEF RefreshUpdate, Goto
<1>2. /\ \A q \in Requests \ {r} : pc'[q] = pc[q]
      /\ pc'[r] = "refreshReply"
  BY <1>1 DEF TypeOK
<1>3. /\ superseded' \subseteq superseded \union {loc[r].tok}
      /\ superseded' \subseteq Token
  BY <1>1 DEF TypeOK, RowsWithToken, Row
<1>4. \A new \in tokens' : \E row \in tokens :
           /\ new.id = row.id /\ new.revoked = row.revoked /\ new \in Row
           /\ new.authId = row.authId
           /\ \/ new = row /\ row.token # loc[r].tok
              \/ /\ row.token = loc[r].tok
                 /\ new.token = loc[r].newToken
                 /\ new.lastUsedAt = loc[r].madeAt
                 /\ new.id = loc[r].row.id
  BY UpdateEffect
<1>5. TypeOK'
  BY <1>1, <1>3, <1>4 DEF TypeOK, InFlight
<1>6. Numbered'
  BY <1>1, <1>3, <1>4 DEF Numbered
<1>7. UniqueRows'
  <2> SUFFICES ASSUME NEW new1 \in tokens', NEW new2 \in tokens',
                      new1.token = new2.token \/ new1.id = new2.id
               PROVE  new1 = new2
    BY DEF UniqueRows
  <2>1. PICK row1 \in tokens :
          new1 = IF row1.token = loc[r].tok THEN Rotated(row1, loc[r]) ELSE row1
    BY DEF RefreshUpdate
  <2>2. PICK row2 \in tokens :
          new2 = IF row2.token = loc[r].tok THEN Rotated(row2, loc[r]) ELSE row2
    BY DEF RefreshUpdate
  <2>3. /\ row1 \in Row /\ row2 \in Row
        /\ row1.token # loc[r].newToken /\ row2.token # loc[r].newToken
    BY <1>1 DEF TypeOK, NewTokens, Writing
  <2>4. row1.token = row2.token \/ row1.id = row2.id
    BY <2>1, <2>2, <2>3 DEF Rotated, Row
  <2>5. row1 = row2
    BY <2>4 DEF UniqueRows
  <2> QED BY <2>1, <2>2, <2>5
<1>8. NewTokens'
  BY <1>1, <1>2, <1>3, <1>4 DEF NewTokens, Writing, Replying
<1>9. CarriedRows'
  BY <1>1, <1>2 DEF CarriedRows, Writing, Replying, Refreshing
<1>10. Snapshot'
  BY <1>1, <1>2, <1>4 DEF Snapshot, NewTokens, Writing, Refreshing
<1>11. Spaced'
  BY <1>1, <1>2 DEF Spaced
<1>12. GrantedFor'
  BY <1>1, <1>2, <1>4 DEF GrantedFor, NewTokens, Writing, Replying
<1>13. History'
  BY <1>1, <1>3, <1>4 DEF History, NewTokens, Writing
<1>14. NotLate'
  BY <1>1, <1>2 DEF NotLate, Refreshing
<1> QED BY <1>5, <1>6, <1>7, <1>8, <1>9, <1>10, <1>11, <1>12, <1>13, <1>14

LEMMA LogoutUpdateStep ==
  ASSUME IndInv, NEW r \in Requests, LogoutUpdate(r)
  PROVE  IndInv'
<1> USE ConfigAssumption DEF ConfigAssumption, IndInv
<1>1. /\ pc[r] = "logoutUpdate"
      /\ Answer(r, "loggedOut")
      /\ revokedIds' = revokedIds \union
                         {row.id : row \in RowsWithToken(loc[r].tok)}
      /\ UNCHANGED <<clock, authRows, lastToken, granted, superseded>>
  BY DEF LogoutUpdate
<1>2. /\ \A q \in Requests \ {r} : pc'[q] = pc[q] /\ loc'[q] = loc[q]
      /\ pc'[r] = "loggedOut" /\ loc'[r] = NoLocals
      /\ loc' \in [Requests -> Locals]
      /\ pc' \in [Requests -> Answers \union InFlight]
  BY <1>1 DEF TypeOK, Answer, Answers, NoLocals, Locals
<1>3. \A new \in tokens' : \E row \in tokens :
        /\ new \in Row
        /\ new.id = row.id /\ new.token = row.token
        /\ new.lastUsedAt = row.lastUsedAt /\ (row.revoked => new.revoked)
        /\ row.token = loc[r].tok => new.revoked
        /\ new = IF row.token = loc[r].tok THEN [row EXCEPT !.revoked = TRUE]
                                           ELSE row
  BY DEF LogoutUpdate, TypeOK, Row
<1>4. /\ \A t \in revokedIds' : t \in revokedIds \/ \E row \in tokens : row.id = t
      /\ \A row \in tokens : row.id \in revokedIds' =>
           row.id \in revokedIds \/ row.token = loc[r].tok
  BY <1>1 DEF RowsWithToken, UniqueRows
<1>5. TypeOK'
  BY <1>1, <1>2, <1>3, <1>4 DEF TypeOK, Row
<1>6. Numbered'
  BY <1>1, <1>2, <1>3, <1>4 DEF TypeOK, Numbered, NoLocals
<1>7. UniqueRows'
  <2> SUFFICES ASSUME NEW new1 \in tokens', NEW new2 \in tokens',
                      new1.token = new2.token \/ new1.id = new2.id
               PROVE  new1 = new2
    BY DEF UniqueRows
  <2>1. PICK row1 \in tokens :
          /\ new1.id = row1.id /\ new1.token = row1.token
          /\ new1 = IF row1.token = loc[r].tok
                      THEN [row1 EXCEPT !.revoked = TRUE] ELSE row1
    BY <1>3
  <2>2. PICK row2 \in tokens :
          /\ new2.id = row2.id /\ new2.token = row2.token
          /\ new2 = IF row2.token = loc[r].tok
                      THEN [row2 EXCEPT !.revoked = TRUE] ELSE row2
    BY <1>3
  <2>3. row1 = row2
    BY <2>1, <2>2 DEF UniqueRows
  <2> QED BY <2>1, <2>2, <2>3
<1>8. NewTokens'
  BY <1>1, <1>2, <1>3, <1>4 DEF NewTokens, NoLocals, Writing, Replying, Token
<1>9. CarriedRows'
  BY <1>1, <1>2 DEF CarriedRows, Writing, Replying, Refreshing
<1>10. Snapshot'
  BY <1>1, <1>2, <1>3 DEF Snapshot, Refreshing
<1>11. Spaced'
  BY <1>1, <1>2 DEF Spaced
<1>12. GrantedFor'
  BY <1>1, <1>2, <1>3 DEF GrantedFor, Replying
<1>13. History'
  BY <1>1, <1>3, <1>4 DEF History
<1>14. NotLate'
  BY <1>1, <1>2 DEF NotLate, Refreshing
<1> QED BY <1>5, <1>6, <1>7, <1>8, <1>9, <1>10, <1>11, <1>12, <1>13, <1>14

LEMMA AuthDeletedStep ==
  ASSUME IndInv, NEW a \in Accounts, AuthDeleted(a)
  PROVE  IndInv'
<1> USE ConfigAssumption DEF ConfigAssumption, IndInv
<1>1. /\ tokens' \subseteq tokens /\ authRows' \subseteq authRows
      /\ UNCHANGED <<clock, lastToken, pc, loc, granted, superseded, revokedIds>>
  BY DEF AuthDeleted
<1>2. TypeOK' /\ Numbered' /\ UniqueRows'
  BY <1>1 DEF TypeOK, Numbered, UniqueRows
<1>3. NewTokens' /\ CarriedRows' /\ Snapshot' /\ Spaced'
  BY <1>1 DEF NewTokens, CarriedRows, Snapshot, Spaced
<1>4. GrantedFor' /\ History' /\ NotLate'
  BY <1>1 DEF GrantedFor, History, NotLate
<1> QED BY <1>2, <1>3, <1>4

-----------------------------------------------------------------------------
(***************************************************************************)
(* The theorems                                                            *)
(***************************************************************************)
LEMMA InitInv == Init => IndInv
<1> USE ConfigAssumption DEF ConfigAssumption
<1> SUFFICES ASSUME Init PROVE IndInv
  OBVIOUS
<1>1. NoLocals \in Locals
  BY DEF NoLocals, Locals
<1>2. TypeOK
  BY <1>1 DEF Init, TypeOK, Answers
<1>3. Numbered
  BY DEF Init, Numbered, NoLocals
<1> QED
  BY <1>2, <1>3 DEF Init, IndInv, UniqueRows, NewTokens, CarriedRows, Snapshot,
       Spaced, GrantedFor, History, NotLate, Writing, Replying, Refreshing

LEMMA NextInv == IndInv /\ [Next]_vars => IndInv'
<1> SUFFICES ASSUME IndInv, [Next]_vars PROVE IndInv'
  OBVIOUS
<1>1. CASE UNCHANGED vars
  BY <1>1 DEF vars, IndInv, TypeOK, Numbered, UniqueRows, NewTokens,
       CarriedRows,
       Snapshot, Spaced, GrantedFor, History, NotLate
<1>2. ASSUME NEW r \in Requests, Handler(r) PROVE IndInv'
  <2>1. CASE \E a \in Accounts : IssueStart(r, a)
    BY <2>1, IssueStartStep
  <2>2. CASE IssueInsert(r)
    BY <2>2, IssueInsertStep
  <2>3. CASE IssueReply(r)
    BY <2>3, GrantStep DEF IssueReply, Replying
  <2>4. CASE \E t \in HeldTokens : RefreshRead(r, t)
    BY <2>4, RefreshReadStep
  <2>5. CASE RefreshCheck(r)
    BY <2>5, AnswerStep, CheckStep DEF RefreshCheck, Answers
  <2>6. CASE RefreshAuth(r)
    BY <2>6, AnswerStep, CheckStep DEF RefreshAuth, Answers
  <2>7. CASE RefreshDecide(r)
    BY <2>7, DecideStep
  <2>8. CASE RefreshUpdate(r)
    BY <2>8, RefreshUpdateStep
  <2>9. CASE RefreshReply(r)
    BY <2>9, GrantStep DEF RefreshReply, Replying
  <2>10. CASE \E t \in HeldTokens : LogoutRead(r, t)
    BY <2>10, LogoutReadStep
  <2>11. CASE LogoutUpdate(r)
    BY <2>11, LogoutUpdateStep
  <2>12. CASE Fail(r)
    BY <2>12, AnswerStep DEF Fail, Answers
  <2> QED
    BY <1>2, <2>1, <2>2, <2>3, <2>4, <2>5, <2>6, <2>7, <2>8, <2>9, <2>10, <2>11,
       <2>12 DEF Handler
<1>3. CASE \E a \in Accounts : AuthDeleted(a)
  BY <1>3, AuthDeletedStep
<1>4. CASE Tick
  BY <1>4, TickStep
<1> QED BY <1>1, <1>2, <1>3, <1>4 DEF Next

\* The inductive invariant holds in every reachable state of the handlers.
THEOREM Invariance == Spec => []IndInv
  BY InitInv, NextInv, PTL DEF Spec

\* Type correctness of the tables, of the handlers' locals and of what the
\* clients hold.
THEOREM TypeCorrect == Spec => []TypeOK
<1>1. IndInv => TypeOK
  BY DEF IndInv
<1> QED BY <1>1, Invariance, PTL

\* refreshTokens never grants a token that was superseded or revoked before
\* its session was read.
THEOREM LateNeverGranted == Spec => []NoLateGrant
<1>1. IndInv => NoLateGrant
  BY DEF IndInv, NotLate, NoLateGrant
<1> QED BY <1>1, Invariance, PTL

\* Tokens separate sessions, those in flight included.
THEOREM TokensSeparate == Spec => []TokenSeparation
<1>1. IndInv => TokenSeparation
  BY DEF IndInv, UniqueRows, NewTokens, TokenSeparation, Writing, Replying
<1> QED BY <1>1, Invariance, PTL

\* What one step may do to a session's row: rotate it after the cooldown, or
\* revoke it for good.
LEMMA SessionStep ==
  ASSUME IndInv, Next, NEW row \in tokens, NEW new \in tokens', row.id = new.id
  PROVE  /\ row.token # new.token
              => new.lastUsedAt >= row.lastUsedAt + REFRESH_COOLDOWN
         /\ row.revoked => new.revoked
<1>1. \A row2 \in tokens : row2.id = row.id => row2 = row
  BY DEF IndInv, UniqueRows
<1>2. CASE tokens' \subseteq tokens
  BY <1>1, <1>2
<1>3. ASSUME NEW r \in Requests, IssueInsert(r), loc[r].row.authId \in authRows
      PROVE  row = new
  <2>1. tokens' = tokens \union {[loc[r].row EXCEPT !.lastUsedAt = clock]}
    BY <1>3 DEF IssueInsert
  <2>2. /\ loc[r].row \in Row
        /\ loc[r].row.id = loc[r].newToken
        /\ row.id # loc[r].newToken
    BY <1>3 DEF IndInv, CarriedRows, NewTokens, IssueInsert, Writing
  <2>3. [loc[r].row EXCEPT !.lastUsedAt = clock].id # row.id
    BY <2>2 DEF Row
  <2> QED BY <1>1, <2>1, <2>3
<1>4. ASSUME NEW r \in Requests, RefreshUpdate(r)
      PROVE  /\ row.token # new.token
                  => new.lastUsedAt >= row.lastUsedAt + REFRESH_COOLDOWN
             /\ row.revoked => new.revoked
  BY <1>1, <1>4, UpdateEffect
<1>5. ASSUME NEW r \in Requests, LogoutUpdate(r)
      PROVE  row.token = new.token /\ (row.revoked => new.revoked)
  <2>1. PICK row2 \in tokens :
          new = IF row2.token = loc[r].tok THEN [row2 EXCEPT !.revoked = TRUE]
                                           ELSE row2
    BY <1>5 DEF LogoutUpdate
  <2>2. /\ new.id = row2.id /\ new.token = row2.token
        /\ row2.revoked => new.revoked
    BY <2>1 DEF IndInv, TypeOK, Row
  <2> QED BY <1>1, <2>2
<1> QED
  BY <1>2, <1>3, <1>4, <1>5 DEF Next, Handler, IssueStart, IssueInsert,
     IssueReply, Grant, RefreshRead, RefreshCheck, RefreshAuth, RefreshDecide,
     RefreshReply, LogoutRead, Fail, AuthDeleted, Tick

\* Only a rotation changes the token of a session, and the WHERE clause of its
\* UPDATE makes it a compare-and-swap: rotations are a cooldown apart.
THEOREM RotationsSpaced == Spec => RotationSpacing
<1>1. IndInv /\ [Next]_vars =>
        [\A row \in tokens, new \in tokens' :
           row.id = new.id /\ row.token # new.token
             => new.lastUsedAt >= row.lastUsedAt + REFRESH_COOLDOWN]_vars
  BY SessionStep
<1> QED BY <1>1, Invariance, PTL DEF Spec, RotationSpacing

\* A session that was revoked stays revoked as long as its row exists.
THEOREM RevocationIsFinal == Spec => RevocationFinal
<1>1. IndInv /\ [Next]_vars =>
        [\A row \in tokens, new \in tokens' :
           row.id = new.id /\ row.revoked => new.revoked]_vars
  BY SessionStep
<1> QED BY <1>1, Invariance, PTL DEF Spec, RevocationFinal

=============================================================================
