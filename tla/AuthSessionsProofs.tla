------------------------- MODULE AuthSessionsProofs -------------------------
(***************************************************************************)
(* AuthSessions for every number of users, devices, sessions, overlapping  *)
(* requests and every lifetime.  The inductive invariant adds to the four  *)
(* invariants of the module what they lean on: row ids in use were born, a *)
(* row keeps its owner, its device and its expiry, a token carries the id  *)
(* of its row, and what a login saw when it began is its device's.         *)
(***************************************************************************)
EXTENDS AuthSessions, MapTheorems

BornFirst ==
  /\ DOMAIN sessions \cup ended \subseteq DOMAIN born
  /\ \A q \in Requests :
       req[q].pc \in {"clean", "create"} => req[q].before \subseteq DOMAIN born

RowsKeepExpiry ==
  \A s \in DOMAIN sessions : sessions[s].expiresAt = born[s] + TTL

RotatesItsRow ==
  \A q \in Requests : req[q].pc = "rotate" => req[q].new.sid = req[q].sid

LoginSawItsDevice ==
  \A q \in Requests :
    req[q].pc = "clean" =>
      req[q].before \cap DOMAIN sessions \subseteq SessionsOf(req[q].user, req[q].agent)

IInv ==
  /\ TypeOK
  /\ BornFirst
  /\ RowsKeepExpiry
  /\ TokenOfItsRow
  /\ RotatesItsRow
  /\ LoginSawItsDevice
  /\ EndedStaysEnded
  /\ DeviceReplaced
  /\ TokenNotForgotten

-----------------------------------------------------------------------------
LEMMA InitIInv == Init => IInv
  BY DEF Init, IInv, TypeOK, IsMap, Idle, Request, BornFirst, RowsKeepExpiry,
         TokenOfItsRow, RotatesItsRow, LoginSawItsDevice, EndedStaysEnded,
         DeviceReplaced, TokenNotForgotten

(* A step that leaves the table alone and moves one request on disturbs    *)
(* only what is said of that request.                                      *)
LEMMA GotoFacts ==
  ASSUME IInv, NEW q \in Requests, NEW r \in Request, Goto(q, r)
  PROVE  /\ req' \in [Requests -> Request]
         /\ req'[q] = r
         /\ \A p \in Requests : p # q => req'[p] = req[p]
  BY DEF Goto, IInv, TypeOK

LEMMA NewTokenType ==
  ASSUME IInv, NEW s \in SessionIds
  PROVE  NewToken(s) \in Token /\ NewToken(s).sid = s
  BY DEF IInv, TypeOK, NewToken, Token

(* The local data a request has at each point of its use case.             *)
LEMMA RequestShape ==
  ASSUME NEW r \in Request
  PROVE  /\ r.pc \in {"clean", "create"} =>
              r.user \in Users /\ r.agent \in Agents \cup {NoAgent} /\ r.before \subseteq SessionIds
         /\ r.pc = "clean" => [r EXCEPT !.pc = "create"] \in Request
         /\ r.pc = "rotate" => r.sid \in SessionIds /\ r.new \in Token
         /\ r.pc = "answer" => r.new \in Token
         /\ r.pc = "delete" => r.sid \in SessionIds
  BY DEF Request, Idle

(* A step that moves one request and writes no row: the parts of the       *)
(* invariant that speak of the table and of the other requests still hold. *)
LEMMA RequestStep ==
  ASSUME IInv, NEW q \in Requests, NEW r \in Request, Goto(q, r),
         UNCHANGED <<sessions, born, ended, lost, now>>,
         handed \subseteq handed', handed' \subseteq Token,
         req[q].pc = "answer" => req[q].new \in handed',
         r.pc \in {"clean", "create"} => r.before \subseteq DOMAIN born,
         r.pc = "clean" => r.before \cap DOMAIN sessions \subseteq SessionsOf(r.user, r.agent),
         r.pc = "create" => r.before \cap DOMAIN sessions = {},
         r.pc = "rotate" => r.new.sid = r.sid
  PROVE  IInv'
<1>1. /\ req' \in [Requests -> Request]
      /\ req'[q] = r
      /\ \A p \in Requests : p # q => req'[p] = req[p]
  BY GotoFacts
<1>2. TypeOK'
  BY <1>1 DEF IInv, TypeOK
<1>3. BornFirst'
  BY <1>1 DEF IInv, BornFirst
<1>4. RotatesItsRow'
  BY <1>1 DEF IInv, RotatesItsRow
<1>5. LoginSawItsDevice'
  BY <1>1 DEF IInv, LoginSawItsDevice, SessionsOf
<1>6. DeviceReplaced'
  BY <1>1 DEF IInv, DeviceReplaced
<1>7. TokenNotForgotten'
  BY <1>1 DEF IInv, TokenNotForgotten, Answering
<1>8. (RowsKeepExpiry /\ TokenOfItsRow /\ EndedStaysEnded)'
  BY DEF IInv, RowsKeepExpiry, TokenOfItsRow, EndedStaysEnded
<1> QED
  BY <1>2, <1>3, <1>4, <1>5, <1>6, <1>7, <1>8 DEF IInv

(* A step that deletes rows and moves one request, which was not           *)
(* answering, on.                                                          *)
LEMMA DeleteStep ==
  ASSUME IInv, NEW q \in Requests, NEW r \in Request, Goto(q, r), NEW S, DeleteRows(S),
         UNCHANGED <<handed, lost, now>>,
         req[q].pc # "answer", r.pc \notin {"clean", "rotate"},
         r.pc = "create" => r.before \subseteq DOMAIN born /\ r.before \cap DOMAIN sessions \subseteq S
  PROVE  IInv'
<1>1. /\ req' \in [Requests -> Request]
      /\ req'[q] = r
      /\ \A p \in Requests : p # q => req'[p] = req[p]
  BY GotoFacts
<1>2. /\ DOMAIN sessions' = DOMAIN sessions \ S
      /\ \A s \in DOMAIN sessions \ S : sessions'[s] = sessions[s]
  BY DEF DeleteRows, Without, Restrict
<1>3. born' = born /\ ended' = ended \cup (S \cap DOMAIN sessions)
  BY DEF DeleteRows
<1>4. TypeOK'
  <2>1. IsMap(sessions', SessionIds, Row)
    BY WithoutType DEF IInv, TypeOK, DeleteRows
  <2> QED
    BY <1>1, <1>3, <2>1 DEF IInv, TypeOK, IsMap
<1>5. BornFirst'
  BY <1>1, <1>2, <1>3 DEF IInv, BornFirst
<1>6. RotatesItsRow'
  BY <1>1 DEF IInv, RotatesItsRow
<1>7. LoginSawItsDevice'
  BY <1>1, <1>2 DEF IInv, LoginSawItsDevice, SessionsOf
<1>8. DeviceReplaced'
  BY <1>1, <1>2 DEF IInv, DeviceReplaced
<1>9. TokenNotForgotten'
  BY <1>1, <1>2 DEF IInv, TokenNotForgotten, Answering
<1>10. (RowsKeepExpiry /\ TokenOfItsRow /\ EndedStaysEnded)'
  BY <1>2, <1>3 DEF IInv, RowsKeepExpiry, TokenOfItsRow, EndedStaysEnded
<1> QED
  BY <1>4, <1>5, <1>6, <1>7, <1>8, <1>9, <1>10 DEF IInv

-----------------------------------------------------------------------------
LEMMA CreateStep ==
  ASSUME IInv, NEW q \in Requests, NEW s \in SessionIds, createTokensForUser(q, s)
  PROVE  IInv'
<1> DEFINE row == [userId |-> req[q].user, userAgent |-> req[q].agent,
                   sessionId |-> NewToken(s), expiresAt |-> now + TTL]
           r == [pc |-> "answer", new |-> NewToken(s)]
<1>1. NewToken(s) \in Token /\ NewToken(s).sid = s
  BY NewTokenType
<1>2. r \in Request
  BY <1>1 DEF Request
<1>3. /\ req' \in [Requests -> Request]
      /\ req'[q] = r
      /\ \A p \in Requests : p # q => req'[p] = req[p]
  BY <1>2, GotoFacts DEF createTokensForUser
<1>4. row \in Row
  <2>1. req[q].user \in Users /\ req[q].agent \in Agents \cup {NoAgent}
    BY RequestShape DEF createTokensForUser, IInv, TypeOK
  <2>2. now + TTL \in Nat
    BY TTLAssumption DEF IInv, TypeOK
  <2> QED
    BY <1>1, <2>1, <2>2 DEF Row
<1>5. sessions' = With(sessions, s, row) /\ born' = With(born, s, now)
        /\ UNCHANGED <<now, handed, ended, lost>> /\ s \notin DOMAIN born
        /\ req[q].pc = "create"
  BY DEF createTokensForUser
<1> HIDE DEF row, r
<1>6. /\ DOMAIN sessions' = DOMAIN sessions \cup {s}
      /\ sessions'[s] = row
      /\ \A t \in DOMAIN sessions : t # s => sessions'[t] = sessions[t]
  BY <1>5 DEF With
<1>7. /\ DOMAIN born' = DOMAIN born \cup {s}
      /\ born'[s] = now
      /\ \A t \in DOMAIN born : born'[t] = born[t]
  BY <1>5 DEF With
<1>8. s \notin DOMAIN sessions /\ s \notin ended
        /\ \A p \in Requests : req[p].pc \in {"clean", "create"} => s \notin req[p].before
  BY <1>5 DEF IInv, BornFirst
<1>9. TypeOK'
  <2>1. IsMap(sessions', SessionIds, Row)
    BY <1>4, <1>5, WithType DEF IInv, TypeOK
  <2>2. IsMap(born', SessionIds, Nat)
    BY <1>5, WithType DEF IInv, TypeOK
  <2> QED
    BY <1>3, <1>5, <2>1, <2>2 DEF IInv, TypeOK
<1>10. BornFirst'
  BY <1>3, <1>5, <1>6, <1>7 DEF IInv, BornFirst, r
<1>11. RotatesItsRow'
  BY <1>3 DEF IInv, RotatesItsRow, r
<1>12. LoginSawItsDevice'
  <2> SUFFICES ASSUME NEW p \in Requests, req'[p].pc = "clean",
                      NEW t \in req'[p].before \cap DOMAIN sessions'
               PROVE  t \in SessionsOf(req[p].user, req[p].agent)'
    BY DEF LoginSawItsDevice
  <2>1. p # q /\ req'[p] = req[p]
    BY <1>3 DEF r
  <2>2. t # s /\ t \in SessionsOf(req[p].user, req[p].agent)
    BY <1>6, <1>8, <2>1 DEF IInv, LoginSawItsDevice
  <2> QED
    BY <1>6, <2>1, <2>2 DEF SessionsOf
<1>13. DeviceReplaced'
  BY <1>3, <1>6, <1>8 DEF IInv, DeviceReplaced, r
<1>14. TokenNotForgotten'
  <2>1. \A p \in Answering : p \in Answering' /\ req'[p] = req[p]
    BY <1>3, <1>5 DEF Answering
  <2>2. q \in Answering' /\ req'[q].new = sessions'[s].sessionId
    BY <1>3, <1>6 DEF Answering, r, row
  <2> QED
    BY <1>5, <1>6, <2>1, <2>2 DEF IInv, TokenNotForgotten
<1>15. (RowsKeepExpiry /\ TokenOfItsRow /\ EndedStaysEnded)'
  <2>1. RowsKeepExpiry'
    BY <1>6, <1>7 DEF IInv, RowsKeepExpiry, BornFirst, row
  <2>2. TokenOfItsRow'
    BY <1>1, <1>6 DEF IInv, TokenOfItsRow, row
  <2>3. EndedStaysEnded'
    BY <1>5, <1>6, <1>8 DEF IInv, EndedStaysEnded
  <2> QED
    BY <2>1, <2>2, <2>3
<1> QED
  BY <1>9, <1>10, <1>11, <1>12, <1>13, <1>14, <1>15 DEF IInv

LEMMA RotateStep ==
  ASSUME IInv, NEW q \in Requests, refreshUpdate(q)
  PROVE  IInv'
<1> DEFINE s == req[q].sid
           t == req[q].new
           row == Rotated(sessions[s], t)
           r == [pc |-> "answer", new |-> t]
<1>1. s \in SessionIds /\ s \in DOMAIN sessions /\ t \in Token /\ t.sid = s
  BY RequestShape DEF refreshUpdate, IInv, TypeOK, RotatesItsRow
<1>2. r \in Request
  BY <1>1 DEF Request
<1>3. /\ req' \in [Requests -> Request]
      /\ req'[q] = r
      /\ \A p \in Requests : p # q => req'[p] = req[p]
  BY <1>2, GotoFacts DEF refreshUpdate
<1>4. sessions[s] \in Row
  BY <1>1 DEF IInv, TypeOK, IsMap
<1>5. /\ row \in Row
      /\ row.sessionId = t
      /\ row.userId = sessions[s].userId
      /\ row.userAgent = sessions[s].userAgent
      /\ row.expiresAt = sessions[s].expiresAt
  BY <1>1, <1>4 DEF Rotated, Row
<1>6. sessions' = With(sessions, s, row) /\ UNCHANGED <<now, handed, born, ended, lost>>
        /\ req[q].pc = "rotate"
  BY DEF refreshUpdate
<1> HIDE DEF row, r, s, t
<1>7. /\ DOMAIN sessions' = DOMAIN sessions
      /\ sessions'[s] = row
      /\ \A x \in DOMAIN sessions : x # s => sessions'[x] = sessions[x]
  BY <1>1, <1>6 DEF With
<1>8. TypeOK'
  <2>1. IsMap(sessions', SessionIds, Row)
    BY <1>1, <1>5, <1>6, WithType DEF IInv, TypeOK
  <2> QED
    BY <1>3, <1>6, <2>1 DEF IInv, TypeOK
<1>9. BornFirst'
  BY <1>3, <1>6, <1>7 DEF IInv, BornFirst, r
<1>10. RotatesItsRow'
  BY <1>3 DEF IInv, RotatesItsRow, r
<1>11. LoginSawItsDevice'
  <2> SUFFICES ASSUME NEW p \in Requests, req'[p].pc = "clean",
                      NEW x \in req'[p].before \cap DOMAIN sessions'
               PROVE  x \in SessionsOf(req[p].user, req[p].agent)'
    BY DEF LoginSawItsDevice
  <2>1. p # q /\ req'[p] = req[p]
    BY <1>3 DEF r
  <2>2. x \in SessionsOf(req[p].user, req[p].agent)
    BY <1>7, <2>1 DEF IInv, LoginSawItsDevice
  <2> QED
    BY <1>5, <1>7, <2>1, <2>2 DEF SessionsOf
<1>12. DeviceReplaced'
  BY <1>3, <1>7 DEF IInv, DeviceReplaced, r
<1>13. TokenNotForgotten'
  <2>1. \A p \in Answering : p \in Answering' /\ req'[p] = req[p]
    BY <1>3, <1>6 DEF Answering
  <2>2. q \in Answering' /\ req'[q].new = sessions'[s].sessionId
    BY <1>3, <1>5, <1>7 DEF Answering, r
  <2> QED
    BY <1>6, <1>7, <2>1, <2>2 DEF IInv, TokenNotForgotten
<1>14. RowsKeepExpiry'
  BY <1>5, <1>6, <1>7 DEF IInv, RowsKeepExpiry
<1>15. TokenOfItsRow'
  BY <1>1, <1>5, <1>7 DEF IInv, TokenOfItsRow
<1>16. EndedStaysEnded'
  BY <1>6, <1>7 DEF IInv, EndedStaysEnded
<1> QED
  BY <1>8, <1>9, <1>10, <1>11, <1>12, <1>13, <1>14, <1>15, <1>16 DEF IInv

LEMMA CrashStep == IInv /\ crash => IInv'
<1> SUFFICES ASSUME IInv, crash PROVE IInv'
  OBVIOUS
<1>1. req' = [q \in Requests |-> Idle] /\ Idle \in Request /\ Idle.pc = "idle"
        /\ UNCHANGED <<now, table, handed>>
  BY DEF crash, Idle, Request
<1>2. lost' = lost \cup {req[q].new : q \in Answering}
  BY DEF crash
<1>3. \A q \in Answering : req[q].new \in Token
  BY RequestShape DEF IInv, TypeOK, Answering
<1>4. TypeOK'
  BY <1>1, <1>2, <1>3 DEF IInv, TypeOK, table
<1>5. (BornFirst /\ RotatesItsRow /\ LoginSawItsDevice /\ DeviceReplaced)'
  BY <1>1 DEF IInv, BornFirst, RotatesItsRow, LoginSawItsDevice, DeviceReplaced, table
<1>6. (RowsKeepExpiry /\ TokenOfItsRow /\ EndedStaysEnded)'
  BY <1>1 DEF IInv, RowsKeepExpiry, TokenOfItsRow, EndedStaysEnded, table
<1>7. TokenNotForgotten'
  BY <1>1, <1>2 DEF IInv, TokenNotForgotten, table
<1> QED
  BY <1>4, <1>5, <1>6, <1>7 DEF IInv

LEMMA TickStep == IInv /\ (tick \/ UNCHANGED vars) => IInv'
<1> SUFFICES ASSUME IInv, tick \/ UNCHANGED vars PROVE IInv'
  OBVIOUS
<1>1. UNCHANGED <<sessions, req, handed, born, ended, lost>> /\ now' \in Nat
  BY DEF IInv, TypeOK, tick, table, vars
<1> QED
  BY <1>1 DEF IInv, TypeOK, BornFirst, RowsKeepExpiry, TokenOfItsRow, RotatesItsRow,
              LoginSawItsDevice, SessionsOf, EndedStaysEnded, DeviceReplaced,
              TokenNotForgotten, Answering

-----------------------------------------------------------------------------
(* The actions of one request.                                             *)
RequestNext(q) ==
  \/ \E u \in Users, a \in Agents : loginStart(q, u, a)
  \/ deleteSessionsByUserAgent(q)
  \/ \E s \in SessionIds : createTokensForUser(q, s)
  \/ \E u \in Users : googleLogin(q, u)
  \/ \E t \in handed : refreshFind(q, t)
  \/ refreshUpdate(q)
  \/ refreshFails(q)
  \/ \E t \in handed : logoutFind(q, t)
  \/ logoutDelete(q)
  \/ answer(q)

LEMMA RequestNextIInv ==
  ASSUME IInv, NEW q \in Requests, RequestNext(q)
  PROVE  IInv'
<1>1. Idle \in Request /\ Idle.pc = "idle" /\ req[q] \in Request /\ handed \subseteq Token
  BY DEF Idle, Request, IInv, TypeOK
<1>2. ASSUME NEW u \in Users, NEW a \in Agents, loginStart(q, u, a) PROVE IInv'
  <2> DEFINE r == [pc |-> "clean", user |-> u, agent |-> a, before |-> SessionsOf(u, a)]
  <2>1. SessionsOf(u, a) \subseteq DOMAIN sessions /\ DOMAIN sessions \subseteq SessionIds
          /\ DOMAIN sessions \subseteq DOMAIN born
    BY DEF SessionsOf, IInv, TypeOK, IsMap, BornFirst
  <2>2. r \in Request
    BY <2>1 DEF Request
  <2>3. Goto(q, r) /\ UNCHANGED <<sessions, born, ended, lost, now, handed>> /\ req[q].pc = "idle"
    BY <1>1, <1>2 DEF loginStart, table
  <2> QED
    BY <1>1, <2>1, <2>2, <2>3, RequestStep
<1>3. CASE deleteSessionsByUserAgent(q)
  <2> DEFINE S == SessionsOf(req[q].user, req[q].agent)
             r == [req[q] EXCEPT !.pc = "create"]
  <2>1. req[q].pc = "clean" /\ DeleteRows(S) /\ Goto(q, r) /\ UNCHANGED <<now, handed, lost>>
    BY <1>3 DEF deleteSessionsByUserAgent
  <2>2. r \in Request
    BY <1>1, <2>1, RequestShape
  <2>3. r.pc = "create" /\ r.before = req[q].before
    BY <1>1, <2>1 DEF Request, Idle
  <2>4. req[q].before \subseteq DOMAIN born /\ req[q].before \cap DOMAIN sessions \subseteq S
    BY <2>1 DEF IInv, BornFirst, LoginSawItsDevice
  <2> HIDE DEF S, r
  <2> QED
    BY <2>1, <2>2, <2>3, <2>4, DeleteStep
<1>4. CASE \E s \in SessionIds : createTokensForUser(q, s)
  BY <1>4, CreateStep
<1>5. ASSUME NEW u \in Users, googleLogin(q, u) PROVE IInv'
  <2> DEFINE r == [pc |-> "create", user |-> u, agent |-> NoAgent, before |-> {}]
  <2>1. r \in Request
    BY DEF Request
  <2>2. Goto(q, r) /\ UNCHANGED <<sessions, born, ended, lost, now, handed>> /\ req[q].pc = "idle"
    BY <1>1, <1>5 DEF googleLogin, table
  <2> QED
    BY <1>1, <2>1, <2>2, RequestStep
<1>6. ASSUME NEW t \in handed, refreshFind(q, t) PROVE IInv'
  <2>1. PICK s \in SessionIds : Goto(q, [pc |-> "rotate", sid |-> s, new |-> NewToken(s)])
    BY <1>6 DEF refreshFind
  <2> DEFINE r == [pc |-> "rotate", sid |-> s, new |-> NewToken(s)]
  <2>2. r \in Request /\ r.new.sid = r.sid
    BY NewTokenType DEF Request
  <2>3. UNCHANGED <<sessions, born, ended, lost, now, handed>> /\ req[q].pc = "idle"
    BY <1>1, <1>6 DEF refreshFind, table
  <2> QED
    BY <1>1, <2>1, <2>2, <2>3, RequestStep
<1>7. CASE refreshUpdate(q)
  BY <1>7, RotateStep
<1>8. CASE refreshFails(q)
  <2>1. Goto(q, Idle) /\ UNCHANGED <<sessions, born, ended, lost, now, handed>>
          /\ req[q].pc = "rotate"
    BY <1>8 DEF refreshFails, table
  <2> QED
    BY <1>1, <2>1, RequestStep
<1>9. ASSUME NEW t \in handed, logoutFind(q, t) PROVE IInv'
  <2>1. PICK s \in SessionIds : Goto(q, [pc |-> "delete", sid |-> s])
    BY <1>9 DEF logoutFind
  <2>2. [pc |-> "delete", sid |-> s] \in Request
    BY DEF Request
  <2>3. UNCHANGED <<sessions, born, ended, lost, now, handed>> /\ req[q].pc = "idle"
    BY <1>1, <1>9 DEF logoutFind, table
  <2> QED
    BY <1>1, <2>1, <2>2, <2>3, RequestStep
<1>10. CASE logoutDelete(q)
  <2>1. DeleteRows({req[q].sid}) /\ Goto(q, Idle) /\ UNCHANGED <<now, handed, lost>>
          /\ req[q].pc = "delete"
    BY <1>10 DEF logoutDelete
  <2> QED
    BY <1>1, <2>1, DeleteStep
<1>11. CASE answer(q)
  <2>1. Goto(q, Idle) /\ UNCHANGED <<sessions, born, ended, lost, now>>
          /\ handed' = handed \cup {req[q].new} /\ req[q].new \in Token
    BY <1>1, <1>11, RequestShape DEF answer, table
  <2> QED
    BY <1>1, <2>1, RequestStep
<1> QED
  BY <1>2, <1>3, <1>4, <1>5, <1>6, <1>7, <1>8, <1>9, <1>10, <1>11 DEF RequestNext

LEMMA SpecIInv == Spec => []IInv
<1>1. Init => IInv
  BY InitIInv
<1>2. IInv /\ [Next]_vars => IInv'
  BY CrashStep, TickStep, RequestNextIInv DEF Next, RequestNext
<1> QED
  BY <1>1, <1>2, PTL DEF Spec

(* Rows, tokens and requests keep their types.                             *)
THEOREM SessionsAreWellTyped == Spec => []TypeOK
<1>1. IInv => TypeOK
  BY DEF IInv
<1> QED
  BY <1>1, SpecIInv, PTL

(* Whatever the requests in progress do, a session that was logged out or  *)
(* replaced never comes back, and a login leaves none of the sessions its  *)
(* device had when the login began.                                        *)
THEOREM SessionsEndForGood == Spec => [](EndedStaysEnded /\ DeviceReplaced)
<1>1. IInv => EndedStaysEnded /\ DeviceReplaced
  BY DEF IInv
<1> QED
  BY <1>1, SpecIInv, PTL

(* The token a stored session answers to is the client's, on its way, or   *)
(* was lost in a crash.                                                    *)
THEOREM TokensReachClients == Spec => []TokenNotForgotten
<1>1. IInv => TokenNotForgotten
  BY DEF IInv
<1> QED
  BY <1>1, SpecIInv, PTL

(* No token is usable once the lifetime of the login it descends from is   *)
(* over.                                                                   *)
THEOREM LoginBoundsTokens == Spec => []NoTokenOutlivesLogin
<1>1. IInv => NoTokenOutlivesLogin
  <2> SUFFICES ASSUME IInv, NEW t \in handed, NEW s \in SessionIds, Refreshable(s, t)
               PROVE  now < born[t.sid] + TTL
    BY DEF NoTokenOutlivesLogin, Usable
  <2>1. s \in DOMAIN sessions /\ sessions[s].sessionId = t /\ sessions[s].expiresAt > now
    BY DEF Refreshable, Matches
  <2>2. t.sid = s /\ sessions[s].expiresAt = born[s] + TTL
    BY <2>1 DEF IInv, TokenOfItsRow, RowsKeepExpiry
  <2>3. born[s] \in Nat /\ now \in Nat /\ TTL \in Nat
    BY <2>1, TTLAssumption DEF IInv, TypeOK, IsMap, BornFirst
  <2> QED
    BY <2>1, <2>2, <2>3
<1> QED
  BY <1>1, SpecIInv, PTL
=============================================================================
