---------------------------- MODULE AuthSessions ----------------------------
(***************************************************************************)
(* The refresh-token sessions of the auth module: LoginUseCase,            *)
(* GoogleAuthUseCase, RefreshTokenUseCase and LogoutUseCase over the       *)
(* Session table.  A use case is a sequence of awaited database calls, and *)
(* the calls of several requests interleave; each action below is one such *)
(* call with the synchronous code around it.                               *)
(*                                                                         *)
(* A refresh token is a JWT made from the id of its session row and the    *)
(* second it was issued in, so two refreshes of one session in one second  *)
(* make the same token.  The column sessionId is the hash of the row's     *)
(* current token; the hash is injective for our purposes and the model     *)
(* stores the token.  Row ids are random: a new row has a new id.  No code *)
(* with a caller sets isRevoked, which is therefore left out.              *)
(***************************************************************************)
EXTENDS Integers, Maps

CONSTANTS Users,
          Agents,      \* user-agent strings; a login always has one
          NoAgent,     \* the user agent of a Google login
          SessionIds,  \* ids of session rows
          Requests,    \* slots for requests in progress
          TTL,         \* seconds a session, and a token, lives: 7 days
          MaxNow       \* bound on the clock

ASSUME NoAgentAssumption == NoAgent \notin Agents
ASSUME TTLAssumption == TTL \in Nat \ {0}
ASSUME MaxNowAssumption == MaxNow \in Nat

VARIABLES
  now,        \* the clock, in seconds
  sessions,   \* the Session table: row id -> row
  req,        \* request -> where it is in its use case
  handed,     \* refresh tokens that reached a client
  born,       \* history: row id -> second it was created in
  ended,      \* history: row ids that were deleted
  lost        \* history: tokens whose answer a crash of the server lost

table == <<sessions, born, ended>>
vars == <<now, sessions, req, handed, born, ended, lost>>

Token == [sid : SessionIds, iat : Nat]
Row == [userId : Users, userAgent : Agents \cup {NoAgent},
        sessionId : Token, expiresAt : Nat]

Idle == [pc |-> "idle"]

Request ==
  {Idle}
    \cup [pc : {"clean", "create"}, user : Users, agent : Agents \cup {NoAgent},
          before : SUBSET SessionIds]
    \cup [pc : {"rotate"}, sid : SessionIds, new : Token]
    \cup [pc : {"answer"}, new : Token]
    \cup [pc : {"delete"}, sid : SessionIds]

TypeOK ==
  /\ now \in Nat
  /\ IsMap(sessions, SessionIds, Row)
  /\ req \in [Requests -> Request]
  /\ handed \subseteq Token
  /\ IsMap(born, SessionIds, Nat)
  /\ ended \subseteq SessionIds
  /\ lost \subseteq Token

-----------------------------------------------------------------------------
NewToken(sid) == [sid |-> sid, iat |-> now]

(* The row a refresh finds: findFirst by the hash, not expired.            *)
Matches(s, t) == s \in DOMAIN sessions /\ sessions[s].sessionId = t
Refreshable(s, t) == Matches(s, t) /\ sessions[s].expiresAt > now

(* jwtService.verify: the signature is the issuer's, and exp is not over.  *)
Verifies(t) == now < t.iat + TTL

Usable(t) == Verifies(t) /\ \E s \in SessionIds : Refreshable(s, t)

SessionsOf(u, a) ==
  {s \in DOMAIN sessions : sessions[s].userId = u /\ sessions[s].userAgent = a}

DeleteRows(S) ==
  /\ sessions' = Without(sessions, S)
  /\ ended' = ended \cup (S \cap DOMAIN sessions)
  /\ UNCHANGED born

Goto(q, r) == req' = [req EXCEPT ![q] = r]

-----------------------------------------------------------------------------
(* LoginUseCase: the credentials are checked, ...                          *)
loginStart(q, u, a) ==
  /\ req[q] = Idle
  /\ Goto(q, [pc |-> "clean", user |-> u, agent |-> a, before |-> SessionsOf(u, a)])
  /\ UNCHANGED <<now, table, handed, lost>>

(* ... the sessions of the same user agent are deleted, ...                *)
deleteSessionsByUserAgent(q) ==
  /\ req[q].pc = "clean"
  /\ DeleteRows(SessionsOf(req[q].user, req[q].agent))
  /\ Goto(q, [req[q] EXCEPT !.pc = "create"])
  /\ UNCHANGED <<now, handed, lost>>

(* ... and createTokensForUser makes the token and inserts the row.        *)
createTokensForUser(q, s) ==
  /\ req[q].pc = "create"
  /\ s \notin DOMAIN born
  /\ sessions' = With(sessions, s,
                      [userId |-> req[q].user, userAgent |-> req[q].agent,
                       sessionId |-> NewToken(s), expiresAt |-> now + TTL])
  /\ born' = With(born, s, now)
  /\ Goto(q, [pc |-> "answer", new |-> NewToken(s)])
  /\ UNCHANGED <<now, handed, ended, lost>>

(* GoogleAuthUseCase of an existing or new account: no user agent, and no  *)
(* session is deleted.                                                     *)
googleLogin(q, u) ==
  /\ req[q] = Idle
  /\ Goto(q, [pc |-> "create", user |-> u, agent |-> NoAgent, before |-> {}])
  /\ UNCHANGED <<now, table, handed, lost>>

(* refreshAccessToken: the row is looked up and the new token made.  A     *)
(* token that verifies and has no row, or an expired one, is refused.      *)
refreshFind(q, t) ==
  /\ req[q] = Idle
  /\ Verifies(t)
  /\ \E s \in SessionIds :
       /\ Refreshable(s, t)
       /\ Goto(q, [pc |-> "rotate", sid |-> s, new |-> NewToken(s)])
  /\ UNCHANGED <<now, table, handed, lost>>

\* Mutants: the expiry slides with each refresh; the id in the token is
\* stored instead of its hash.
RotatedSliding(row, t) == [row EXCEPT !.sessionId = t, !.expiresAt = now + TTL]

RotatedRaw(row, t) == [row EXCEPT !.sessionId = t.sid]

(* ... and after the await the row is updated by its id, whatever token it *)
(* holds by now.                                                           *)
Rotated(row, t) == [row EXCEPT !.sessionId = t]

\* Mutants: the row is written by an upsert; the token is made again at the
\* time of the write.
RefreshUpserts(q) ==
  /\ req[q].pc = "rotate"
  /\ \E u \in Users :
       sessions' = With(sessions, req[q].sid,
                        [userId |-> u, userAgent |-> NoAgent,
                         sessionId |-> req[q].new, expiresAt |-> now + TTL])
  /\ Goto(q, [pc |-> "answer", new |-> req[q].new])
  /\ UNCHANGED <<now, handed, born, ended, lost>>

RefreshRemakes(q) ==
  /\ req[q].pc = "rotate"
  /\ req[q].sid \in DOMAIN sessions
  /\ sessions' = With(sessions, req[q].sid,
                      Rotated(sessions[req[q].sid], NewToken(req[q].sid)))
  /\ Goto(q, [pc |-> "answer", new |-> req[q].new])
  /\ UNCHANGED <<now, handed, born, ended, lost>>

refreshUpdate(q) ==
  /\ req[q].pc = "rotate"
  /\ req[q].sid \in DOMAIN sessions
  /\ sessions' = With(sessions, req[q].sid, Rotated(sessions[req[q].sid], req[q].new))
  /\ Goto(q, [pc |-> "answer", new |-> req[q].new])
  /\ UNCHANGED <<now, handed, born, ended, lost>>

(* update of a row that was deleted meanwhile throws: the answer is 401.   *)
refreshFails(q) ==
  /\ req[q].pc = "rotate"
  /\ req[q].sid \notin DOMAIN sessions
  /\ Goto(q, Idle)
  /\ UNCHANGED <<now, table, handed, lost>>

(* LogoutUseCase: the row is found by its token; a valid one is deleted by *)
(* its id after the await.                                                 *)
logoutFind(q, t) ==
  /\ req[q] = Idle
  /\ \E s \in SessionIds :
       /\ Matches(s, t)
       /\ sessions[s].expiresAt >= now
       /\ Goto(q, [pc |-> "delete", sid |-> s])
  /\ UNCHANGED <<now, table, handed, lost>>

logoutDelete(q) ==
  /\ req[q].pc = "delete"
  /\ DeleteRows({req[q].sid})
  /\ Goto(q, Idle)
  /\ UNCHANGED <<now, handed, lost>>

(* The tokens are sent to the client.                                      *)
answer(q) ==
  /\ req[q].pc = "answer"
  /\ handed' = handed \cup {req[q].new}
  /\ Goto(q, Idle)
  /\ UNCHANGED <<now, table, lost>>

(* The server restarts: requests in progress are gone, rows stay.          *)
Answering == {q \in Requests : req[q].pc = "answer"}

crash ==
  /\ \E q \in Requests : req[q] # Idle
  /\ req' = [q \in Requests |-> Idle]
  /\ lost' = lost \cup {req[q].new : q \in Answering}
  /\ UNCHANGED <<now, table, handed>>

tick ==
  /\ now < MaxNow
  /\ now' = now + 1
  /\ UNCHANGED <<req, table, handed, lost>>

-----------------------------------------------------------------------------
Init ==
  /\ now = 0
  /\ sessions = [s \in {} |-> {}]
  /\ req = [q \in Requests |-> Idle]
  /\ handed = {}
  /\ born = [s \in {} |-> 0]
  /\ ended = {}
  /\ lost = {}

Next ==
  \/ tick
  \/ crash
  \/ \E q \in Requests :
       \/ \E u \in Users, a \in Agents : loginStart(q, u, a)
       \/ deleteSessionsByUserAgent(q)
       \/ \E s \in SessionIds : createTokensForUser(q, s)
       \/ \E u \in Users : googleLogin(q, u)
       \/ \E t \in handed : refreshFind(q, t)
       \/ refreshUpdate(q)
       \/ refreshFails(q)
       \/ \E t \in handed : logoutFind(q, t)
       \/ logoutDelete(q)
       \/ answer(q)

Spec == Init /\ [][Next]_vars

-----------------------------------------------------------------------------
(* A session that was logged out, or replaced by a login on its device,    *)
(* never comes back, although a refresh that found it earlier may still    *)
(* write to it.                                                            *)
EndedStaysEnded == ended \cap DOMAIN sessions = {}

(* A login replaces its device: when its new session is created, none of   *)
(* the sessions that device had when the login began is left, whatever     *)
(* other logins and refreshes did in between.                              *)
DeviceReplaced ==
  \A q \in Requests :
    req[q].pc = "create" => req[q].before \cap DOMAIN sessions = {}

(* However often it is refreshed, a session gives its user no new tokens   *)
(* TTL seconds after the login that created it; a refresh that began in    *)
(* time and wrote too late hands out a token that is already useless.      *)
NoTokenOutlivesLogin ==
  \A t \in handed : Usable(t) => now < born[t.sid] + TTL

(* The token a stored session answers to was handed to its client, is      *)
(* about to be, or was lost in a crash: no overlap of refreshes leaves a   *)
(* session with a token nobody was sent.                                   *)
TokenNotForgotten ==
  \A s \in DOMAIN sessions :
    sessions[s].sessionId \in handed \cup lost \cup {req[q].new : q \in Answering}

(* A session's token never belongs to another session.                     *)
TokenOfItsRow == \A s \in DOMAIN sessions : sessions[s].sessionId.sid = s
=============================================================================
