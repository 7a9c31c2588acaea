------------------------------ MODULE Accounts ------------------------------
(***************************************************************************)
(* The accounts of the users: registration, the verification of the email  *)
(* address, the reset of the password, the profile.  The use cases of the  *)
(* auth module and those of the users module write the same table, most of *)
(* them the same way: load the user, change one thing, and save the whole  *)
(* row by an upsert.                                                       *)
(*                                                                         *)
(* An account is named by its email address, which is unique and never     *)
(* changes.  Left out: user names (one that is taken refuses the request), *)
(* the role and the status, which nothing changes, and the users that a    *)
(* follow would save, see Follows: those routes always fail.  A profile is *)
(* one text.  The sessions of an account are in AuthSessions.              *)
(***************************************************************************)
EXTENDS Maps, FiniteSets

CONSTANTS Accounts, Passwords, Texts,
          Requests  \* slots for requests in progress

VARIABLES
  users,       \* account -> row
  tokens,      \* tokens in somebody's mailbox that have not expired
  req,         \* request -> where it is in its use case
  issued,      \* history: tokens that were ever mailed
  fromGoogle,  \* history: accounts that came from Google
  asked,       \* history: account -> what its row was last asked to be
  overwritten  \* history: accounts saved from a copy that was not current

store == <<users, fromGoogle, asked, overwritten>>
mail == <<tokens, issued>>
vars == <<store, mail, req>>

NoPassword == "none"
NoText == "none"   \* a field the request leaves out
Weak == "weak"     \* a password the DTOs refuse

Fields == {"password", "verified", "text"}

(* lastProfileUpdate: NULL, or how long ago.                               *)
Ages == {"never", "now", "minute", "day"}

Row == [password : Passwords \cup {NoPassword}, verified : BOOLEAN, text : Texts,
        lastProfileUpdate : Ages]

(* The payload of a token: the account is both its userId and its email.   *)
Payload == [account : Accounts, purpose : {"email-verification", "password-reset"}]

(* What a request asks of one field of a user, or nothing.                 *)
Change == [password : Passwords] \cup [verified : {TRUE}] \cup [text : Texts]
            \cup {[f \in {} |-> f]}

NoChange == [f \in {} |-> f]

Idle == [pc |-> "idle"]

IsRequest(r) ==
  \/ r = Idle
  \/ r.pc = "insert" /\ r.account \in Accounts /\ r.entity \in Row /\ r.mail \in BOOLEAN
  \/ r.pc = "mail" /\ r.token \in Payload /\ r.then \in {"touch", "end"}
  \/ r.pc = "load" /\ r.account \in Accounts /\ r.change \in Change /\ r.then \in {"verify", "end"}
  \/ /\ r.pc = "save" /\ r.account \in Accounts /\ r.entity \in Row /\ r.change \in Change
     /\ r.then \in {"verify", "end"} /\ r.stale \in BOOLEAN

TypeOK ==
  /\ IsMap(users, Accounts, Row)
  /\ tokens \subseteq Payload /\ issued \subseteq Payload
  /\ DOMAIN req = Requests /\ \A q \in Requests : IsRequest(req[q])
  /\ fromGoogle \subseteq Accounts /\ overwritten \subseteq Accounts
  /\ DOMAIN asked = DOMAIN users /\ \A a \in DOMAIN asked : DOMAIN asked[a] = Fields

-----------------------------------------------------------------------------
Stored == DOMAIN users

Goto(q, r) == req' = [req EXCEPT ![q] = r]

Begin(q, r) ==
  /\ req[q] = Idle
  /\ Goto(q, r)
  /\ UNCHANGED <<store, mail>>

(* Loading makes of a NULL date the moment of loading.  A date of birth    *)
(* that is NULL is thereby hardly ever in the past, and UserProfile throws *)
(* then, which fails the request as the database may.                      *)
safeDate(age) == IF age = "never" THEN "now" ELSE age

findByEmail(a) == [users[a] EXCEPT !.lastProfileUpdate = safeDate(@)]

WithChange(entity, change) ==
  [f \in DOMAIN entity |-> IF f \in DOMAIN change THEN change[f] ELSE entity[f]]

(* Mutant: the update of the upsert has no password.                       *)
SavedWithoutPassword(a, entity) ==
  [entity EXCEPT !.password = users[a].password,
                 !.lastProfileUpdate = users[a].lastProfileUpdate]

(* Mutant: a missing password is saved as NULL.                            *)
SavedWithNull(a, entity) == [entity EXCEPT !.lastProfileUpdate = users[a].lastProfileUpdate]

(* What the update of the upsert leaves of the row: a password the entity  *)
(* has not is undefined, and so is lastProfileUpdate, which is taken from  *)
(* the profile, where no loaded user has it.                               *)
mapToDataModel(a, entity) ==
  [entity EXCEPT
     !.password = IF @ = NoPassword THEN users[a].password ELSE @,
     !.lastProfileUpdate = users[a].lastProfileUpdate]

-----------------------------------------------------------------------------
(* New accounts: the address is looked up, and the row is inserted later,  *)
(* when the unique index may refuse it.                                    *)
NewAccount(q, a, entity, mailed) ==
  /\ a \notin Stored
  /\ Begin(q, [pc |-> "insert", account |-> a, entity |-> entity, mail |-> mailed])

(* The profile of a registration is the one that has a lastProfileUpdate.  *)
registerUser(q, a, text) ==
  NewAccount(q, a, [password |-> NoPassword, verified |-> FALSE, text |-> text,
                    lastProfileUpdate |-> "now"], TRUE)

(* Mutant: an account somebody else made is verified.                      *)
CreateVerified(q, a, p, text) ==
  NewAccount(q, a, [password |-> p, verified |-> TRUE, text |-> text,
                    lastProfileUpdate |-> "never"], FALSE)

createUser(q, a, p, text) ==
  NewAccount(q, a, [password |-> p, verified |-> FALSE, text |-> text,
                    lastProfileUpdate |-> "never"], FALSE)

googleAuth(q, a, text) ==
  NewAccount(q, a, [password |-> NoPassword, verified |-> TRUE, text |-> text,
                    lastProfileUpdate |-> "never"], FALSE)

insert(q) ==
  /\ req[q].pc = "insert" /\ req[q].account \notin Stored
  /\ LET r == req[q] IN
       /\ users' = With(users, r.account, r.entity)
       /\ asked' = With(asked, r.account, [f \in Fields |-> r.entity[f]])
       /\ fromGoogle' = fromGoogle \cup
            {a \in {r.account} : r.entity.verified /\ r.entity.password = NoPassword}
       /\ Goto(q, IF r.mail
                    THEN [pc |-> "mail", then |-> "end",
                          token |-> [account |-> r.account, purpose |-> "email-verification"]]
                    ELSE Idle)
  /\ UNCHANGED <<overwritten, mail>>

-----------------------------------------------------------------------------
(* Mails.  Of the last one the lastProfileUpdate is to tell: a minute has  *)
(* to have passed.                                                         *)
MayMail(a) == a \in Stored /\ findByEmail(a).lastProfileUpdate \in {"minute", "day"}

Mail(q, a, purpose) ==
  Begin(q, [pc |-> "mail", then |-> "touch", token |-> [account |-> a, purpose |-> purpose]])

resendVerification(q, a) ==
  MayMail(a) /\ ~users[a].verified /\ Mail(q, a, "email-verification")

forgotPassword(q, a) ==
  MayMail(a) /\ users[a].verified /\ Mail(q, a, "password-reset")

(* The mail is on its way; afterwards the time is to be noted, but not of  *)
(* the mail of a registration.                                             *)
sendEmail(q) ==
  /\ req[q].pc = "mail"
  /\ tokens' = tokens \cup {req[q].token}
  /\ issued' = issued \cup {req[q].token}
  /\ Goto(q, IF req[q].then = "touch"
               THEN [pc |-> "load", account |-> req[q].token.account, change |-> NoChange,
                     then |-> "end"]
               ELSE Idle)
  /\ UNCHANGED store

(* A token is good until it expires, however often it is used.             *)
verifyToken(a, purpose) == [account |-> a, purpose |-> purpose] \in tokens

expire(t) ==
  /\ t \in tokens
  /\ tokens' = tokens \ {t}
  /\ UNCHANGED <<store, issued, req>>

-----------------------------------------------------------------------------
(* Changes.  One that begins with a load of its own: updateUserPassword,   *)
(* verifyEmail of the users module, updateLastVerificationSentAt.          *)
LoadAndSave(q, a, change, then) ==
  Begin(q, [pc |-> "load", account |-> a, change |-> change, then |-> then])

verifyEmailByToken(a) == verifyToken(a, "email-verification") /\ a \in Stored

findByResetToken(a) == verifyToken(a, "password-reset") /\ a \in Stored

resetPassword(q, a, p) ==
  /\ findByResetToken(a)
  /\ p # Weak
  /\ LoadAndSave(q, a, [password |-> p], "end")

(* The password first, then the address.                                   *)
verifyEmail(q, a, p) ==
  /\ verifyEmailByToken(a) /\ ~users[a].verified
  /\ p # Weak
  /\ LoadAndSave(q, a, [password |-> p], "verify")

verifyUserEmail(a) ==
  [pc |-> "load", account |-> a, change |-> [verified |-> TRUE], then |-> "end"]

Saving(a, change, then) ==
  [pc |-> "save", account |-> a, entity |-> WithChange(findByEmail(a), change),
   change |-> change, then |-> then, stale |-> FALSE]

load(q) ==
  /\ req[q].pc = "load"
  /\ Goto(q, Saving(req[q].account, req[q].change, req[q].then))
  /\ UNCHANGED <<store, mail>>

(* Once a day, by a date that is never written again.                      *)
updateProfile(q, a, dto) ==
  /\ a \in Stored /\ findByEmail(a).lastProfileUpdate = "day"
  /\ Begin(q, Saving(a, IF dto.text = NoText THEN NoChange ELSE [text |-> dto.text], "end"))

(* save: other copies of the row are no longer current.  After the address *)
(* was verified an error is raised, over the result save does not return.  *)
save(q) ==
  /\ req[q].pc = "save"
  /\ LET r == req[q]
         a == r.account
         next == IF r.then = "verify" THEN verifyUserEmail(a) ELSE Idle
     IN /\ users' = [users EXCEPT ![a] = mapToDataModel(a, r.entity)]
        /\ asked' = [asked EXCEPT ![a] = WithChange(@, r.change)]
        /\ overwritten' = overwritten \cup {b \in {a} : r.stale}
        /\ req' = [p \in Requests |->
                     IF p = q THEN next
                     ELSE IF req[p].pc = "save" /\ req[p].account = a
                       THEN [req[p] EXCEPT !.stale = TRUE] ELSE req[p]]
  /\ UNCHANGED <<fromGoogle, mail>>

(* A statement or the mailer fails, a name is taken, or the process ends:  *)
(* so does the request.                                                    *)
fail(q) ==
  /\ req[q] # Idle
  /\ Goto(q, Idle)
  /\ UNCHANGED <<store, mail>>

Age(a) ==
  /\ a \in Stored /\ users[a].lastProfileUpdate \in {"now", "minute"}
  /\ users' = [users EXCEPT ![a].lastProfileUpdate = IF @ = "now" THEN "minute" ELSE "day"]
  /\ UNCHANGED <<fromGoogle, asked, overwritten, mail, req>>

-----------------------------------------------------------------------------
(* The bodies of requests, and the handlers of AuthController and          *)
(* UsersController.                                                        *)
RegisterRequestDto == [email : Accounts, profile : Texts]
VerifyEmailRequestDto == [account : Accounts, password : Passwords]
ResetPasswordRequestDto == [account : Accounts, newPassword : Passwords]
CreateUserDto == [email : Accounts, password : Passwords \cup {Weak}, profile : Texts]
UpdateProfileDto == [text : Texts \cup {NoText}]

(* What Password.createFromPlainText asks for is more than the DTO does.   *)
validatePlainPassword(p) == p # Weak

register(q) == \E dto \in RegisterRequestDto : registerUser(q, dto.email, dto.profile)

AuthController(q) ==
  \/ register(q)
  \/ \E dto \in VerifyEmailRequestDto : verifyEmail(q, dto.account, dto.password)
  \/ \E dto \in ResetPasswordRequestDto : resetPassword(q, dto.account, dto.newPassword)
  \/ \E a \in Accounts : resendVerification(q, a) \/ forgotPassword(q, a)

(* The callback of Google: a user that exists only gets a session.         *)
googleAuthCallback(q) == \E a \in Accounts, text \in Texts : googleAuth(q, a, text)

update(q) == \E a \in Accounts, dto \in UpdateProfileDto : updateProfile(q, a, dto)

UsersController(q) ==
  \/ update(q)
  \/ \E dto \in CreateUserDto :
       validatePlainPassword(dto.password) /\ createUser(q, dto.email, dto.password, dto.profile)

Init ==
  /\ users = [a \in {} |-> a]
  /\ tokens = {} /\ issued = {}
  /\ req = [q \in Requests |-> Idle]
  /\ fromGoogle = {}
  /\ asked = [a \in {} |-> a]
  /\ overwritten = {}

Next ==
  \/ \E q \in Requests :
       \/ AuthController(q) \/ googleAuthCallback(q)
       \/ UsersController(q)
       \/ insert(q) \/ sendEmail(q) \/ load(q) \/ save(q) \/ fail(q)
  \/ \E a \in Accounts : Age(a)
  \/ \E t \in Payload : expire(t)

Spec == Init /\ [][Next]_vars

-----------------------------------------------------------------------------
(* What was last asked of a user, the password they set, the address they  *)
(* verified, the profile, is what the row says, unless somebody saved a    *)
(* copy of the row that was no longer current.                             *)
UpdatesKept ==
  \A a \in Stored \ overwritten : \A f \in Fields : users[a][f] = asked[a][f]

(* An address is verified by Google, or by whoever could read a mail sent  *)
(* to it, in spite of the copies of rows that are saved.                   *)
VerifiedByMail ==
  \A a \in Stored : users[a].verified
    => a \in fromGoogle \/ [account |-> a, purpose |-> "email-verification"] \in issued

(* An address verified by mail has a password to log in with: verifyEmail  *)
(* needs two saves, may end between them, and other requests save copies   *)
(* without the password.                                                   *)
VerifiedHasPassword ==
  \A a \in Stored \ fromGoogle : users[a].verified => users[a].password # NoPassword
=============================================================================
