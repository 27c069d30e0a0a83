------------------------------ MODULE Accounts ------------------------------
(***************************************************************************)
(* One customer's account: registration, sign-in, rotating refresh tokens, *)
(* mailed links, suspension and deletion (apps/api/src/auth,               *)
(* apps/api/src/account, admin.service.ts customerStatus, jobs/processors.ts *)
(* processDeletions).  The second factor is module TwoFactor.              *)
(*                                                                         *)
(* A handler that awaits between what it reads and what it writes is a     *)
(* request in flight: ...Read leaves in req what was read, ...Write is its *)
(* transaction.  A refresh token is the second in which it was signed      *)
(* (JWTs of one session and second are equal), 0 no cookie; a wrong        *)
(* password or code changes nothing and is left out.                       *)
(***************************************************************************)
EXTENDS Naturals, FiniteSets

CONSTANTS Sessions,     \* rows of UserSession
          Links,        \* rows of VerificationToken
          Requests,     \* requests in flight at the same time
          Addresses,    \* email addresses with a mailbox
          Passwords,    \* passwords the customer chooses
          FirstPassword,
          MaxSecond     \* bound on the clock of the refresh tokens

Nobody    == "nobody"   \* no account yet
Anonymous == "deleted+id@invalid.local"
NoCred    == "none"
NoPassword == "ACCOUNT_DELETED"  \* no password fits this hash

ASSUME AccountsAssumption ==
    /\ MaxSecond \in Nat \ {0}
    /\ FirstPassword \in Passwords /\ NoPassword \notin Passwords
    /\ Nobody \notin Addresses /\ Anonymous \notin Addresses
    /\ NoCred \notin Sessions \cup Links \cup Addresses \cup Requests
    /\ Sessions \cap Links = {}

VARIABLES user,     \* the row of User
          session,  \* the rows of UserSession
          link,     \* the rows of VerificationToken
          req,      \* requests in flight
          jar,      \* the refresh token in the browser of each session
          second,   \* the clock, in seconds
          aged,     \* the deletion was requested 30 days ago
          worker,   \* processDeletions has read this user
          taken,    \* addresses of other accounts
          proven,   \* addresses someone has answered for: a link, Google, an administrator
          shaken    \* sessions of which two refreshes overlapped or an answer was lost

accountVars == <<user, session, link, req, jar, second, aged, worker, taken, proven, shaken>>

\* BLOCKED is asked for nowhere that SUSPENDED is not.
Status    == {"ACTIVE", "SUSPENDED", "PENDING_DELETION"}
LinkTypes == {"EMAIL_VERIFY", "EMAIL_CHANGE", "PASSWORD_RESET"}
Kinds     == {"idle", "login", "refresh", "answer", "verify", "reset", "change", "email"}
Idle      == [kind |-> "idle", on |-> NoCred, to |-> NoCred, password |-> FirstPassword,
              token |-> 0, late |-> FALSE]

AccountsInit ==
    /\ user = [email |-> Nobody, status |-> "ACTIVE", deleted |-> FALSE, verified |-> FALSE,
               password |-> FirstPassword]
    /\ session = [s \in Sessions |-> [state |-> "none", hash |-> 0, password |-> FirstPassword, late |-> FALSE]]
    /\ link = [l \in Links |-> [state |-> "none", type |-> "EMAIL_VERIFY", to |-> NoCred]]
    /\ req = [r \in Requests |-> Idle]
    /\ jar = [s \in Sessions |-> 0]
    /\ second = 1 /\ aged = FALSE /\ worker = FALSE
    /\ taken = {} /\ proven = {} /\ shaken = {}

----------------------------------------------------------------------------
Live(s) == session[s].state = "live"

\* Whom the guard lets in: JwtStrategy reads the user and the session again.
Authorised(s) == Live(s) /\ user.status = "ACTIVE" /\ ~user.deleted

Over(s) == [session[s] EXCEPT !.state = "over"]

SignedIn == \E s \in Sessions : Authorised(s)

Start(r, kind, on, to) ==
    /\ req[r] = Idle
    /\ req' = [req EXCEPT ![r] = [Idle EXCEPT !.kind = kind, !.on = on, !.to = to]]

\* A sign-in goes on with the password it was checked against.
StartSignIn(r) ==
    /\ req[r] = Idle
    /\ req' = [req EXCEPT ![r] = [Idle EXCEPT !.kind = "login", !.password = user.password]]

End(r) == req' = [req EXCEPT ![r] = Idle]

\* userSession.updateMany: every session ends; a sign-in already past its check
\* is late and may still open one.
EndSessions(r) ==
    /\ session' = [s \in Sessions |->
                     IF Live(s) THEN Over(s) ELSE session[s]]
    /\ req' = [q \in Requests |-> IF q = r THEN Idle
                                  ELSE [req[q] EXCEPT !.late = @ \/ req[q].kind = "login"]]

\* A new link l of a type to an address; the open ones it replaces are used up.
Mail(l, type, to, replaced) ==
    /\ link[l].state = "none"
    /\ link' = [k \in Links |->
          IF k = l THEN [state |-> "open", type |-> type, to |-> to]
          ELSE IF link[k].state = "open" /\ link[k].type \in replaced
               THEN [link[k] EXCEPT !.state = "over"] ELSE link[k]]

UseUp(types) == link' = [l \in Links |-> IF link[l].state = "open" /\ link[l].type \in types
                                         THEN [link[l] EXCEPT !.state = "over"] ELSE link[l]]

Used(l) == link' = [link EXCEPT ![l].state = "over"]

Opens(l, types) == link[l].state = "open" /\ link[l].type \in types /\ link[l].to \in Addresses

----------------------------------------------------------------------------
(* Registration and sign-in.                                               *)

Register(a, l) ==
    /\ user.email = Nobody /\ a \notin taken
    /\ user' = [user EXCEPT !.email = a]
    /\ Mail(l, "EMAIL_VERIFY", a, {})
    /\ UNCHANGED <<session, req, jar, second, aged, worker, taken, proven, shaken>>

\* An administrator creates the account and answers for its address.
CreateStaffAccount(a) ==
    /\ user.email = Nobody /\ a \notin taken
    /\ user' = [user EXCEPT !.email = a, !.verified = TRUE]
    /\ proven' = proven \cup {a}
    /\ UNCHANGED <<session, link, req, jar, second, aged, worker, taken, shaken>>

\* Somebody else takes the address this customer is about to change to; whether
\* any other address is taken makes no difference to her.
OtherRegisters(a) ==
    /\ \/ \E r \in Requests : req[r].kind = "email" /\ req[r].to = a
       \/ \E l \in Links : link[l].type = "EMAIL_CHANGE" /\ link[l].to = a /\ link[l].state = "open"
    /\ a \notin taken \cup {user.email}
    /\ taken' = taken \cup {a}
    /\ UNCHANGED <<user, session, link, req, jar, second, aged, worker, proven, shaken>>

\* The password was right, and the second factor where it is on (module TwoFactor).
LoginRead(r) ==
    /\ user.email \in Addresses /\ user.status = "ACTIVE" /\ user.verified
    /\ StartSignIn(r)
    /\ UNCHANGED <<user, session, link, jar, second, aged, worker, taken, proven, shaken>>

\* Google answers for the address; an unknown one becomes an account.
GoogleRead(r, a) ==
    /\ a \notin taken
    /\ \/ user.email = a /\ user.status = "ACTIVE"
       \/ user.email = Nobody
    /\ user' = [user EXCEPT !.email = a, !.verified = TRUE]
    /\ proven' = proven \cup {a}
    /\ StartSignIn(r)
    /\ UNCHANGED <<session, link, jar, second, aged, worker, taken, shaken>>

CreateSession(r, s) ==
    /\ req[r].kind = "login" /\ session[s].state = "none"
    /\ session' = [session EXCEPT ![s] = [state |-> "live", hash |-> second,
                                          password |-> req[r].password, late |-> req[r].late]]
    /\ jar' = [jar EXCEPT ![s] = second]
    /\ End(r)
    /\ UNCHANGED <<user, link, second, aged, worker, taken, proven, shaken>>

----------------------------------------------------------------------------
(* Refresh, sign-out and expiry.                                           *)

Refreshing(s) == {r \in Requests : req[r].kind \in {"refresh", "answer"} /\ req[r].on = s}

Refreshable(s) == Live(s) /\ user.status = "ACTIVE" /\ jar[s] = session[s].hash

RefreshRead(r, s) ==
    /\ Refreshable(s)
    /\ Start(r, "refresh", s, NoCred)
    /\ shaken' = shaken \cup IF Refreshing(s) = {} THEN {} ELSE {s}
    /\ UNCHANGED <<user, session, link, jar, second, aged, worker, taken, proven>>

\* Any other token looks like a stolen one: the family is revoked.
RefreshReuse(s) ==
    /\ Live(s) /\ jar[s] # 0 /\ ~Refreshable(s)
    /\ session' = [session EXCEPT ![s] = Over(s)]
    /\ UNCHANGED <<user, link, req, jar, second, aged, worker, taken, proven, shaken>>

\* The row is written by its id, whatever has happened to it meanwhile.
RefreshWrite(r) ==
    /\ req[r].kind = "refresh"
    /\ session' = [session EXCEPT ![req[r].on].hash = second]
    /\ req' = [req EXCEPT ![r].kind = "answer", ![r].token = second]
    /\ UNCHANGED <<user, link, jar, second, aged, worker, taken, proven, shaken>>

RefreshAnswer(r) ==
    /\ req[r].kind = "answer"
    /\ jar' = [jar EXCEPT ![req[r].on] = req[r].token]
    /\ End(r)
    /\ UNCHANGED <<user, session, link, second, aged, worker, taken, proven, shaken>>

\* A request dies before its write, or the answer is lost on the way.
RequestLost(r) ==
    /\ req[r] # Idle
    /\ shaken' = shaken \cup IF req[r].kind = "answer" THEN {req[r].on} ELSE {}
    /\ End(r)
    /\ UNCHANGED <<user, session, link, jar, second, aged, worker, taken, proven>>

\* The route is public, so no guard has set req.user: only the cookies go.
Logout(s) ==
    /\ Live(s)
    /\ jar' = [jar EXCEPT ![s] = 0]
    /\ shaken' = shaken \cup {s}
    /\ UNCHANGED <<user, session, link, req, second, aged, worker, taken, proven>>

LogoutAll ==
    /\ SignedIn
    /\ session' = [s \in Sessions |->
                     IF Live(s) THEN Over(s) ELSE session[s]]
    /\ UNCHANGED <<user, link, req, jar, second, aged, worker, taken, proven, shaken>>

\* Revoked from the list of sessions, or past its 30 days.
EndSession(s) ==
    /\ Live(s)
    /\ session' = [session EXCEPT ![s] = Over(s)]
    /\ UNCHANGED <<user, link, req, jar, second, aged, worker, taken, proven, shaken>>

Expire(l) ==
    /\ link[l].state = "open"
    /\ Used(l)
    /\ UNCHANGED <<user, session, req, jar, second, aged, worker, taken, proven, shaken>>

Tick == /\ second < MaxSecond
        /\ second' = second + 1
        /\ UNCHANGED <<user, session, link, req, jar, aged, worker, taken, proven, shaken>>

----------------------------------------------------------------------------
(* Mailed links.                                                           *)

ResendVerification(l) ==
    /\ user.email \in Addresses /\ ~user.verified /\ user.status = "ACTIVE"
    /\ Mail(l, "EMAIL_VERIFY", user.email, {"EMAIL_VERIFY"})
    /\ UNCHANGED <<user, session, req, jar, second, aged, worker, taken, proven, shaken>>

\* Neither the status is asked for nor an earlier link withdrawn.
ForgotPassword(l) ==
    /\ user.email # Nobody
    /\ Mail(l, "PASSWORD_RESET", user.email, {})
    /\ UNCHANGED <<user, session, req, jar, second, aged, worker, taken, proven, shaken>>

EmailChangeRead(r, s, a) ==
    /\ Authorised(s) /\ a \notin taken \cup {user.email}
    /\ Start(r, "email", s, a)
    /\ UNCHANGED <<user, session, link, jar, second, aged, worker, taken, proven, shaken>>

\* Mutant: the address changes at once, the link only confirms it.
EmailChangeWrite_AtOnce(r, l) ==
    /\ req[r].kind = "email"
    /\ Mail(l, "EMAIL_CHANGE", req[r].to, {"EMAIL_CHANGE"})
    /\ user' = [user EXCEPT !.email = req[r].to]
    /\ End(r)
    /\ UNCHANGED <<session, jar, second, aged, worker, taken, proven, shaken>>

EmailChangeWrite(r, l) ==
    /\ req[r].kind = "email"
    /\ Mail(l, "EMAIL_CHANGE", req[r].to, {"EMAIL_CHANGE"})
    /\ End(r)
    /\ UNCHANGED <<user, session, jar, second, aged, worker, taken, proven, shaken>>

\* Mutant: a link that was used is taken again.
VerifyRead_Again(r, l) ==
    /\ link[l].state # "none" /\ link[l].type \in {"EMAIL_VERIFY", "EMAIL_CHANGE"}
    /\ Start(r, "verify", l, NoCred)
    /\ UNCHANGED <<user, session, link, jar, second, aged, worker, taken, proven, shaken>>

VerifyRead(r, l) ==
    /\ Opens(l, {"EMAIL_VERIFY", "EMAIL_CHANGE"})
    /\ Start(r, "verify", l, NoCred)
    /\ UNCHANGED <<user, session, link, jar, second, aged, worker, taken, proven, shaken>>

\* The transaction does not look again whether the link was used.
VerifyWrite(r) == LET l == req[r].on IN
    /\ req[r].kind = "verify"
    /\ Used(l)
    /\ proven' = proven \cup {link[l].to}
    /\ \/ /\ link[l].type = "EMAIL_VERIFY"
          /\ user' = [user EXCEPT !.verified = TRUE]
          /\ End(r) /\ UNCHANGED session
       \/ /\ link[l].type = "EMAIL_CHANGE" /\ link[l].to \notin taken
          /\ user' = [user EXCEPT !.email = link[l].to, !.verified = TRUE]
          /\ EndSessions(r)
    /\ UNCHANGED <<jar, second, aged, worker, taken, shaken>>

ResetRead(r, l) ==
    /\ Opens(l, {"PASSWORD_RESET"})
    /\ Start(r, "reset", l, NoCred)
    /\ UNCHANGED <<user, session, link, jar, second, aged, worker, taken, proven, shaken>>

\* Mutant: the sessions opened with the old password stay.
ResetWrite_KeepsSessions(r, p) ==
    /\ req[r].kind = "reset"
    /\ user' = [user EXCEPT !.password = p]
    /\ Used(req[r].on)
    /\ End(r)
    /\ UNCHANGED <<session, jar, second, aged, worker, taken, proven, shaken>>

ResetWrite(r, p) ==
    /\ req[r].kind = "reset"
    /\ user' = [user EXCEPT !.password = p]
    /\ Used(req[r].on)
    /\ EndSessions(r)
    /\ UNCHANGED <<jar, second, aged, worker, taken, proven, shaken>>

ChangePasswordRead(r, s) ==
    /\ Authorised(s)
    /\ Start(r, "change", s, NoCred)
    /\ UNCHANGED <<user, session, link, jar, second, aged, worker, taken, proven, shaken>>

ChangePasswordWrite(r, p) ==
    /\ req[r].kind = "change"
    /\ user' = [user EXCEPT !.password = p]
    /\ EndSessions(r)
    /\ UNCHANGED <<link, jar, second, aged, worker, taken, proven, shaken>>

----------------------------------------------------------------------------
(* Suspension and deletion.                                                *)

\* An administrator sets any status; deletedAt stays as it is.
CustomerStatus(st) ==
    /\ user.email # Nobody
    /\ user' = [user EXCEPT !.status = st]
    /\ IF st = "ACTIVE" THEN UNCHANGED <<session, req>> ELSE EndSessions(NoCred)
    /\ UNCHANGED <<link, jar, second, aged, worker, taken, proven, shaken>>

RequestDeletion ==
    /\ SignedIn
    /\ user' = [user EXCEPT !.status = "PENDING_DELETION", !.deleted = TRUE]
    /\ EndSessions(NoCred)
    /\ UNCHANGED <<link, jar, second, aged, worker, taken, proven, shaken>>

\* The longest link lives a day: after 30 days what was open then is not.
ThirtyDays ==
    /\ user.deleted /\ ~aged /\ \A r \in Requests : req[r] = Idle
    /\ aged' = TRUE
    /\ UseUp(LinkTypes)
    /\ UNCHANGED <<user, session, req, jar, second, worker, taken, proven, shaken>>

DeletionRead ==
    /\ aged /\ user.status = "PENDING_DELETION" /\ ~worker
    /\ worker' = TRUE
    /\ UNCHANGED <<user, session, link, req, jar, second, aged, taken, proven, shaken>>

\* The status is not read again: an administrator may have restored the account.
DeletionWrite ==
    /\ worker
    /\ user' = [user EXCEPT !.email = Anonymous, !.verified = FALSE, !.password = NoPassword]
    /\ worker' = FALSE
    /\ UNCHANGED <<session, link, req, jar, second, aged, taken, proven, shaken>>

DeletionFail ==
    /\ worker /\ worker' = FALSE
    /\ UNCHANGED <<user, session, link, req, jar, second, aged, taken, proven, shaken>>

----------------------------------------------------------------------------
SignIn(r) == \/ LoginRead(r)
             \/ \E a \in Addresses : GoogleRead(r, a)
             \/ \E s \in Sessions : CreateSession(r, s)

SessionStep == \/ LogoutAll
               \/ \E s \in Sessions : RefreshReuse(s) \/ Logout(s) \/ EndSession(s)
               \/ \E r \in Requests : \/ RefreshWrite(r) \/ RefreshAnswer(r)
                                       \/ \E s \in Sessions : RefreshRead(r, s)

LinkStep == \/ \E l \in Links : \/ ResendVerification(l) \/ ForgotPassword(l) \/ Expire(l)
            \/ \E r \in Requests : \/ VerifyWrite(r)
                                    \/ \E p \in Passwords : ResetWrite(r, p) \/ ChangePasswordWrite(r, p)
                                    \/ \E l \in Links : \/ EmailChangeWrite(r, l)
                                                         \/ VerifyRead(r, l) \/ ResetRead(r, l)
                                    \/ \E s \in Sessions : \/ ChangePasswordRead(r, s)
                                                            \/ \E a \in Addresses : EmailChangeRead(r, s, a)

StaffStep == \/ \E a \in Addresses : CreateStaffAccount(a)
             \/ \E st \in Status : CustomerStatus(st)
             \/ DeletionRead \/ DeletionWrite \/ DeletionFail

AccountsNext ==
    \/ \E a \in Addresses : OtherRegisters(a) \/ \E l \in Links : Register(a, l)
    \/ \E r \in Requests : SignIn(r) \/ RequestLost(r)
    \/ SessionStep \/ LinkStep \/ StaffStep
    \/ RequestDeletion \/ ThirtyDays \/ Tick

AccountsSpec == AccountsInit /\ [][AccountsNext]_accountVars

----------------------------------------------------------------------------
(* Properties.                                                             *)

UserRow    == [email : Addresses \cup {Nobody, Anonymous}, status : Status, deleted : BOOLEAN,
               verified : BOOLEAN, password : Passwords \cup {NoPassword}]
SessionRow == [state : {"none", "live", "over"}, hash : 0..MaxSecond,
               password : Passwords \cup {NoPassword}, late : BOOLEAN]
LinkRow    == [state : {"none", "open", "over"}, type : LinkTypes,
               to : Addresses \cup {NoCred, Anonymous}]
InFlight   == [kind : Kinds, on : Sessions \cup Links \cup {NoCred}, to : Addresses \cup {NoCred},
               token : 0..MaxSecond, late : BOOLEAN, password : Passwords \cup {NoPassword}]

\* The rows keep their types, and a request in flight names what it holds.
AccountsTypeOK ==
    /\ user \in UserRow /\ session \in [Sessions -> SessionRow] /\ link \in [Links -> LinkRow]
    /\ req \in [Requests -> InFlight]
    /\ jar \in [Sessions -> 0..MaxSecond]
    /\ second \in 0..MaxSecond /\ aged \in BOOLEAN /\ worker \in BOOLEAN
    /\ taken \subseteq Addresses /\ proven \subseteq Addresses /\ shaken \subseteq Sessions

\* For the address of a verified account somebody has answered: a link mailed to it,
\* Google with a code for it (whose email_verified is not looked at), or the
\* administrator who made the staff account (admin.service.ts:942).  Links to earlier
\* addresses, withdrawn and read in flight, never verify another one (auth.service.ts
\* verifyEmail, requestEmailChange).
VerifiedMeansProven == user.verified => user.email \in proven

\* A client that refreshes one request at a time and receives every answer holds
\* the token its session expects: it is never taken for a thief (refresh).
RefreshCookieFits ==
    \A s \in Sessions : Live(s) /\ s \notin shaken /\ Refreshing(s) = {} => jar[s] = session[s].hash

\* After a new password, a suspension or a deletion request only a sign-in that
\* was already in flight leaves a live session behind (resetPassword,
\* changePassword, customerStatus, requestDeletion).
LiveSessionIsCurrent ==
    \A s \in Sessions : Live(s) /\ ~session[s].late /\ user.email # Anonymous
        => session[s].password = user.password /\ user.status = "ACTIVE"

\* An anonymised account lets nobody in, though an administrator restored it
\* while processDeletions was at work and its sessions are not revoked.
AnonymisedStaysOut ==
    user.email = Anonymous => ~user.verified /\ ~SignedIn

\* Who is let in: no session outlives the password, the status or the account it
\* was opened for, and none that is due is lost to its own owner.
SessionsAreCurrent == LiveSessionIsCurrent /\ RefreshCookieFits /\ AnonymisedStaysOut

\* Sessions and links are credentials: none is good again once it
\* is used, withdrawn or over, and a request changes the password or the address
\* only if it found one good.
Standing(state) == IF state = "none" THEN "unissued"
                   ELSE IF state \in {"live", "open"} THEN "good" ELSE "void"

Accounted == INSTANCE Credentials WITH
    Creds    <- Sessions \cup Links,
    Bearers  <- Requests,
    Unopened <- <<Nobody, FirstPassword>>,
    Opened   <- Addresses \X {FirstPassword},
    Accounts <- Addresses \X Passwords,
    Erased   <- {Anonymous} \X (Passwords \cup {NoPassword}),
    standing <- [c \in Sessions \cup Links |->
                   Standing(IF c \in Sessions THEN session[c].state ELSE link[c].state)],
    held     <- [r \in Requests |->
                   IF req[r].kind \in {"idle", "login", "answer"} THEN NoCred ELSE req[r].on],
    account  <- <<user.email, user.password>>

CredentialsSpec == Accounted!CredSpec
=============================================================================
