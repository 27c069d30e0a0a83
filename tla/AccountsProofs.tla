---------------------------- MODULE AccountsProofs ----------------------------
(***************************************************************************)
(* Proofs about module Accounts, for every number of sessions, links,      *)
(* requests in flight, addresses and passwords.  AccountsInv is inductive: *)
(* what a request in flight holds (RequestsHold), what a sign-in has       *)
(* checked (SignInsAreCurrent), that no link or request outlives the 30    *)
(* days (DeletionIsFinal) and that before the first answered link all      *)
(* links go to one address (UnverifiedIsFirst) carry the properties over   *)
(* the gap between a handler's read and its write.  From it follow who is  *)
(* let in, what is verified, and that the account implements Credentials.  *)
(***************************************************************************)
EXTENDS Accounts, TLAPS

\* An account that was not registered yet is as AccountsInit leaves it.
UnopenedIsBlank ==
    user.email = Nobody =>
        /\ user.status = "ACTIVE" /\ ~user.deleted /\ ~user.verified /\ user.password = FirstPassword
        /\ \A s \in Sessions : session[s].state = "none"
        /\ \A l \in Links : link[l].state = "none"
        /\ \A r \in Requests : req[r] = Idle

\* A request names a row it has found: of a session, or of a link it may use.
Holds(r) ==
    /\ req[r].kind = "idle" => req[r] = Idle
    /\ req[r].kind = "login" => req[r].on = NoCred
    /\ req[r].kind \in {"refresh", "answer", "change", "email"} =>
          req[r].on \in Sessions /\ session[req[r].on].state # "none"
    /\ req[r].kind \in {"verify", "reset"} =>
          req[r].on \in Links /\ link[req[r].on].state # "none" /\ link[req[r].on].to \in Addresses
    /\ req[r].kind = "verify" => link[req[r].on].type \in {"EMAIL_VERIFY", "EMAIL_CHANGE"}
    /\ req[r].kind = "email" => req[r].to \in Addresses

RequestsHold == \A r \in Requests : Holds(r)

\* 30 days after its owner has asked for the deletion nothing is on its way that
\* could give the account an address.
DeletionIsFinal ==
    /\ worker => aged
    /\ aged => user.deleted
    /\ user.deleted => user.verified \/ user.email = Anonymous
    /\ user.email = Anonymous => aged /\ ~user.verified
    /\ user.email # Anonymous => user.password \in Passwords
    /\ aged => /\ \A l \in Links : link[l].state = "open" => link[l].type = "PASSWORD_RESET"
               /\ \A r \in Requests : req[r].kind \notin {"email", "verify"}

\* Until the customer has answered one link, every link goes to the one address
\* she has registered with, and nobody is signed in.
UnverifiedIsFirst ==
    ~user.verified /\ user.email # Anonymous =>
        /\ \A l \in Links : link[l].state # "none" => link[l].to = user.email /\ link[l].type # "EMAIL_CHANGE"
        /\ \A s \in Sessions : session[s].state = "none"
        /\ \A r \in Requests : req[r].kind \in {"idle", "verify", "reset"}

\* A sign-in on its way that nothing has overtaken has checked what is in force.
SignInsAreCurrent ==
    user.email # Anonymous =>
        \A r \in Requests : req[r].kind = "login" /\ ~req[r].late =>
            req[r].password = user.password /\ user.status = "ACTIVE"

\* The token a browser holds, or is being sent, is the one its session expects.
TokensMeet ==
    \A s \in Sessions : Live(s) /\ s \notin shaken =>
        /\ \A q, r \in Refreshing(s) : q = r
        /\ \A r \in Refreshing(s) :
              /\ req[r].kind = "refresh" => jar[s] = session[s].hash
              /\ req[r].kind = "answer" => req[r].token = session[s].hash
        /\ Refreshing(s) = {} => jar[s] = session[s].hash

AccountsInv ==
    /\ AccountsTypeOK /\ UnopenedIsBlank /\ RequestsHold
    /\ DeletionIsFinal /\ UnverifiedIsFirst /\ VerifiedMeansProven
    /\ SignInsAreCurrent /\ LiveSessionIsCurrent /\ TokensMeet
----------------------------------------------------------------------------
(* Types, and what a request in flight names.                               *)

LEMMA IdleTyped == Idle \in InFlight
BY AccountsAssumption DEF Idle, InFlight, Kinds

LEMMA EndTyped ==
  ASSUME AccountsTypeOK, NEW r \in Requests, End(r)
  PROVE  req' \in [Requests -> InFlight]
BY IdleTyped DEF AccountsTypeOK, End

LEMMA OverTyped ==
  ASSUME AccountsTypeOK, NEW s \in Sessions
  PROVE  Over(s) \in SessionRow
BY DEF AccountsTypeOK, Over, SessionRow

LEMMA EndSessionsTyped ==
  ASSUME AccountsTypeOK, NEW r, EndSessions(r)
  PROVE  /\ session' \in [Sessions -> SessionRow]
         /\ req' \in [Requests -> InFlight]
<1>1. \A s \in Sessions : session[s] \in SessionRow /\ Over(s) \in SessionRow
  BY OverTyped DEF AccountsTypeOK
<1>2. session' \in [Sessions -> SessionRow]
  BY <1>1 DEF EndSessions
<1>3. \A q \in Requests : [req[q] EXCEPT !.late = @ \/ req[q].kind = "login"] \in InFlight
  <2>1. TAKE q \in Requests
  <2>2. req[q] \in InFlight
    BY DEF AccountsTypeOK
  <2>3. (req[q].late \/ req[q].kind = "login") \in BOOLEAN
    OBVIOUS
  <2>. QED
    BY <2>2, <2>3 DEF InFlight
<1>4. req' \in [Requests -> InFlight]
  BY <1>3, IdleTyped DEF EndSessions
<1>. QED
  BY <1>2, <1>4

LEMMA UsedTyped ==
  ASSUME AccountsTypeOK, NEW l \in Links, Used(l)
  PROVE  link' \in [Links -> LinkRow]
BY DEF AccountsTypeOK, Used, LinkRow

LEMMA MailTyped ==
  ASSUME AccountsTypeOK, NEW l \in Links, NEW type \in LinkTypes, NEW replaced,
         NEW to \in Addresses \cup {NoCred, Anonymous}, Mail(l, type, to, replaced)
  PROVE  link' \in [Links -> LinkRow]
BY DEF AccountsTypeOK, Mail, LinkRow

LEMMA TypeStep ==
  ASSUME AccountsTypeOK, RequestsHold, [AccountsNext]_accountVars
  PROVE  AccountsTypeOK'
<1>. USE AccountsAssumption
<1>1. ASSUME NEW a \in Addresses, OtherRegisters(a) PROVE AccountsTypeOK'
  BY <1>1 DEF AccountsTypeOK, OtherRegisters, UserRow, SessionRow, InFlight, Kinds
<1>2. ASSUME NEW a \in Addresses, NEW l \in Links, Register(a, l) PROVE AccountsTypeOK'
  BY <1>2, MailTyped DEF AccountsTypeOK, Register, LinkTypes, UserRow
<1>3. ASSUME NEW r \in Requests, LoginRead(r) PROVE AccountsTypeOK'
  BY <1>3 DEF AccountsTypeOK, LoginRead, StartSignIn, Idle, UserRow, SessionRow, InFlight, Kinds
<1>4. ASSUME NEW r \in Requests, NEW a \in Addresses, GoogleRead(r, a) PROVE AccountsTypeOK'
  BY <1>4
     DEF AccountsTypeOK, GoogleRead, StartSignIn, Idle, UserRow, SessionRow, InFlight, Kinds
<1>5. ASSUME NEW r \in Requests, NEW s \in Sessions, CreateSession(r, s) PROVE AccountsTypeOK'
  <2>. DEFINE row == [state |-> "live", hash |-> second, password |-> req[r].password,
                      late |-> req[r].late]
  <2>0. row \in SessionRow
    BY DEF AccountsTypeOK, InFlight, SessionRow
  <2>. HIDE DEF row
  <2>1. session' \in [Sessions -> SessionRow]
    <3>1. session' = [session EXCEPT ![s] = row]
      BY <1>5 DEF CreateSession, row
    <3>. QED
      BY <3>1, <2>0 DEF AccountsTypeOK
  <2>. QED
    BY <1>5, <2>1, EndTyped DEF CreateSession, AccountsTypeOK
<1>6. ASSUME NEW r \in Requests, RequestLost(r) PROVE AccountsTypeOK'
  BY <1>6, EndTyped DEF AccountsTypeOK, RequestLost, RequestsHold, Holds
<1>7. ASSUME LogoutAll PROVE AccountsTypeOK'
  BY <1>7, OverTyped DEF AccountsTypeOK, LogoutAll
<1>8. ASSUME NEW s \in Sessions, RefreshReuse(s) PROVE AccountsTypeOK'
  BY <1>8, OverTyped DEF AccountsTypeOK, RefreshReuse
<1>9. ASSUME NEW s \in Sessions, Logout(s) PROVE AccountsTypeOK'
  BY <1>9 DEF AccountsTypeOK, Logout, Live, UserRow, SessionRow, InFlight, Kinds
<1>10. ASSUME NEW s \in Sessions, EndSession(s) PROVE AccountsTypeOK'
  BY <1>10, OverTyped DEF AccountsTypeOK, EndSession
<1>11. ASSUME NEW r \in Requests, RefreshWrite(r) PROVE AccountsTypeOK'
  <2>1. req[r].on \in Sessions
    BY <1>11 DEF RefreshWrite, RequestsHold, Holds
  <2>2. session' \in [Sessions -> SessionRow]
    BY <1>11, <2>1 DEF RefreshWrite, AccountsTypeOK, SessionRow
  <2>3. req' \in [Requests -> InFlight]
    <3>1. [req[r] EXCEPT !.kind = "answer", !.token = second] \in InFlight
      BY DEF AccountsTypeOK, InFlight, Kinds
    <3>2. req' = [req EXCEPT ![r] = [req[r] EXCEPT !.kind = "answer", !.token = second]]
      BY <1>11 DEF RefreshWrite, AccountsTypeOK
    <3>. QED
      BY <3>1, <3>2 DEF AccountsTypeOK
  <2>. QED
    BY <1>11, <2>2, <2>3 DEF RefreshWrite, AccountsTypeOK
<1>12. ASSUME NEW r \in Requests, RefreshAnswer(r) PROVE AccountsTypeOK'
  BY <1>12, EndTyped DEF AccountsTypeOK, RefreshAnswer, InFlight, RequestsHold, Holds
<1>13. ASSUME NEW r \in Requests, NEW s \in Sessions, RefreshRead(r, s) PROVE AccountsTypeOK'
  BY <1>13
     DEF AccountsTypeOK, RefreshRead, Start, Idle, Refreshing, Refreshable, Live, UserRow,
         SessionRow, InFlight, Kinds
<1>14. ASSUME NEW l \in Links, ResendVerification(l) PROVE AccountsTypeOK'
  BY <1>14, MailTyped DEF AccountsTypeOK, ResendVerification, LinkTypes, UserRow
<1>15. ASSUME NEW l \in Links, ForgotPassword(l) PROVE AccountsTypeOK'
  BY <1>15, MailTyped DEF AccountsTypeOK, ForgotPassword, LinkTypes, UserRow
<1>16. ASSUME NEW l \in Links, Expire(l) PROVE AccountsTypeOK'
  BY <1>16, UsedTyped DEF AccountsTypeOK, Expire
<1>17. ASSUME NEW r \in Requests, VerifyWrite(r) PROVE AccountsTypeOK'
  <2>1. req[r].on \in Links /\ link[req[r].on].to \in Addresses
    BY <1>17 DEF VerifyWrite, RequestsHold, Holds
  <2>2. link' \in [Links -> LinkRow]
    BY <1>17, <2>1, UsedTyped DEF VerifyWrite
  <2>3. req' \in [Requests -> InFlight] /\ session' \in [Sessions -> SessionRow]
    BY <1>17, EndTyped, EndSessionsTyped DEF VerifyWrite, AccountsTypeOK
  <2>4. user' \in UserRow /\ proven' \subseteq Addresses
    BY <1>17, <2>1 DEF VerifyWrite, AccountsTypeOK, UserRow
  <2>. QED
    BY <1>17, <2>2, <2>3, <2>4 DEF VerifyWrite, AccountsTypeOK
<1>18. ASSUME NEW r \in Requests, NEW p \in Passwords, ResetWrite(r, p) PROVE AccountsTypeOK'
  <2>1. link' \in [Links -> LinkRow]
    BY <1>18, UsedTyped DEF ResetWrite, RequestsHold, Holds
  <2>2. user' \in UserRow
    BY <1>18 DEF ResetWrite, AccountsTypeOK, UserRow
  <2>. QED
    BY <1>18, <2>1, <2>2, EndSessionsTyped DEF ResetWrite, AccountsTypeOK
<1>19. ASSUME NEW r \in Requests, NEW p \in Passwords, ChangePasswordWrite(r, p)
       PROVE  AccountsTypeOK'
  <2>1. user' \in UserRow
    BY <1>19 DEF ChangePasswordWrite, AccountsTypeOK, UserRow
  <2>. QED
    BY <1>19, <2>1, EndSessionsTyped DEF ChangePasswordWrite, AccountsTypeOK
<1>20. ASSUME NEW r \in Requests, NEW l \in Links, EmailChangeWrite(r, l) PROVE AccountsTypeOK'
  BY <1>20, EndTyped, MailTyped DEF AccountsTypeOK, EmailChangeWrite, LinkTypes, InFlight
<1>21. ASSUME NEW r \in Requests, NEW l \in Links, VerifyRead(r, l) PROVE AccountsTypeOK'
  BY <1>21
     DEF AccountsTypeOK, VerifyRead, Opens, Start, Idle, UserRow, SessionRow, InFlight, Kinds
<1>22. ASSUME NEW r \in Requests, NEW l \in Links, ResetRead(r, l) PROVE AccountsTypeOK'
  BY <1>22
     DEF AccountsTypeOK, ResetRead, Opens, Start, Idle, UserRow, SessionRow, InFlight, Kinds
<1>23. ASSUME NEW r \in Requests, NEW s \in Sessions, ChangePasswordRead(r, s)
       PROVE  AccountsTypeOK'
  BY <1>23
     DEF AccountsTypeOK, ChangePasswordRead, Start, Idle, Authorised, Live, UserRow, SessionRow,
         InFlight, Kinds
<1>24. ASSUME NEW r \in Requests, NEW s \in Sessions, NEW a \in Addresses, EmailChangeRead(r, s, a)
       PROVE  AccountsTypeOK'
  BY <1>24
     DEF AccountsTypeOK, EmailChangeRead, Start, Idle, Authorised, Live, UserRow, SessionRow,
         InFlight, Kinds
<1>25. ASSUME NEW a \in Addresses, CreateStaffAccount(a) PROVE AccountsTypeOK'
  BY <1>25 DEF AccountsTypeOK, CreateStaffAccount, UserRow, SessionRow, InFlight, Kinds
<1>26. ASSUME NEW st \in Status, CustomerStatus(st) PROVE AccountsTypeOK'
  <2>1. user' \in UserRow
    BY <1>26 DEF CustomerStatus, AccountsTypeOK, UserRow
  <2>. QED
    BY <1>26, <2>1, EndSessionsTyped DEF CustomerStatus, AccountsTypeOK
<1>27. ASSUME DeletionRead PROVE AccountsTypeOK'
  BY <1>27 DEF AccountsTypeOK, DeletionRead, UserRow, SessionRow, InFlight, Kinds
<1>28. ASSUME DeletionWrite PROVE AccountsTypeOK'
  BY <1>28 DEF AccountsTypeOK, DeletionWrite, UserRow, SessionRow, InFlight, Kinds
<1>29. ASSUME DeletionFail PROVE AccountsTypeOK'
  BY <1>29 DEF AccountsTypeOK, DeletionFail, UserRow, SessionRow, InFlight, Kinds
<1>30. ASSUME RequestDeletion PROVE AccountsTypeOK'
  <2>1. user' \in UserRow
    BY <1>30 DEF RequestDeletion, AccountsTypeOK, UserRow, Status
  <2>. QED
    BY <1>30, <2>1, EndSessionsTyped DEF RequestDeletion, AccountsTypeOK
<1>31. ASSUME ThirtyDays PROVE AccountsTypeOK'
  <2>1. link' \in [Links -> LinkRow]
    BY <1>31 DEF ThirtyDays, UseUp, AccountsTypeOK, LinkRow
  <2>. QED
    BY <1>31, <2>1 DEF ThirtyDays, AccountsTypeOK
<1>32. ASSUME Tick PROVE AccountsTypeOK'
  BY <1>32 DEF AccountsTypeOK, Tick, UserRow, SessionRow, InFlight, Kinds
<1>33. ASSUME UNCHANGED accountVars PROVE AccountsTypeOK'
  BY <1>33 DEF accountVars, AccountsTypeOK
<1>. QED
  BY <1>1, <1>2, <1>3, <1>4, <1>5, <1>6, <1>7, <1>8, <1>9, <1>10, <1>11, <1>12, <1>13, <1>14,
         <1>15, <1>16, <1>17, <1>18, <1>19, <1>20, <1>21, <1>22, <1>23, <1>24, <1>25, <1>26,
         <1>27, <1>28, <1>29, <1>30, <1>31, <1>32, <1>33
     DEF AccountsNext, SignIn, SessionStep, LinkStep, StaffStep

\* No row goes away, and a link keeps its type and its address.
RowsStay ==
    /\ \A s \in Sessions : session[s].state # "none" => session'[s].state # "none"
    /\ \A l \in Links : link[l].state # "none" =>
          link'[l].state # "none" /\ link'[l].to = link[l].to /\ link'[l].type = link[l].type

LEMMA RowsStayStep ==
  ASSUME AccountsTypeOK, RequestsHold, [AccountsNext]_accountVars
  PROVE  RowsStay
<1>. USE AccountsAssumption
   DEF RowsStay, AccountsTypeOK, SessionRow, LinkRow, RequestsHold, Holds
<1>1. ASSUME NEW a \in Addresses, OtherRegisters(a) PROVE RowsStay
  BY <1>1 DEF OtherRegisters
<1>2. ASSUME NEW a \in Addresses, NEW l \in Links, Register(a, l) PROVE RowsStay
  BY <1>2 DEF Register, Mail
<1>3. ASSUME NEW r \in Requests, LoginRead(r) PROVE RowsStay
  BY <1>3 DEF LoginRead, StartSignIn, Idle
<1>4. ASSUME NEW r \in Requests, NEW a \in Addresses, GoogleRead(r, a) PROVE RowsStay
  BY <1>4 DEF GoogleRead, StartSignIn, Idle
<1>5. ASSUME NEW r \in Requests, NEW s \in Sessions, CreateSession(r, s) PROVE RowsStay
  BY <1>5 DEF CreateSession, End, Idle
<1>6. ASSUME NEW r \in Requests, RequestLost(r) PROVE RowsStay
  BY <1>6 DEF RequestLost, End, Idle
<1>7. ASSUME LogoutAll PROVE RowsStay
  BY <1>7 DEF LogoutAll, Live, Over
<1>8. ASSUME NEW s \in Sessions, RefreshReuse(s) PROVE RowsStay
  BY <1>8 DEF RefreshReuse, Live, Over
<1>9. ASSUME NEW s \in Sessions, Logout(s) PROVE RowsStay
  BY <1>9 DEF Logout, Live
<1>10. ASSUME NEW s \in Sessions, EndSession(s) PROVE RowsStay
  BY <1>10 DEF EndSession, Live, Over
<1>11. ASSUME NEW r \in Requests, RefreshWrite(r) PROVE RowsStay
  BY <1>11 DEF RefreshWrite
<1>12. ASSUME NEW r \in Requests, RefreshAnswer(r) PROVE RowsStay
  BY <1>12 DEF RefreshAnswer, End, Idle
<1>13. ASSUME NEW r \in Requests, NEW s \in Sessions, RefreshRead(r, s) PROVE RowsStay
  BY <1>13 DEF RefreshRead, Start, Idle, Refreshing, Refreshable, Live
<1>14. ASSUME NEW l \in Links, ResendVerification(l) PROVE RowsStay
  BY <1>14 DEF ResendVerification, Mail
<1>15. ASSUME NEW l \in Links, ForgotPassword(l) PROVE RowsStay
  <2>1. \A k \in Links : k # l => link'[k].to = link[k].to /\ link'[k].type = link[k].type
                              /\ (link[k].state # "none" => link'[k].state # "none")
    BY <1>15 DEF ForgotPassword, Mail
  <2>. QED
    BY <1>15, <2>1 DEF ForgotPassword, Mail
<1>16. ASSUME NEW l \in Links, Expire(l) PROVE RowsStay
  BY <1>16 DEF Expire, Used
<1>17. ASSUME NEW r \in Requests, VerifyWrite(r) PROVE RowsStay
  <2>1. link' = [link EXCEPT ![req[r].on].state = "over"]
    BY <1>17 DEF VerifyWrite, Used
  <2>2. \A s \in Sessions : session[s].state # "none" => session'[s].state # "none"
    BY <1>17 DEF VerifyWrite, EndSessions, Live, Over
  <2>. QED
    BY <2>1, <2>2
<1>18. ASSUME NEW r \in Requests, NEW p \in Passwords, ResetWrite(r, p) PROVE RowsStay
  BY <1>18 DEF ResetWrite, Used, EndSessions, Idle, Live, Over
<1>19. ASSUME NEW r \in Requests, NEW p \in Passwords, ChangePasswordWrite(r, p) PROVE RowsStay
  BY <1>19 DEF ChangePasswordWrite, EndSessions, Idle, Live, Over
<1>20. ASSUME NEW r \in Requests, NEW l \in Links, EmailChangeWrite(r, l) PROVE RowsStay
  BY <1>20 DEF EmailChangeWrite, Mail, End, Idle
<1>21. ASSUME NEW r \in Requests, NEW l \in Links, VerifyRead(r, l) PROVE RowsStay
  BY <1>21 DEF VerifyRead, Opens, Start, Idle
<1>22. ASSUME NEW r \in Requests, NEW l \in Links, ResetRead(r, l) PROVE RowsStay
  BY <1>22 DEF ResetRead, Opens, Start, Idle
<1>23. ASSUME NEW r \in Requests, NEW s \in Sessions, ChangePasswordRead(r, s) PROVE RowsStay
  BY <1>23 DEF ChangePasswordRead, Start, Idle, Authorised, Live
<1>24. ASSUME NEW r \in Requests, NEW s \in Sessions, NEW a \in Addresses, EmailChangeRead(r, s, a)
       PROVE  RowsStay
  BY <1>24 DEF EmailChangeRead, Start, Idle, Authorised, Live
<1>25. ASSUME NEW a \in Addresses, CreateStaffAccount(a) PROVE RowsStay
  BY <1>25 DEF CreateStaffAccount
<1>26. ASSUME NEW st \in Status, CustomerStatus(st) PROVE RowsStay
  BY <1>26 DEF CustomerStatus, EndSessions, Idle, Live, Over, Status
<1>27. ASSUME DeletionRead PROVE RowsStay
  BY <1>27 DEF DeletionRead
<1>28. ASSUME DeletionWrite PROVE RowsStay
  BY <1>28 DEF DeletionWrite
<1>29. ASSUME DeletionFail PROVE RowsStay
  BY <1>29 DEF DeletionFail
<1>30. ASSUME RequestDeletion PROVE RowsStay
  BY <1>30 DEF RequestDeletion, EndSessions, Idle, Live, Over, Status
<1>31. ASSUME ThirtyDays PROVE RowsStay
  BY <1>31 DEF ThirtyDays, UseUp
<1>32. ASSUME Tick PROVE RowsStay
  BY <1>32 DEF Tick
<1>33. ASSUME UNCHANGED accountVars PROVE RowsStay
  BY <1>33 DEF accountVars
<1>. QED
  BY <1>1, <1>2, <1>3, <1>4, <1>5, <1>6, <1>7, <1>8, <1>9, <1>10, <1>11, <1>12, <1>13, <1>14,
         <1>15, <1>16, <1>17, <1>18, <1>19, <1>20, <1>21, <1>22, <1>23, <1>24, <1>25, <1>26,
         <1>27, <1>28, <1>29, <1>30, <1>31, <1>32, <1>33
     DEF AccountsNext, SignIn, SessionStep, LinkStep, StaffStep

LEMMA HoldsKept ==
  ASSUME RowsStay, NEW r \in Requests, Holds(r),
         req'[r].kind = req[r].kind, req'[r].on = req[r].on, req'[r].to = req[r].to,
         req[r] = Idle => req'[r] = Idle
  PROVE  Holds(r)'
BY DEF RowsStay, Holds

LEMMA HoldsIdle ==
  ASSUME NEW r \in Requests, req'[r] = Idle
  PROVE  Holds(r)'
BY DEF Holds, Idle

LEMMA HoldsSame ==
  ASSUME RowsStay, RequestsHold, UNCHANGED req
  PROVE  RequestsHold'
BY HoldsKept DEF RequestsHold

LEMMA HoldsOthers ==
  ASSUME AccountsTypeOK, RowsStay, RequestsHold, NEW r \in Requests, NEW row,
         req' = [req EXCEPT ![r] = row], Holds(r)'
  PROVE  RequestsHold'
<1>. SUFFICES ASSUME NEW q \in Requests PROVE Holds(q)'
  BY DEF RequestsHold
<1>1. CASE q # r
  <2>1. req'[q] = req[q]
    BY <1>1 DEF AccountsTypeOK
  <2>. QED
    BY <2>1, HoldsKept DEF RequestsHold
<1>. QED
  BY <1>1

LEMMA HoldsEnd ==
  ASSUME AccountsTypeOK, RowsStay, RequestsHold, NEW r \in Requests, End(r)
  PROVE  RequestsHold'
<1>1. Holds(r)'
  BY HoldsIdle DEF End, AccountsTypeOK
<1>. QED
  BY <1>1, HoldsOthers DEF End

LEMMA HoldsEndSessions ==
  ASSUME AccountsTypeOK, RowsStay, RequestsHold, NEW r, EndSessions(r)
  PROVE  RequestsHold'
<1>. SUFFICES ASSUME NEW q \in Requests PROVE Holds(q)'
  BY DEF RequestsHold
<1>1. CASE q = r
  BY <1>1, HoldsIdle DEF EndSessions
<1>2. CASE q # r
  <2>1. req'[q] = [req[q] EXCEPT !.late = @ \/ req[q].kind = "login"]
    BY <1>2 DEF EndSessions
  <2>2. req[q] \in InFlight
    BY DEF AccountsTypeOK
  <2>3. /\ req'[q].kind = req[q].kind /\ req'[q].on = req[q].on /\ req'[q].to = req[q].to
        /\ req[q] = Idle => req'[q] = Idle
    BY <2>1, <2>2 DEF InFlight, Idle
  <2>. QED
    BY <2>3, HoldsKept DEF RequestsHold
<1>. QED
  BY <1>1, <1>2

LEMMA RequestsStep ==
  ASSUME AccountsTypeOK, RequestsHold, [AccountsNext]_accountVars
  PROVE  RequestsHold'
<1>. USE AccountsAssumption
<1>0. RowsStay
  BY RowsStayStep
<1>1. ASSUME NEW a \in Addresses, OtherRegisters(a) PROVE RequestsHold'
  BY <1>1, <1>0, HoldsSame DEF OtherRegisters
<1>2. ASSUME NEW a \in Addresses, NEW l \in Links, Register(a, l) PROVE RequestsHold'
  BY <1>2, <1>0, HoldsSame DEF Register
<1>3. ASSUME NEW r \in Requests, LoginRead(r) PROVE RequestsHold'
  <2>1. Holds(r)'
    BY <1>3 DEF Holds, AccountsTypeOK, SessionRow, LinkRow, LoginRead, StartSignIn, Idle
  <2>. QED
    BY <1>3, <1>0, <2>1, HoldsOthers DEF LoginRead, Start, StartSignIn
<1>4. ASSUME NEW r \in Requests, NEW a \in Addresses, GoogleRead(r, a) PROVE RequestsHold'
  <2>1. Holds(r)'
    BY <1>4 DEF Holds, AccountsTypeOK, SessionRow, LinkRow, GoogleRead, StartSignIn, Idle
  <2>. QED
    BY <1>4, <1>0, <2>1, HoldsOthers DEF GoogleRead, Start, StartSignIn
<1>5. ASSUME NEW r \in Requests, NEW s \in Sessions, CreateSession(r, s) PROVE RequestsHold'
  BY <1>5, <1>0, HoldsEnd DEF CreateSession
<1>6. ASSUME NEW r \in Requests, RequestLost(r) PROVE RequestsHold'
  BY <1>6, <1>0, HoldsEnd DEF RequestLost
<1>7. ASSUME LogoutAll PROVE RequestsHold'
  BY <1>7, <1>0, HoldsSame DEF LogoutAll
<1>8. ASSUME NEW s \in Sessions, RefreshReuse(s) PROVE RequestsHold'
  BY <1>8, <1>0, HoldsSame DEF RefreshReuse
<1>9. ASSUME NEW s \in Sessions, Logout(s) PROVE RequestsHold'
  BY <1>9, <1>0, HoldsSame DEF Logout
<1>10. ASSUME NEW s \in Sessions, EndSession(s) PROVE RequestsHold'
  BY <1>10, <1>0, HoldsSame DEF EndSession
<1>11. ASSUME NEW r \in Requests, RefreshWrite(r) PROVE RequestsHold'
  <2>1. Holds(r)'
    BY <1>11, <1>0 DEF Holds, RowsStay, RequestsHold, AccountsTypeOK, RefreshWrite
  <2>. QED
    BY <1>11, <1>0, <2>1, HoldsOthers DEF RefreshWrite
<1>12. ASSUME NEW r \in Requests, RefreshAnswer(r) PROVE RequestsHold'
  BY <1>12, <1>0, HoldsEnd DEF RefreshAnswer
<1>13. ASSUME NEW r \in Requests, NEW s \in Sessions, RefreshRead(r, s) PROVE RequestsHold'
  <2>1. Holds(r)'
    BY <1>13
       DEF Holds, AccountsTypeOK, SessionRow, LinkRow, RefreshRead, Start, Idle, Refreshing,
           Refreshable, Live
  <2>. QED
    BY <1>13, <1>0, <2>1, HoldsOthers DEF RefreshRead, Start, StartSignIn
<1>14. ASSUME NEW l \in Links, ResendVerification(l) PROVE RequestsHold'
  BY <1>14, <1>0, HoldsSame DEF ResendVerification
<1>15. ASSUME NEW l \in Links, ForgotPassword(l) PROVE RequestsHold'
  BY <1>15, <1>0, HoldsSame DEF ForgotPassword
<1>16. ASSUME NEW l \in Links, Expire(l) PROVE RequestsHold'
  BY <1>16, <1>0, HoldsSame DEF Expire
<1>17. ASSUME NEW r \in Requests, VerifyWrite(r) PROVE RequestsHold'
  BY <1>17, <1>0, HoldsEnd, HoldsEndSessions DEF VerifyWrite
<1>18. ASSUME NEW r \in Requests, NEW p \in Passwords, ResetWrite(r, p) PROVE RequestsHold'
  BY <1>18, <1>0, HoldsEndSessions DEF ResetWrite
<1>19. ASSUME NEW r \in Requests, NEW p \in Passwords, ChangePasswordWrite(r, p)
       PROVE  RequestsHold'
  BY <1>19, <1>0, HoldsEndSessions DEF ChangePasswordWrite
<1>20. ASSUME NEW r \in Requests, NEW l \in Links, EmailChangeWrite(r, l) PROVE RequestsHold'
  BY <1>20, <1>0, HoldsEnd DEF EmailChangeWrite
<1>21. ASSUME NEW r \in Requests, NEW l \in Links, VerifyRead(r, l) PROVE RequestsHold'
  <2>1. Holds(r)'
    BY <1>21 DEF Holds, AccountsTypeOK, SessionRow, LinkRow, VerifyRead, Opens, Start, Idle
  <2>. QED
    BY <1>21, <1>0, <2>1, HoldsOthers DEF VerifyRead, Start, StartSignIn
<1>22. ASSUME NEW r \in Requests, NEW l \in Links, ResetRead(r, l) PROVE RequestsHold'
  <2>1. Holds(r)'
    BY <1>22 DEF Holds, AccountsTypeOK, SessionRow, LinkRow, ResetRead, Opens, Start, Idle
  <2>. QED
    BY <1>22, <1>0, <2>1, HoldsOthers DEF ResetRead, Start, StartSignIn
<1>23. ASSUME NEW r \in Requests, NEW s \in Sessions, ChangePasswordRead(r, s)
       PROVE  RequestsHold'
  <2>1. Holds(r)'
    BY <1>23
       DEF Holds, AccountsTypeOK, SessionRow, LinkRow, ChangePasswordRead, Start, Idle,
           Authorised, Live
  <2>. QED
    BY <1>23, <1>0, <2>1, HoldsOthers DEF ChangePasswordRead, Start, StartSignIn
<1>24. ASSUME NEW r \in Requests, NEW s \in Sessions, NEW a \in Addresses, EmailChangeRead(r, s, a)
       PROVE  RequestsHold'
  <2>1. Holds(r)'
    BY <1>24
       DEF Holds, AccountsTypeOK, SessionRow, LinkRow, EmailChangeRead, Start, Idle, Authorised,
           Live
  <2>. QED
    BY <1>24, <1>0, <2>1, HoldsOthers DEF EmailChangeRead, Start, StartSignIn
<1>25. ASSUME NEW a \in Addresses, CreateStaffAccount(a) PROVE RequestsHold'
  BY <1>25, <1>0, HoldsSame DEF CreateStaffAccount
<1>26. ASSUME NEW st \in Status, CustomerStatus(st) PROVE RequestsHold'
  BY <1>26, <1>0, HoldsSame, HoldsEndSessions DEF CustomerStatus
<1>27. ASSUME DeletionRead PROVE RequestsHold'
  BY <1>27, <1>0, HoldsSame DEF DeletionRead
<1>28. ASSUME DeletionWrite PROVE RequestsHold'
  BY <1>28, <1>0, HoldsSame DEF DeletionWrite
<1>29. ASSUME DeletionFail PROVE RequestsHold'
  BY <1>29, <1>0, HoldsSame DEF DeletionFail
<1>30. ASSUME RequestDeletion PROVE RequestsHold'
  BY <1>30, <1>0, HoldsEndSessions DEF RequestDeletion
<1>31. ASSUME ThirtyDays PROVE RequestsHold'
  BY <1>31, <1>0, HoldsSame DEF ThirtyDays
<1>32. ASSUME Tick PROVE RequestsHold'
  BY <1>32, <1>0, HoldsSame DEF Tick
<1>33. ASSUME UNCHANGED accountVars PROVE RequestsHold'
  BY <1>33 DEF accountVars, RequestsHold, Holds
<1>. QED
  BY <1>1, <1>2, <1>3, <1>4, <1>5, <1>6, <1>7, <1>8, <1>9, <1>10, <1>11, <1>12, <1>13, <1>14,
         <1>15, <1>16, <1>17, <1>18, <1>19, <1>20, <1>21, <1>22, <1>23, <1>24, <1>25, <1>26,
         <1>27, <1>28, <1>29, <1>30, <1>31, <1>32, <1>33
     DEF AccountsNext, SignIn, SessionStep, LinkStep, StaffStep

----------------------------------------------------------------------------
(* The strengthened invariant, one conjunct at a time.                      *)

\* What ending the sessions leaves of sessions and requests.
LEMMA EndSessionsEffect ==
  ASSUME AccountsTypeOK, NEW r, EndSessions(r)
  PROVE  /\ \A s \in Sessions : ~Live(s)' /\ (session'[s].state = "none" <=> session[s].state = "none")
         /\ \A q \in Requests : /\ req'[q].kind = "login" => req'[q].late
                                /\ req'[q] = Idle \/ req'[q].kind = req[q].kind
<1>1. \A s \in Sessions : ~Live(s)' /\ (session'[s].state = "none" <=> session[s].state = "none")
  BY DEF AccountsTypeOK, SessionRow, EndSessions, Live, Over
<1>2. ASSUME NEW q \in Requests
      PROVE  /\ req'[q].kind = "login" => req'[q].late
             /\ req'[q] = Idle \/ req'[q].kind = req[q].kind
  <2>1. req[q] \in InFlight
    BY DEF AccountsTypeOK
  <2>2. CASE q = r
    BY <2>2 DEF EndSessions, Idle
  <2>3. CASE q # r
    <3>1. req'[q] = [req[q] EXCEPT !.late = @ \/ req[q].kind = "login"]
      BY <2>3 DEF EndSessions
    <3>. QED
      BY <3>1, <2>1 DEF InFlight
  <2>. QED
    BY <2>2, <2>3
<1>. QED
  BY <1>1, <1>2

LEMMA UnopenedStep ==
  ASSUME AccountsInv, [AccountsNext]_accountVars
  PROVE  UnopenedIsBlank'
<1>. USE AccountsAssumption
   DEF AccountsInv, AccountsTypeOK, UserRow, SessionRow, LinkRow, InFlight, RequestsHold, Holds,
       Nobody, Anonymous, Idle, UnopenedIsBlank, SignedIn, Authorised, Live
<1>1. ASSUME NEW a \in Addresses, OtherRegisters(a) PROVE UnopenedIsBlank'
  BY <1>1 DEF OtherRegisters
<1>2. ASSUME NEW a \in Addresses, NEW l \in Links, Register(a, l) PROVE UnopenedIsBlank'
  BY <1>2 DEF Register, Mail
<1>3. ASSUME NEW r \in Requests, LoginRead(r) PROVE UnopenedIsBlank'
  BY <1>3 DEF LoginRead, StartSignIn
<1>4. ASSUME NEW r \in Requests, NEW a \in Addresses, GoogleRead(r, a) PROVE UnopenedIsBlank'
  BY <1>4 DEF GoogleRead, StartSignIn
<1>5. ASSUME NEW r \in Requests, NEW s \in Sessions, CreateSession(r, s) PROVE UnopenedIsBlank'
  BY <1>5 DEF CreateSession, End
<1>6. ASSUME NEW r \in Requests, RequestLost(r) PROVE UnopenedIsBlank'
  BY <1>6 DEF RequestLost, End
<1>7. ASSUME LogoutAll PROVE UnopenedIsBlank'
  BY <1>7 DEF LogoutAll, Over
<1>8. ASSUME NEW s \in Sessions, RefreshReuse(s) PROVE UnopenedIsBlank'
  BY <1>8 DEF RefreshReuse, Over
<1>9. ASSUME NEW s \in Sessions, Logout(s) PROVE UnopenedIsBlank'
  BY <1>9 DEF Logout
<1>10. ASSUME NEW s \in Sessions, EndSession(s) PROVE UnopenedIsBlank'
  BY <1>10 DEF EndSession, Over
<1>11. ASSUME NEW r \in Requests, RefreshWrite(r) PROVE UnopenedIsBlank'
  BY <1>11 DEF RefreshWrite
<1>12. ASSUME NEW r \in Requests, RefreshAnswer(r) PROVE UnopenedIsBlank'
  BY <1>12 DEF RefreshAnswer, End
<1>13. ASSUME NEW r \in Requests, NEW s \in Sessions, RefreshRead(r, s) PROVE UnopenedIsBlank'
  BY <1>13 DEF RefreshRead, Start, Refreshing, Refreshable
<1>14. ASSUME NEW l \in Links, ResendVerification(l) PROVE UnopenedIsBlank'
  BY <1>14 DEF ResendVerification, Mail
<1>15. ASSUME NEW l \in Links, ForgotPassword(l) PROVE UnopenedIsBlank'
  BY <1>15 DEF ForgotPassword, Mail
<1>16. ASSUME NEW l \in Links, Expire(l) PROVE UnopenedIsBlank'
  BY <1>16 DEF Expire, Used
<1>17. ASSUME NEW r \in Requests, VerifyWrite(r) PROVE UnopenedIsBlank'
  <2>1. /\ req[r].on \in Links /\ link[req[r].on].state # "none" /\ link[req[r].on].to \in Addresses
        /\ proven' = proven \cup {link[req[r].on].to}
        /\ \A k \in Links : /\ link'[k].state = IF k = req[r].on THEN "over" ELSE link[k].state
                            /\ link'[k].to = link[k].to /\ link'[k].type = link[k].type
        /\ UNCHANGED <<jar, second, aged, worker, taken, shaken>>
    BY <1>17 DEF VerifyWrite, Used
  <2>2. CASE user' = [user EXCEPT !.verified = TRUE] /\ End(r) /\ UNCHANGED session
             /\ link[req[r].on].type = "EMAIL_VERIFY"
    BY <1>17, <2>1, <2>2 DEF VerifyWrite, End
  <2>3. CASE /\ user' = [user EXCEPT !.email = link[req[r].on].to, !.verified = TRUE]
             /\ EndSessions(r)
    BY <1>17, <2>1, <2>3, EndSessionsEffect DEF VerifyWrite
  <2>. QED
    BY <1>17, <2>2, <2>3 DEF VerifyWrite
<1>18. ASSUME NEW r \in Requests, NEW p \in Passwords, ResetWrite(r, p) PROVE UnopenedIsBlank'
  BY <1>18 DEF ResetWrite, Used, EndSessions, Over
<1>19. ASSUME NEW r \in Requests, NEW p \in Passwords, ChangePasswordWrite(r, p)
       PROVE  UnopenedIsBlank'
  BY <1>19 DEF ChangePasswordWrite, EndSessions, Over
<1>20. ASSUME NEW r \in Requests, NEW l \in Links, EmailChangeWrite(r, l) PROVE UnopenedIsBlank'
  BY <1>20 DEF EmailChangeWrite, Mail, End
<1>21. ASSUME NEW r \in Requests, NEW l \in Links, VerifyRead(r, l) PROVE UnopenedIsBlank'
  BY <1>21 DEF VerifyRead, Opens, Start
<1>22. ASSUME NEW r \in Requests, NEW l \in Links, ResetRead(r, l) PROVE UnopenedIsBlank'
  BY <1>22 DEF ResetRead, Opens, Start
<1>23. ASSUME NEW r \in Requests, NEW s \in Sessions, ChangePasswordRead(r, s)
       PROVE  UnopenedIsBlank'
  BY <1>23 DEF ChangePasswordRead, Start
<1>24. ASSUME NEW r \in Requests, NEW s \in Sessions, NEW a \in Addresses, EmailChangeRead(r, s, a)
       PROVE  UnopenedIsBlank'
  BY <1>24 DEF EmailChangeRead, Start
<1>25. ASSUME NEW a \in Addresses, CreateStaffAccount(a) PROVE UnopenedIsBlank'
  BY <1>25 DEF CreateStaffAccount
<1>26. ASSUME NEW st \in Status, CustomerStatus(st) PROVE UnopenedIsBlank'
  BY <1>26 DEF CustomerStatus, EndSessions, Over, Status
<1>27. ASSUME DeletionRead PROVE UnopenedIsBlank'
  BY <1>27 DEF DeletionRead
<1>28. ASSUME DeletionWrite PROVE UnopenedIsBlank'
  BY <1>28 DEF DeletionWrite
<1>29. ASSUME DeletionFail PROVE UnopenedIsBlank'
  BY <1>29 DEF DeletionFail
<1>30. ASSUME RequestDeletion PROVE UnopenedIsBlank'
  BY <1>30 DEF RequestDeletion, EndSessions, Over, Status
<1>31. ASSUME ThirtyDays PROVE UnopenedIsBlank'
  BY <1>31 DEF ThirtyDays, UseUp
<1>32. ASSUME Tick PROVE UnopenedIsBlank'
  BY <1>32 DEF Tick
<1>33. ASSUME UNCHANGED accountVars PROVE UnopenedIsBlank'
  BY <1>33 DEF accountVars
<1>. QED
  BY <1>1, <1>2, <1>3, <1>4, <1>5, <1>6, <1>7, <1>8, <1>9, <1>10, <1>11, <1>12, <1>13, <1>14,
         <1>15, <1>16, <1>17, <1>18, <1>19, <1>20, <1>21, <1>22, <1>23, <1>24, <1>25, <1>26,
         <1>27, <1>28, <1>29, <1>30, <1>31, <1>32, <1>33
     DEF AccountsNext, SignIn, SessionStep, LinkStep, StaffStep

LEMMA DeletionStep ==
  ASSUME AccountsInv, [AccountsNext]_accountVars
  PROVE  DeletionIsFinal'
<1>. USE AccountsAssumption
   DEF AccountsInv, AccountsTypeOK, UserRow, SessionRow, LinkRow, InFlight, RequestsHold, Holds,
       Nobody, Anonymous, Idle, DeletionIsFinal, UnopenedIsBlank, UnverifiedIsFirst, SignedIn,
       Authorised, Live
<1>1. ASSUME NEW a \in Addresses, OtherRegisters(a) PROVE DeletionIsFinal'
  BY <1>1 DEF OtherRegisters
<1>2. ASSUME NEW a \in Addresses, NEW l \in Links, Register(a, l) PROVE DeletionIsFinal'
  BY <1>2 DEF Register, Mail
<1>3. ASSUME NEW r \in Requests, LoginRead(r) PROVE DeletionIsFinal'
  BY <1>3 DEF LoginRead, StartSignIn
<1>4. ASSUME NEW r \in Requests, NEW a \in Addresses, GoogleRead(r, a) PROVE DeletionIsFinal'
  BY <1>4 DEF GoogleRead, StartSignIn
<1>5. ASSUME NEW r \in Requests, NEW s \in Sessions, CreateSession(r, s) PROVE DeletionIsFinal'
  BY <1>5 DEF CreateSession, End
<1>6. ASSUME NEW r \in Requests, RequestLost(r) PROVE DeletionIsFinal'
  BY <1>6 DEF RequestLost, End
<1>7. ASSUME LogoutAll PROVE DeletionIsFinal'
  BY <1>7 DEF LogoutAll, Over
<1>8. ASSUME NEW s \in Sessions, RefreshReuse(s) PROVE DeletionIsFinal'
  BY <1>8 DEF RefreshReuse, Over
<1>9. ASSUME NEW s \in Sessions, Logout(s) PROVE DeletionIsFinal'
  BY <1>9 DEF Logout
<1>10. ASSUME NEW s \in Sessions, EndSession(s) PROVE DeletionIsFinal'
  BY <1>10 DEF EndSession, Over
<1>11. ASSUME NEW r \in Requests, RefreshWrite(r) PROVE DeletionIsFinal'
  BY <1>11 DEF RefreshWrite
<1>12. ASSUME NEW r \in Requests, RefreshAnswer(r) PROVE DeletionIsFinal'
  BY <1>12 DEF RefreshAnswer, End
<1>13. ASSUME NEW r \in Requests, NEW s \in Sessions, RefreshRead(r, s) PROVE DeletionIsFinal'
  BY <1>13 DEF RefreshRead, Start, Refreshing, Refreshable
<1>14. ASSUME NEW l \in Links, ResendVerification(l) PROVE DeletionIsFinal'
  BY <1>14 DEF ResendVerification, Mail
<1>15. ASSUME NEW l \in Links, ForgotPassword(l) PROVE DeletionIsFinal'
  BY <1>15 DEF ForgotPassword, Mail
<1>16. ASSUME NEW l \in Links, Expire(l) PROVE DeletionIsFinal'
  BY <1>16 DEF Expire, Used
<1>17. ASSUME NEW r \in Requests, VerifyWrite(r) PROVE DeletionIsFinal'
  <2>1. /\ req[r].on \in Links /\ link[req[r].on].state # "none" /\ link[req[r].on].to \in Addresses
        /\ proven' = proven \cup {link[req[r].on].to}
        /\ \A k \in Links : /\ link'[k].state = IF k = req[r].on THEN "over" ELSE link[k].state
                            /\ link'[k].to = link[k].to /\ link'[k].type = link[k].type
        /\ UNCHANGED <<jar, second, aged, worker, taken, shaken>>
    BY <1>17 DEF VerifyWrite, Used
  <2>2. CASE user' = [user EXCEPT !.verified = TRUE] /\ End(r) /\ UNCHANGED session
             /\ link[req[r].on].type = "EMAIL_VERIFY"
    BY <1>17, <2>1, <2>2 DEF VerifyWrite, End
  <2>3. CASE /\ user' = [user EXCEPT !.email = link[req[r].on].to, !.verified = TRUE]
             /\ EndSessions(r)
    BY <1>17, <2>1, <2>3, EndSessionsEffect DEF VerifyWrite
  <2>. QED
    BY <1>17, <2>2, <2>3 DEF VerifyWrite
<1>18. ASSUME NEW r \in Requests, NEW p \in Passwords, ResetWrite(r, p) PROVE DeletionIsFinal'
  BY <1>18 DEF ResetWrite, Used, EndSessions, Over
<1>19. ASSUME NEW r \in Requests, NEW p \in Passwords, ChangePasswordWrite(r, p)
       PROVE  DeletionIsFinal'
  BY <1>19 DEF ChangePasswordWrite, EndSessions, Over
<1>20. ASSUME NEW r \in Requests, NEW l \in Links, EmailChangeWrite(r, l) PROVE DeletionIsFinal'
  BY <1>20 DEF EmailChangeWrite, Mail, End
<1>21. ASSUME NEW r \in Requests, NEW l \in Links, VerifyRead(r, l) PROVE DeletionIsFinal'
  BY <1>21 DEF VerifyRead, Opens, Start
<1>22. ASSUME NEW r \in Requests, NEW l \in Links, ResetRead(r, l) PROVE DeletionIsFinal'
  BY <1>22 DEF ResetRead, Opens, Start
<1>23. ASSUME NEW r \in Requests, NEW s \in Sessions, ChangePasswordRead(r, s)
       PROVE  DeletionIsFinal'
  BY <1>23 DEF ChangePasswordRead, Start
<1>24. ASSUME NEW r \in Requests, NEW s \in Sessions, NEW a \in Addresses, EmailChangeRead(r, s, a)
       PROVE  DeletionIsFinal'
  BY <1>24 DEF EmailChangeRead, Start
<1>25. ASSUME NEW a \in Addresses, CreateStaffAccount(a) PROVE DeletionIsFinal'
  BY <1>25 DEF CreateStaffAccount
<1>26. ASSUME NEW st \in Status, CustomerStatus(st) PROVE DeletionIsFinal'
  BY <1>26 DEF CustomerStatus, EndSessions, Over, Status
<1>27. ASSUME DeletionRead PROVE DeletionIsFinal'
  BY <1>27 DEF DeletionRead
<1>28. ASSUME DeletionWrite PROVE DeletionIsFinal'
  BY <1>28 DEF DeletionWrite
<1>29. ASSUME DeletionFail PROVE DeletionIsFinal'
  BY <1>29 DEF DeletionFail
<1>30. ASSUME RequestDeletion PROVE DeletionIsFinal'
  BY <1>30 DEF RequestDeletion, EndSessions, Over, Status
<1>31. ASSUME ThirtyDays PROVE DeletionIsFinal'
  BY <1>31 DEF ThirtyDays, UseUp
<1>32. ASSUME Tick PROVE DeletionIsFinal'
  BY <1>32 DEF Tick
<1>33. ASSUME UNCHANGED accountVars PROVE DeletionIsFinal'
  BY <1>33 DEF accountVars
<1>. QED
  BY <1>1, <1>2, <1>3, <1>4, <1>5, <1>6, <1>7, <1>8, <1>9, <1>10, <1>11, <1>12, <1>13, <1>14,
         <1>15, <1>16, <1>17, <1>18, <1>19, <1>20, <1>21, <1>22, <1>23, <1>24, <1>25, <1>26,
         <1>27, <1>28, <1>29, <1>30, <1>31, <1>32, <1>33
     DEF AccountsNext, SignIn, SessionStep, LinkStep, StaffStep

LEMMA UnverifiedStep ==
  ASSUME AccountsInv, [AccountsNext]_accountVars
  PROVE  UnverifiedIsFirst'
<1>. USE AccountsAssumption
   DEF AccountsInv, AccountsTypeOK, UserRow, SessionRow, LinkRow, InFlight, RequestsHold, Holds,
       Nobody, Anonymous, Idle, UnverifiedIsFirst, UnopenedIsBlank, DeletionIsFinal, SignedIn,
       Authorised, Live
<1>1. ASSUME NEW a \in Addresses, OtherRegisters(a) PROVE UnverifiedIsFirst'
  BY <1>1 DEF OtherRegisters
<1>2. ASSUME NEW a \in Addresses, NEW l \in Links, Register(a, l) PROVE UnverifiedIsFirst'
  BY <1>2 DEF Register, Mail
<1>3. ASSUME NEW r \in Requests, LoginRead(r) PROVE UnverifiedIsFirst'
  BY <1>3 DEF LoginRead, StartSignIn
<1>4. ASSUME NEW r \in Requests, NEW a \in Addresses, GoogleRead(r, a) PROVE UnverifiedIsFirst'
  BY <1>4 DEF GoogleRead, StartSignIn
<1>5. ASSUME NEW r \in Requests, NEW s \in Sessions, CreateSession(r, s)
      PROVE  UnverifiedIsFirst'
  BY <1>5 DEF CreateSession, End
<1>6. ASSUME NEW r \in Requests, RequestLost(r) PROVE UnverifiedIsFirst'
  BY <1>6 DEF RequestLost, End
<1>7. ASSUME LogoutAll PROVE UnverifiedIsFirst'
  BY <1>7 DEF LogoutAll, Over
<1>8. ASSUME NEW s \in Sessions, RefreshReuse(s) PROVE UnverifiedIsFirst'
  BY <1>8 DEF RefreshReuse, Over
<1>9. ASSUME NEW s \in Sessions, Logout(s) PROVE UnverifiedIsFirst'
  BY <1>9 DEF Logout
<1>10. ASSUME NEW s \in Sessions, EndSession(s) PROVE UnverifiedIsFirst'
  BY <1>10 DEF EndSession, Over
<1>11. ASSUME NEW r \in Requests, RefreshWrite(r) PROVE UnverifiedIsFirst'
  BY <1>11 DEF RefreshWrite
<1>12. ASSUME NEW r \in Requests, RefreshAnswer(r) PROVE UnverifiedIsFirst'
  BY <1>12 DEF RefreshAnswer, End
<1>13. ASSUME NEW r \in Requests, NEW s \in Sessions, RefreshRead(r, s) PROVE UnverifiedIsFirst'
  BY <1>13 DEF RefreshRead, Start, Refreshing, Refreshable
<1>14. ASSUME NEW l \in Links, ResendVerification(l) PROVE UnverifiedIsFirst'
  BY <1>14 DEF ResendVerification, Mail
<1>15. ASSUME NEW l \in Links, ForgotPassword(l) PROVE UnverifiedIsFirst'
  BY <1>15 DEF ForgotPassword, Mail
<1>16. ASSUME NEW l \in Links, Expire(l) PROVE UnverifiedIsFirst'
  BY <1>16 DEF Expire, Used
<1>17. ASSUME NEW r \in Requests, VerifyWrite(r) PROVE UnverifiedIsFirst'
  <2>1. /\ req[r].on \in Links /\ link[req[r].on].state # "none" /\ link[req[r].on].to \in Addresses
        /\ proven' = proven \cup {link[req[r].on].to}
        /\ \A k \in Links : /\ link'[k].state = IF k = req[r].on THEN "over" ELSE link[k].state
                            /\ link'[k].to = link[k].to /\ link'[k].type = link[k].type
        /\ UNCHANGED <<jar, second, aged, worker, taken, shaken>>
    BY <1>17 DEF VerifyWrite, Used
  <2>2. CASE user' = [user EXCEPT !.verified = TRUE] /\ End(r) /\ UNCHANGED session
             /\ link[req[r].on].type = "EMAIL_VERIFY"
    BY <1>17, <2>1, <2>2 DEF VerifyWrite, End
  <2>3. CASE /\ user' = [user EXCEPT !.email = link[req[r].on].to, !.verified = TRUE]
             /\ EndSessions(r)
    BY <1>17, <2>1, <2>3, EndSessionsEffect DEF VerifyWrite
  <2>. QED
    BY <1>17, <2>2, <2>3 DEF VerifyWrite
<1>18. ASSUME NEW r \in Requests, NEW p \in Passwords, ResetWrite(r, p) PROVE UnverifiedIsFirst'
  BY <1>18 DEF ResetWrite, Used, EndSessions, Over
<1>19. ASSUME NEW r \in Requests, NEW p \in Passwords, ChangePasswordWrite(r, p)
       PROVE  UnverifiedIsFirst'
  BY <1>19, EndSessionsEffect DEF ChangePasswordWrite
<1>20. ASSUME NEW r \in Requests, NEW l \in Links, EmailChangeWrite(r, l)
       PROVE  UnverifiedIsFirst'
  BY <1>20 DEF EmailChangeWrite, Mail, End
<1>21. ASSUME NEW r \in Requests, NEW l \in Links, VerifyRead(r, l) PROVE UnverifiedIsFirst'
  BY <1>21 DEF VerifyRead, Opens, Start
<1>22. ASSUME NEW r \in Requests, NEW l \in Links, ResetRead(r, l) PROVE UnverifiedIsFirst'
  BY <1>22 DEF ResetRead, Opens, Start
<1>23. ASSUME NEW r \in Requests, NEW s \in Sessions, ChangePasswordRead(r, s)
       PROVE  UnverifiedIsFirst'
  BY <1>23 DEF ChangePasswordRead, Start
<1>24. ASSUME NEW r \in Requests, NEW s \in Sessions, NEW a \in Addresses, EmailChangeRead(r, s, a)
       PROVE  UnverifiedIsFirst'
  BY <1>24 DEF EmailChangeRead, Start
<1>25. ASSUME NEW a \in Addresses, CreateStaffAccount(a) PROVE UnverifiedIsFirst'
  BY <1>25 DEF CreateStaffAccount
<1>26. ASSUME NEW st \in Status, CustomerStatus(st) PROVE UnverifiedIsFirst'
  BY <1>26, EndSessionsEffect DEF CustomerStatus, Status
<1>27. ASSUME DeletionRead PROVE UnverifiedIsFirst'
  BY <1>27 DEF DeletionRead
<1>28. ASSUME DeletionWrite PROVE UnverifiedIsFirst'
  BY <1>28 DEF DeletionWrite
<1>29. ASSUME DeletionFail PROVE UnverifiedIsFirst'
  BY <1>29 DEF DeletionFail
<1>30. ASSUME RequestDeletion PROVE UnverifiedIsFirst'
  BY <1>30, EndSessionsEffect DEF RequestDeletion, Status
<1>31. ASSUME ThirtyDays PROVE UnverifiedIsFirst'
  BY <1>31 DEF ThirtyDays, UseUp
<1>32. ASSUME Tick PROVE UnverifiedIsFirst'
  BY <1>32 DEF Tick
<1>33. ASSUME UNCHANGED accountVars PROVE UnverifiedIsFirst'
  BY <1>33 DEF accountVars
<1>. QED
  BY <1>1, <1>2, <1>3, <1>4, <1>5, <1>6, <1>7, <1>8, <1>9, <1>10, <1>11, <1>12, <1>13, <1>14,
         <1>15, <1>16, <1>17, <1>18, <1>19, <1>20, <1>21, <1>22, <1>23, <1>24, <1>25, <1>26,
         <1>27, <1>28, <1>29, <1>30, <1>31, <1>32, <1>33
     DEF AccountsNext, SignIn, SessionStep, LinkStep, StaffStep

LEMMA ProvenStep ==
  ASSUME AccountsInv, [AccountsNext]_accountVars
  PROVE  VerifiedMeansProven'
<1>. USE AccountsAssumption
   DEF AccountsInv, AccountsTypeOK, UserRow, SessionRow, LinkRow, InFlight, RequestsHold, Holds,
       Nobody, Anonymous, Idle, VerifiedMeansProven, UnopenedIsBlank, UnverifiedIsFirst,
       DeletionIsFinal
<1>1. ASSUME NEW a \in Addresses, OtherRegisters(a) PROVE VerifiedMeansProven'
  BY <1>1 DEF OtherRegisters
<1>2. ASSUME NEW a \in Addresses, NEW l \in Links, Register(a, l) PROVE VerifiedMeansProven'
  BY <1>2 DEF Register, Mail
<1>3. ASSUME NEW r \in Requests, LoginRead(r) PROVE VerifiedMeansProven'
  BY <1>3 DEF LoginRead, StartSignIn
<1>4. ASSUME NEW r \in Requests, NEW a \in Addresses, GoogleRead(r, a)
      PROVE  VerifiedMeansProven'
  BY <1>4 DEF GoogleRead, StartSignIn
<1>5. ASSUME NEW r \in Requests, NEW s \in Sessions, CreateSession(r, s)
      PROVE  VerifiedMeansProven'
  BY <1>5 DEF CreateSession, End
<1>6. ASSUME NEW r \in Requests, RequestLost(r) PROVE VerifiedMeansProven'
  BY <1>6 DEF RequestLost, End
<1>7. ASSUME LogoutAll PROVE VerifiedMeansProven'
  BY <1>7 DEF LogoutAll, Live, Over
<1>8. ASSUME NEW s \in Sessions, RefreshReuse(s) PROVE VerifiedMeansProven'
  BY <1>8 DEF RefreshReuse, Live, Over
<1>9. ASSUME NEW s \in Sessions, Logout(s) PROVE VerifiedMeansProven'
  BY <1>9 DEF Logout, Live
<1>10. ASSUME NEW s \in Sessions, EndSession(s) PROVE VerifiedMeansProven'
  BY <1>10 DEF EndSession, Live, Over
<1>11. ASSUME NEW r \in Requests, RefreshWrite(r) PROVE VerifiedMeansProven'
  BY <1>11 DEF RefreshWrite
<1>12. ASSUME NEW r \in Requests, RefreshAnswer(r) PROVE VerifiedMeansProven'
  BY <1>12 DEF RefreshAnswer, End
<1>13. ASSUME NEW r \in Requests, NEW s \in Sessions, RefreshRead(r, s)
       PROVE  VerifiedMeansProven'
  BY <1>13 DEF RefreshRead, Start, Refreshing, Refreshable, Live
<1>14. ASSUME NEW l \in Links, ResendVerification(l) PROVE VerifiedMeansProven'
  BY <1>14 DEF ResendVerification, Mail
<1>15. ASSUME NEW l \in Links, ForgotPassword(l) PROVE VerifiedMeansProven'
  BY <1>15 DEF ForgotPassword, Mail
<1>16. ASSUME NEW l \in Links, Expire(l) PROVE VerifiedMeansProven'
  BY <1>16 DEF Expire, Used
<1>17. ASSUME NEW r \in Requests, VerifyWrite(r) PROVE VerifiedMeansProven'
  <2>1. /\ req[r].on \in Links /\ link[req[r].on].state # "none" /\ link[req[r].on].to \in Addresses
        /\ proven' = proven \cup {link[req[r].on].to}
        /\ \A k \in Links : /\ link'[k].state = IF k = req[r].on THEN "over" ELSE link[k].state
                            /\ link'[k].to = link[k].to /\ link'[k].type = link[k].type
        /\ UNCHANGED <<jar, second, aged, worker, taken, shaken>>
    BY <1>17 DEF VerifyWrite, Used
  <2>2. CASE user' = [user EXCEPT !.verified = TRUE] /\ End(r) /\ UNCHANGED session
             /\ link[req[r].on].type = "EMAIL_VERIFY"
    BY <1>17, <2>1, <2>2 DEF VerifyWrite, End
  <2>3. CASE /\ user' = [user EXCEPT !.email = link[req[r].on].to, !.verified = TRUE]
             /\ EndSessions(r)
    BY <1>17, <2>1, <2>3, EndSessionsEffect DEF VerifyWrite
  <2>. QED
    BY <1>17, <2>2, <2>3 DEF VerifyWrite
<1>18. ASSUME NEW r \in Requests, NEW p \in Passwords, ResetWrite(r, p)
       PROVE  VerifiedMeansProven'
  BY <1>18 DEF ResetWrite, Used, EndSessions, Live, Over
<1>19. ASSUME NEW r \in Requests, NEW p \in Passwords, ChangePasswordWrite(r, p)
       PROVE  VerifiedMeansProven'
  BY <1>19 DEF ChangePasswordWrite, EndSessions, Live, Over
<1>20. ASSUME NEW r \in Requests, NEW l \in Links, EmailChangeWrite(r, l)
       PROVE  VerifiedMeansProven'
  BY <1>20 DEF EmailChangeWrite, Mail, End
<1>21. ASSUME NEW r \in Requests, NEW l \in Links, VerifyRead(r, l) PROVE VerifiedMeansProven'
  BY <1>21 DEF VerifyRead, Opens, Start
<1>22. ASSUME NEW r \in Requests, NEW l \in Links, ResetRead(r, l) PROVE VerifiedMeansProven'
  BY <1>22 DEF ResetRead, Opens, Start
<1>23. ASSUME NEW r \in Requests, NEW s \in Sessions, ChangePasswordRead(r, s)
       PROVE  VerifiedMeansProven'
  BY <1>23 DEF ChangePasswordRead, Start, Authorised, Live
<1>24. ASSUME NEW r \in Requests, NEW s \in Sessions, NEW a \in Addresses, EmailChangeRead(r, s, a)
       PROVE  VerifiedMeansProven'
  BY <1>24 DEF EmailChangeRead, Start, Authorised, Live
<1>25. ASSUME NEW a \in Addresses, CreateStaffAccount(a) PROVE VerifiedMeansProven'
  BY <1>25 DEF CreateStaffAccount
<1>26. ASSUME NEW st \in Status, CustomerStatus(st) PROVE VerifiedMeansProven'
  BY <1>26 DEF CustomerStatus, EndSessions, Live, Over, Status
<1>27. ASSUME DeletionRead PROVE VerifiedMeansProven'
  BY <1>27 DEF DeletionRead
<1>28. ASSUME DeletionWrite PROVE VerifiedMeansProven'
  BY <1>28 DEF DeletionWrite
<1>29. ASSUME DeletionFail PROVE VerifiedMeansProven'
  BY <1>29 DEF DeletionFail
<1>30. ASSUME RequestDeletion PROVE VerifiedMeansProven'
  BY <1>30 DEF RequestDeletion, EndSessions, Live, Over, Status
<1>31. ASSUME ThirtyDays PROVE VerifiedMeansProven'
  BY <1>31 DEF ThirtyDays, UseUp
<1>32. ASSUME Tick PROVE VerifiedMeansProven'
  BY <1>32 DEF Tick
<1>33. ASSUME UNCHANGED accountVars PROVE VerifiedMeansProven'
  BY <1>33 DEF accountVars
<1>. QED
  BY <1>1, <1>2, <1>3, <1>4, <1>5, <1>6, <1>7, <1>8, <1>9, <1>10, <1>11, <1>12, <1>13, <1>14,
         <1>15, <1>16, <1>17, <1>18, <1>19, <1>20, <1>21, <1>22, <1>23, <1>24, <1>25, <1>26,
         <1>27, <1>28, <1>29, <1>30, <1>31, <1>32, <1>33
     DEF AccountsNext, SignIn, SessionStep, LinkStep, StaffStep

LEMMA SignInsStep ==
  ASSUME AccountsInv, [AccountsNext]_accountVars
  PROVE  SignInsAreCurrent'
<1>. USE AccountsAssumption
   DEF AccountsInv, AccountsTypeOK, UserRow, SessionRow, LinkRow, InFlight, RequestsHold, Holds,
       Nobody, Anonymous, Idle, SignInsAreCurrent, UnopenedIsBlank, DeletionIsFinal, SignedIn,
       Authorised, Live
<1>1. ASSUME NEW a \in Addresses, OtherRegisters(a) PROVE SignInsAreCurrent'
  BY <1>1 DEF OtherRegisters
<1>2. ASSUME NEW a \in Addresses, NEW l \in Links, Register(a, l) PROVE SignInsAreCurrent'
  BY <1>2 DEF Register, Mail
<1>3. ASSUME NEW r \in Requests, LoginRead(r) PROVE SignInsAreCurrent'
  BY <1>3 DEF LoginRead, StartSignIn
<1>4. ASSUME NEW r \in Requests, NEW a \in Addresses, GoogleRead(r, a) PROVE SignInsAreCurrent'
  BY <1>4 DEF GoogleRead, StartSignIn
<1>5. ASSUME NEW r \in Requests, NEW s \in Sessions, CreateSession(r, s)
      PROVE  SignInsAreCurrent'
  BY <1>5 DEF CreateSession, End
<1>6. ASSUME NEW r \in Requests, RequestLost(r) PROVE SignInsAreCurrent'
  BY <1>6 DEF RequestLost, End
<1>7. ASSUME LogoutAll PROVE SignInsAreCurrent'
  BY <1>7 DEF LogoutAll, Over
<1>8. ASSUME NEW s \in Sessions, RefreshReuse(s) PROVE SignInsAreCurrent'
  BY <1>8 DEF RefreshReuse, Over
<1>9. ASSUME NEW s \in Sessions, Logout(s) PROVE SignInsAreCurrent'
  BY <1>9 DEF Logout
<1>10. ASSUME NEW s \in Sessions, EndSession(s) PROVE SignInsAreCurrent'
  BY <1>10 DEF EndSession, Over
<1>11. ASSUME NEW r \in Requests, RefreshWrite(r) PROVE SignInsAreCurrent'
  BY <1>11 DEF RefreshWrite
<1>12. ASSUME NEW r \in Requests, RefreshAnswer(r) PROVE SignInsAreCurrent'
  BY <1>12 DEF RefreshAnswer, End
<1>13. ASSUME NEW r \in Requests, NEW s \in Sessions, RefreshRead(r, s) PROVE SignInsAreCurrent'
  BY <1>13 DEF RefreshRead, Start, Refreshing, Refreshable
<1>14. ASSUME NEW l \in Links, ResendVerification(l) PROVE SignInsAreCurrent'
  BY <1>14 DEF ResendVerification, Mail
<1>15. ASSUME NEW l \in Links, ForgotPassword(l) PROVE SignInsAreCurrent'
  BY <1>15 DEF ForgotPassword, Mail
<1>16. ASSUME NEW l \in Links, Expire(l) PROVE SignInsAreCurrent'
  BY <1>16 DEF Expire, Used
<1>17. ASSUME NEW r \in Requests, VerifyWrite(r) PROVE SignInsAreCurrent'
  <2>1. /\ req[r].on \in Links /\ link[req[r].on].state # "none" /\ link[req[r].on].to \in Addresses
        /\ proven' = proven \cup {link[req[r].on].to}
        /\ \A k \in Links : /\ link'[k].state = IF k = req[r].on THEN "over" ELSE link[k].state
                            /\ link'[k].to = link[k].to /\ link'[k].type = link[k].type
        /\ UNCHANGED <<jar, second, aged, worker, taken, shaken>>
    BY <1>17 DEF VerifyWrite, Used
  <2>2. CASE user' = [user EXCEPT !.verified = TRUE] /\ End(r) /\ UNCHANGED session
             /\ link[req[r].on].type = "EMAIL_VERIFY"
    BY <1>17, <2>1, <2>2 DEF VerifyWrite, End
  <2>3. CASE /\ user' = [user EXCEPT !.email = link[req[r].on].to, !.verified = TRUE]
             /\ EndSessions(r)
    BY <1>17, <2>1, <2>3, EndSessionsEffect DEF VerifyWrite
  <2>. QED
    BY <1>17, <2>2, <2>3 DEF VerifyWrite
<1>18. ASSUME NEW r \in Requests, NEW p \in Passwords, ResetWrite(r, p) PROVE SignInsAreCurrent'
  BY <1>18, EndSessionsEffect DEF ResetWrite, Used
<1>19. ASSUME NEW r \in Requests, NEW p \in Passwords, ChangePasswordWrite(r, p)
       PROVE  SignInsAreCurrent'
  BY <1>19, EndSessionsEffect DEF ChangePasswordWrite
<1>20. ASSUME NEW r \in Requests, NEW l \in Links, EmailChangeWrite(r, l)
       PROVE  SignInsAreCurrent'
  BY <1>20 DEF EmailChangeWrite, Mail, End
<1>21. ASSUME NEW r \in Requests, NEW l \in Links, VerifyRead(r, l) PROVE SignInsAreCurrent'
  BY <1>21 DEF VerifyRead, Opens, Start
<1>22. ASSUME NEW r \in Requests, NEW l \in Links, ResetRead(r, l) PROVE SignInsAreCurrent'
  BY <1>22 DEF ResetRead, Opens, Start
<1>23. ASSUME NEW r \in Requests, NEW s \in Sessions, ChangePasswordRead(r, s)
       PROVE  SignInsAreCurrent'
  BY <1>23 DEF ChangePasswordRead, Start
<1>24. ASSUME NEW r \in Requests, NEW s \in Sessions, NEW a \in Addresses, EmailChangeRead(r, s, a)
       PROVE  SignInsAreCurrent'
  BY <1>24 DEF EmailChangeRead, Start
<1>25. ASSUME NEW a \in Addresses, CreateStaffAccount(a) PROVE SignInsAreCurrent'
  BY <1>25 DEF CreateStaffAccount
<1>26. ASSUME NEW st \in Status, CustomerStatus(st) PROVE SignInsAreCurrent'
  BY <1>26, EndSessionsEffect DEF CustomerStatus, Status
<1>27. ASSUME DeletionRead PROVE SignInsAreCurrent'
  BY <1>27 DEF DeletionRead
<1>28. ASSUME DeletionWrite PROVE SignInsAreCurrent'
  BY <1>28 DEF DeletionWrite
<1>29. ASSUME DeletionFail PROVE SignInsAreCurrent'
  BY <1>29 DEF DeletionFail
<1>30. ASSUME RequestDeletion PROVE SignInsAreCurrent'
  BY <1>30, EndSessionsEffect DEF RequestDeletion, Status
<1>31. ASSUME ThirtyDays PROVE SignInsAreCurrent'
  BY <1>31 DEF ThirtyDays, UseUp
<1>32. ASSUME Tick PROVE SignInsAreCurrent'
  BY <1>32 DEF Tick
<1>33. ASSUME UNCHANGED accountVars PROVE SignInsAreCurrent'
  BY <1>33 DEF accountVars
<1>. QED
  BY <1>1, <1>2, <1>3, <1>4, <1>5, <1>6, <1>7, <1>8, <1>9, <1>10, <1>11, <1>12, <1>13, <1>14,
         <1>15, <1>16, <1>17, <1>18, <1>19, <1>20, <1>21, <1>22, <1>23, <1>24, <1>25, <1>26,
         <1>27, <1>28, <1>29, <1>30, <1>31, <1>32, <1>33
     DEF AccountsNext, SignIn, SessionStep, LinkStep, StaffStep

LEMMA SessionsStep ==
  ASSUME AccountsInv, [AccountsNext]_accountVars
  PROVE  LiveSessionIsCurrent'
<1>. USE AccountsAssumption
   DEF AccountsInv, AccountsTypeOK, UserRow, SessionRow, LinkRow, InFlight, RequestsHold, Holds,
       Nobody, Anonymous, Idle, LiveSessionIsCurrent, SignInsAreCurrent, UnopenedIsBlank,
       DeletionIsFinal, SignedIn, Authorised, Live
<1>1. ASSUME NEW a \in Addresses, OtherRegisters(a) PROVE LiveSessionIsCurrent'
  BY <1>1 DEF OtherRegisters
<1>2. ASSUME NEW a \in Addresses, NEW l \in Links, Register(a, l) PROVE LiveSessionIsCurrent'
  BY <1>2 DEF Register, Mail
<1>3. ASSUME NEW r \in Requests, LoginRead(r) PROVE LiveSessionIsCurrent'
  BY <1>3 DEF LoginRead, StartSignIn
<1>4. ASSUME NEW r \in Requests, NEW a \in Addresses, GoogleRead(r, a)
      PROVE  LiveSessionIsCurrent'
  BY <1>4 DEF GoogleRead, StartSignIn
<1>5. ASSUME NEW r \in Requests, NEW s \in Sessions, CreateSession(r, s)
      PROVE  LiveSessionIsCurrent'
  BY <1>5 DEF CreateSession, End
<1>6. ASSUME NEW r \in Requests, RequestLost(r) PROVE LiveSessionIsCurrent'
  BY <1>6 DEF RequestLost, End
<1>7. ASSUME LogoutAll PROVE LiveSessionIsCurrent'
  BY <1>7 DEF LogoutAll, Over
<1>8. ASSUME NEW s \in Sessions, RefreshReuse(s) PROVE LiveSessionIsCurrent'
  BY <1>8 DEF RefreshReuse, Over
<1>9. ASSUME NEW s \in Sessions, Logout(s) PROVE LiveSessionIsCurrent'
  BY <1>9 DEF Logout
<1>10. ASSUME NEW s \in Sessions, EndSession(s) PROVE LiveSessionIsCurrent'
  BY <1>10 DEF EndSession, Over
<1>11. ASSUME NEW r \in Requests, RefreshWrite(r) PROVE LiveSessionIsCurrent'
  BY <1>11 DEF RefreshWrite
<1>12. ASSUME NEW r \in Requests, RefreshAnswer(r) PROVE LiveSessionIsCurrent'
  BY <1>12 DEF RefreshAnswer, End
<1>13. ASSUME NEW r \in Requests, NEW s \in Sessions, RefreshRead(r, s)
       PROVE  LiveSessionIsCurrent'
  BY <1>13 DEF RefreshRead, Start, Refreshing, Refreshable
<1>14. ASSUME NEW l \in Links, ResendVerification(l) PROVE LiveSessionIsCurrent'
  BY <1>14 DEF ResendVerification, Mail
<1>15. ASSUME NEW l \in Links, ForgotPassword(l) PROVE LiveSessionIsCurrent'
  BY <1>15 DEF ForgotPassword, Mail
<1>16. ASSUME NEW l \in Links, Expire(l) PROVE LiveSessionIsCurrent'
  BY <1>16 DEF Expire, Used
<1>17. ASSUME NEW r \in Requests, VerifyWrite(r) PROVE LiveSessionIsCurrent'
  <2>1. /\ req[r].on \in Links /\ link[req[r].on].state # "none" /\ link[req[r].on].to \in Addresses
        /\ proven' = proven \cup {link[req[r].on].to}
        /\ \A k \in Links : /\ link'[k].state = IF k = req[r].on THEN "over" ELSE link[k].state
                            /\ link'[k].to = link[k].to /\ link'[k].type = link[k].type
        /\ UNCHANGED <<jar, second, aged, worker, taken, shaken>>
    BY <1>17 DEF VerifyWrite, Used
  <2>2. CASE user' = [user EXCEPT !.verified = TRUE] /\ End(r) /\ UNCHANGED session
             /\ link[req[r].on].type = "EMAIL_VERIFY"
    BY <1>17, <2>1, <2>2 DEF VerifyWrite, End
  <2>3. CASE /\ user' = [user EXCEPT !.email = link[req[r].on].to, !.verified = TRUE]
             /\ EndSessions(r)
    BY <1>17, <2>1, <2>3, EndSessionsEffect DEF VerifyWrite
  <2>. QED
    BY <1>17, <2>2, <2>3 DEF VerifyWrite
<1>18. ASSUME NEW r \in Requests, NEW p \in Passwords, ResetWrite(r, p)
       PROVE  LiveSessionIsCurrent'
  BY <1>18, EndSessionsEffect DEF ResetWrite, Used
<1>19. ASSUME NEW r \in Requests, NEW p \in Passwords, ChangePasswordWrite(r, p)
       PROVE  LiveSessionIsCurrent'
  BY <1>19, EndSessionsEffect DEF ChangePasswordWrite
<1>20. ASSUME NEW r \in Requests, NEW l \in Links, EmailChangeWrite(r, l)
       PROVE  LiveSessionIsCurrent'
  BY <1>20 DEF EmailChangeWrite, Mail, End
<1>21. ASSUME NEW r \in Requests, NEW l \in Links, VerifyRead(r, l) PROVE LiveSessionIsCurrent'
  BY <1>21 DEF VerifyRead, Opens, Start
<1>22. ASSUME NEW r \in Requests, NEW l \in Links, ResetRead(r, l) PROVE LiveSessionIsCurrent'
  BY <1>22 DEF ResetRead, Opens, Start
<1>23. ASSUME NEW r \in Requests, NEW s \in Sessions, ChangePasswordRead(r, s)
       PROVE  LiveSessionIsCurrent'
  BY <1>23 DEF ChangePasswordRead, Start
<1>24. ASSUME NEW r \in Requests, NEW s \in Sessions, NEW a \in Addresses, EmailChangeRead(r, s, a)
       PROVE  LiveSessionIsCurrent'
  BY <1>24 DEF EmailChangeRead, Start
<1>25. ASSUME NEW a \in Addresses, CreateStaffAccount(a) PROVE LiveSessionIsCurrent'
  BY <1>25 DEF CreateStaffAccount
<1>26. ASSUME NEW st \in Status, CustomerStatus(st) PROVE LiveSessionIsCurrent'
  BY <1>26, EndSessionsEffect DEF CustomerStatus, Status
<1>27. ASSUME DeletionRead PROVE LiveSessionIsCurrent'
  BY <1>27 DEF DeletionRead
<1>28. ASSUME DeletionWrite PROVE LiveSessionIsCurrent'
  BY <1>28 DEF DeletionWrite
<1>29. ASSUME DeletionFail PROVE LiveSessionIsCurrent'
  BY <1>29 DEF DeletionFail
<1>30. ASSUME RequestDeletion PROVE LiveSessionIsCurrent'
  BY <1>30, EndSessionsEffect DEF RequestDeletion, Status
<1>31. ASSUME ThirtyDays PROVE LiveSessionIsCurrent'
  BY <1>31 DEF ThirtyDays, UseUp
<1>32. ASSUME Tick PROVE LiveSessionIsCurrent'
  BY <1>32 DEF Tick
<1>33. ASSUME UNCHANGED accountVars PROVE LiveSessionIsCurrent'
  BY <1>33 DEF accountVars
<1>. QED
  BY <1>1, <1>2, <1>3, <1>4, <1>5, <1>6, <1>7, <1>8, <1>9, <1>10, <1>11, <1>12, <1>13, <1>14,
         <1>15, <1>16, <1>17, <1>18, <1>19, <1>20, <1>21, <1>22, <1>23, <1>24, <1>25, <1>26,
         <1>27, <1>28, <1>29, <1>30, <1>31, <1>32, <1>33
     DEF AccountsNext, SignIn, SessionStep, LinkStep, StaffStep

LEMMA TokensStep ==
  ASSUME AccountsInv, [AccountsNext]_accountVars
  PROVE  TokensMeet'
<1>. USE AccountsAssumption
   DEF AccountsInv, AccountsTypeOK, UserRow, SessionRow, LinkRow, InFlight, RequestsHold, Holds,
       Nobody, Anonymous, Idle, TokensMeet, Refreshing, Refreshable, Live
<1>1. ASSUME NEW a \in Addresses, OtherRegisters(a) PROVE TokensMeet'
  BY <1>1 DEF OtherRegisters
<1>2. ASSUME NEW a \in Addresses, NEW l \in Links, Register(a, l) PROVE TokensMeet'
  BY <1>2 DEF Register, Mail
<1>3. ASSUME NEW r \in Requests, LoginRead(r) PROVE TokensMeet'
  BY <1>3 DEF LoginRead, StartSignIn
<1>4. ASSUME NEW r \in Requests, NEW a \in Addresses, GoogleRead(r, a) PROVE TokensMeet'
  BY <1>4 DEF GoogleRead, StartSignIn
<1>5. ASSUME NEW r \in Requests, NEW s \in Sessions, CreateSession(r, s) PROVE TokensMeet'
  BY <1>5 DEF CreateSession, End
<1>6. ASSUME NEW r \in Requests, RequestLost(r) PROVE TokensMeet'
  BY <1>6 DEF RequestLost, End
<1>7. ASSUME LogoutAll PROVE TokensMeet'
  BY <1>7 DEF LogoutAll, Over
<1>8. ASSUME NEW s \in Sessions, RefreshReuse(s) PROVE TokensMeet'
  BY <1>8 DEF RefreshReuse, Over
<1>9. ASSUME NEW s \in Sessions, Logout(s) PROVE TokensMeet'
  BY <1>9 DEF Logout
<1>10. ASSUME NEW s \in Sessions, EndSession(s) PROVE TokensMeet'
  BY <1>10 DEF EndSession, Over
<1>11. ASSUME NEW r \in Requests, RefreshWrite(r) PROVE TokensMeet'
  <2>. DEFINE s == req[r].on
  <2>1. /\ s \in Sessions /\ session' = [session EXCEPT ![s].hash = second]
        /\ req' = [req EXCEPT ![r].kind = "answer", ![r].token = second]
    BY <1>11 DEF RefreshWrite
  <2>. SUFFICES ASSUME NEW z \in Sessions, Live(z)', z \notin shaken'
                PROVE  /\ \A p, q \in Refreshing(z)' : p = q
                       /\ \A q \in Refreshing(z)' :
                             /\ req'[q].kind = "refresh" => jar'[z] = session'[z].hash
                             /\ req'[q].kind = "answer" => req'[q].token = session'[z].hash
                       /\ Refreshing(z)' = {} => jar'[z] = session'[z].hash
    BY DEF TokensMeet
  <2>2. Refreshing(z)' = Refreshing(z) /\ Live(z) /\ z \notin shaken
    BY <1>11, <2>1 DEF RefreshWrite
  <2>3. CASE z = s
    <3>1. Refreshing(z) = {r}
      BY <1>11, <2>2, <2>3 DEF RefreshWrite
    <3>. QED
      BY <3>1, <2>1, <2>2, <2>3
  <2>4. CASE z # s
    <3>1. r \notin Refreshing(z)
      BY <2>4
    <3>. QED
      BY <1>11, <3>1, <2>1, <2>2, <2>4 DEF RefreshWrite
  <2>. QED
    BY <2>3, <2>4
<1>12. ASSUME NEW r \in Requests, RefreshAnswer(r) PROVE TokensMeet'
  BY <1>12 DEF RefreshAnswer, End
<1>13. ASSUME NEW r \in Requests, NEW s \in Sessions, RefreshRead(r, s) PROVE TokensMeet'
  BY <1>13 DEF RefreshRead, Start
<1>14. ASSUME NEW l \in Links, ResendVerification(l) PROVE TokensMeet'
  BY <1>14 DEF ResendVerification, Mail
<1>15. ASSUME NEW l \in Links, ForgotPassword(l) PROVE TokensMeet'
  BY <1>15 DEF ForgotPassword, Mail
<1>16. ASSUME NEW l \in Links, Expire(l) PROVE TokensMeet'
  BY <1>16 DEF Expire, Used
<1>17. ASSUME NEW r \in Requests, VerifyWrite(r) PROVE TokensMeet'
  <2>1. /\ req[r].on \in Links /\ link[req[r].on].state # "none" /\ link[req[r].on].to \in Addresses
        /\ proven' = proven \cup {link[req[r].on].to}
        /\ \A k \in Links : /\ link'[k].state = IF k = req[r].on THEN "over" ELSE link[k].state
                            /\ link'[k].to = link[k].to /\ link'[k].type = link[k].type
        /\ UNCHANGED <<jar, second, aged, worker, taken, shaken>>
    BY <1>17 DEF VerifyWrite, Used
  <2>2. CASE user' = [user EXCEPT !.verified = TRUE] /\ End(r) /\ UNCHANGED session
             /\ link[req[r].on].type = "EMAIL_VERIFY"
    BY <1>17, <2>1, <2>2 DEF VerifyWrite, End
  <2>3. CASE /\ user' = [user EXCEPT !.email = link[req[r].on].to, !.verified = TRUE]
             /\ EndSessions(r)
    BY <1>17, <2>1, <2>3, EndSessionsEffect DEF VerifyWrite
  <2>. QED
    BY <1>17, <2>2, <2>3 DEF VerifyWrite
<1>18. ASSUME NEW r \in Requests, NEW p \in Passwords, ResetWrite(r, p) PROVE TokensMeet'
  BY <1>18, EndSessionsEffect DEF ResetWrite, Used
<1>19. ASSUME NEW r \in Requests, NEW p \in Passwords, ChangePasswordWrite(r, p)
       PROVE  TokensMeet'
  BY <1>19, EndSessionsEffect DEF ChangePasswordWrite
<1>20. ASSUME NEW r \in Requests, NEW l \in Links, EmailChangeWrite(r, l) PROVE TokensMeet'
  BY <1>20 DEF EmailChangeWrite, Mail, End
<1>21. ASSUME NEW r \in Requests, NEW l \in Links, VerifyRead(r, l) PROVE TokensMeet'
  BY <1>21 DEF VerifyRead, Opens, Start
<1>22. ASSUME NEW r \in Requests, NEW l \in Links, ResetRead(r, l) PROVE TokensMeet'
  BY <1>22 DEF ResetRead, Opens, Start
<1>23. ASSUME NEW r \in Requests, NEW s \in Sessions, ChangePasswordRead(r, s) PROVE TokensMeet'
  BY <1>23 DEF ChangePasswordRead, Start, Authorised
<1>24. ASSUME NEW r \in Requests, NEW s \in Sessions, NEW a \in Addresses, EmailChangeRead(r, s, a)
       PROVE  TokensMeet'
  BY <1>24 DEF EmailChangeRead, Start, Authorised
<1>25. ASSUME NEW a \in Addresses, CreateStaffAccount(a) PROVE TokensMeet'
  BY <1>25 DEF CreateStaffAccount
<1>26. ASSUME NEW st \in Status, CustomerStatus(st) PROVE TokensMeet'
  BY <1>26, EndSessionsEffect DEF CustomerStatus, Status
<1>27. ASSUME DeletionRead PROVE TokensMeet'
  BY <1>27 DEF DeletionRead
<1>28. ASSUME DeletionWrite PROVE TokensMeet'
  BY <1>28 DEF DeletionWrite
<1>29. ASSUME DeletionFail PROVE TokensMeet'
  BY <1>29 DEF DeletionFail
<1>30. ASSUME RequestDeletion PROVE TokensMeet'
  BY <1>30, EndSessionsEffect DEF RequestDeletion, Status
<1>31. ASSUME ThirtyDays PROVE TokensMeet'
  BY <1>31 DEF ThirtyDays, UseUp
<1>32. ASSUME Tick PROVE TokensMeet'
  BY <1>32 DEF Tick
<1>33. ASSUME UNCHANGED accountVars PROVE TokensMeet'
  BY <1>33 DEF accountVars
<1>. QED
  BY <1>1, <1>2, <1>3, <1>4, <1>5, <1>6, <1>7, <1>8, <1>9, <1>10, <1>11, <1>12, <1>13, <1>14,
         <1>15, <1>16, <1>17, <1>18, <1>19, <1>20, <1>21, <1>22, <1>23, <1>24, <1>25, <1>26,
         <1>27, <1>28, <1>29, <1>30, <1>31, <1>32, <1>33
     DEF AccountsNext, SignIn, SessionStep, LinkStep, StaffStep

LEMMA AccountsInvInit == AccountsInit => AccountsInv
<1>. SUFFICES ASSUME AccountsInit PROVE AccountsInv
  OBVIOUS
<1>. USE AccountsAssumption DEF AccountsInit
<1>1. AccountsTypeOK
  <2>1. user \in UserRow
    BY DEF UserRow, Status
  <2>2. session \in [Sessions -> SessionRow]
    BY DEF SessionRow
  <2>3. link \in [Links -> LinkRow]
    BY DEF LinkRow, LinkTypes
  <2>4. 0 \in 0..MaxSecond /\ 1 \in 0..MaxSecond
    BY AccountsAssumption
  <2>. QED
    BY <2>1, <2>2, <2>3, <2>4, IdleTyped DEF AccountsTypeOK
<1>2. UnopenedIsBlank /\ RequestsHold
  BY DEF UnopenedIsBlank, RequestsHold, Holds, Idle
<1>3. DeletionIsFinal /\ UnverifiedIsFirst /\ VerifiedMeansProven
  BY DEF DeletionIsFinal, UnverifiedIsFirst, VerifiedMeansProven, Idle, Nobody, Anonymous
<1>4. SignInsAreCurrent /\ LiveSessionIsCurrent /\ TokensMeet
  BY DEF SignInsAreCurrent, LiveSessionIsCurrent, TokensMeet, Live, Idle
<1>. QED
  BY <1>1, <1>2, <1>3, <1>4 DEF AccountsInv

LEMMA AccountsInvStep == AccountsInv /\ [AccountsNext]_accountVars => AccountsInv'
<1>. SUFFICES ASSUME AccountsInv, [AccountsNext]_accountVars PROVE AccountsInv'
  OBVIOUS
<1>1. AccountsTypeOK' /\ RequestsHold'
  BY TypeStep, RequestsStep DEF AccountsInv
<1>. QED
  BY <1>1, UnopenedStep, DeletionStep, UnverifiedStep, ProvenStep, SignInsStep, SessionsStep,
         TokensStep
     DEF AccountsInv

LEMMA AccountsInvariant == AccountsSpec => []AccountsInv
BY AccountsInvInit, AccountsInvStep, PTL DEF AccountsSpec

----------------------------------------------------------------------------
(* The account implements Credentials: what a request holds is what it read *)
(* and its write acts on, once.                                             *)

HeldBy(r) == IF req[r].kind \in {"idle", "login", "answer"} THEN NoCred ELSE req[r].on

StandingOf(c) == Standing(IF c \in Sessions THEN session[c].state ELSE link[c].state)

\* Rows are issued and withdrawn; none is good again.
RowsTurn ==
    /\ \A s \in Sessions : \/ session'[s].state = session[s].state
                           \/ session[s].state = "none" /\ session'[s].state = "live"
                           \/ session[s].state = "live" /\ session'[s].state = "over"
    /\ \A l \in Links : \/ link'[l].state = link[l].state
                        \/ link[l].state = "none" /\ link'[l].state = "open"
                        \/ link[l].state = "open" /\ link'[l].state = "over"

LEMMA RowsTurnStep ==
  ASSUME AccountsTypeOK, RequestsHold, [AccountsNext]_accountVars
  PROVE  RowsTurn
<1>. USE AccountsAssumption
   DEF RowsTurn, AccountsTypeOK, SessionRow, LinkRow, RequestsHold, Holds, Live
<1>1. ASSUME NEW a \in Addresses, OtherRegisters(a) PROVE RowsTurn
  BY <1>1 DEF OtherRegisters
<1>2. ASSUME NEW a \in Addresses, NEW l \in Links, Register(a, l) PROVE RowsTurn
  BY <1>2 DEF Register, Mail
<1>3. ASSUME NEW r \in Requests, LoginRead(r) PROVE RowsTurn
  BY <1>3 DEF LoginRead
<1>4. ASSUME NEW r \in Requests, NEW a \in Addresses, GoogleRead(r, a) PROVE RowsTurn
  BY <1>4 DEF GoogleRead
<1>5. ASSUME NEW r \in Requests, NEW s \in Sessions, CreateSession(r, s) PROVE RowsTurn
  BY <1>5 DEF CreateSession
<1>6. ASSUME NEW r \in Requests, RequestLost(r) PROVE RowsTurn
  BY <1>6 DEF RequestLost
<1>7. ASSUME LogoutAll PROVE RowsTurn
  BY <1>7 DEF LogoutAll, Over
<1>8. ASSUME NEW s \in Sessions, RefreshReuse(s) PROVE RowsTurn
  BY <1>8 DEF RefreshReuse, Over
<1>9. ASSUME NEW s \in Sessions, Logout(s) PROVE RowsTurn
  BY <1>9 DEF Logout
<1>10. ASSUME NEW s \in Sessions, EndSession(s) PROVE RowsTurn
  BY <1>10 DEF EndSession, Over
<1>11. ASSUME NEW r \in Requests, RefreshWrite(r) PROVE RowsTurn
  BY <1>11 DEF RefreshWrite
<1>12. ASSUME NEW r \in Requests, RefreshAnswer(r) PROVE RowsTurn
  BY <1>12 DEF RefreshAnswer
<1>13. ASSUME NEW r \in Requests, NEW s \in Sessions, RefreshRead(r, s) PROVE RowsTurn
  BY <1>13 DEF RefreshRead, Refreshing, Refreshable
<1>14. ASSUME NEW l \in Links, ResendVerification(l) PROVE RowsTurn
  BY <1>14 DEF ResendVerification, Mail
<1>15. ASSUME NEW l \in Links, ForgotPassword(l) PROVE RowsTurn
  BY <1>15 DEF ForgotPassword, Mail
<1>16. ASSUME NEW l \in Links, Expire(l) PROVE RowsTurn
  BY <1>16 DEF Expire, Used
<1>17. ASSUME NEW r \in Requests, VerifyWrite(r) PROVE RowsTurn
  BY <1>17 DEF VerifyWrite, Used, EndSessions, Over
<1>18. ASSUME NEW r \in Requests, NEW p \in Passwords, ResetWrite(r, p) PROVE RowsTurn
  BY <1>18 DEF ResetWrite, Used, EndSessions, Over
<1>19. ASSUME NEW r \in Requests, NEW p \in Passwords, ChangePasswordWrite(r, p) PROVE RowsTurn
  BY <1>19 DEF ChangePasswordWrite, EndSessions, Over
<1>20. ASSUME NEW r \in Requests, NEW l \in Links, EmailChangeWrite(r, l) PROVE RowsTurn
  BY <1>20 DEF EmailChangeWrite, Mail
<1>21. ASSUME NEW r \in Requests, NEW l \in Links, VerifyRead(r, l) PROVE RowsTurn
  BY <1>21 DEF VerifyRead
<1>22. ASSUME NEW r \in Requests, NEW l \in Links, ResetRead(r, l) PROVE RowsTurn
  BY <1>22 DEF ResetRead
<1>23. ASSUME NEW r \in Requests, NEW s \in Sessions, ChangePasswordRead(r, s) PROVE RowsTurn
  BY <1>23 DEF ChangePasswordRead
<1>24. ASSUME NEW r \in Requests, NEW s \in Sessions, NEW a \in Addresses, EmailChangeRead(r, s, a)
       PROVE  RowsTurn
  BY <1>24 DEF EmailChangeRead
<1>25. ASSUME NEW a \in Addresses, CreateStaffAccount(a) PROVE RowsTurn
  BY <1>25 DEF CreateStaffAccount
<1>26. ASSUME NEW st \in Status, CustomerStatus(st) PROVE RowsTurn
  BY <1>26 DEF CustomerStatus, EndSessions, Over
<1>27. ASSUME DeletionRead PROVE RowsTurn
  BY <1>27 DEF DeletionRead
<1>28. ASSUME DeletionWrite PROVE RowsTurn
  BY <1>28 DEF DeletionWrite
<1>29. ASSUME DeletionFail PROVE RowsTurn
  BY <1>29 DEF DeletionFail
<1>30. ASSUME RequestDeletion PROVE RowsTurn
  BY <1>30 DEF RequestDeletion, EndSessions, Over
<1>31. ASSUME ThirtyDays PROVE RowsTurn
  BY <1>31 DEF ThirtyDays, UseUp
<1>32. ASSUME Tick PROVE RowsTurn
  BY <1>32 DEF Tick
<1>33. ASSUME UNCHANGED accountVars PROVE RowsTurn
  BY <1>33 DEF accountVars
<1>. QED
  BY <1>1, <1>2, <1>3, <1>4, <1>5, <1>6, <1>7, <1>8, <1>9, <1>10, <1>11, <1>12, <1>13, <1>14,
         <1>15, <1>16, <1>17, <1>18, <1>19, <1>20, <1>21, <1>22, <1>23, <1>24, <1>25, <1>26,
         <1>27, <1>28, <1>29, <1>30, <1>31, <1>32, <1>33
     DEF AccountsNext, SignIn, SessionStep, LinkStep, StaffStep

SameHeld(Q) == \A q \in Q : HeldBy(q)' = HeldBy(q)
SameAccount == user'.email = user.email /\ user'.password = user.password

LEMMA CredTurned ==
  ASSUME AccountsTypeOK, AccountsTypeOK', RowsTurn
  PROVE  Accounted!Turned
<1>1. ASSUME NEW c \in Sessions \cup Links
      PROVE  /\ StandingOf(c)' \in {"unissued", "good", "void"}
             /\ \/ StandingOf(c)' = StandingOf(c)
                \/ StandingOf(c) = "unissued" /\ StandingOf(c)' = "good"
                \/ StandingOf(c) = "good" /\ StandingOf(c)' = "void"
  BY DEF StandingOf, Standing, RowsTurn
<1>. QED
  BY <1>1 DEF Accounted!Turned, StandingOf

LEMMA CredTurn ==
  ASSUME AccountsTypeOK, AccountsTypeOK', RowsTurn, SameHeld(Requests), SameAccount
  PROVE  Accounted!CredNext
BY CredTurned DEF Accounted!CredNext, Accounted!Turn, SameHeld, SameAccount, HeldBy

LEMMA CredOpen ==
  ASSUME AccountsTypeOK, AccountsTypeOK', RowsTurn, SameHeld(Requests),
         user.email = Nobody, user.password = FirstPassword,
         user'.email \in Addresses, user'.password = FirstPassword
  PROVE  Accounted!CredNext
BY CredTurned DEF Accounted!CredNext, Accounted!Open, SameHeld, HeldBy

LEMMA CredErase ==
  ASSUME AccountsTypeOK', SameHeld(Requests), UNCHANGED <<session, link>>, user'.email = Anonymous
  PROVE  Accounted!CredNext
BY DEF Accounted!CredNext, Accounted!Erase, SameHeld, HeldBy, AccountsTypeOK, UserRow

LEMMA CredPresent ==
  ASSUME NEW r \in Requests, NEW c \in Sessions \cup Links, UNCHANGED <<session, link>>, SameAccount,
         SameHeld(Requests \ {r}), HeldBy(r) = NoCred, HeldBy(r)' = c, StandingOf(c) = "good"
  PROVE  Accounted!CredNext
<1>1. Accounted!Present(r)
  BY DEF Accounted!Present, SameHeld, SameAccount, HeldBy, StandingOf
<1>. QED
  BY <1>1 DEF Accounted!CredNext

LEMMA CredAct ==
  ASSUME AccountsTypeOK, AccountsTypeOK', RowsTurn, NEW r \in Requests, SameHeld(Requests \ {r}),
         HeldBy(r) # NoCred, HeldBy(r)' = NoCred,
         user'.email # Nobody, user'.email # Anonymous => user'.password \in Passwords
  PROVE  Accounted!CredNext
<1>1. <<user'.email, user'.password>> \in
         (Addresses \X Passwords) \cup ({Anonymous} \X (Passwords \cup {NoPassword}))
  BY DEF AccountsTypeOK, UserRow
<1>2. [q \in Requests |-> HeldBy(q)'] = [[q \in Requests |-> HeldBy(q)] EXCEPT ![r] = NoCred]
  BY DEF SameHeld, HeldBy
<1>3. Accounted!Act(r)
  BY <1>1, <1>2, CredTurned DEF Accounted!Act, HeldBy
<1>. QED
  BY <1>3 DEF Accounted!CredNext

\* Ending the sessions leaves every other request what it holds.
LEMMA EndSessionsHold ==
  ASSUME AccountsTypeOK, NEW r, EndSessions(r)
  PROVE  /\ SameHeld(Requests \ {r})
         /\ r \in Requests => HeldBy(r)' = NoCred
<1>1. ASSUME NEW q \in Requests, q # r PROVE HeldBy(q)' = HeldBy(q)
  <2>1. req[q] \in InFlight
    BY DEF AccountsTypeOK
  <2>2. req'[q] = [req[q] EXCEPT !.late = @ \/ req[q].kind = "login"]
    BY <1>1 DEF EndSessions
  <2>. QED
    BY <2>1, <2>2 DEF InFlight, HeldBy
<1>2. r \in Requests => HeldBy(r)' = NoCred
  BY DEF EndSessions, HeldBy, Idle
<1>. QED
  BY <1>1, <1>2 DEF SameHeld

LEMMA EndHolds ==
  ASSUME AccountsTypeOK, NEW r \in Requests, End(r)
  PROVE  SameHeld(Requests \ {r}) /\ HeldBy(r)' = NoCred
BY DEF AccountsTypeOK, End, Idle, SameHeld, HeldBy

LEMMA CredentialsStep ==
  ASSUME AccountsInv, AccountsInv', [AccountsNext]_accountVars
  PROVE  Accounted!CredNext
<1>. USE AccountsAssumption
<1>0. AccountsTypeOK /\ AccountsTypeOK' /\ RowsTurn
  BY RowsTurnStep DEF AccountsInv
<1>. USE <1>0 DEF AccountsInv
<1>1. ASSUME NEW a \in Addresses, OtherRegisters(a) PROVE Accounted!CredNext
  BY <1>1, CredTurn DEF SameHeld, HeldBy, SameAccount, OtherRegisters
<1>2. ASSUME NEW a \in Addresses, NEW l \in Links, Register(a, l) PROVE Accounted!CredNext
  BY <1>2, CredOpen DEF Register, UnopenedIsBlank, AccountsTypeOK, UserRow, SameHeld, HeldBy
<1>3. ASSUME NEW r \in Requests, LoginRead(r) PROVE Accounted!CredNext
  BY <1>3, CredTurn
     DEF SameHeld, HeldBy, SameAccount, LoginRead, StartSignIn, Idle, AccountsTypeOK
<1>4. ASSUME NEW r \in Requests, NEW a \in Addresses, GoogleRead(r, a) PROVE Accounted!CredNext
  <2>1. SameHeld(Requests) /\ user'.email = a /\ user'.password = user.password
    BY <1>4 DEF GoogleRead, StartSignIn, Idle, AccountsTypeOK, UserRow, SameHeld, HeldBy
  <2>2. CASE user.email = Nobody
    BY <1>4, <2>1, <2>2, CredOpen DEF UnopenedIsBlank
  <2>3. CASE user.email = a
    BY <2>1, <2>3, CredTurn DEF SameAccount
  <2>. QED
    BY <1>4, <2>2, <2>3 DEF GoogleRead
<1>5. ASSUME NEW r \in Requests, NEW s \in Sessions, CreateSession(r, s)
      PROVE  Accounted!CredNext
  <2>1. SameHeld(Requests) /\ SameAccount
    BY <1>5 DEF CreateSession, End, Idle, AccountsTypeOK, SameHeld, HeldBy, SameAccount
  <2>. QED
    BY <2>1, CredTurn
<1>6. ASSUME NEW r \in Requests, RequestLost(r) PROVE Accounted!CredNext
  <2>1. SameHeld(Requests \ {r}) /\ HeldBy(r)' = NoCred /\ SameAccount
    BY <1>6, EndHolds DEF RequestLost, SameAccount
  <2>2. CASE HeldBy(r) = NoCred
    BY <2>1, <2>2, CredTurn DEF SameHeld
  <2>3. CASE HeldBy(r) # NoCred
    <3>1. user.email # Nobody /\ (user.email # Anonymous => user.password \in Passwords)
      BY <1>6 DEF RequestLost, UnopenedIsBlank, DeletionIsFinal
    <3>. QED
      BY <1>6, <2>1, <2>3, <3>1, CredAct DEF RequestLost
  <2>. QED
    BY <2>2, <2>3
<1>7. ASSUME LogoutAll PROVE Accounted!CredNext
  BY <1>7, CredTurn DEF SameHeld, HeldBy, SameAccount, LogoutAll
<1>8. ASSUME NEW s \in Sessions, RefreshReuse(s) PROVE Accounted!CredNext
  BY <1>8, CredTurn DEF SameHeld, HeldBy, SameAccount, RefreshReuse
<1>9. ASSUME NEW s \in Sessions, Logout(s) PROVE Accounted!CredNext
  BY <1>9, CredTurn DEF SameHeld, HeldBy, SameAccount, Logout
<1>10. ASSUME NEW s \in Sessions, EndSession(s) PROVE Accounted!CredNext
  BY <1>10, CredTurn DEF SameHeld, HeldBy, SameAccount, EndSession
<1>11. ASSUME NEW r \in Requests, RefreshWrite(r) PROVE Accounted!CredNext
  <2>1. HeldBy(r) # NoCred /\ user.email # Nobody /\ (user.email # Anonymous => user.password \in Passwords)
    BY <1>11
       DEF RefreshWrite, HeldBy, RequestsHold, Holds, UnopenedIsBlank, DeletionIsFinal, Idle,
           AccountsAssumption
  <2>2. SameHeld(Requests \ {r}) /\ HeldBy(r)' = NoCred
    BY <1>11 DEF RefreshWrite, AccountsTypeOK, SameHeld, HeldBy
  <2>. QED
    BY <1>11, <2>1, <2>2, CredAct DEF RefreshWrite
<1>12. ASSUME NEW r \in Requests, RefreshAnswer(r) PROVE Accounted!CredNext
  <2>1. SameHeld(Requests) /\ SameAccount
    BY <1>12 DEF RefreshAnswer, End, Idle, AccountsTypeOK, SameHeld, HeldBy, SameAccount
  <2>. QED
    BY <2>1, CredTurn
<1>13. ASSUME NEW r \in Requests, NEW s \in Sessions, RefreshRead(r, s) PROVE Accounted!CredNext
  <2>1. /\ s \in Sessions \cup Links /\ StandingOf(s) = "good" /\ HeldBy(r) = NoCred /\ HeldBy(r)' = s
        /\ SameHeld(Requests \ {r}) /\ SameAccount
    BY <1>13
       DEF RefreshRead, Start, Idle, Refreshing, Refreshable, Live, AccountsTypeOK, StandingOf,
           Standing, HeldBy, SameHeld, SameAccount
  <2>. QED
    BY <1>13, <2>1, CredPresent DEF RefreshRead
<1>14. ASSUME NEW l \in Links, ResendVerification(l) PROVE Accounted!CredNext
  BY <1>14, CredTurn DEF SameHeld, HeldBy, SameAccount, ResendVerification
<1>15. ASSUME NEW l \in Links, ForgotPassword(l) PROVE Accounted!CredNext
  BY <1>15, CredTurn DEF SameHeld, HeldBy, SameAccount, ForgotPassword
<1>16. ASSUME NEW l \in Links, Expire(l) PROVE Accounted!CredNext
  BY <1>16, CredTurn DEF SameHeld, HeldBy, SameAccount, Expire
<1>17. ASSUME NEW r \in Requests, VerifyWrite(r) PROVE Accounted!CredNext
  <2>1. HeldBy(r) # NoCred /\ user.email # Nobody /\ (user.email # Anonymous => user.password \in Passwords)
    BY <1>17
       DEF VerifyWrite, HeldBy, RequestsHold, Holds, UnopenedIsBlank, DeletionIsFinal, Idle,
           AccountsAssumption
  <2>2. /\ user'.email \in {user.email} \cup Addresses /\ user'.password = user.password
        /\ user.email # Anonymous
    BY <1>17 DEF VerifyWrite, RequestsHold, Holds, DeletionIsFinal, AccountsTypeOK, UserRow
  <2>. QED
    BY <1>17, <2>1, <2>2, EndHolds, EndSessionsHold, CredAct DEF VerifyWrite, AccountsAssumption
<1>18. ASSUME NEW r \in Requests, NEW p \in Passwords, ResetWrite(r, p) PROVE Accounted!CredNext
  <2>1. HeldBy(r) # NoCred /\ user.email # Nobody /\ (user.email # Anonymous => user.password \in Passwords)
    BY <1>18
       DEF ResetWrite, HeldBy, RequestsHold, Holds, UnopenedIsBlank, DeletionIsFinal, Idle,
           AccountsAssumption
  <2>. QED
    BY <1>18, <2>1, EndSessionsHold, CredAct DEF ResetWrite, AccountsTypeOK, UserRow
<1>19. ASSUME NEW r \in Requests, NEW p \in Passwords, ChangePasswordWrite(r, p)
       PROVE  Accounted!CredNext
  <2>1. HeldBy(r) # NoCred /\ user.email # Nobody /\ (user.email # Anonymous => user.password \in Passwords)
    BY <1>19
       DEF ChangePasswordWrite, HeldBy, RequestsHold, Holds, UnopenedIsBlank, DeletionIsFinal,
           Idle, AccountsAssumption
  <2>. QED
    BY <1>19, <2>1, EndSessionsHold, CredAct DEF ChangePasswordWrite, AccountsTypeOK, UserRow
<1>20. ASSUME NEW r \in Requests, NEW l \in Links, EmailChangeWrite(r, l)
       PROVE  Accounted!CredNext
  <2>1. HeldBy(r) # NoCred /\ user.email # Nobody /\ (user.email # Anonymous => user.password \in Passwords)
    BY <1>20
       DEF EmailChangeWrite, HeldBy, RequestsHold, Holds, UnopenedIsBlank, DeletionIsFinal,
           Idle, AccountsAssumption
  <2>. QED
    BY <1>20, <2>1, EndHolds, CredAct DEF EmailChangeWrite
<1>21. ASSUME NEW r \in Requests, NEW l \in Links, VerifyRead(r, l) PROVE Accounted!CredNext
  <2>1. /\ l \in Sessions \cup Links /\ StandingOf(l) = "good" /\ HeldBy(r) = NoCred /\ HeldBy(r)' = l
        /\ SameHeld(Requests \ {r}) /\ SameAccount
    BY <1>21
       DEF VerifyRead, Opens, Start, Idle, AccountsTypeOK, StandingOf, Standing, HeldBy,
           SameHeld, SameAccount
  <2>. QED
    BY <1>21, <2>1, CredPresent DEF VerifyRead
<1>22. ASSUME NEW r \in Requests, NEW l \in Links, ResetRead(r, l) PROVE Accounted!CredNext
  <2>1. /\ l \in Sessions \cup Links /\ StandingOf(l) = "good" /\ HeldBy(r) = NoCred /\ HeldBy(r)' = l
        /\ SameHeld(Requests \ {r}) /\ SameAccount
    BY <1>22
       DEF ResetRead, Opens, Start, Idle, AccountsTypeOK, StandingOf, Standing, HeldBy,
           SameHeld, SameAccount
  <2>. QED
    BY <1>22, <2>1, CredPresent DEF ResetRead
<1>23. ASSUME NEW r \in Requests, NEW s \in Sessions, ChangePasswordRead(r, s)
       PROVE  Accounted!CredNext
  <2>1. /\ s \in Sessions \cup Links /\ StandingOf(s) = "good" /\ HeldBy(r) = NoCred /\ HeldBy(r)' = s
        /\ SameHeld(Requests \ {r}) /\ SameAccount
    BY <1>23
       DEF ChangePasswordRead, Start, Idle, Authorised, Live, AccountsTypeOK, StandingOf,
           Standing, HeldBy, SameHeld, SameAccount
  <2>. QED
    BY <1>23, <2>1, CredPresent DEF ChangePasswordRead
<1>24. ASSUME NEW r \in Requests, NEW s \in Sessions, NEW a \in Addresses, EmailChangeRead(r, s, a)
       PROVE  Accounted!CredNext
  <2>1. /\ s \in Sessions \cup Links /\ StandingOf(s) = "good" /\ HeldBy(r) = NoCred /\ HeldBy(r)' = s
        /\ SameHeld(Requests \ {r}) /\ SameAccount
    BY <1>24
       DEF EmailChangeRead, Start, Idle, Authorised, Live, AccountsTypeOK, StandingOf, Standing,
           HeldBy, SameHeld, SameAccount
  <2>. QED
    BY <1>24, <2>1, CredPresent DEF EmailChangeRead
<1>25. ASSUME NEW a \in Addresses, CreateStaffAccount(a) PROVE Accounted!CredNext
  BY <1>25, CredOpen
     DEF CreateStaffAccount, UnopenedIsBlank, AccountsTypeOK, UserRow, SameHeld, HeldBy
<1>26. ASSUME NEW st \in Status, CustomerStatus(st) PROVE Accounted!CredNext
  <2>1. SameHeld(Requests) /\ SameAccount
    BY <1>26, EndSessionsHold
       DEF CustomerStatus, AccountsAssumption, AccountsTypeOK, UserRow, SameHeld, HeldBy,
           SameAccount
  <2>. QED
    BY <2>1, CredTurn
<1>27. ASSUME DeletionRead PROVE Accounted!CredNext
  BY <1>27, CredTurn DEF SameHeld, HeldBy, SameAccount, DeletionRead
<1>28. ASSUME DeletionWrite PROVE Accounted!CredNext
  BY <1>28, CredErase DEF DeletionWrite, AccountsTypeOK, UserRow, SameHeld, HeldBy
<1>29. ASSUME DeletionFail PROVE Accounted!CredNext
  BY <1>29, CredTurn DEF SameHeld, HeldBy, SameAccount, DeletionFail
<1>30. ASSUME RequestDeletion PROVE Accounted!CredNext
  <2>1. SameHeld(Requests) /\ SameAccount
    BY <1>30, EndSessionsHold
       DEF RequestDeletion, AccountsAssumption, AccountsTypeOK, UserRow, SameHeld, HeldBy,
           SameAccount
  <2>. QED
    BY <2>1, CredTurn
<1>31. ASSUME ThirtyDays PROVE Accounted!CredNext
  BY <1>31, CredTurn DEF SameHeld, HeldBy, SameAccount, ThirtyDays
<1>32. ASSUME Tick PROVE Accounted!CredNext
  BY <1>32, CredTurn DEF SameHeld, HeldBy, SameAccount, Tick
<1>33. ASSUME UNCHANGED accountVars PROVE Accounted!CredNext
  BY <1>33, CredTurn DEF accountVars, SameHeld, HeldBy, SameAccount
<1>. QED
  BY <1>1, <1>2, <1>3, <1>4, <1>5, <1>6, <1>7, <1>8, <1>9, <1>10, <1>11, <1>12, <1>13, <1>14,
         <1>15, <1>16, <1>17, <1>18, <1>19, <1>20, <1>21, <1>22, <1>23, <1>24, <1>25, <1>26,
         <1>27, <1>28, <1>29, <1>30, <1>31, <1>32, <1>33
     DEF AccountsNext, SignIn, SessionStep, LinkStep, StaffStep

LEMMA CredentialsInit == AccountsInit => Accounted!CredInit
<1>. SUFFICES ASSUME AccountsInit PROVE Accounted!CredInit
  OBVIOUS
<1>1. \A c \in Sessions \cup Links : StandingOf(c) = "unissued"
  BY DEF AccountsInit, StandingOf, Standing
<1>. QED
  BY <1>1 DEF AccountsInit, Accounted!CredInit, StandingOf, Idle

----------------------------------------------------------------------------
\* Users, sessions, links and requests keep their types, with any number of
\* requests between their reads and their writes (auth.service.ts).
THEOREM AccountsTypeCorrect == AccountsSpec => []AccountsTypeOK
BY AccountsInvariant, PTL DEF AccountsInv

\* For the address of a verified account a link mailed to it, a Google code for it or the
\* administrator who made the staff account has answered, whatever links are open,
\* withdrawn or read in flight (auth.service.ts verifyEmail, requestEmailChange;
\* admin.service.ts:942).
THEOREM AccountsVerifiedMeansProven == AccountsSpec => []VerifiedMeansProven
BY AccountsInvariant, PTL DEF AccountsInv

\* No session outlives the password, the status or the account it was opened for,
\* and no client that refreshes in turn is taken for a thief (auth.service.ts
\* refresh, resetPassword; account.service.ts; jobs/processors.ts processDeletions).
THEOREM AccountsSessionsAreCurrent == AccountsSpec => []SessionsAreCurrent
<1>1. ASSUME AccountsInv PROVE SessionsAreCurrent
  <2>1. LiveSessionIsCurrent
    BY <1>1 DEF AccountsInv
  <2>2. RefreshCookieFits
    BY <1>1 DEF AccountsInv, TokensMeet, RefreshCookieFits
  <2>3. AnonymisedStaysOut
    BY <1>1 DEF AccountsInv, DeletionIsFinal, AnonymisedStaysOut, SignedIn, Authorised
  <2>. QED
    BY <2>1, <2>2, <2>3 DEF SessionsAreCurrent
<1>. QED
  BY <1>1, AccountsInvariant, PTL

\* Sessions and links are credentials, with any number of requests in flight: none
\* comes back, and the address or the password changes only by a request that found
\* one good, once (auth.service.ts refresh, verifyEmail, resetPassword, changePassword).
THEOREM AccountsImplementsCredentials == AccountsSpec => CredentialsSpec
<1>1. AccountsInv /\ AccountsInv' /\ [AccountsNext]_accountVars => [Accounted!CredNext]_(Accounted!credVars)
  BY CredentialsStep
<1>. QED
  BY <1>1, CredentialsInit, AccountsInvariant, PTL
     DEF AccountsSpec, CredentialsSpec, Accounted!CredSpec
=============================================================================
