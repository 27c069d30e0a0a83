---------------------------- MODULE IdentityProofs ----------------------------
(***************************************************************************)
(* Proofs about the small modules of identity: recovery codes and          *)
(* newsletter links implement Credentials, staff keep their roles and a    *)
(* super administrator, a tab shows only who is signed in, and the page of *)
(* a verification link tells the truth.                                    *)
(***************************************************************************)
EXTENDS TwoFactor, Newsletter, Roles, Browser, VerifyPage, FiniteSetTheorems, TLAPS

-----------------------------------------------------------------------------
(* Recovery codes                                                          *)

FactorTypeOK ==
    /\ factor \in {"off", "setup", "on"} /\ round \in Nat
    /\ code \in [Codes -> {"none", "open", "used", "deleted"}]
    /\ batch \in [Codes -> Nat]
    /\ login \in [Logins -> Codes \cup {NoCode}]

\* A sign-in holds a code that exists.
FactorInv ==
    /\ FactorTypeOK /\ OneSetOfCodes
    /\ \A r \in Logins : login[r] # NoCode => code[login[r]] # "none"

LEMMA FactorStep ==
    ASSUME FactorInv, [FactorNext]_factorVars
    PROVE  FactorInv'
<1>. USE TwoFactorAssumption DEF FactorInv, FactorTypeOK, OneSetOfCodes
<1>1. ASSUME BeginTwoFactor PROVE FactorInv'
  BY <1>1 DEF BeginTwoFactor
<1>2. ASSUME DisableTwoFactor PROVE FactorInv'
  BY <1>2 DEF DisableTwoFactor, Deleted
<1>3. ASSUME NEW new \in SUBSET Codes, ConfirmTwoFactor(new) PROVE FactorInv'
  BY <1>3 DEF ConfirmTwoFactor, Deleted
<1>4. ASSUME NEW r \in Logins, UseCode(r) PROVE FactorInv'
  BY <1>4 DEF UseCode, NoCode
<1>5. ASSUME NEW r \in Logins, NEW c \in Codes, FindCode(r, c) PROVE FactorInv'
  BY <1>5 DEF FindCode, NoCode
<1>6. ASSUME UNCHANGED factorVars PROVE FactorInv'
  BY <1>6 DEF factorVars
<1> QED
  BY <1>1, <1>2, <1>3, <1>4, <1>5, <1>6 DEF FactorNext

LEMMA FactorStepIsCredStep ==
    ASSUME FactorInv, [FactorNext]_factorVars
    PROVE  [Coded!CredNext]_(Coded!credVars)
<1>. USE TwoFactorAssumption
   DEF FactorInv, FactorTypeOK, Coded!CredNext, Coded!credVars, Coded!Turn,
       Coded!Turned, Coded!Act, Coded!Present
<1>1. ASSUME BeginTwoFactor PROVE [Coded!CredNext]_(Coded!credVars)
  BY <1>1 DEF BeginTwoFactor
<1>2. ASSUME DisableTwoFactor PROVE [Coded!CredNext]_(Coded!credVars)
  BY <1>2 DEF DisableTwoFactor, Deleted
<1>3. ASSUME NEW new \in SUBSET Codes, ConfirmTwoFactor(new)
      PROVE  [Coded!CredNext]_(Coded!credVars)
  BY <1>3 DEF ConfirmTwoFactor, Deleted
<1>4. ASSUME NEW r \in Logins, UseCode(r) PROVE [Coded!CredNext]_(Coded!credVars)
  BY <1>4 DEF UseCode, NoCode
<1>5. ASSUME NEW r \in Logins, NEW c \in Codes, FindCode(r, c)
      PROVE  [Coded!CredNext]_(Coded!credVars)
  BY <1>5 DEF FindCode, NoCode
<1>6. ASSUME UNCHANGED factorVars PROVE [Coded!CredNext]_(Coded!credVars)
  BY <1>6 DEF factorVars
<1> QED
  BY <1>1, <1>2, <1>3, <1>4, <1>5, <1>6 DEF FactorNext

\* A recovery code is issued once and never good again after its use, and lets in only
\* sign-ins that found it unused, two of them if both did; the open ones are those of the
\* last confirmation, for every number of codes and sign-ins in flight (auth.service.ts
\* login, confirmTwoFactor, disableTwoFactor).
THEOREM FactorCodesAreCredentials == FactorSpec => CodesAreCredentials
<1>1. FactorInit => FactorInv /\ Coded!CredInit
  BY TwoFactorAssumption
     DEF FactorInit, FactorInv, FactorTypeOK, OneSetOfCodes, Coded!CredInit
<1>2. FactorInv /\ [FactorNext]_factorVars => FactorInv'
  BY FactorStep
<1>3. FactorInv /\ [FactorNext]_factorVars => [Coded!CredNext]_(Coded!credVars)
  BY FactorStepIsCredStep
<1>4. FactorInv => OneSetOfCodes
  BY DEF FactorInv
<1> QED
  BY <1>1, <1>2, <1>3, <1>4, PTL DEF FactorSpec, CodesAreCredentials, Coded!CredSpec

-----------------------------------------------------------------------------
(* The newsletter's links                                                  *)

NewsletterTypeOK ==
    /\ subscription \in [state : {"none", "asked", "verified"}, withdrawn : BOOLEAN]
    /\ confirmation \in [Confirmations -> {"none", "open", "void"}]
    /\ visit \in [Visits -> [at : {"away", "subscribe", "confirm"},
                            with : Confirmations \cup {NoLink}]]

\* Only a request that confirms holds a link, and one that was sent.
NewsletterInv ==
    /\ NewsletterTypeOK /\ OneOpenConfirmation
    /\ \A v \in Visits :
          /\ visit[v].at = "confirm" <=> visit[v].with # NoLink
          /\ visit[v].with # NoLink => confirmation[visit[v].with] # "none"

LEMMA NewsletterStep ==
    ASSUME NewsletterInv, [NewsletterNext]_newsletterVars
    PROVE  NewsletterInv'
<1>. USE NewsletterAssumption DEF NewsletterInv, NewsletterTypeOK, OneOpenConfirmation, Away,
       Visiting, Leave
<1>1. ASSUME Unsubscribe PROVE NewsletterInv'
  BY <1>1 DEF Unsubscribe
<1>2. ASSUME NEW l \in Confirmations, LinkExpires(l) PROVE NewsletterInv'
  BY <1>2 DEF LinkExpires
<1>3. ASSUME NEW v \in Visits, SubscribeRow(v) PROVE NewsletterInv'
  BY <1>3 DEF SubscribeRow
<1>4. ASSUME NEW v \in Visits, ConfirmWrite(v) PROVE NewsletterInv'
  BY <1>4 DEF ConfirmWrite
<1>5. ASSUME NEW v \in Visits, VisitFails(v) PROVE NewsletterInv'
  BY <1>5 DEF VisitFails
<1>6. ASSUME NEW v \in Visits, NEW l \in Confirmations, SubscribeLink(v, l) PROVE NewsletterInv'
  BY <1>6 DEF SubscribeLink
<1>7. ASSUME NEW v \in Visits, NEW l \in Confirmations, ConfirmRead(v, l) PROVE NewsletterInv'
  BY <1>7 DEF ConfirmRead
<1>8. ASSUME UNCHANGED newsletterVars PROVE NewsletterInv'
  BY <1>8 DEF newsletterVars
<1> QED
  BY <1>1, <1>2, <1>3, <1>4, <1>5, <1>6, <1>7, <1>8 DEF NewsletterNext

LEMMA NewsletterStepIsCredStep ==
    ASSUME NewsletterInv, [NewsletterNext]_newsletterVars
    PROVE  [Confirmed!CredNext]_(Confirmed!credVars)
<1>. USE NewsletterAssumption DEF NewsletterInv, NewsletterTypeOK, Away, Visiting, Leave,
       Confirmed!CredNext, Confirmed!credVars, Confirmed!Turn, Confirmed!Turned, Confirmed!Act,
       Confirmed!Present
<1>1. ASSUME Unsubscribe PROVE [Confirmed!CredNext]_(Confirmed!credVars)
  BY <1>1 DEF Unsubscribe
<1>2. ASSUME NEW l \in Confirmations, LinkExpires(l)
      PROVE  [Confirmed!CredNext]_(Confirmed!credVars)
  BY <1>2 DEF LinkExpires
<1>3. ASSUME NEW v \in Visits, SubscribeRow(v) PROVE [Confirmed!CredNext]_(Confirmed!credVars)
  BY <1>3 DEF SubscribeRow
<1>4. ASSUME NEW v \in Visits, ConfirmWrite(v) PROVE [Confirmed!CredNext]_(Confirmed!credVars)
  BY <1>4 DEF ConfirmWrite
<1>5. ASSUME NEW v \in Visits, VisitFails(v) PROVE [Confirmed!CredNext]_(Confirmed!credVars)
  BY <1>5 DEF VisitFails
<1>6. ASSUME NEW v \in Visits, NEW l \in Confirmations, SubscribeLink(v, l)
      PROVE  [Confirmed!CredNext]_(Confirmed!credVars)
  BY <1>6 DEF SubscribeLink
<1>7. ASSUME NEW v \in Visits, NEW l \in Confirmations, ConfirmRead(v, l)
      PROVE  [Confirmed!CredNext]_(Confirmed!credVars)
  <2>1. /\ visit' = [visit EXCEPT ![v] = [at |-> "confirm", with |-> l]]
        /\ visit[v].with = NoLink /\ confirmation[l] = "open"
        /\ UNCHANGED <<subscription, confirmation>>
    BY <1>7 DEF ConfirmRead
  <2>2. [b \in Visits |-> visit[b].with]' = [[b \in Visits |-> visit[b].with] EXCEPT ![v] = l]
    BY <2>1
  <2>3. Confirmed!Present(v)
    BY <2>1, <2>2
  <2> QED
    BY <2>3
<1>8. ASSUME UNCHANGED newsletterVars PROVE [Confirmed!CredNext]_(Confirmed!credVars)
  BY <1>8 DEF newsletterVars
<1> QED
  BY <1>1, <1>2, <1>3, <1>4, <1>5, <1>6, <1>7, <1>8 DEF NewsletterNext

\* A newsletter address is confirmed only by a request that found a mailed link good,
\* no link is good again, and at most one is open, for every number of links and
\* requests in flight (public.service.ts subscribe, verifyNewsletter).
THEOREM NewsletterLinksAreCredentials == NewsletterSpec => ConfirmationsAreCredentials
<1>1. NewsletterInit => NewsletterInv /\ Confirmed!CredInit
  BY NewsletterAssumption
     DEF NewsletterInit, NewsletterInv, NewsletterTypeOK, OneOpenConfirmation, Away,
         Confirmed!CredInit
<1>2. NewsletterInv /\ [NewsletterNext]_newsletterVars => NewsletterInv'
  BY NewsletterStep
<1>3. NewsletterInv /\ [NewsletterNext]_newsletterVars => [Confirmed!CredNext]_(Confirmed!credVars)
  BY NewsletterStepIsCredStep
<1>4. NewsletterInv => OneOpenConfirmation
  BY DEF NewsletterInv
<1> QED
  BY <1>1, <1>2, <1>3, <1>4, PTL
     DEF NewsletterSpec, ConfirmationsAreCredentials, Confirmed!CredSpec

-----------------------------------------------------------------------------
(* The roles of the staff                                                  *)

Edit == [op : {"idle", "roles", "status", "delete"}, super : BOOLEAN,
         on : Staff \cup Roles \cup {NoOne}, grant : SUBSET Roles, alone : BOOLEAN]


RolesTypeOK ==
    /\ exists \subseteq Roles /\ roles \in [Staff -> SUBSET Roles] /\ call \in [Edits -> Edit]
    /\ active \subseteq Staff
    /\ \A q \in Edits : call[q].op \in {"roles", "status"} => call[q].on \in Staff

\* A request that makes a super administrator comes from one.
GrantsAreSuper == \A q \in Edits : call[q].op = "roles" /\ Super \in call[q].grant => call[q].super

\* A request that demotes one and has not been interfered with leaves another.
DemotionsLeaveOne == \A q \in Edits :
    call[q].op = "roles" /\ call[q].alone /\ Super \in roles[call[q].on] \ call[q].grant
        => \E u \in Supers : u # call[q].on

RolesInv == RolesTypeOK /\ AssignedRolesExist /\ GrantsAreSuper /\ DemotionsLeaveOne

KeepsAssignees == \A p \in Edits :
    call'[p] = NoEdit \/ (call'[p].op = call[p].op /\ call'[p].on = call[p].on)

LEMMA DoneType ==
    ASSUME call \in [Edits -> Edit], NEW q \in Edits, Done(q)
    PROVE  /\ call' \in [Edits -> Edit]
           /\ KeepsAssignees
<1>1. NoEdit \in Edit
  BY DEF NoEdit, Edit
<1>2. ASSUME NEW p \in Edits PROVE [call[p] EXCEPT !.alone = FALSE] \in Edit
  BY DEF Edit
<1>3. ASSUME NEW p \in Edits
      PROVE  /\ [call[p] EXCEPT !.alone = FALSE].op = call[p].op
             /\ [call[p] EXCEPT !.alone = FALSE].on = call[p].on
  BY DEF Edit
<1>4. \A p \in Edits : call'[p] = NoEdit \/ call'[p] = [call[p] EXCEPT !.alone = FALSE]
  BY DEF Done
<1>5. call' \in [Edits -> Edit]
  BY <1>1, <1>2 DEF Done
<1>6. ASSUME NEW p \in Edits, call'[p] # NoEdit
      PROVE  call'[p].op = call[p].op /\ call'[p].on = call[p].on
  BY <1>3, <1>4, <1>6
<1> QED
  BY <1>5, <1>6 DEF KeepsAssignees

LEMMA TwoSupers ==
    ASSUME IsFiniteSet(Staff), Cardinality(Supers) > 1, NEW user
    PROVE  \E u \in Supers : u # user
<1> SUFFICES ASSUME \A u \in Supers : u = user PROVE FALSE
  OBVIOUS
<1>1. Supers \subseteq {user}
  OBVIOUS
<1>2. IsFiniteSet({user}) /\ Cardinality({user}) = 1
  BY FS_Singleton
<1>3. Cardinality(Supers) <= 1 /\ IsFiniteSet(Supers)
  BY <1>1, <1>2, FS_Subset
<1>4. Cardinality(Supers) \in Nat
  BY <1>3, FS_CardinalityType
<1> QED
  BY <1>3, <1>4

LEMMA RolesTypeStep ==
    ASSUME RolesTypeOK, AssignedRolesExist, [RolesNext]_roleVars
    PROVE  RolesTypeOK' /\ AssignedRolesExist'
<1>. USE RolesAssumption DEF RolesTypeOK, Edit, NoEdit, Done, Checked, Roles, AssignedRolesExist
<1>1. ASSUME NEW q \in Edits, RolesWrite(q) PROVE RolesTypeOK' /\ AssignedRolesExist'
  <2>1. call' \in [Edits -> Edit] /\ KeepsAssignees
    BY <1>1, DoneType DEF RolesWrite
  <2> HIDE DEF Edit, Done
  <2> QED
    BY <2>1, <1>1 DEF KeepsAssignees, RolesWrite
<1>2. ASSUME NEW q \in Edits, StatusWrite(q) PROVE RolesTypeOK' /\ AssignedRolesExist'
  <2>1. call' \in [Edits -> Edit] /\ KeepsAssignees
    BY <1>2, DoneType DEF StatusWrite
  <2> HIDE DEF Edit, Done
  <2> QED
    BY <2>1, <1>2 DEF KeepsAssignees, StatusWrite
<1>3. ASSUME NEW q \in Edits, DeleteWrite(q) PROVE RolesTypeOK' /\ AssignedRolesExist'
  <2>1. call' \in [Edits -> Edit] /\ KeepsAssignees
    BY <1>3, DoneType DEF DeleteWrite
  <2> HIDE DEF Edit, Done
  <2> QED
    BY <2>1, <1>3 DEF KeepsAssignees, DeleteWrite
<1>4. ASSUME NEW q \in Edits, Refused(q) PROVE RolesTypeOK' /\ AssignedRolesExist'
  BY <1>4 DEF Refused
<1>5. ASSUME NEW q \in Edits, NEW actor \in Staff, NEW user \in Staff, StatusCheck(q, actor, user)
      PROVE  RolesTypeOK' /\ AssignedRolesExist'
  BY <1>5 DEF StatusCheck
<1>6. ASSUME NEW q \in Edits, NEW actor \in Staff, NEW user \in Staff,
             NEW grant \in SUBSET Roles, RolesCheck(q, actor, user, grant)
      PROVE  RolesTypeOK' /\ AssignedRolesExist'
  BY <1>6 DEF RolesCheck
<1>7. ASSUME NEW q \in Edits, NEW actor \in Staff, NEW user \in Staff,
             NEW grant \in SUBSET Roles, CreateAdmin(q, actor, user, grant)
      PROVE  RolesTypeOK' /\ AssignedRolesExist'
  <2>1. call' \in [Edits -> Edit] /\ KeepsAssignees
    BY <1>7, DoneType DEF CreateAdmin
  <2> HIDE DEF Edit, Done
  <2> QED
    BY <2>1, <1>7 DEF KeepsAssignees, CreateAdmin
<1>8. ASSUME NEW q \in Edits, NEW actor \in Staff, NEW role \in Custom, CreateRole(q, actor, role)
      PROVE  RolesTypeOK' /\ AssignedRolesExist'
  BY <1>8 DEF CreateRole
<1>9. ASSUME NEW q \in Edits, NEW actor \in Staff, NEW role \in Custom, DeleteCheck(q, actor, role)
      PROVE  RolesTypeOK' /\ AssignedRolesExist'
  BY <1>9 DEF DeleteCheck
<1>10. ASSUME UNCHANGED roleVars PROVE RolesTypeOK' /\ AssignedRolesExist'
  BY <1>10 DEF roleVars
<1> QED
  BY <1>1, <1>2, <1>3, <1>4, <1>5, <1>6, <1>7, <1>8, <1>9, <1>10 DEF RolesNext, RoleRequest

LEMMA GrantsStep ==
    ASSUME RolesTypeOK, GrantsAreSuper, [RolesNext]_roleVars
    PROVE  GrantsAreSuper'
<1>. USE RolesAssumption DEF RolesTypeOK, Edit, NoEdit, Done, Checked, Roles, GrantsAreSuper
<1>1. ASSUME NEW q \in Edits, RolesWrite(q) PROVE GrantsAreSuper'
  BY <1>1 DEF RolesWrite
<1>2. ASSUME NEW q \in Edits, StatusWrite(q) PROVE GrantsAreSuper'
  BY <1>2 DEF StatusWrite
<1>3. ASSUME NEW q \in Edits, DeleteWrite(q) PROVE GrantsAreSuper'
  BY <1>3 DEF DeleteWrite
<1>4. ASSUME NEW q \in Edits, Refused(q) PROVE GrantsAreSuper'
  BY <1>4 DEF Refused
<1>5. ASSUME NEW q \in Edits, NEW actor \in Staff, NEW user \in Staff, StatusCheck(q, actor, user)
      PROVE  GrantsAreSuper'
  BY <1>5 DEF StatusCheck
<1>6. ASSUME NEW q \in Edits, NEW actor \in Staff, NEW user \in Staff,
             NEW grant \in SUBSET Roles, RolesCheck(q, actor, user, grant)
      PROVE  GrantsAreSuper'
  BY <1>6 DEF RolesCheck
<1>7. ASSUME NEW q \in Edits, NEW actor \in Staff, NEW user \in Staff,
             NEW grant \in SUBSET Roles, CreateAdmin(q, actor, user, grant)
      PROVE  GrantsAreSuper'
  BY <1>7 DEF CreateAdmin
<1>8. ASSUME NEW q \in Edits, NEW actor \in Staff, NEW role \in Custom, CreateRole(q, actor, role)
      PROVE  GrantsAreSuper'
  BY <1>8 DEF CreateRole
<1>9. ASSUME NEW q \in Edits, NEW actor \in Staff, NEW role \in Custom, DeleteCheck(q, actor, role)
      PROVE  GrantsAreSuper'
  BY <1>9 DEF DeleteCheck
<1>10. ASSUME UNCHANGED roleVars PROVE GrantsAreSuper'
  BY <1>10 DEF roleVars
<1> QED
  BY <1>1, <1>2, <1>3, <1>4, <1>5, <1>6, <1>7, <1>8, <1>9, <1>10 DEF RolesNext, RoleRequest

LEMMA DemotionsStep ==
    ASSUME IsFiniteSet(Staff), RolesTypeOK, DemotionsLeaveOne, [RolesNext]_roleVars
    PROVE  DemotionsLeaveOne'
<1>. USE RolesAssumption
   DEF RolesTypeOK, Edit, NoEdit, Done, Checked, Roles, DemotionsLeaveOne, Supers
<1>1. ASSUME NEW q \in Edits, RolesWrite(q) PROVE DemotionsLeaveOne'
  BY <1>1 DEF RolesWrite
<1>2. ASSUME NEW q \in Edits, StatusWrite(q) PROVE DemotionsLeaveOne'
  BY <1>2 DEF StatusWrite
<1>3. ASSUME NEW q \in Edits, DeleteWrite(q) PROVE DemotionsLeaveOne'
  BY <1>3 DEF DeleteWrite
<1>4. ASSUME NEW q \in Edits, Refused(q) PROVE DemotionsLeaveOne'
  BY <1>4 DEF Refused
<1>5. ASSUME NEW q \in Edits, NEW actor \in Staff, NEW user \in Staff, StatusCheck(q, actor, user)
      PROVE  DemotionsLeaveOne'
  BY <1>5 DEF StatusCheck
<1>6. ASSUME NEW q \in Edits, NEW actor \in Staff, NEW user \in Staff,
             NEW grant \in SUBSET Roles, RolesCheck(q, actor, user, grant)
      PROVE  DemotionsLeaveOne'
  <2>1. Super \in roles[user] \ grant => Cardinality(Supers) > 1
    BY <1>6 DEF RolesCheck, Supers
  <2>2. Super \in roles[user] \ grant => \E u \in Supers : u # user
    BY <2>1, TwoSupers
  <2> QED
    BY <2>2, <1>6 DEF RolesCheck
<1>7. ASSUME NEW q \in Edits, NEW actor \in Staff, NEW user \in Staff,
             NEW grant \in SUBSET Roles, CreateAdmin(q, actor, user, grant)
      PROVE  DemotionsLeaveOne'
  BY <1>7 DEF CreateAdmin
<1>8. ASSUME NEW q \in Edits, NEW actor \in Staff, NEW role \in Custom, CreateRole(q, actor, role)
      PROVE  DemotionsLeaveOne'
  BY <1>8 DEF CreateRole
<1>9. ASSUME NEW q \in Edits, NEW actor \in Staff, NEW role \in Custom, DeleteCheck(q, actor, role)
      PROVE  DemotionsLeaveOne'
  BY <1>9 DEF DeleteCheck
<1>10. ASSUME UNCHANGED roleVars PROVE DemotionsLeaveOne'
  BY <1>10 DEF roleVars
<1> QED
  BY <1>1, <1>2, <1>3, <1>4, <1>5, <1>6, <1>7, <1>8, <1>9, <1>10 DEF RolesNext, RoleRequest

LEMMA LoneDemotionStep ==
    ASSUME RolesTypeOK, DemotionsLeaveOne, NEW q \in Edits, RolesWrite(q),
           call[q].alone, Supers # {}
    PROVE  Supers' # {}
<1>1. /\ roles' = [roles EXCEPT ![call[q].on] = call[q].grant]
      /\ active' = active /\ call[q].on \in Staff
  BY DEF RolesWrite, RolesTypeOK
<1>2. PICK u \in Supers : Super \in roles[call[q].on] \ call[q].grant => u # call[q].on
  BY DEF DemotionsLeaveOne, RolesWrite
<1>3. CASE u = call[q].on
  BY <1>1, <1>2, <1>3 DEF Supers, RolesTypeOK
<1>4. CASE u # call[q].on
  BY <1>1, <1>2, <1>4 DEF Supers, RolesTypeOK
<1> QED
  BY <1>3, <1>4

LEMMA GrantStep ==
    ASSUME RolesTypeOK, GrantsAreSuper, [RolesNext]_roleVars, NEW u \in Staff,
           Super \in roles'[u], Super \notin roles[u]
    PROVE  \/ \E q \in Edits : call[q].op = "roles" /\ call[q].super /\ call'[q] = NoEdit
           \/ u \notin hired /\ \E actor \in active : Super \in roles[actor]
<1>1. PICK q \in Edits :
        \/ RolesWrite(q)
        \/ \E actor \in Staff, user \in Staff, grant \in SUBSET Roles :
             CreateAdmin(q, actor, user, grant)
  BY DEF RolesNext, RoleRequest, roleVars, StatusWrite, DeleteWrite, Refused, StatusCheck,
         RolesCheck, CreateRole, DeleteCheck, Checked
<1>2. CASE RolesWrite(q)
  <2>1. Super \in call[q].grant /\ call'[q] = NoEdit
    BY <1>2 DEF RolesWrite, RolesTypeOK, Done
  <2> QED
    BY <2>1, <1>2 DEF RolesWrite, GrantsAreSuper
<1>3. CASE \E actor \in Staff, user \in Staff, grant \in SUBSET Roles :
             CreateAdmin(q, actor, user, grant)
  BY <1>3 DEF CreateAdmin, MayManage, RolesTypeOK
<1> QED
  BY <1>1, <1>2, <1>3

\* Assigned roles exist, only a super administrator makes one, and a demotion that no
\* other change came between leaves an active one, for any staff and any number of
\* requests in flight, though each checks outside the transaction that writes
\* (admin.service.ts setAdminRoles, createAdmin, deleteRole, customerStatus).
THEOREM StaffRolesAreKept ==
    ASSUME IsFiniteSet(Staff)
    PROVE  RolesSpec => RolesAreKept
<1>1. RolesInit => RolesInv
  BY RolesAssumption
     DEF RolesInit, RolesInv, RolesTypeOK, AssignedRolesExist, GrantsAreSuper, DemotionsLeaveOne,
         Edit, NoEdit, Roles
<1>2. RolesInv /\ [RolesNext]_roleVars => RolesInv'
  BY RolesTypeStep, GrantsStep, DemotionsStep DEF RolesInv
<1>3. RolesInv /\ [RolesNext]_roleVars =>
        [\A u \in Staff : (Super \in roles'[u] /\ Super \notin roles[u]) =>
            \/ \E q \in Edits : call[q].op = "roles" /\ call[q].super /\ call'[q] = NoEdit
            \/ u \notin hired /\ \E actor \in active : Super \in roles[actor]]_roleVars
  BY GrantStep DEF RolesInv
<1>4. RolesInv /\ [RolesNext]_roleVars =>
        [\A q \in Edits : (RolesWrite(q) /\ call[q].alone /\ Supers # {}) => Supers' # {}]_roleVars
  BY LoneDemotionStep DEF RolesInv
<1>5. RolesInv => AssignedRolesExist
  BY DEF RolesInv
<1> QED
  BY <1>1, <1>2, <1>3, <1>4, <1>5, PTL
     DEF RolesSpec, RolesAreKept, OnlySuperGrantsSuper, LoneDemotionLeavesOne

-----------------------------------------------------------------------------
(* What a tab shows                                                        *)

\* Cookies, cache and requests in flight.
TabTypeOK ==
    /\ cookie \in [of : Users \cup {Guest}, access : BOOLEAN]
    /\ cached \in [Queries -> Users \cup {Guest, Unknown}]
    /\ asked \in [Queries -> Users \cup {Guest, Unknown}]
    /\ form \in [at : {"idle", "login", "adminLogin", "revoke"}, of : Users \cup {Guest}]

\* Whom the tab may speak of.
MayName == {Unknown, Guest, cookie.of} \cup turned

\* Unless the tab is being sent away or another one changed its cookies, neither the cache
\* nor a request in flight speaks of anybody else; and who was turned away may be named.
TabInv ==
    /\ TabTypeOK
    /\ form.at = "revoke" /\ leaving = "stays" /\ ~disturbed => cookie.of \in turned \cup {Guest}
    /\ leaving = "stays" /\ ~disturbed =>
          \A q \in Queries : cached[q] \in MayName /\ asked[q] \in MayName

LEMMA TabStep ==
    ASSUME TabInv, [TabNext]_tabVars
    PROVE  TabInv'
<1>. USE BrowserAssumption
   DEF TabInv, TabTypeOK, MayName, Queries, NoCache, NoForm, SignedOff, Paths, SentTo, Carried
<1>1. ASSUME NEW p \in Paths, FullLoad(p) PROVE TabInv'
  BY <1>1 DEF FullLoad
<1>2. ASSUME NEW p \in Paths, Follow(p) PROVE TabInv'
  BY <1>2 DEF Follow
<1>3. ASSUME NEW p \in Paths, LoginAnswered(p) PROVE TabInv'
  BY <1>3 DEF LoginAnswered, Users
<1>4. ASSUME NEW q \in Queries, Ask(q) PROVE TabInv'
  BY <1>4 DEF Ask
<1>5. ASSUME NEW q \in Queries, NEW who \in Users \cup {Guest}, Told(q, who) PROVE TabInv'
  BY <1>5 DEF Told
<1>6. ASSUME NEW m \in Menus, ToggleMenu(m) PROVE TabInv'
  BY <1>6 DEF ToggleMenu
<1>7. ASSUME ClickOutside PROVE TabInv'
  BY <1>7 DEF ClickOutside
<1>8. ASSUME ClickLogout PROVE TabInv'
  BY <1>8 DEF ClickLogout
<1>9. ASSUME NEW gone \in BOOLEAN, LogoutAnswered(gone) PROVE TabInv'
  BY <1>9 DEF LogoutAnswered
<1>10. ASSUME NEW u \in Users, Submit(u) PROVE TabInv'
  BY <1>10 DEF Submit
<1>11. ASSUME NEW u \in Users, GoogleSignIn(u) PROVE TabInv'
  BY <1>11 DEF GoogleSignIn
<1>12. ASSUME SubmitRefused PROVE TabInv'
  BY <1>12 DEF SubmitRefused
<1>13. ASSUME AdminLoginAnswered PROVE TabInv'
  BY <1>13 DEF AdminLoginAnswered, Users
<1>14. ASSUME NEW gone \in BOOLEAN, CustomerRevoked(gone) PROVE TabInv'
  BY <1>14 DEF CustomerRevoked
<1>15. ASSUME AccessAges PROVE TabInv'
  BY <1>15 DEF AccessAges
<1>16. ASSUME NEW u \in Users \cup {Guest}, OtherTabSigns(u) PROVE TabInv'
  BY <1>16 DEF OtherTabSigns
<1>17. ASSUME UNCHANGED tabVars PROVE TabInv'
  BY <1>17 DEF tabVars
<1> QED
  BY <1>1, <1>2, <1>3, <1>4, <1>5, <1>6, <1>7, <1>8, <1>9, <1>10, <1>11, <1>12, <1>13, <1>14,
     <1>15, <1>16, <1>17
     DEF TabNext

\* Whoever signs in or out in a tab, it names nobody else afterwards but those the
\* console's form has turned away or signed in over, for any users and any interleaving of
\* loads, answers and other tabs (handleLogout, AuthForm submit, AdminLoginPage
\* handleSubmit).
THEOREM TabShowsWhoIsSignedIn == TabSpec => []ShownIsSignedIn
<1>1. TabInit => TabInv
  <2> SUFFICES ASSUME TabInit PROVE TabInv
    OBVIOUS
  <2>1. cookie \in [of : Users \cup {Guest}, access : BOOLEAN]
    <3>1. CASE cookie \in [of : Users, access : BOOLEAN]
      BY <3>1
    <3>2. CASE cookie = [of |-> Guest, access |-> FALSE]
      BY <3>2
    <3> QED
      BY <3>1, <3>2 DEF TabInit, SignedOff
  <2>2. cached \in [Queries -> Users \cup {Guest, Unknown}] /\ asked = cached
    BY DEF TabInit, NoCache
  <2>3. \A q \in Queries : cached[q] = Unknown
    BY DEF TabInit, NoCache
  <2>4. form \in [at : {"idle", "login", "adminLogin", "revoke"}, of : Users \cup {Guest}]
        /\ form.at = "idle"
    BY DEF TabInit, NoForm
  <2> QED
    BY <2>1, <2>2, <2>3, <2>4 DEF TabInv, TabTypeOK, MayName, TabInit
<1>2. TabInv /\ [TabNext]_tabVars => TabInv'
  BY TabStep
<1>3. TabInv => ShownIsSignedIn
  BY DEF TabInv, MayName, ShownIsSignedIn, Signing
<1> QED
  BY <1>1, <1>2, <1>3, PTL DEF TabSpec

-----------------------------------------------------------------------------
(* The page of a verification link                                         *)

Post == [kind : {"auto", "manual"}, token : Tokens, run : Nat,
         answer : {"none", "found", "verified", "refused"}]

\* At most one post is in flight; one that this page's post has applied shows as
\* success, or the answer is under way or lost.
VerifyInv ==
    /\ runs \in 0..MaxEffects /\ mailed \in [Tokens -> TokenStates]
    /\ purpose \in [Tokens -> Purposes] /\ verified \in BOOLEAN
    /\ linked \in Tokens \cup {NoToken}
    /\ posts \subseteq Post /\ \A p, q \in posts : p = q
    /\ screen \in {"error", "success"} => posts = {} /\ Mounted
    /\ mine => verified /\ (screen = "success" \/ lost \/ \E p \in posts : p.answer = "verified")
    /\ \A p \in posts : p.answer = "verified" => verified /\ (purpose[p.token] = "change" => mine)
    /\ linked # NoToken => \A p \in posts : p.token = linked
    /\ screen = "success" => verified /\ (linked # NoToken => purpose[linked] = "verify" \/ mine)
    /\ screen = "manual" => linked = NoToken
    /\ linked = NoToken /\ ~Mounted => posts = {} /\ ~mine
    /\ linked # NoToken /\ ~fired => posts = {} /\ ~mine /\ screen = "verifying"

\* What the server did with a post, in the set of posts.
LEMMA AnsweredOne ==
    ASSUME VerifyInv, NEW p \in posts, NEW a \in {"found", "verified", "refused"}, Answered(p, a)
    PROVE  \E q \in Post : posts' = {q} /\ q.answer = a /\ q.token = p.token
<1>1. posts = {p} /\ p \in Post
  BY DEF VerifyInv
<1>2. posts' = {[p EXCEPT !.answer = a]}
  BY <1>1 DEF Answered
<1>3. [p EXCEPT !.answer = a] \in Post /\ [p EXCEPT !.answer = a].answer = a
      /\ [p EXCEPT !.answer = a].token = p.token
  BY <1>1 DEF Post
<1> QED
  BY <1>2, <1>3

LEMMA VerifyStep ==
    ASSUME VerifyInv, [VerifyNext]_verifyVars
    PROVE  VerifyInv'
<1>. USE VerifyPageAssumption DEF VerifyInv, Mounted, TokenStates, Purposes, ServerIdle, PageIdle
<1>1. ASSUME Effect PROVE VerifyInv'
  BY <1>1 DEF Effect, FireOnce, Post, Posted
<1>2. ASSUME NEW t \in Tokens, SubmitManual(t) PROVE VerifyInv'
  BY <1>2 DEF SubmitManual, Post, Posted
<1>3. ASSUME NEW t \in Tokens, Resend(t) PROVE VerifyInv'
  BY <1>3 DEF Resend
<1>4. ASSUME NEW t \in Tokens, UsedElsewhere(t) PROVE VerifyInv'
  BY <1>4 DEF UsedElsewhere
<1>5. ASSUME NEW p \in posts, VerifyReads(p) PROVE VerifyInv'
  <2>1. posts = {p} /\ p \in Post /\ p.answer = "none" /\ screen \notin {"error", "success"}
        /\ (~mine \/ lost)
    BY <1>5 DEF VerifyReads
  <2>2. Found(p.token) \in {"found", "verified", "refused"} /\ Answered(p, Found(p.token))
    BY <1>5 DEF VerifyReads, Found
  <2>3. Found(p.token) = "verified" => verified /\ purpose[p.token] = "verify"
    BY DEF Found
  <2>4. PICK q \in Post : posts' = {q} /\ q.answer = Found(p.token) /\ q.token = p.token
    BY <2>2, AnsweredOne
  <2> QED
    BY <1>5, <2>1, <2>2, <2>3, <2>4 DEF VerifyReads
<1>6. ASSUME NEW p \in posts, VerifyWrites(p) PROVE VerifyInv'
  <2>1. posts = {p} /\ p \in Post /\ p.answer = "found" /\ screen \notin {"error", "success"}
    BY <1>6 DEF VerifyWrites
  <2>2. CASE Answered(p, "verified") /\ mine' = TRUE /\ verified' = TRUE
             /\ mailed' = [mailed EXCEPT ![p.token] = "used"]
    <3>1. PICK q \in Post : posts' = {q} /\ q.answer = "verified" /\ q.token = p.token
      BY <2>2, AnsweredOne
    <3> QED
      BY <1>6, <2>1, <2>2, <3>1 DEF VerifyWrites
  <2>3. CASE Answered(p, "refused") /\ UNCHANGED <<mine, verified, mailed>>
    <3>1. PICK q \in Post : posts' = {q} /\ q.answer = "refused" /\ q.token = p.token
      BY <2>3, AnsweredOne
    <3> QED
      BY <1>6, <2>1, <2>3, <3>1 DEF VerifyWrites
  <2> QED
    BY <1>6, <2>2, <2>3 DEF VerifyWrites
<1>7. ASSUME NEW p \in posts, Answer(p) PROVE VerifyInv'
  BY <1>7 DEF Answer, Post
<1>8. ASSUME NEW p \in posts, PostLost(p) PROVE VerifyInv'
  BY <1>8 DEF PostLost, Post
<1>9. ASSUME UNCHANGED verifyVars PROVE VerifyInv'
  BY <1>9 DEF verifyVars
<1> QED
  BY <1>1, <1>2, <1>3, <1>4, <1>5, <1>6, <1>7, <1>8, <1>9 DEF VerifyNext

\* The page never tells the customer that her link is bad when it has just applied it, nor
\* of success while her account is unverified, nor that she has a new address when this
\* page has not given it to her, however often React runs the effect (verify-email-client.tsx).
THEOREM VerifyPageRaisesNoFalseAlarm == VerifySpec => []NoFalseAlarm
<1>1. VerifyInit => VerifyInv
  BY VerifyPageAssumption DEF VerifyInit, VerifyInv, TokenStates, Purposes, Mounted, Post
<1>2. VerifyInv /\ [VerifyNext]_verifyVars => VerifyInv'
  BY VerifyStep
<1>3. VerifyInv => NoFalseAlarm
  BY DEF VerifyInv, NoFalseAlarm
<1> QED
  BY <1>1, <1>2, <1>3, PTL DEF VerifySpec
=============================================================================
