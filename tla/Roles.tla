-------------------------------- MODULE Roles --------------------------------
(***************************************************************************)
(* Who may administer the shop: the roles of the staff and the requests    *)
(* that change them (admin.service.ts customerStatus, createAdmin,         *)
(* setAdminRoles, createRole, updateRole, deleteRole).  Every request reads *)
(* and checks outside the transaction that writes; the roles of the acting *)
(* administrator are those the guard read when the request came in         *)
(* (jwt.strategy.ts).                                                      *)
(***************************************************************************)
EXTENDS FiniteSets, Naturals

CONSTANTS Staff,    \* users who have or may get a role
          Custom,   \* roles that are not system roles
          Admin,    \* the role whose permissions manage administrators and roles
          Super,    \* the role SUPER_ADMIN
          Edits  \* administration requests in flight

Roles == Custom \cup {Admin, Super}
NoOne == "none"

ASSUME RolesAssumption == Admin # Super /\ Admin \notin Custom /\ Super \notin Custom
                          /\ NoOne \notin Staff \cup Roles

VARIABLES exists,  \* rows of Role
          roles,   \* rows of UserRole, per user
          active,  \* users with status ACTIVE
          hired,   \* users whose row exists
          call     \* requests in flight: what was checked

roleVars == <<exists, roles, active, hired, call>>

NoEdit == [op |-> "idle", super |-> FALSE, on |-> NoOne, grant |-> {}, alone |-> TRUE]
Supers == {u \in Staff : Super \in roles[u] /\ u \in active}

RolesInit == \E boss \in Staff :
    /\ exists = {Admin, Super}
    /\ roles = [u \in Staff |-> IF u = boss THEN {Super} ELSE {}]
    /\ active = {boss} /\ hired = {boss}
    /\ call = [q \in Edits |-> NoEdit]

\* Who may call: an ACTIVE administrator.
MayManage(actor) == actor \in active /\ roles[actor] \cap {Admin, Super} # {}

\* The request q goes on with what it has checked.
Checked(q, op, actor, on, grant) ==
    /\ call[q] = NoEdit /\ MayManage(actor)
    /\ call' = [call EXCEPT ![q] = [op |-> op, super |-> Super \in roles[actor],
                                    on |-> on, grant |-> grant, alone |-> TRUE]]
    /\ UNCHANGED <<exists, roles, active, hired>>

\* The end of q; the others are no longer alone since their checks.
Done(q) == call' = [p \in Edits |-> IF p = q \/ call[p] = NoEdit THEN NoEdit
                                       ELSE [call[p] EXCEPT !.alone = FALSE]]

\* Mutant: who may be demoted is not asked.
RolesCheck_AnyTarget(q, actor, user, grant) ==
    /\ user \in hired /\ grant \subseteq exists
    /\ Super \in roles[user] \cup grant => Super \in roles[actor]
    /\ Checked(q, "roles", actor, user, grant)

RolesCheck(q, actor, user, grant) ==
    /\ user \in hired /\ grant \subseteq exists
    /\ Super \in roles[user] \cup grant => Super \in roles[actor]
    /\ Super \in roles[user] \ grant => Cardinality(Supers) > 1
    /\ Checked(q, "roles", actor, user, grant)

\* Deleted and created anew; a role that is gone makes the transaction fail.
RolesWrite(q) ==
    /\ call[q].op = "roles" /\ call[q].grant \subseteq exists
    /\ roles' = [roles EXCEPT ![call[q].on] = call[q].grant]
    /\ Done(q)
    /\ UNCHANGED <<exists, active, hired>>

CreateAdmin(q, actor, user, grant) ==
    /\ call[q] = NoEdit /\ MayManage(actor)
    /\ user \notin hired /\ grant \subseteq exists
    /\ Super \in grant => Super \in roles[actor]
    /\ hired' = hired \cup {user} /\ active' = active \cup {user}
    /\ roles' = [roles EXCEPT ![user] = grant]
    /\ Done(q)
    /\ UNCHANGED exists

StatusCheck(q, actor, user) ==
    /\ user \in hired
    /\ Super \in roles[user] => Super \in roles[actor]
    /\ Checked(q, "status", actor, user, {})

StatusWrite(q) ==
    /\ call[q].op = "status"
    /\ \/ active' = active \cup {call[q].on}
       \/ active' = active \ {call[q].on}
    /\ Done(q)
    /\ UNCHANGED <<exists, roles, hired>>

\* The name is unique: SUPER_ADMIN cannot be made a second time.
CreateRole(q, actor, role) ==
    /\ call[q] = NoEdit /\ MayManage(actor)
    /\ role \notin exists
    /\ exists' = exists \cup {role}
    /\ UNCHANGED <<roles, active, hired, call>>

DeleteCheck(q, actor, role) ==
    /\ role \in exists \cap Custom /\ \A u \in Staff : role \notin roles[u]
    /\ Checked(q, "delete", actor, role, {})

\* The foreign key of UserRole restricts the deletion.
DeleteWrite(q) ==
    /\ call[q].op = "delete" /\ \A u \in Staff : call[q].on \notin roles[u]
    /\ exists' = exists \ {call[q].on}
    /\ Done(q)
    /\ UNCHANGED <<roles, active, hired>>

\* A request dies, or its transaction is refused.
Refused(q) == /\ call[q] # NoEdit
              /\ call' = [call EXCEPT ![q] = NoEdit]
              /\ UNCHANGED <<exists, roles, active, hired>>

RoleRequest(q, actor) ==
    \/ \E user \in Staff : StatusCheck(q, actor, user)
    \/ \E user \in Staff, grant \in SUBSET Roles :
          RolesCheck(q, actor, user, grant) \/ CreateAdmin(q, actor, user, grant)
    \/ \E role \in Custom : CreateRole(q, actor, role) \/ DeleteCheck(q, actor, role)

RolesNext == \E q \in Edits :
    \/ RolesWrite(q) \/ StatusWrite(q) \/ DeleteWrite(q) \/ Refused(q)
    \/ \E actor \in Staff : RoleRequest(q, actor)

RolesSpec == RolesInit /\ [][RolesNext]_roleVars

----------------------------------------------------------------------------
\* Nobody holds a role that was deleted, though a role is deleted while a request
\* that has checked it assigns it (setAdminRoles, deleteRole).
AssignedRolesExist == \A u \in Staff : roles[u] \subseteq exists

\* Only a request that came from a super administrator makes one
\* (setAdminRoles, createAdmin, createRole).
OnlySuperGrantsSuper ==
    [][\A u \in Staff : (Super \in roles'[u] /\ Super \notin roles[u]) =>
          \/ \E q \in Edits : call[q].op = "roles" /\ call[q].super /\ call'[q] = NoEdit
          \/ u \notin hired /\ \E actor \in active : Super \in roles[actor]]_roleVars

\* A demotion that no other change has come between leaves an active super
\* administrator (setAdminRoles).
LoneDemotionLeavesOne ==
    [][\A q \in Edits : (RolesWrite(q) /\ call[q].alone /\ Supers # {}) => Supers' # {}]_roleVars

\* What setAdminRoles, deleteRole and customerStatus keep together, though each
\* checks outside the transaction that writes.
RolesAreKept == []AssignedRolesExist /\ OnlySuperGrantsSuper /\ LoneDemotionLeavesOne

\* src/README.md:25: "Super administrators and system roles have transaction-level
\* protection, including last-super-admin protection."
LastSuperAdmin == Supers # {}
=============================================================================
