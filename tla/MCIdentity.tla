------------------------------ MODULE MCIdentity ------------------------------
(***************************************************************************)
(* Who may do what: the six modules of identity for TLC.  They share no    *)
(* state, so focus picks the one that moves and the sizes add up.  An      *)
(* account is taken twice: one session with links in the mail, and two     *)
(* sessions without.                                                       *)
(***************************************************************************)
EXTENDS Accounts, TwoFactor, Roles, Newsletter, Browser, VerifyPage, TLC

CONSTANTS s1, s2, l1, l2, r1, r2, a1, a2, p1, p2, u1, u2

TwoSessions  == {s1, s2}
TwoLinks     == {l1, l2}
TwoRequests  == {r1, r2}
TwoAddresses == {a1, a2}
TwoPasswords == {p1, p2}
TwoUsers     == {u1, u2}
OneUser      == {u1}
OneAdmin     == {u2}
OneCustom    == {"EDITOR"}
OneMenu      == {"profile"}

VARIABLE focus

identityVars == <<accountVars, factorVars, roleVars, newsletterVars, tabVars, verifyVars, focus>>

IdentityInit ==
    /\ AccountsInit /\ FactorInit /\ RolesInit /\ NewsletterInit /\ TabInit /\ VerifyInit
    /\ focus \in {"links", "sessions", "factor", "roles", "newsletter", "tab", "verify"}
    \* The modules that do not move start in one state.
    /\ focus # "tab" => cookie = SignedOff
    /\ focus # "verify" => /\ linked = NoToken /\ ~verified
                           /\ \A t \in Tokens : mailed[t] = "unsent" /\ purpose[t] = "verify"
    /\ focus # "roles" => u1 \in active

\* One session and both links, within a second.
LinksMove == /\ focus = "links" /\ AccountsNext /\ second' = 1
             /\ \A s, t \in Sessions : session'[s].state # "none" /\ session'[t].state # "none" => s = t

\* Both sessions, without a link: Google or an administrator answers for the address.
SessionsMove == /\ focus = "sessions" /\ AccountsNext
                /\ user'.email # a2 /\ \A l \in Links : link'[l].state = "none"
                /\ \A r \in Requests : req'[r].kind # "email"

\* A tab whose cookies changed behind its back promises nothing until it is loaded
\* again, which leaves nothing of what it did before.
TabMove == focus = "tab" /\ TabNext /\ (disturbed => ~disturbed')

IdentityNext ==
    \/ /\ LinksMove \/ SessionsMove
       /\ UNCHANGED <<factorVars, roleVars, newsletterVars, tabVars, verifyVars, focus>>
    \/ /\ focus = "factor" /\ FactorNext
       /\ UNCHANGED <<accountVars, roleVars, newsletterVars, tabVars, verifyVars, focus>>
    \/ /\ focus = "roles" /\ RolesNext
       /\ UNCHANGED <<accountVars, factorVars, newsletterVars, tabVars, verifyVars, focus>>
    \/ /\ focus = "newsletter" /\ NewsletterNext
       /\ UNCHANGED <<accountVars, factorVars, roleVars, tabVars, verifyVars, focus>>
    \/ /\ TabMove
       /\ UNCHANGED <<accountVars, factorVars, roleVars, newsletterVars, verifyVars, focus>>
    \/ /\ focus = "verify" /\ VerifyNext
       /\ UNCHANGED <<accountVars, factorVars, roleVars, newsletterVars, tabVars, focus>>

IdentitySpec == IdentityInit /\ [][IdentityNext]_identityVars

\* Sessions, links and requests are alike, in every module that has them.
Symmetry == Permutations({s1, s2}) \cup Permutations({l1, l2}) \cup Permutations({r1, r2})
=============================================================================
