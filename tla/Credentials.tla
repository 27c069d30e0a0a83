----------------------------- MODULE Credentials -----------------------------
(***************************************************************************)
(* What the credentials of an account promise, whatever they are: sessions *)
(* (apps/api/src/auth, account) and mailed links and recovery codes.       *)
(* A credential is issued once, is good until it is used, withdrawn or     *)
(* expired, and never becomes good again.  The account's address and       *)
(* password change only by a request that has found a credential good, and *)
(* a request changes them once.                                            *)
(***************************************************************************)

CONSTANTS Creds,     \* sessions, links and recovery codes
          Bearers,   \* requests
          NoCred,
          Unopened,  \* the account before its registration
          Opened,    \* what it may be when it is registered
          Accounts,  \* address and password of the account
          Erased     \* accounts without an address

VARIABLES standing,  \* "unissued", "good" or "void", of every credential
          held,      \* the credential a request has presented and found good
          account

credVars == <<standing, held, account>>

CredInit == /\ standing = [c \in Creds |-> "unissued"]
            /\ held = [b \in Bearers |-> NoCred]
            /\ account = Unopened

\* Credentials are issued, withdrawn, used up or expire; none comes back.
Turned == standing' \in [Creds -> {"unissued", "good", "void"}] /\ \A c \in Creds :
             \/ standing'[c] = standing[c]
             \/ standing[c] = "unissued" /\ standing'[c] = "good"
             \/ standing[c] = "good" /\ standing'[c] = "void"

Open == account = Unopened /\ account' \in Opened /\ Turned /\ UNCHANGED held

Turn == Turned /\ UNCHANGED <<held, account>>

Present(b) == \E c \in Creds :
    /\ held[b] = NoCred /\ standing[c] = "good"
    /\ held' = [held EXCEPT ![b] = c]
    /\ UNCHANGED <<standing, account>>

Act(b) == /\ held[b] # NoCred
          /\ held' = [held EXCEPT ![b] = NoCred]
          /\ account' \in Accounts \cup Erased
          /\ Turned

Erase == account' \in Erased /\ UNCHANGED <<standing, held>>

CredNext == Open \/ Turn \/ Erase \/ \E b \in Bearers : Present(b) \/ Act(b)

CredSpec == CredInit /\ [][CredNext]_credVars
=============================================================================
