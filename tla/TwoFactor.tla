------------------------------ MODULE TwoFactor ------------------------------
(***************************************************************************)
(* The second factor of a sign-in: the authenticator, its setup, and the   *)
(* recovery codes that stand in for it (auth.service.ts login,             *)
(* beginTwoFactor, confirmTwoFactor, disableTwoFactor).                    *)
(***************************************************************************)
EXTENDS Naturals

CONSTANTS Codes,   \* rows of TwoFactorRecoveryCode
          Logins   \* sign-ins in flight, their password checked

NoCode == "none"

ASSUME TwoFactorAssumption == NoCode \notin Codes

VARIABLES factor,  \* "off", "setup" (a secret, not enabled) or "on"
          code,    \* the rows: "none", "open", "used" or "deleted"
          batch,   \* in which confirmation a code was created
          round,   \* confirmations so far, at most one per code
          login    \* the code a sign-in has found, and whether it is through

factorVars == <<factor, code, batch, round, login>>

FactorInit == /\ factor = "off"
              /\ code = [c \in Codes |-> "none"]
              /\ batch = [c \in Codes |-> 0]
              /\ round = 0
              /\ login = [r \in Logins |-> NoCode]

Deleted == [c \in Codes |-> IF code[c] = "none" THEN "none" ELSE "deleted"]

\* A new secret switches the factor off; the codes stay.
BeginTwoFactor == factor' = "setup" /\ UNCHANGED <<code, batch, round, login>>

\* One transaction: the earlier codes are deleted, new ones created.
ConfirmTwoFactor(new) ==
    /\ factor # "off" /\ new # {} /\ \A c \in new : code[c] = "none"
    /\ factor' = "on" /\ round' = round + 1
    /\ code' = [c \in Codes |-> IF c \in new THEN "open" ELSE Deleted[c]]
    /\ batch' = [c \in Codes |-> IF c \in new THEN round + 1 ELSE batch[c]]
    /\ UNCHANGED login

DisableTwoFactor == /\ factor # "off" /\ factor' = "off"
                    /\ code' = Deleted
                    /\ UNCHANGED <<batch, round, login>>

\* Mutant: the code is looked up without asking whether it was used.
FindCode_Used(r, c) ==
    /\ factor = "on" /\ login[r] = NoCode /\ code[c] \in {"open", "used"}
    /\ login' = [login EXCEPT ![r] = c]
    /\ UNCHANGED <<factor, code, batch, round>>

FindCode(r, c) ==
    /\ factor = "on" /\ login[r] = NoCode /\ code[c] = "open"
    /\ login' = [login EXCEPT ![r] = c]
    /\ UNCHANGED <<factor, code, batch, round>>

\* The row is updated by its id: a second sign-in with the code does it again,
\* and only a deleted row makes the request fail.
UseCode(r) == LET c == login[r] IN
    /\ c # NoCode
    /\ login' = [login EXCEPT ![r] = NoCode]
    /\ code' = IF code[c] = "deleted" THEN code ELSE [code EXCEPT ![c] = "used"]
    /\ UNCHANGED <<factor, batch, round>>

FactorNext == \/ BeginTwoFactor \/ DisableTwoFactor
              \/ \E new \in SUBSET Codes : ConfirmTwoFactor(new)
              \/ \E r \in Logins : UseCode(r) \/ \E c \in Codes : FindCode(r, c)

FactorSpec == FactorInit /\ [][FactorNext]_factorVars

----------------------------------------------------------------------------
\* The codes that work are those of the last confirmation: the printed sheet of
\* an earlier authenticator is worth nothing (confirmTwoFactor, disableTwoFactor).
OneSetOfCodes == \A c \in Codes : code[c] = "open" => factor # "off" /\ batch[c] = round

\* A recovery code is a credential: a sign-in passes only with one it found unused,
\* and no code is good again.  Two that both found it unused may both pass, since
\* it is marked used without being looked at again (auth.service.ts:49 login).
Coded == INSTANCE Credentials WITH
    Creds <- Codes, Bearers <- Logins, NoCred <- NoCode,
    Unopened <- "account", Opened <- {}, Accounts <- {"account"}, Erased <- {},
    standing <- [c \in Codes |-> IF code[c] = "none" THEN "unissued"
                                 ELSE IF code[c] = "open" THEN "good" ELSE "void"],
    held <- login, account <- "account"

CodesAreCredentials == Coded!CredSpec /\ []OneSetOfCodes
=============================================================================
