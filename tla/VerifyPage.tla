----------------------------- MODULE VerifyPage -----------------------------
(***************************************************************************)
(* The page a verification mail links to: it posts the token of its        *)
(* address by itself, offers a form for one where the address has none,    *)
(* and a new mail where it failed (apps/web verify-email-client.tsx).  A   *)
(* link confirms the address of the account or moves it to a new one; the  *)
(* server reads the token, then applies it.  What is verified is module    *)
(* Accounts.                                                               *)
(***************************************************************************)
EXTENDS Naturals

CONSTANTS Tokens,     \* tokens mailed to this customer
          NoToken,
          MaxEffects  \* how often the effect is run: twice under React's StrictMode

ASSUME VerifyPageAssumption == NoToken \notin Tokens /\ MaxEffects \in Nat

VARIABLES screen,    \* "verifying", "success", "error" or "manual"
          linked,    \* the token in the page's address
          runs,      \* runs of the effect
          fired,     \* hasTriggeredRef
          posts,     \* requests in flight: kind, token, and how far the server got
          mailed,    \* tokens by state
          purpose,   \* their type: EMAIL_VERIFY or EMAIL_CHANGE
          verified,  \* emailVerifiedAt of the account
          mine,      \* a post of this page was applied
          lost       \* an answer that was no refusal was lost

verifyVars == <<screen, linked, runs, fired, posts, mailed, purpose, verified, mine, lost>>

TokenStates == {"unsent", "open", "used", "expired"}
Purposes    == {"verify", "change"}

VerifyInit == /\ screen = "verifying" /\ runs = 0 /\ fired = FALSE
              /\ linked \in Tokens \cup {NoToken}
              /\ posts = {}
              /\ mailed \in [Tokens -> TokenStates]
              /\ purpose \in [Tokens -> Purposes]
              /\ linked # NoToken => mailed[linked] # "unsent"
              /\ verified \in BOOLEAN
              /\ mine = FALSE /\ lost = FALSE

Posted(kind, t) == posts' = posts \cup {[kind |-> kind, token |-> t, run |-> runs, answer |-> "none"]}

ServerIdle == UNCHANGED <<mailed, purpose, verified, mine>>
PageIdle   == UNCHANGED <<screen, linked, runs, fired, lost>>

----------------------------------------------------------------------------
\* Mutant: without the ref the second run posts the token again.
FireOnce_EachRun == TRUE

FireOnce == ~fired

\* The effect, run at once after mounting, as often as React runs it.
Effect ==
    /\ runs < MaxEffects /\ runs' = runs + 1
    /\ IF linked # NoToken /\ FireOnce
       THEN fired' = TRUE /\ screen' = "verifying" /\ Posted("auto", linked)
       ELSE /\ screen' = IF linked = NoToken THEN "manual" ELSE screen
            /\ UNCHANGED <<fired, posts>>
    /\ ServerIdle /\ UNCHANGED <<linked, lost>>

Mounted == runs = MaxEffects

\* handleManualSubmit: the form of a page without a token, one post at a time.
SubmitManual(t) ==
    /\ Mounted /\ screen = "manual" /\ posts = {} /\ mailed[t] # "unsent"
    /\ Posted("manual", t)
    /\ ServerIdle /\ PageIdle

\* handleResend, on the two screens that have the form.  A verified account gets no
\* mail; a new token withdraws the unused ones of its type, which marks them used.
Resend(t) ==
    /\ Mounted /\ screen \in {"error", "manual"} /\ ~verified
    /\ mailed[t] = "unsent" /\ purpose[t] = "verify"
    /\ mailed' = [u \in Tokens |-> IF u = t THEN "open"
                                   ELSE IF purpose[u] = "verify" /\ mailed[u] # "unsent"
                                        THEN "used" ELSE mailed[u]]
    /\ PageIdle /\ UNCHANGED <<posts, purpose, verified, mine>>

----------------------------------------------------------------------------
Answered(p, a) == posts' = (posts \ {p}) \cup {[p EXCEPT !.answer = a]}

\* What reading the token says: a used one is as good as an open one if all it was
\* for, the account being verified, is so.
Found(t) == CASE mailed[t] = "open"                                       -> "found"
              [] mailed[t] = "used" /\ purpose[t] = "verify" /\ verified -> "verified"
              [] OTHER                                                    -> "refused"

VerifyReads(p) == /\ p \in posts /\ p.answer = "none"
                  /\ Answered(p, Found(p.token))
                  /\ ServerIdle /\ PageIdle

\* The transaction applies what was found, whatever became of the token since; an
\* address somebody else has by now is refused.
VerifyWrites(p) ==
    /\ p \in posts /\ p.answer = "found"
    /\ \/ /\ Answered(p, "verified") /\ mine' = TRUE /\ verified' = TRUE
          /\ mailed' = [mailed EXCEPT ![p.token] = "used"]
       \/ /\ purpose[p.token] = "change" /\ Answered(p, "refused")
          /\ UNCHANGED <<mine, verified, mailed>>
    /\ PageIdle /\ UNCHANGED purpose

Answer(p) ==
    /\ Mounted /\ p \in posts /\ p.answer \in {"verified", "refused"}
    /\ posts' = posts \ {p}
    /\ screen' = IF p.answer = "verified" THEN "success" ELSE "error"
    /\ ServerIdle /\ UNCHANGED <<linked, runs, fired, lost>>

\* What the server goes on to do with a post the page has given up is UsedElsewhere.
PostLost(p) ==
    /\ Mounted /\ p \in posts
    /\ posts' = posts \ {p} /\ screen' = "error"
    /\ lost' = (lost \/ p.answer # "refused")
    /\ ServerIdle /\ UNCHANGED <<linked, runs, fired>>

\* Another device opens the link or asks for a new one, or the token expires; Google
\* signs the customer in, which verifies the account without a token.
UsedElsewhere(t) ==
    /\ \/ mailed[t] = "open" /\ mailed' = [mailed EXCEPT ![t] = "used"] /\ verified' = TRUE
       \/ /\ mailed[t] \in {"open", "expired"} /\ mailed' = [mailed EXCEPT ![t] = "used"]
          /\ UNCHANGED verified
       \/ mailed[t] = "open" /\ mailed' = [mailed EXCEPT ![t] = "expired"] /\ UNCHANGED verified
       \/ verified' = TRUE /\ UNCHANGED mailed
    /\ PageIdle /\ UNCHANGED <<posts, purpose, mine>>

VerifyNext == \/ Effect
              \/ \E t \in Tokens : SubmitManual(t) \/ Resend(t) \/ UsedElsewhere(t)
              \/ \E p \in posts : VerifyReads(p) \/ VerifyWrites(p) \/ Answer(p) \/ PostLost(p)

VerifySpec == VerifyInit /\ [][VerifyNext]_verifyVars

----------------------------------------------------------------------------
\* However often the effect is run, the customer is never told that her link is bad by
\* the page that has just applied it, and told of success only with a verified account,
\* for a link to a new address only if this page has moved the account to it (the
\* effect, handleManualSubmit; verifyEmail).  The ref is what holds it for links to a
\* new address: a used link of the other type is answered with success
\* (auth.service.ts:76-80), so there a second post would do no harm.
NoFalseAlarm ==
    /\ screen = "error" /\ ~lost => ~mine
    /\ screen = "success" => verified
    /\ screen = "success" /\ linked # NoToken => purpose[linked] = "verify" \/ mine
=============================================================================
