------------------------------- MODULE Browser -------------------------------
(***************************************************************************)
(* One tab of the storefront and the admin console: who the header and the *)
(* admin layout say is signed in, what they have cached, and the ways in   *)
(* and out (apps/web header.tsx, auth-form.tsx, admin/login/page.tsx,      *)
(* admin/layout.tsx, middleware.ts, providers.tsx).  The cookies are       *)
(* shared with the other tabs, the query cache lives until a full load.    *)
(***************************************************************************)
CONSTANTS Customers, Admins,
          Guest,    \* nobody is signed in
          Unknown,  \* nothing is cached
          Menus     \* of the header's "search", "profile" and "mobile"

Users == Customers \cup Admins

ASSUME BrowserAssumption == Customers \cap Admins = {} /\ Guest \notin Users /\ Unknown \notin Users
                            /\ Menus \subseteq {"search", "profile", "mobile"}

VARIABLES cookie,    \* of: whose; access: the access token's 15 minutes are not over
          path,      \* "store", "login", "account", "admin" or "adminLogin"
          cached,    \* what the queries "profile" (header) and "identity" (layout) hold
          asked,     \* whose cookies their requests in flight carry, Unknown: none
          form,      \* the sign-in form's call: at, of
          logout,    \* the header's call
          leaving,   \* where the tab is being sent by a full load, or "stays"
          menus,     \* the header's open menus
          turned,    \* whom the console's form has turned away, or signed in over, in this tab
          disturbed  \* another tab has changed the cookies under this one's cache

tabVars == <<cookie, path, cached, asked, form, logout, leaving, menus, turned, disturbed>>

Paths   == {"store", "login", "account", "admin", "adminLogin"}
Queries == {"profile", "identity"}
NoForm  == [at |-> "idle", of |-> Guest]
NoCache == [q \in Queries |-> Unknown]
SignedOff == [of |-> Guest, access |-> FALSE]

TabInit == /\ cookie \in [of : Users, access : BOOLEAN] \cup {SignedOff}
           /\ path = "store" /\ cached = NoCache /\ asked = NoCache
           /\ form = NoForm /\ logout = FALSE /\ leaving = "stays" /\ menus = {}
           /\ turned = {} /\ disturbed = FALSE

----------------------------------------------------------------------------
\* The middleware: any of the two cookies will do.
Middleware(p) == IF cookie.of # Guest THEN p
                 ELSE CASE p = "admin" -> "adminLogin" [] p = "account" -> "login" [] OTHER -> p

HasHeader == path \notin {"admin", "adminLogin"}

\* The query a page mounts: the header's, also where it renders nothing, or the layout's.
Mounts(q) == q = "profile" \/ path = "admin"

\* Whom the API takes the tab's requests for.
Carried(c) == IF c.access THEN c.of ELSE Guest

\* Typed, reloaded, or window.location.href: the tab starts anew.
FullLoad(p) ==
    /\ leaving \in {"stays", p} /\ path' = Middleware(p)
    /\ cached' = NoCache /\ asked' = NoCache
    /\ form' = NoForm /\ logout' = FALSE
    /\ leaving' = "stays" /\ menus' = {} /\ turned' = {} /\ disturbed' = FALSE
    /\ UNCHANGED cookie

\* A link, or the back button: the cache stays and calls go on, the menus close.  From the layout
\* to /admin/login React throws for want of a hook; "Try again" renders the form.
Follow(p) ==
    /\ leaving = "stays" /\ Middleware(p) # path
    /\ path' = Middleware(p) /\ menus' = {}
    /\ UNCHANGED <<cookie, cached, asked, form, logout, leaving, turned, disturbed>>

\* On mounting, on focus, and again when what is held is old.
Ask(q) == /\ Mounts(q) /\ asked[q] = Unknown
          /\ asked' = [asked EXCEPT ![q] = Carried(cookie)]
          /\ UNCHANGED <<cookie, path, cached, form, logout, leaving, menus, turned, disturbed>>

\* An error is a guest to the header and to the layout.
Told(q, who) == /\ asked[q] # Unknown /\ who \in {asked[q], Guest}
                /\ cached' = [cached EXCEPT ![q] = who]
                /\ asked' = [asked EXCEPT ![q] = Unknown]
                /\ UNCHANGED <<cookie, path, form, logout, leaving, menus, turned, disturbed>>

----------------------------------------------------------------------------
(* The header.                                                             *)

LoggedIn == HasHeader /\ cached["profile"] \in Users

ToggleMenu(m) == /\ HasHeader
                 /\ menus' = IF m \in menus THEN menus \ {m} ELSE menus \cup {m}
                 /\ UNCHANGED <<cookie, path, cached, asked, form, logout, leaving, turned, disturbed>>

\* A click elsewhere closes the search and the profile.
ClickOutside == /\ menus \cap {"search", "profile"} # {}
                /\ menus' = menus \ {"search", "profile"}
                /\ UNCHANGED <<cookie, path, cached, asked, form, logout, leaving, turned, disturbed>>

Signing == form.at # "idle" \/ logout \/ leaving # "stays"

\* handleLogout, from the profile menu or the drawer.
ClickLogout == /\ LoggedIn /\ ~logout /\ menus \cap {"profile", "mobile"} # {}
               /\ logout' = TRUE
               /\ menus' = menus \ {"mobile"}
               /\ UNCHANGED <<cookie, path, cached, asked, form, leaving, turned, disturbed>>

\* Mutant: the router follows the link, and the cache stays.
SentTo_Router(p) == leaving' = "stays" /\ path' = p

\* window.location.href: the page is there until the load.
SentTo(p) == leaving' = p /\ UNCHANGED path

\* The answer clears the cookies, unless it is lost; the header goes on in either
\* case.  The invalidation asks the mounted queries again and drops their answers in flight.
LogoutAnswered(lost) ==
    /\ logout /\ logout' = FALSE
    /\ cookie' = IF lost THEN cookie ELSE SignedOff
    /\ cached' = [cached EXCEPT !["profile"] = Guest]
    /\ asked' = [q \in Queries |-> IF Mounts(q) THEN Carried(cookie') ELSE asked[q]]
    /\ menus' = menus \ {"profile"}
    /\ SentTo("store")
    /\ UNCHANGED <<form, turned, disturbed>>

----------------------------------------------------------------------------
(* The sign-in forms.                                                      *)

Submit(u) == /\ path \in {"login", "adminLogin"} /\ form = NoForm
             /\ form' = [at |-> path, of |-> u]
             /\ UNCHANGED <<cookie, path, cached, asked, logout, leaving, menus, turned, disturbed>>

\* The wrong password, a second factor that the form has no field for, no answer.
SubmitRefused == /\ form # NoForm /\ form' = NoForm
                 /\ UNCHANGED <<cookie, path, cached, asked, logout, leaving, menus, turned, disturbed>>

\* AuthForm: an administrator goes to the console, a customer to where she came from.
LoginAnswered(p) ==
    /\ form.at = "login"
    /\ p = "admin" <=> form.of \in Admins
    /\ cookie' = [of |-> form.of, access |-> TRUE]
    /\ form' = NoForm /\ SentTo(p)
    /\ UNCHANGED <<cached, asked, logout, menus, turned, disturbed>>

\* The admin form: a customer is signed out again and stays on the page.  No cache is
\* cleared, neither of the one who was signed in before nor of the customer.
AdminLoginAnswered ==
    /\ form.at = "adminLogin"
    /\ cookie' = [of |-> form.of, access |-> TRUE]
    /\ IF form.of \in Admins
         THEN form' = NoForm /\ SentTo("admin") /\ UNCHANGED turned
         ELSE /\ form' = [form EXCEPT !.at = "revoke"]
              /\ turned' = turned \cup ({cookie.of, form.of} \cap Users)
              /\ UNCHANGED <<leaving, path>>
    /\ UNCHANGED <<cached, asked, logout, menus, disturbed>>

\* A logout that fails is caught: the customer stays signed in.
CustomerRevoked(lost) ==
    /\ form.at = "revoke" /\ form' = NoForm
    /\ cookie' = IF lost THEN cookie ELSE SignedOff
    /\ UNCHANGED <<path, cached, asked, logout, leaving, menus, turned, disturbed>>

\* Google: the tab leaves, and is loaded again with the cookies of its account.
GoogleSignIn(u) == /\ path = "login" /\ form = NoForm
                   /\ cookie' = [of |-> u, access |-> TRUE]
                   /\ SentTo("account")
                   /\ UNCHANGED <<cached, asked, form, logout, menus, turned, disturbed>>

----------------------------------------------------------------------------
\* Fifteen minutes pass; the client never asks for new tokens.
AccessAges == /\ cookie.access /\ cookie' = [cookie EXCEPT !.access = FALSE]
              /\ UNCHANGED <<path, cached, asked, form, logout, leaving, menus, turned, disturbed>>

\* Another tab signs in or out.
OtherTabSigns(u) == /\ u # cookie.of
                    /\ cookie' = IF u = Guest THEN SignedOff ELSE [of |-> u, access |-> TRUE]
                    /\ disturbed' = TRUE
                    /\ UNCHANGED <<path, cached, asked, form, logout, leaving, menus, turned>>

TabNext ==
    \/ \E p \in Paths : FullLoad(p) \/ Follow(p) \/ LoginAnswered(p)
    \/ \E q \in Queries : Ask(q) \/ \E who \in Users \cup {Guest} : Told(q, who)
    \/ \E m \in Menus : ToggleMenu(m)
    \/ ClickOutside \/ ClickLogout
    \/ \E lost \in BOOLEAN : LogoutAnswered(lost) \/ CustomerRevoked(lost)
    \/ \E u \in Users : Submit(u) \/ GoogleSignIn(u)
    \/ SubmitRefused \/ AdminLoginAnswered
    \/ AccessAges \/ \E u \in Users \cup {Guest} : OtherTabSigns(u)

TabSpec == TabInit /\ [][TabNext]_tabVars

----------------------------------------------------------------------------
\* Whoever signs in or out in this tab by the store's form, Google or the header, the
\* header and the admin layout name nobody else afterwards, neither from the cache nor by
\* an answer that was on its way.  The console's form does not keep that up: when it turns
\* a customer away, the header may go on naming her, or who was signed in before, until
\* the tab is loaded, but it names no third one (handleLogout, AuthForm submit,
\* AdminLoginPage handleSubmit).
ShownIsSignedIn ==
    ~Signing /\ ~disturbed =>
        \A q \in Queries : cached[q] \in {Unknown, Guest, cookie.of} \cup turned
=============================================================================
