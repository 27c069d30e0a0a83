----------------------------- MODULE AddressBook -----------------------------
(***************************************************************************)
(* The addresses of one customer and her default one (account.service.ts   *)
(* addAddress, editAddress, removeAddress; apps/web addresses.tsx).  A     *)
(* transaction that makes an address the default clears the others first:  *)
(* that update locks the customer's addresses in MySQL until the commit,   *)
(* so a second such transaction waits.  Default shipping and default       *)
(* billing are treated alike; one is modelled.                             *)
(***************************************************************************)
EXTENDS FiniteSets, Naturals

CONSTANTS Entries,  \* rows of Address
          Tabs,     \* tabs of the customer, each with one form
          NewEntry     \* the form of a new address

ASSUME AddressBookAssumption == NewEntry \notin Entries

VARIABLES entry,     \* rows that exist
          defaulted, \* rows with isDefaultShipping
          tab        \* "list", a form open on an entry, or a transaction

addressVars == <<entry, defaulted, tab>>

AtList == [at |-> "list", on |-> NewEntry, default |-> FALSE, cleared |-> {}]

AddressInit == /\ entry = {} /\ defaulted = {}
               /\ tab = [t \in Tabs |-> AtList]

Locked == \E t \in Tabs : tab[t].at = "cleared"

\* The form keeps the address as it was listed when it was opened.
EditForm(t, e, default) ==
    /\ tab[t] = AtList /\ e \in entry \cup {NewEntry}
    /\ e \in entry => (default <=> e \in defaulted)
    /\ tab' = [tab EXCEPT ![t] = [AtList EXCEPT !.at = "form", !.on = e, !.default = default]]
    /\ UNCHANGED <<entry, defaulted>>

TickDefault(t) == /\ tab[t].at = "form"
                  /\ tab' = [tab EXCEPT ![t].default = ~@]
                  /\ UNCHANGED <<entry, defaulted>>

Cancel(t) == /\ tab[t].at = "form"
             /\ tab' = [tab EXCEPT ![t] = AtList]
             /\ UNCHANGED <<entry, defaulted>>

\* The rows a save that sets the default clears.  Mutant: a new address clears none.
Cleared_EditOnly(t) == IF tab[t].on = NewEntry THEN {} ELSE defaulted \ {tab[t].on}

Cleared(t) == defaulted \ {tab[t].on}

ClearDefaults(t) ==
    /\ tab[t].at = "form" /\ tab[t].default /\ ~Locked
    /\ tab[t].on \in entry \cup {NewEntry}
    /\ tab' = [tab EXCEPT ![t].at = "cleared", ![t].cleared = Cleared(t)]
    /\ UNCHANGED <<entry, defaulted>>

\* The row itself, and the commit.  An update of a locked row waits; an address
\* that was removed meanwhile is not found.
SaveAddress(t, e) ==
    /\ tab[t].at = "cleared" \/ (tab[t].at = "form" /\ ~tab[t].default /\ ~Locked)
    /\ IF tab[t].on = NewEntry THEN e \notin entry ELSE e = tab[t].on /\ e \in entry
    /\ entry' = entry \cup {e}
    /\ defaulted' = (defaulted \ (tab[t].cleared \cup {e})) \cup {d \in {e} : tab[t].default}
    /\ tab' = [tab EXCEPT ![t] = AtList]

\* The transaction is rolled back and the form stays open.
SaveRollsBack(t) == /\ tab[t].at = "cleared"
                /\ tab' = [tab EXCEPT ![t].at = "form", ![t].cleared = {}]
                /\ UNCHANGED <<entry, defaulted>>

RemoveAddress(t, e) ==
    /\ tab[t] = AtList /\ e \in entry /\ ~Locked
    /\ entry' = entry \ {e}
    /\ defaulted' = defaulted \ {e}
    /\ UNCHANGED tab

AddressNext == \E t \in Tabs :
    \/ TickDefault(t) \/ Cancel(t) \/ ClearDefaults(t) \/ SaveRollsBack(t)
    \/ \E e \in Entries : SaveAddress(t, e) \/ RemoveAddress(t, e)
    \/ \E e \in Entries \cup {NewEntry}, default \in BOOLEAN : EditForm(t, e, default)

AddressSpec == AddressInit /\ [][AddressNext]_addressVars

----------------------------------------------------------------------------
\* At most one address is the default, though two tabs save one at the same time
\* from forms that were opened before (addAddress, editAddress).
OneDefaultAddress == Cardinality(defaulted) <= 1
=============================================================================
