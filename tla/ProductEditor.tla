---------------------------- MODULE ProductEditor ----------------------------
(***************************************************************************)
(* A product and the form that edits it: attributes, the variants formed   *)
(* from their combinations, and the save that turns form rows into rows of *)
(* ProductVariant (apps/web product-admin-form.tsx and its edit page,      *)
(* admin.service.ts normalizeVariants, createProduct, editProduct,         *)
(* syncProductVariants).  Carts, reservations and orders refer to variants *)
(* by id.  A save that is refused for its prices, SKUs or texts changes    *)
(* nothing and is left out; so is an attribute named twice, which          *)
(* normalizeVariants refuses.                                              *)
(***************************************************************************)
EXTENDS FiniteSets, Functions

CONSTANTS Names,     \* attribute names
          Values,    \* attribute values
          VariantIds,  \* ids of ProductVariant
          New        \* the id of a form row that has none

ASSUME ProductEditorAssumption == New \notin VariantIds

VARIABLES product,  \* exists; attrs: the values of each attribute; rows of ProductVariant
          cache,    \* the product as the query cache holds it
          form      \* open; attrs and rows as typed; blank: an attribute without a name

editorVars == <<product, cache, form>>

Empty   == [x \in {} |-> {}]
Default == Empty   \* the combination of a product without attributes

\* The combinations of all attributes, none while a field is empty.
Combinations(attrs, blank) ==
    IF blank \/ DOMAIN attrs = {} \/ \E n \in DOMAIN attrs : attrs[n] = {} THEN {}
    ELSE {key \in [DOMAIN attrs -> Values] : \A n \in DOMAIN attrs : key[n] \in attrs[n]}

AllKeys == UNION {[D -> Values] : D \in SUBSET Names}

Keys(rows) == {rows[v].key : v \in DOMAIN rows}

NoProduct == [exists |-> FALSE, attrs |-> Empty, rows |-> Empty]

\* The form's state is taken from the product once, when it is mounted; the
\* variant without attributes is not shown.
Loaded(p) == LET shown == {v \in DOMAIN p.rows : p.rows[v].key # Default} IN
    [open |-> TRUE, attrs |-> p.attrs, blank |-> FALSE,
     rows |-> [key \in {p.rows[v].key : v \in shown} |->
                 LET v == CHOOSE w \in shown : p.rows[w].key = key
                 IN [id |-> v, active |-> p.rows[v].active]]]

Closed == [Loaded(NoProduct) EXCEPT !.open = FALSE]

EditorInit == product = NoProduct /\ cache = NoProduct /\ form = Closed

----------------------------------------------------------------------------
\* A form of a new product is empty.  The edit page mounts it with the cached
\* product, however old, and the answer of the query does not reach its state.
OpenForm == /\ ~form.open
            /\ form' = Loaded(cache)
            /\ UNCHANGED <<product, cache>>

Fetch == /\ product.exists
         /\ cache' = product
         /\ UNCHANGED <<product, form>>

CloseForm == form.open /\ form' = Closed /\ UNCHANGED <<product, cache>>

\* Mutant: the rows keep their ids, not their combinations.
Rebuilt_InPlace(attrs, blank) ==
    LET ids == {form.rows[key].id : key \in DOMAIN form.rows} \ {New}
        first == CHOOSE key \in Combinations(attrs, blank) : TRUE
    IN [key \in Combinations(attrs, blank) |->
          [id |-> IF key = first /\ ids # {} THEN CHOOSE v \in ids : TRUE ELSE New, active |-> TRUE]]

\* rebuildVariants: a combination that had a row keeps it, the others are new.
Rebuilt(attrs, blank) ==
    [key \in Combinations(attrs, blank) |->
        IF key \in DOMAIN form.rows THEN form.rows[key] ELSE [id |-> New, active |-> TRUE]]

Typed(attrs, blank) ==
    /\ form.open
    /\ form' = [form EXCEPT !.attrs = attrs, !.blank = blank, !.rows = Rebuilt(attrs, blank)]
    /\ UNCHANGED <<product, cache>>

\* The button adds an empty attribute and leaves the rows.
AddAttribute == /\ form.open /\ ~form.blank
                /\ form' = [form EXCEPT !.blank = TRUE]
                /\ UNCHANGED <<product, cache>>

NameAttribute(n) == /\ form.blank /\ n \notin DOMAIN form.attrs
                    /\ Typed([m \in DOMAIN form.attrs \cup {n} |->
                                IF m = n THEN {} ELSE form.attrs[m]], FALSE)

RenameAttribute(n, to) ==
    /\ n \in DOMAIN form.attrs /\ to \notin DOMAIN form.attrs
    /\ Typed([m \in (DOMAIN form.attrs \ {n}) \cup {to} |->
                form.attrs[IF m = to THEN n ELSE m]], form.blank)

ChangeValues(n, values) == /\ n \in DOMAIN form.attrs /\ values # form.attrs[n]
                           /\ Typed([form.attrs EXCEPT ![n] = values], form.blank)

RemoveAttribute(n) == /\ n \in DOMAIN form.attrs
                      /\ Typed(Restrict(form.attrs, DOMAIN form.attrs \ {n}), form.blank)

RemoveBlank == form.blank /\ Typed(form.attrs, FALSE)

ToggleActive(key) == /\ form.open /\ key \in DOMAIN form.rows
                     /\ form' = [form EXCEPT !.rows[key].active = ~@]
                     /\ UNCHANGED <<product, cache>>

----------------------------------------------------------------------------
\* normalizeVariants: every variant selects one value of every attribute.
Normal == /\ ~form.blank /\ DOMAIN form.rows # {}
          /\ \A n \in DOMAIN form.attrs : form.attrs[n] # {}
          /\ DOMAIN form.rows \subseteq Combinations(form.attrs, FALSE)

Retained == {form.rows[key].id : key \in DOMAIN form.rows} \ {New}

\* Attributes and values are upserted, never deleted.
Upserted == [n \in DOMAIN product.attrs \cup DOMAIN form.attrs |->
                (IF n \in DOMAIN product.attrs THEN product.attrs[n] ELSE {})
                \cup (IF n \in DOMAIN form.attrs THEN form.attrs[n] ELSE {})]

\* Where the rows of the form are stored: created gives the new ones their ids.
Stored(created) == [key \in DOMAIN form.rows |->
                      IF form.rows[key].id = New THEN created[key] ELSE form.rows[key].id]

\* syncProductVariants: rows with an id are updated, the others created, and
\* what the form does not list is deactivated.
Synced(created) == LET id == Stored(created) IN
    [v \in DOMAIN product.rows \cup Range(id) |->
       IF v \in Range(id)
       THEN LET key == CHOOSE k \in DOMAIN id : id[k] = v
            IN [key |-> key, active |-> form.rows[key].active]
       ELSE [product.rows[v] EXCEPT !.active = FALSE]]

\* A save with attributes.  A combination that exists under another id violates
\* the unique key and the whole transaction is refused.
SaveVariants ==
    /\ form.open /\ Normal
    /\ Retained \subseteq DOMAIN product.rows
    /\ LET fresh == {key \in DOMAIN form.rows : form.rows[key].id = New} IN
         \E created \in Injection(fresh, VariantIds \ DOMAIN product.rows) :
             product' = [exists |-> TRUE, attrs |-> Upserted, rows |-> Synced(created)]
    /\ Cardinality(Keys(product'.rows)) = Cardinality(DOMAIN product'.rows)
    /\ form' = Closed
    /\ UNCHANGED cache

\* A save without attributes sends no variants: an edit leaves them as they are,
\* a new product gets its one variant.
SavePlain ==
    /\ form.open /\ DOMAIN form.attrs = {} /\ ~form.blank
    /\ IF product.exists THEN UNCHANGED product
       ELSE \E v \in VariantIds :
               product' = [exists |-> TRUE, attrs |-> Empty,
                           rows |-> [w \in {v} |-> [key |-> Default, active |-> TRUE]]]
    /\ form' = Closed
    /\ UNCHANGED cache

\* importProducts: a product of the file is created without a variant.
ImportProduct == /\ ~product.exists
                 /\ product' = [NoProduct EXCEPT !.exists = TRUE]
                 /\ UNCHANGED <<cache, form>>

EditorNext ==
    \/ ImportProduct \/ OpenForm \/ Fetch \/ CloseForm \/ AddAttribute \/ RemoveBlank
    \/ SaveVariants \/ SavePlain
    \/ \E n \in Names :
          \/ NameAttribute(n) \/ RemoveAttribute(n)
          \/ \E to \in Names : RenameAttribute(n, to)
          \/ \E values \in SUBSET Values : ChangeValues(n, values)
    \/ \E key \in AllKeys : ToggleActive(key)

EditorSpec == EditorInit /\ [][EditorNext]_editorVars

----------------------------------------------------------------------------
\* A variant never becomes another combination: what is in a cart, reserved or
\* ordered under its id stays what the customer chose, however the attributes are
\* renamed, emptied and typed again in a form that may be stale (rebuildVariants,
\* syncProductVariants).
VariantKeepsCombination ==
    [][\A v \in DOMAIN product.rows :
          v \in DOMAIN product'.rows /\ product'.rows[v].key = product.rows[v].key]_editorVars

\* The variants on sale choose among the same attributes, so that a choice of one
\* value of each names one of them (normalizeVariants, syncProductVariants).
ActiveVariantsComparable ==
    \A v, w \in DOMAIN product.rows :
        product.rows[v].active /\ product.rows[w].active
            => DOMAIN product.rows[v].key = DOMAIN product.rows[w].key

\* A choice on the product page names one variant, today and in old carts.
VariantsAreKept == VariantKeepsCombination /\ []ActiveVariantsComparable
=============================================================================
