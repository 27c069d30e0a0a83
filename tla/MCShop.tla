-------------------------------- MODULE MCShop --------------------------------
(***************************************************************************)
(* The pages of the shop and its console and the services behind them, for *)
(* TLC: twelve modules that share no state, so focus picks the one that    *)
(* moves and the sizes add up.                                             *)
(***************************************************************************)
EXTENDS Categories, Reviews, AddressBook, Library, ProductEditor, Bag,
        CheckoutPage, Wishlist, Pricing, Console, ProfilePage, Mail, TLC

CONSTANTS x1, x2, x3, y1, y2

TwoThings   == {x1, x2}
ThreeThings == {x1, x2, x3}
TwoPeople   == {y1, y2}
OneVoter    == {x3}
DetailTexts == {"name", "new name"}
PhotoFiles  == {"photo", "new photo"}

SomePrices == {0, 1, 3}
SomeRates  == {0, 17}
Coupon(type, value, minimum, maximum, restricted) ==
    [type |-> type, value |-> value, minimum |-> minimum, maximum |-> maximum,
     restricted |-> restricted]
SomeCoupons == {Coupon("PERCENTAGE", 33, 0, 0, TRUE), Coupon("PERCENTAGE", 100, 0, 4, FALSE),
                Coupon("PERCENTAGE", 150, 0, 0, FALSE),
                Coupon("FIXED_CART", 5, 3, 0, FALSE), Coupon("FIXED_PRODUCT", 5, 0, 0, TRUE),
                Coupon("FREE_SHIPPING", 0, 0, 0, TRUE)}
OneShipping == {[base |-> 2, freeAbove |-> 6]}

VARIABLE focus

catalogVars  == <<categoryVars, reviewVars, libraryVars, editorVars>>
customerVars == <<addressVars, profileVars, wishlistVars>>
buyingVars   == <<bagVars, checkoutVars, pricingVars>>
officeVars   == <<consoleVars, mailVars>>

shopVars == <<catalogVars, customerVars, buyingVars, officeVars, focus>>

ShopInit ==
    /\ CategoriesInit /\ ReviewsInit /\ LibraryInit /\ EditorInit
    /\ AddressInit /\ ProfileInit /\ WishlistInit
    /\ BagInit /\ PageInit /\ PricingInit
    /\ ConsoleInit /\ MailInit
    /\ focus \in {"categories", "reviews", "library", "editor", "addresses", "profile",
                  "wishlist", "bag", "page", "pricing", "console", "mail"}
    \* The modules that do not move start in one state.
    /\ focus # "profile" => row = [details |-> "name", photo |-> "photo"]
    /\ focus # "bag" => served = [v \in Variants |-> 0]
    /\ focus # "console" => kind = "stock"

CatalogMove ==
    \/ /\ focus = "categories" /\ CategoriesNext
       /\ UNCHANGED <<reviewVars, libraryVars, editorVars>>
    \/ /\ focus = "reviews" /\ ReviewsNext
       /\ UNCHANGED <<categoryVars, libraryVars, editorVars>>
    \/ /\ focus = "library" /\ LibraryNext
       /\ UNCHANGED <<categoryVars, reviewVars, editorVars>>
    \/ /\ focus = "editor" /\ EditorNext
       /\ UNCHANGED <<categoryVars, reviewVars, libraryVars>>

CustomerMove ==
    \/ focus = "addresses" /\ AddressNext /\ UNCHANGED <<profileVars, wishlistVars>>
    \/ focus = "profile" /\ ProfileNext /\ UNCHANGED <<addressVars, wishlistVars>>
    \/ focus = "wishlist" /\ WishlistNext /\ UNCHANGED <<addressVars, profileVars>>

\* Another cart than the one shown: it differs in a line at most.
Near(a, b) == Cardinality({v \in Variants : a[v] # b[v]}) <= 1
BagMove == /\ focus = "bag" /\ BagNext
           /\ Near(served, served')
           /\ fetch.at = "asked" /\ fetch'.at = "read" => Near(served, fetch'.lines)

BuyingMove ==
    \/ BagMove /\ UNCHANGED <<checkoutVars, pricingVars>>
    \/ /\ focus = "page" /\ PageNext /\ Cardinality(sent') <= 2
       /\ UNCHANGED <<bagVars, pricingVars>>
    \/ focus = "pricing" /\ PricingNext /\ UNCHANGED <<bagVars, checkoutVars>>

\* The worker has one letter in its hands at a time, of the two whose ids may come twice
\* and while no other was due; and one letter dies with its request.
Handled(l) == job[l].state \notin {"none", "waiting"} \/ job[l].tries + job[l].stalls > 0
MailMove == /\ focus = "mail" /\ MailNext
            /\ LET hands == {l \in Letters : Handled(l)'}
               IN  hands # {} => /\ hands \in {{"placed"}, {"cancelled"}}
                                 /\ due' \subseteq {"placed"} \cup hands
            /\ Cardinality(died') <= 1

\* Of the statuses of an order the administrator chooses one: what a choice does to the
\* record, somebody else may do as well.
ConsoleMove == /\ focus = "console" /\ ConsoleNext
               /\ kind = "order" => chosen' \in {Unset, "CANCELLED"}

OfficeMove ==
    \/ ConsoleMove /\ UNCHANGED mailVars
    \/ MailMove /\ UNCHANGED consoleVars

ShopNext ==
    \/ CatalogMove /\ UNCHANGED <<customerVars, buyingVars, officeVars, focus>>
    \/ CustomerMove /\ UNCHANGED <<catalogVars, buyingVars, officeVars, focus>>
    \/ BuyingMove /\ UNCHANGED <<catalogVars, customerVars, officeVars, focus>>
    \/ OfficeMove /\ UNCHANGED <<catalogVars, customerVars, buyingVars, focus>>

ShopSpec == ShopInit /\ [][ShopNext]_shopVars

\* Things are alike and people are, in every module that has them.
Symmetry == Permutations({x1, x2}) \cup Permutations({y1, y2})
=============================================================================
