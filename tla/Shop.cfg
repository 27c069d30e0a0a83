SPECIFICATION ShopSpec
CONSTANTS
    x1 = x1
    x2 = x2
    x3 = x3
    y1 = y1
    y2 = y2
    Categories <- ThreeThings
    Movers <- TwoPeople
    Root = "none"
    Bought <- TwoThings
    Voters <- OneVoter
    Moderators <- TwoPeople
    Entries <- ThreeThings
    Tabs <- TwoPeople
    NewEntry = "new"
    Pictures <- ThreeThings
    NoPicture = "none"
    MaxListed = 3
    Names <- TwoThings
    Values <- TwoPeople
    VariantIds <- TwoThings
    New = "new"
    Variants <- TwoThings
    MaxUnits = 2
    Wishes <- TwoThings
    Calls <- TwoPeople
    NoItem = "none"
    Prices <- SomePrices
    MaxQuantity = 2
    MaxLines = 2
    Coupons <- SomeCoupons
    Rates <- SomeRates
    Hundred = 100
    Shippings <- OneShipping
    Requests <- TwoPeople
    Attempts = 2
    MaxStalls = 1
    Unset = "unset"
    MaxTyped = 2
    Details <- DetailTexts
    Photos <- PhotoFiles
    Nothing = "none"
SYMMETRY Symmetry
INVARIANTS OneDefaultAddress GalleryIsSound CheckoutIsOrderly MovedOnce MoneyAddsUp ProfileSettles
           LettersTellTheOrder CopiesAreCounted
PROPERTIES LoneMoveKeepsTree AggregatesAreExact VariantsAreKept StepIsExact ClicksAreMeant
CHECK_DEADLOCK FALSE
