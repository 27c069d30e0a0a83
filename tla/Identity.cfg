SPECIFICATION IdentitySpec
CONSTANTS
    s1 = s1
    s2 = s2
    l1 = l1
    l2 = l2
    r1 = r1
    r2 = r2
    a1 = a1
    a2 = a2
    p1 = p1
    p2 = p2
    u1 = u1
    u2 = u2
    Sessions <- TwoSessions
    Links <- TwoLinks
    Requests <- TwoRequests
    Addresses <- TwoAddresses
    Passwords <- TwoPasswords
    FirstPassword = p1
    MaxSecond = 2
    Codes <- TwoLinks
    Logins <- TwoRequests
    Staff <- TwoUsers
    Custom <- OneCustom
    Admin = "ADMIN"
    Super = "SUPER_ADMIN"
    Edits <- TwoRequests
    Confirmations <- TwoLinks
    Visits <- TwoRequests
    NoLink = "none"
    Customers <- OneUser
    Admins <- OneAdmin
    Guest = "guest"
    Unknown = "unknown"
    Menus <- OneMenu
    Tokens <- TwoLinks
    NoToken = "none"
    MaxEffects = 2
SYMMETRY Symmetry
INVARIANTS VerifiedMeansProven SessionsAreCurrent ShownIsSignedIn NoFalseAlarm
PROPERTIES CredentialsSpec CodesAreCredentials ConfirmationsAreCredentials RolesAreKept
CHECK_DEADLOCK FALSE
