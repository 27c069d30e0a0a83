SPECIFICATION RolesSpec
CONSTANTS
    u1 = u1
    u2 = u2
    r1 = r1
    r2 = r2
    Staff <- TwoUsers
    Custom <- OneCustom
    Admin = "ADMIN"
    Super = "SUPER_ADMIN"
    Edits <- TwoEdits
SYMMETRY Symmetry
INVARIANT LastSuperAdmin
CHECK_DEADLOCK FALSE
