SPECIFICATION Spec
CONSTANTS
    None = None
    Users = {u1, u2, u3}
    Names = {"ana", "Ana", "bob"}
    Fold <- MCFold
    Invites = {i1}
    Subs = {g1}
    First <- MCFirst
    Given = {"ADMIN", "USER"}
    Slots = {s1, s2}
    MaxAttempts = 2
    MaxActs = 3
INVARIANTS
    AdminRemains
    SignUpsAreExclusive
    SessionsEnd
    BannedServersStop
SYMMETRY Symmetry
CHECK_DEADLOCK FALSE
