SPECIFICATION Spec
CONSTANTS
    u1 = u1
    admin = admin
    unset = unset
    n1 = n1
    n2 = n2
    Accounts <- MCAccounts
    Admin = admin
    Names <- MCNames
    MaxSuffix = 2
    Ports <- MCPorts
    ChosenPorts <- MCChosenPorts
    MaxChosen = 1
    Existing = 1
    MaxServers = 1
    Unset = unset
    MaxCreations = 3
    MaxDeletions = 1
    MaxRestarts = 1
SYMMETRY MCSymmetry
INVARIANTS
    FoldersAreKept
    SharesAreHeld
CHECK_DEADLOCK FALSE
