SPECIFICATION Spec
CONSTANTS
    fs = fs
    dom = dom
    a = a
    b = b
    X = X
    Y = Y
    Z = Z
    S = S
    Q1 = Q1
    Q2 = Q2
    Q3 = Q3
    Star = Star
    Names <- Names1
    Regexes = {}
    Matches <- Matches1
    Nodes <- Nodes1
    Named = {X, Y, Z, S}
    Anonymous = {Q1, Q2, Q3}
    Accesses = {"MEMBER", "READ"}
    Scripts <- Scripts1
    MaxVs = 3
    MaxPath = 3
INVARIANTS
    MembersRight
    FailsForAReason
    HandlersMeetMembers
    RightsAsGranted
    MasksRight
    StartEnds
