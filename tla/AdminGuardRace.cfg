\* Two guarded requests under way together.
SPECIFICATION Spec
CONSTANTS
    root = root
    ann = ann
    bob = bob
    g1 = g1
    g2 = g2
    r1 = r1
    r2 = r2
    Users <- MCUsers
    Groups <- MCGroups
    OtherNames <- MCOtherNames
    DefaultAdmin <- root
    Requests <- MCTwoRequests
    RenameSystem = FALSE
INVARIANT AdminRemains
