SPECIFICATION Spec
CONSTANTS
    Users = {u, v, w}
    Groups = {g}
    Calls = {c1, c2}
    Faults = TRUE
    None = None
SYMMETRY Symmetry
INVARIANTS OneOwner OnlyMembersHear HubKnowsMembers
CHECK_DEADLOCK FALSE
