\* Two calls at once; Keycloak adds and removes the key at any time.
SPECIFICATION Spec
SYMMETRY Symmetry
CONSTANTS
    Calls = {c1, c2}
    Keys = {k1}
    Tokens <- AllTokens
    Ttl = 2
    Patience = 1
    NotJSON = NotJSON
    MaxTime = 4
INVARIANTS
    AcceptedWasPublished
    RefusedWasUnpublished
CHECK_DEADLOCK FALSE
