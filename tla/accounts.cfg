\* Three users, one organisation of at most three seats, and two requests at once.
SPECIFICATION Spec
CONSTANTS
    Users = {u1, u2, u3}
    Orgs = {o1}
    Requests = {r1, r2}
    Nobody = Nobody
    MaxTokens = 4
    MaxInvites = 2
    MaxSeats = 3
CONSTRAINT TokensOrOrganisations
SYMMETRY Symmetry
INVARIANTS
    TypeOK
    OneLiveTokenPerFamily
    ReuseEndsTheFamily
    MembershipsWereAccepted
    SeatsSuffice
CHECK_DEADLOCK FALSE
