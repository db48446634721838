SPECIFICATION Spec
CONSTANTS
    None = None
    house = house
    acme = acme
    v1 = v1
    owner = owner
    member = member
    guest = guest
    d1 = d1
    Clients = {c1}
    Requests = {r1, r2}
    Domains = {d1, d2, d3, d4}
    House = house
    Customer = acme
    Visitors = {v1}
    Staff = owner
    Member = member
    Guests = {guest}
    Databases <- MCDatabases
    FreeLimit = 2
    MaxSites = 4
    MaxRoles = 1
    Sources = {gsc}
    MaxRows = 3
CONSTRAINT MCBound
SYMMETRY MCSymmetry
INVARIANTS
    TypeOK
    EmailComesFirst
    LimitOvershootBounded
    GrantStaysWithItsAccount
    DuplicatesBounded
PROPERTIES
    DisconnectHolds
CHECK_DEADLOCK FALSE
