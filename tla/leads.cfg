\* Two users of one organisation, two sessions of any kind at once.
SPECIFICATION Spec
CONSTANTS
    u1 = u1
    u2 = u2
    o1 = o1
    s1 = s1
    s2 = s2
    Users = {u1, u2}
    Browsers = {b1}
    Nobody = Nobody
    NoOrg = NoOrg
    Orgs = {o1}
    Org <- MCOrg
    Names <- MCNames
    DeepDive = "deepdive"
    Weight <- MCWeight
    MaxOccurrences <- MCMaxOccurrences
    WindowDays = 0
    Threshold = 2
    SuppressionDays = 0
    FallbackScore = 2
    RetentionDays = 0
    Sessions = {s1, s2}
    MaxLeads = 2
    MaxActs = 2
    MaxSessions = 2
    MaxDay = 1
SYMMETRY Symmetry
INVARIANTS
    TypeOK
    RoutedLeadsWereSent
    OrganisationsAreSuppressed
    OneOpenLead
    EventsAreAccounted
CHECK_DEADLOCK FALSE
