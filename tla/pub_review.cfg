\* One reviewer and an extraction; two fields of one family.
SPECIFICATION Spec
CONSTANTS
    r1 = r1
    r2 = r2
    w1 = w1
    w2 = w2
    Fields <- MCFields
    Mapped <- MCEnergy
    Families = {"p1", "p6"}
    Family <- MCOneFamily
    Seeded = {"p6"}
    Reviewed = 49
    Target = 98
    Reviewers = {r1}
    Publishers = {}
    Workers = {}
    Extractors = {x1}
    MaxVersion = 3
    MaxExtracted = 2
    MaxStores = 0
    MaxParses = 0
    MaxPins = 2
    Rejectable = {}
    MaxQueue = 0
INVARIANTS
    TypeOK
    StatsCountDecisions
    ReviewsMatchRows
PROPERTIES
    ReviewPublishesOnTarget
CHECK_DEADLOCK FALSE
