\* A reviewer, a publication and two rebuilds.
SPECIFICATION Spec
CONSTANTS
    r1 = r1
    r2 = r2
    w1 = w1
    w2 = w2
    Fields <- MCEnergy
    Mapped <- MCEnergy
    Families = {"p1", "p6"}
    Family <- MCFamily
    Seeded = {"p6"}
    Reviewed = 49
    Target = 98
    Reviewers = {r1}
    Publishers = {p1}
    Workers = {w1, w2}
    Extractors = {x1}
    MaxVersion = 2
    MaxExtracted = 1
    MaxStores = 1
    MaxParses = 1
    MaxPins = 2
    Rejectable = {"energy"}
    MaxQueue = 1
SYMMETRY Symmetry
INVARIANTS
    SettledMetricsAreCurrent
    MetricsHaveLineage
