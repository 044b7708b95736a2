\* Two reviewers, a publication and an extraction that overlap.
SPECIFICATION Spec
CONSTANTS
    r1 = r1
    r2 = r2
    w1 = w1
    w2 = w2
    Fields <- MCEnergy
    Mapped <- MCEnergy
    Families = {"p1", "p6"}
    Family <- MCFamily
    Seeded = {"p6"}
    Reviewed = 49
    Target = 98
    Reviewers = {r1, r2}
    Publishers = {p1}
    Workers = {}
    Extractors = {x1}
    MaxVersion = 3
    MaxExtracted = 1
    MaxStores = 2
    MaxParses = 2
    MaxPins = 9
    Rejectable = {}
    MaxQueue = 0
SYMMETRY Symmetry
INVARIANTS
    PublishedIsReviewed
    PinsAreQualified
PROPERTIES
    PublicationIsExact
