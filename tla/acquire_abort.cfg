\* A batch of two companies.
SPECIFICATION Spec
CONSTANTS
    c1 = c1
    c2 = c2
    s1 = s1
    s2 = s2
    Companies = {c1, c2}
    Indices <- MCIndices
    Names = {"report"}
    Contents = {"v1", "v2"}
    Instances = {"v1", "v2"}
    Identified = {"v2"}
    Listings <- MCListings
    TargetFY = 2025
    Sessions = {s1}
    Corpora <- MCCorpora
    Limits = {1, 2}
    Starts = {Default, 1}
    Default = Default
    MaxAttempts = 2
    MaxSessions = 2
    Touched = {}
    Brought = {"v1", "v2"}
INVARIANTS
    FailureDoesNotAbortBatch
CHECK_DEADLOCK FALSE
