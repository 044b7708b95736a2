\* Two sessions of any kind over a cohort of two companies.
SPECIFICATION Spec
CONSTANTS
    c1 = c1
    c2 = c2
    s1 = s1
    s2 = s2
    Companies = {c1, c2}
    Indices <- MCIndices
    Names = {"report"}
    Contents = {"v1", "v2", "pdf"}
    Instances = {"v1", "v2"}
    Identified = {"v2"}
    Listings <- MCListings
    TargetFY = 2025
    Sessions = {s1, s2}
    Corpora <- MCCorpora
    Limits = {1, 2}
    Starts = {Default, 1}
    Default = Default
    MaxAttempts = 2
    MaxSessions = 2
    Touched = {c1}
    Brought = {"v1", "pdf"}
INVARIANTS
    TypeOK
    ArtifactsPrecedeRows
    CursorLeavesNoGap
    CompletedRunsAddUp
    ParsedFactsAreCurrent
CHECK_DEADLOCK FALSE
