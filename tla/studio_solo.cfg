\* One editor request and one export at a time, and mapping.
SPECIFICATION Spec
CONSTANTS
    u1 = u1
    u2 = u2
    e1 = e1
    e2 = e2
    NaN = NaN
    NoValue = NoValue
    NoProposal = NoProposal
    NoUser = NoUser
    NoEditor = NoEditor
    Users = {u1}
    Editors = {e1}
    Exporters = {x1}
    Mappers = {m1}
    Fields <- MCOneField
    Numbers <- MCNumbers
    Accepts <- MCAccepts
    RequiredFields <- MCOneField
    Condition <- MCCondition
    Relations <- MCNoRelations
    Proposals = {"p_total"}
    PField <- MCPField
    PValue <- MCPValue
    Confident = {"p_total"}
    Kinds = {"xbrl"}
    Lifetime = 1
    MaxTime = 0
    MaxRevision = 2
    MaxExports = 2
INVARIANTS
    ArtifactsAreOwn
PROPERTIES
    RevisionCountsWrites
CHECK_DEADLOCK FALSE
