\* One editor request and two concurrent exports, no proposals.
SPECIFICATION Spec
CONSTANTS
    u1 = u1
    u2 = u2
    e1 = e1
    e2 = e2
    NaN = NaN
    NoValue = NoValue
    NoProposal = NoProposal
    NoUser = NoUser
    NoEditor = NoEditor
    Users = {u1}
    Editors = {e1}
    Exporters = {x1, x2}
    Mappers = {}
    Fields <- MCOneField
    Numbers <- MCNumbers
    Accepts <- MCAccepts
    RequiredFields <- MCOneField
    Condition <- MCCondition
    Relations <- MCNoRelations
    Proposals = {}
    PField <- MCPField
    PValue <- MCPValue
    Confident = {}
    Kinds = {"xbrl", "gap_pdf"}
    Lifetime = 1
    MaxTime = 0
    MaxRevision = 1
    MaxExports = 1
SYMMETRY Symmetry
INVARIANTS
    DownloadsPassedGate
    FreshUnlessRaced
CHECK_DEADLOCK FALSE
