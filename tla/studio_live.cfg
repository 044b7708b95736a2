\* Every accepted request ends.
SPECIFICATION FairSpec
CONSTANTS
    u1 = u1
    u2 = u2
    e1 = e1
    e2 = e2
    NaN = NaN
    NoValue = NoValue
    NoProposal = NoProposal
    NoUser = NoUser
    NoEditor = NoEditor
    Users = {u1}
    Editors = {e1, e2}
    Exporters = {}
    Mappers = {m1}
    Fields <- MCOneField
    Numbers <- MCNumbers
    Accepts <- MCAccepts
    RequiredFields <- MCOneField
    Condition <- MCCondition
    Relations <- MCNoRelations
    Proposals = {"p_total"}
    PField <- MCPField
    PValue <- MCPValue
    Confident = {"p_total"}
    Kinds = {"xbrl", "gap_pdf"}
    Lifetime = 1
    MaxTime = 0
    MaxRevision = 1
    MaxExports = 0
PROPERTIES
    RequestsEnd
