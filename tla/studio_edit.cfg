\* Two users, two concurrent editor requests, mapping; no exports.
SPECIFICATION Spec
CONSTANTS
    u1 = u1
    u2 = u2
    e1 = e1
    e2 = e2
    NaN = NaN
    NoValue = NoValue
    NoProposal = NoProposal
    NoUser = NoUser
    NoEditor = NoEditor
    Users = {u1, u2}
    Editors = {e1, e2}
    Exporters = {}
    Mappers = {m1}
    Fields <- MCFields
    Numbers <- MCNumbers
    Accepts <- MCAccepts
    RequiredFields <- MCFields
    Condition <- MCCondition
    Relations <- MCRelations
    Proposals <- MCProposals
    PField <- MCPField
    PValue <- MCPValue
    Confident <- MCProposals
    Kinds = {"xbrl", "gap_pdf"}
    Lifetime = 1
    MaxTime = 1
    MaxRevision = 1
    MaxExports = 0
SYMMETRY Symmetry
INVARIANTS
    TypeOK
    StoredAnswersValid
    AIAnswersDecided
    DecisionsReachAnswers
PROPERTIES
    WritesAreLeased
