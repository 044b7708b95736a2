\* Rebuilds of six kinds of filings; two requests and a rebuild; quotas over two periods.
SPECIFICATION Spec
CONSTANTS
    Filings <- MCFilings
    Sector <- MCSector
    Fields = {"part", "total", "turnover", "note"}
    CoreFields = {"total"}
    Additive <- MCAdditive
    Derived <- MCDerived
    Identities <- MCIdentities
    NonNegative = {"turnover"}
    Tolerance = 1
    Scale = 2
    MinimumSectorSize = 2
    SignalWeight <- MCSignalWeight
    OriginalityWeight = 20
    SharingCompanies = 2
    AssuranceWeight <- MCAssuranceWeight
    Disclosures <- MCDisclosures
    Corrections <- MCCorrections
    Queries <- MCQueries
    Tiers = {0, 1}
    MeasureTier <- MCMeasureTier
    Metered <- MCMetered
    LeastTier <- MCLeastTier
    Limit <- MCLimit
    MaxOutput = 1
    CacheTtl = 1
    Period = 2
    QuotaTtl = 2
    Requests = {r1, r2}
    Workers = {w1}
    MaxBuilds = 1
    MaxUses = 3
    MaxDocuments = 1
    MaxTokens = 4
    MaxNow = 2
ACTION_CONSTRAINT StaysInOneQuarter
SYMMETRY Symmetry
INVARIANTS
    TypeOK
    WithheldStaysUnpublished
    ComparisonsArePublished
    AnswersFitThePlan
    CachedAnswersAreCurrent
    QuotasAreKept
CHECK_DEADLOCK FALSE
