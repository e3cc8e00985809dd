SPECIFICATION PlatformSpec
CONSTANTS
    Modules <- AllModules
    Requests <- AllRequests
    MaxCategoryOperations = 2
    MaxCategoryProjections = 2
    MaxCategoryValidations = 1
    MaxReferencedFragments = 2
    MaxCategoryCanonicalBytes = 4
    Drafts <- AllDrafts
    Pinned <- V1
    HandWritten <- AllHandWritten
    CandidateRequests <- AllCandidates
INVARIANTS
    IndexesAgree
    MountedRoutesResolve
    UsageAnswersValidate
    OpenedIsPinned
    MismatchIsReal
    ResultUnderPinnedContract
