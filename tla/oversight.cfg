SPECIFICATION FairSpec
CONSTANTS
    Reviews = {v1}
    Runs = {t1, t2}
    NoReview = NoReview
    MaxFindings = 1
    Readers = {g1}
    Reviewers = {h1, h2}
    Unnamed = {h2}
    Nobody = Nobody
    ListLimit = 1
CHECK_DEADLOCK FALSE
INVARIANTS ViewsAreSound ShownFindingIsExplained
PROPERTIES FirstDecisionIsFinal EntryIsDecided
