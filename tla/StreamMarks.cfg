\* Two events of up to three milliseconds, pages of one row, two polls in
\* flight, subscriptions to everything or to some types.
SPECIFICATION FairSpec
CONSTANTS
    e1 = e1
    e2 = e2
    Events = {e1, e2}
    Filters <- MCFilters
    Polls = {p1, p2}
    PageLimit = 1
    MaxTime = 2
INVARIANTS TypeOK MissedOnlyForCause SentTwiceOnlyByOverlap
PROPERTY EventIsReached
CHECK_DEADLOCK FALSE
