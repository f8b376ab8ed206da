\* Pages of one row: two events of one millisecond do not fit.
SPECIFICATION Spec
CONSTANTS
    e1 = e1
    e2 = e2
    Events = {e1, e2}
    Filters <- MCFilters
    Polls = {p1, p2}
    PageLimit = 1
    MaxTime = 2
INVARIANT NoEventLostToFullPage
CHECK_DEADLOCK FALSE
