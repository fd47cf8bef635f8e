SPECIFICATION Spec
CONSTANTS
    Null = Null
    Statuses = {"generated", "verified"}
    Queries <- UntilQuery
    Limit = 2
    Milli = 2
    MaxTime = 3
INVARIANT DatesInclusive
CHECK_DEADLOCK FALSE
