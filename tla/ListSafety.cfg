SPECIFICATION Spec
CONSTANTS
    Null = Null
    Statuses = {"generated", "verified"}
    Queries <- SomeQueries
    Limit = 2
    Milli = 2
    MaxTime = 5
INVARIANTS
    TypeOK
    NoneMissed
    PageWithinTotal
CHECK_DEADLOCK FALSE
