SPECIFICATION Spec
CONSTANTS
    Null = Null
    Requests = {r1}
    Sockets = {c1}
    Routes = {"one"}
    Retries = 5
    Delay = 1
INVARIANT CountedAsAnswered
CHECK_DEADLOCK FALSE
