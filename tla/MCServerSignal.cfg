\* Does a signal end the server?
CONSTANTS
    Requests = {r1, r2}
    Result = Result
SPECIFICATION Spec
PROPERTY SignalEnds
CHECK_DEADLOCK FALSE
