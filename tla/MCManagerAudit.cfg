CONSTANTS
    c1 = c1
    c2 = c2
    i1 = i1
    i2 = i2
    Calls <- MCCalls
    ClientIds <- MCClientIds
    NoId = NoId
    BlankId = BlankId
    Types = {"", "person"}
    NoType = ""
    Bodies = {"alpha"}
    Times = {1}
    NoEntity = NoEntity
    Requests <- MCRequests
    Malformed = Malformed
    Undecodable = Undecodable
    MaxBatch = 2
    Overwrite = TRUE
    Durable = TRUE
    Auditing = TRUE
SPECIFICATION Spec
INVARIANT AuditIsTrue
CHECK_DEADLOCK FALSE
