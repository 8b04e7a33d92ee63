SPECIFICATION Spec
CONSTANTS
    Tickets = {"t1", "t2", "t3", "t4", "t5", "t6"}
    account <- MCAccount
    criteria <- MCCriteria
    ttl <- MCTtl
    Criteria <- MCCriteriaOrder
    GroupSizes = {2}
    ReservationTTL = 1
    MaxQueued = 4
    MaxActive = 2
    MaxTime = 1
INVARIANTS
    AssignmentsAgree
    OldestFirst
    WithinCapacity
