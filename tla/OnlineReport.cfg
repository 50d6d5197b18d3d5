CONSTANTS
    u1 = u1
    u2 = u2
    e1 = e1
    e2 = e2
    User = {u1, u2}
    EmailOf <- OneEmail
    MaxLines = 2
    MaxFaults = 2
    Testing = TRUE
SPECIFICATION Spec
INVARIANTS
    TypeOK
    AckedIsTold
CHECK_DEADLOCK FALSE
PROPERTIES
    ChangesAreTold
