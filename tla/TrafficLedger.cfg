CONSTANTS
    c1 = c1
    c2 = c2
    j1 = j1
    j2 = j2
    r1 = r1
    r2 = r2
    Client = {c1}
    Job = {j1}
    Request = {r1, r2}
    Plan <- Metering
    Kinds = {"edit", "client", "inreset", "expire"}
    MaxServed = 1
    MaxOps = 3
    MaxFaults = 1
SYMMETRY Symmetry
SPECIFICATION Spec
INVARIANTS
    TypeOK
    NoOverCount
    DisabledIsNoticed
