CONSTANTS
    c1 = c1
    c2 = c2
    j1 = j1
    j2 = j2
    r1 = r1
    r2 = r2
    Client = {c1, c2}
    Job = {j1}
    Request = {r1}
    Plan <- Plans
    Kinds = {"client"}
    MaxServed = 2
    MaxOps = 2
    MaxFaults = 1
SPECIFICATION Spec
PROPERTY
    EditKeepsCounts
