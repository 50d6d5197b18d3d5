CONSTANTS
    Handler = {h1}
    Main = main
    NTables = 1
    Required = {1}
    Value = {a, b}
    Omitted = omitted
    Proc = {q1, q2}
    NoProc = noproc
    NoOne = nobody
    h1 = h1
    h2 = h2
    q1 = q1
    q2 = q2
    a = a
    b = b
    Timely = TRUE
    Reloads = TRUE
    MaxDisturb = 2
SPECIFICATION FairSpec
CHECK_DEADLOCK FALSE
PROPERTIES
    FlagConsumed
