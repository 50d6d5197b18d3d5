CONSTANTS
    Handler = {h1}
    Main = main
    NTables = 1
    Required = {1}
    Value = {a, b}
    Omitted = omitted
    Proc = {q1, q2}
    NoProc = noproc
    NoOne = nobody
    h1 = h1
    q1 = q1
    q2 = q2
    a = a
    b = b
    Timely = TRUE
    Reloads = FALSE
    MaxDisturb = 2
SPECIFICATION PauseSpec
INVARIANT
    StopHolds
