CONSTANTS
    panel = panel
    api = api
    old = old
    r1 = r1
    r2 = r2
    u1 = u1
    u2 = u2
    d1 = d1
    d2 = d2
    b1 = b1
    b2 = b2
    x1 = x1
    w1 = w1
    w2 = w2
    a1 = a1
    k1 = k1
    first = first
    Service = {panel, api}
    Detached = old
    Request = {r1, r2}
    Updater = {u1, u2}
    MaxReloads = 1
    DiskFull = TRUE
    Domain = {d1, d2}
    Bind = {b1, b2}
    Unbind = {x1}
    Upload = {w1, w2}
    Renewal = {a1}
    Removal = {k1}
    Shipped = first
    Rewriters = TRUE
    MaxCalls = 2
SPECIFICATION Spec
INVARIANTS
    TypeOK
    LockGuardsUpdates
    BindingIsWhole
    BoundReachesXray
    DownIsComingBack
    NewPairIsNoticed
SYMMETRY Symmetry
CHECK_DEADLOCK FALSE
