CONSTANTS
    r1 = r1
    r2 = r2
    p1 = p1
    p2 = p2
    t1 = t1
    web = web
    everyone = everyone
    direct = direct
    blocked = blocked
    e1 = e1
    e2 = e2
    e3 = e3
    h1 = h1
    Port = {p1, p2}
    Protocol = {"vless"}
    MultiUser = {"vless"}
    Tag = {t1}
    Direct = direct
    Blocked = blocked
    Everyone = everyone
    Dest = {web}
    Template <- CatchAll
    MaxInbounds = 2
    MaxRules = 1
    Request = {r1, r2}
    Kinds = {"create", "bulk", "edit", "enable", "disable", "delete", "deleteAll", "newOutbound", "editOutbound", "toggleOutbound", "dropOutbound", "dropOutbounds", "newRule", "editRule", "toggleRule", "dropRule", "preset"}
    Alone = {"enable", "dropOutbound", "create", "bulk", "toggleOutbound", "editRule"}
    MaxOps = 3
    Email = {e1, e2, e3}
    Editor = {h1}
    Home <- Apart
    EditKinds = {"create", "bulk", "form", "add", "rename", "remove", "delete", "deleteAll"}
    MaxEdits = 6
    MaxBoots = 1
SPECIFICATION Spec
SYMMETRY Symmetry
INVARIANTS
    TypeOK
    EnabledIsValid
    RulesApply
    RowsCoverClients
    ChangesAreNoticed
PROPERTIES
    UnboundWhenDeleted
    CountsSurvive
