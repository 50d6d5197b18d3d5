CONSTANTS
    r1 = r1
    r2 = r2
    p1 = p1
    p2 = p2
    t1 = t1
    web = web
    lan = lan
    everyone = everyone
    direct = direct
    blocked = blocked
    Port = {p1, p2}
    Protocol = {"vless"}
    MultiUser = {"vless"}
    Tag = {t1}
    Direct = direct
    Blocked = blocked
    Everyone = everyone
    Dest = {web, lan}
    Template <- CatchAll
    MaxInbounds = 2
    MaxRules = 1
    Request = {r1}
    Kinds = {"create", "newOutbound", "newRule"}
    Alone = {}
    MaxOps = 3
SPECIFICATION Spec
INVARIANT
    BlockRulesFirst
