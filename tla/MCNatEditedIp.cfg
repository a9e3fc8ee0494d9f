SPECIFICATION Spec
CONSTANTS
    j1 = j1
    j2 = j2
    shop = shop
    x1 = x1
    x2 = x2
    r1 = r1
    p1 = p1
    p2 = p2
    wan = wan
    t1 = t1
    t2 = t2
    Vips = {shop}
    Ips = {x1, x2}
    Ranges = {r1}
    Ports = {p1, p2}
    Interfaces = {wan}
    AnyIntf = AnyIntf
    Texts = {t1, t2}
    Container = Container
    Generated = Generated
    Retyped = Retyped
    None = None
    Absent = Absent
    Jobs = {j1}
    ProtectOnDelete = TRUE
    InitialWorlds <- AfterPull
    DeviceEdits = {}
    RowEdits <- IpEdit
    MaxEdits = 1
    MaxRuns = 1
INVARIANTS EditedIpReachesVip
CHECK_DEADLOCK FALSE
