SPECIFICATION Spec
CONSTANTS
    j1 = j1
    j2 = j2
    lan = lan
    mac = mac
    web = web
    p1 = p1
    p2 = p2
    odd = odd
    vdomPolicy = vdomPolicy
    dmzPolicy = dmzPolicy
    n1 = n1
    n2 = n2
    t1 = t1
    i1 = i1
    ObjectKinds <- Kinds
    Sides = {"srcaddr", "service"}
    Ids = {p1, p2}
    Odd = {odd}
    Ours = vdomPolicy
    Others = {dmzPolicy}
    PolicyNames = {n1, n2}
    Texts = {t1}
    Interfaces = {i1}
    AnyIntf = AnyIntf
    NoIntf = NoIntf
    Generated = Generated
    Retyped = Retyped
    Absent = Absent
    Jobs <- Slots
    ProtectOnDelete = TRUE
    InitialWorlds <- Worlds
    DeviceEdits <- DeviceChanges
    RowEdits <- RowChanges
    MaxEdits = 1
    MaxRuns = 2
SYMMETRY Symmetry
INVARIANTS SyncInvariant PullMirrorsPolicies PushMirrorsRules AbortsAreExplained
PROPERTIES PushKeepsUnsent ImplementsSyncJob
CHECK_DEADLOCK FALSE
