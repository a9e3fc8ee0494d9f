SPECIFICATION Spec
CONSTANTS
    j1 = j1
    j2 = j2
    f1 = f1
    f2 = f2
    web = web
    rsh = rsh
    web_grp = web_grp
    p1 = p1
    p2 = p2
    c1 = c1
    c2 = c2
    Hosts = {f1, f2}
    Names = {web, rsh}
    Groups = {web_grp}
    Ports = {p1, p2}
    NoPort = NoPort
    Protocols = {"HOPOPT", "TCP", "UDP"}
    Unmapped = Unmapped
    Foreign = "SMP"
    Proxied = "HTTP"
    Text = {c1, c2}
    None = None
    Absent = Absent
    Jobs <- Slots
    ProtectOnDelete = TRUE
    InitialWorlds <- Worlds
    DeviceEdits <- OnDevice
    RowEdits <- InNautobot
    MaxEdits = 1
    MaxRuns = 2
SYMMETRY Symmetry
INVARIANTS SyncInvariant PullMirrorsServices PushMirrorsPool AbortsAreExplained
PROPERTIES PushKeepsMeaning PoolKeepsOthers
CHECK_DEADLOCK FALSE
