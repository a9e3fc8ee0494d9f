SPECIFICATION Spec
CONSTANTS
    wan = wan
    guest = guest
    inner = inner
    root = root
    cust = cust
    d1 = d1
    d2 = d2
    x = x
    lab = lab
    site = site
    Host = fgt
    Ifaces = {wan, guest, inner}
    Seqs = {999, 1000}
    Vdoms = {root, cust}
    RootVdom = root
    VlanIds = {10, 20}
    Hosts = {1, 2}
    Masks = {16, 24}
    Scopes = {lab, site}
    Dests = {d1, d2}
    Gateway = gw
    Texts = {x}
    None = None
    Absent = Absent
    InitialWorlds <- Worlds
    DeviceEdits <- OnDevice
    RowEdits <- InNautobot
    MaxEdits = 1
    MaxRuns = 2
PROPERTY PullIsAdditive
CHECK_DEADLOCK FALSE
