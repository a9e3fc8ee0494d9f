SPECIFICATION Spec
CONSTANTS
    s1 = s1
    s2 = s2
    a1 = a1
    a2 = a2
    g1 = g1
    g2 = g2
    v1 = v1
    v2 = v2
    h1 = h1
    w1 = w1
    m1 = m1
    c1 = c1
    k1 = k1
    Values = {v1, v2}
    Stored <- HostsAsSubnets
    Unsendable = Unsendable
    Opaque = {m1}
    StandIn <- Placeholder
    Annotate <- Annotated
    Unsupported = Unsupported
    Comments = {c1, k1}
    NoComment = NoComment
    Absent = Absent
    Scopes = {s1, s2}
    AddrNames = {a1}
    GrpNames = {g1}
    Jobs = {j1}
    ProtectOnDelete = FALSE
    ClientScope <- OneHost
    InitialWorlds <- TwoScopes
    MaxEdits = 0
    MaxRuns = 2
INVARIANT PullReadsItsVdom
CHECK_DEADLOCK FALSE
