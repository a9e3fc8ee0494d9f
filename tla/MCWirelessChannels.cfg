SPECIFICATION Spec
CONSTANTS
    j1 = j1
    j2 = j2
    corp = corp
    guest = guest
    main = main
    annex = annex
    fap1 = fap1
    fap2 = fap2
    rack = rack
    switch = switch
    look1 = look1
    look2 = look2
    low = low
    high = high
    c36 = c36
    c40 = c40
    n1 = n1
    n2 = n2
    t1 = t1
    vlanMark = vlanMark
    authMark = authMark
    Vaps = {corp, guest}
    ProfileOrder <- Order
    Slots = {1, 2}
    Serials = {fap1, fap2}
    Blanks = {rack, switch}
    Looks = {look1, look2}
    Powers = {low, high}
    Unset = Unset
    FactoryPower = low
    Channels = {c36, c40}
    ApNames = {n1, n2}
    Texts = {t1}
    Marker <- Marks
    Blank = Blank
    Absent = Absent
    Jobs = {j1}
    InitialWorlds <- AfterPull
    DeviceEdits = {}
    RowEdits <- LimitEdit
    MaxEdits = 1
    MaxRuns = 1
PROPERTIES PushKeepsChannels
CHECK_DEADLOCK FALSE
