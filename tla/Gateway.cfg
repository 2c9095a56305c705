SPECIFICATION Spec
CONSTANTS
    None = None
    ItemCount = 2
    h = h
    r = r
    b = b
    mt = mt
    em = em
    self1 = self1
    self2 = self2
    x3p = x3p
    psy1 = psy1
    psy2 = psy2
    net1 = net1
    Module = {h, r, b}
    Home = {h, b}
    Roaming = {r, b}
    HomePm = h
    RoamingPm = r
    Masks = {{}, {1}, {1, 2}}
    Broken = {r}
    NetSession = {mt, em}
    Owner <- MCOwner
    Emergency = {em}
    SetSession = {self1, self2, x3p, psy1, psy2, net1}
    Client <- MCClient
    Scenes <- MCScenes
    MaxCalls <- MCMaxCalls
INVARIANTS
    TypeOK
    InOrder
    EmergencyOnce
    AgpsUpToDate
    PrivacyRequestKept
    CancelsReachTheirModule
    OneSetLoaded
PROPERTIES
    EverythingIsRead
CHECK_DEADLOCK FALSE
