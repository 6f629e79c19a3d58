SPECIFICATION Spec
CONSTANTS
    Bss = {A, B}
    MaxAuthRetry = 1
    MaxAssocRetry = 1
    MaxRedo = 1
    MaxStaOps = 2
    Stas = {X, Y}
    MaxStas = 2
    LastAid = 2
    MaxApOps = 6
    Slots = {0, 1}
    MaxLifeOps = 4
    MaxDeaths = 2
    MaxChips = 2
    SnSpace = 16
    BufSize = 1
    FirstFrame = 14
    LastFrame = 19
    Amsdus = {16}
    MaxBaOps = 2
    EventSpace = 8
    MaxEvents = 3
    MaxRestarts = 1
    FragEntries = 2
    Messages = 3
    KeyIdx = {0, 1}
    MaxBufKeys = 2
    MaxKeyOps = 4
    MaxKeyFaults = 2
    Aps = {"wlan0", "wlan1"}
    Chans = {52, 100}
    PriMin = 3
    PriMax = 5
    Tolerance = 1
    Ppb = 4
    PpbThresh = 3
    TsWrap = 16
    MaxDfsOps = 3
    MaxPulses = 4
    TdlsChans = {2412, 5180, 5500}
    MaxChannels = 2
    MaxTdlsOps = 5
    MaxTdlsFaults = 1
INVARIANTS ClientsAgree DeliveredInOrder KeysAgree RadioObeys WifiConsistent
PROPERTIES BoundUntilTorn RecoveryTells
CHECK_DEADLOCK FALSE
