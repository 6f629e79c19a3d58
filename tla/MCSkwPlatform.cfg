SPECIFICATION Spec
CONSTANTS
    PortLength = 4
    MaxPacket = 2
    MaxBytes = 5
    MaxSends = 2
    MaxOpens = 2
    MaxRegFaults = 1
    MaxOps = 2
    MaxAsserts = 2
    MaxBindOps = 5
    MaxPac = 1
    MaxSg = 2
    MaxPackets = 2
    MaxLinkSends = 2
    MaxSuspends = 1
    MaxLinkFaults = 1
    RxUrbs = 2
    TxUrbs = 1
    MaxUsbPm = 2
    MaxUsbFaults = 2
    MaxUsbSends = 2
    Block = 8
    HeaderSize = 2
    DlMps = 12
    ImageSize = 18
    MaxUsbOps = 2
    MaxUsbDeaths = 2
    NvPages = 1
    MaxBtOps = 4
    MaxBtFaults = 2
    MaxRemoves = 1
    LogLimit = 2
    PacketSize = 2
    MaxLogPackets = 3
    MaxLogOpens = 2
    Files = {F, G, H}
    MaxProbes = 2
    MaxUcomOps = 3
    MaxUcomAsserts = 1
    LogSettings <- MCLogSettings
    LogErrors = 1
    MaxLogOps = 4
    MaxTurns = 2
    DumpReaders = {1, 2}
    Pieces = 2
    Room = 2
    MaxDeaths = 2
    MaxDumpReads = 1
    MaxBootProbes = 2
    MaxBootCalls = 2
INVARIANTS ReceiversServed FirmwareAgrees PlatformSound DevicesSound
PROPERTY RingIsChannel
CHECK_DEADLOCK FALSE
VIEW RunningPart
