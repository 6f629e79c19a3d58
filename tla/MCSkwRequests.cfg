SPECIFICATION Spec
CONSTANTS
    Callers = {"netlink", "pm"}
    Pm = "pm"
    Xmit = "xmit"
    MaxCalls = 2
    MaxFaults = 1
    MaxScans = 2
    MaxFrames = 1
    Grant = 1
    RingSize = 2
    PktLimit = 2
    HighMark = 2
    LowMark = 1
    Acm = {}
    MaxSent = 2
    MaxJoins = 1
    MaxTxFaults = 1
INVARIANTS RequestsSound CreditIsRoom AnsweredOnce
PROPERTIES AsleepIsSilent CallsReturn ScanEnds FramesLeave
