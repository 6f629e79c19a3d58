SPECIFICATION Spec
CONSTANTS
    Owner = Owner
    Pi = Pi
    MaxFaults = 2
INVARIANTS TypeOK LoginHasAccount DisabledIsFinished
PROPERTY SetupEnds
