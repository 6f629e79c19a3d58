SPECIFICATION Spec
CONSTANTS
    Owner = Owner
    Pi = Pi
    MaxFaults = 1
INVARIANT DefaultOnlyIfBlank
