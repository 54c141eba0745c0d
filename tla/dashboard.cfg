SPECIFICATION DashSpec
CONSTANTS
    Sessions = {s1, s2}
    Batches <- Requests
    MapLimit = 1
    MaxOutages = 1
SYMMETRY Symmetry
INVARIANT DashTypeOK
INVARIANT PageIsLive
INVARIANT VolumeCoversTotal
INVARIANT PageHasNoGap
PROPERTY QuietPageAgrees
