SPECIFICATION Spec
CONSTANTS
    Readers = {r1, r2}
    Hosts <- MCHosts
    MaxRetries = 1
    MaxReads = 3
    MaxSigned = 3
    MaxVersions = 2
    MaxFaults = 2
    None = None
INVARIANTS
    PinnedBytesOnly
    AddressSound
PROPERTIES
    ReadsEnd
CHECK_DEADLOCK FALSE
