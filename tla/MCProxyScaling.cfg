SPECIFICATION FairSpec
CONSTANTS
    Creators = {c1, c2}
    Configs <- MCConfigs
    MaxSandboxes = 3
    MaxStarts = 3
    MaxFaults = 1
INVARIANTS
    TypeOK
    DesiredIsLeast
    ProxyBeforeTraffic
PROPERTIES
    ReplicasSettle
    SandboxesAreServed
    EnsureReadyFindsProxy
