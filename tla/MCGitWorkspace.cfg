SPECIFICATION MCSpec
CONSTANTS
    e1 = e1
    e2 = e2
    e3 = e3
    e4 = e4
    k1 = k1
    k2 = k2
    k3 = k3
    i1 = i1
    i2 = i2
    NoInstallation = NoInstallation
    Fixed = NoInstallation
    Events <- MCEvents
    Keys <- MCKeys
    KeyOf <- MCKeyOf
    Installations <- MCInstallations
    InstallationOf <- MCInstallationOf
    Lifetime = 3
    Margin = 2
    Latency = 1
    MaxClock = 4
INVARIANTS
    TypeOK
    ActsForItsInstallation
    MarginIsGuaranteed
    WorkspaceIsStable
