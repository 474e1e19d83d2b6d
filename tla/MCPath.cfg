CONSTANTS
    Width = 2
    MaxCIDRs = 2
    Documents <- MCDocuments
    Environments <- MCEnvironments
    PortFloor = 1
    ReservedRelayPorts = {2, 6}
    MaxPort = 9
    MaxUint32 = 15
    DefaultGuards <- MCGuards
    MaxGuardValue = 10
    Sources = {0, 2, 3}
    SetSize = 2
    Timeout = 2
    KernelBurst = 2
    MaxTicks = 3
SPECIFICATION Spec
INVARIANTS
    AclExact
    AggregateHolds
    FloodContained
    LimitsHold
PROPERTY DeniedLeavesNoTrace
