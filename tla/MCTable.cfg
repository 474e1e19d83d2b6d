CONSTANTS
    Width = 2
    MaxCIDRs = 2
    Plans <- PlanSet
    Guards <- DefaultGuards
    MaxEdits = 2
SPECIFICATION Spec
INVARIANTS
    VerifiedIsExact
    OwnTableVerifies
