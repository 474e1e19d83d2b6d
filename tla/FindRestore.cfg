CONSTANTS
    MaxID = 2
    MaxMark = 2
    MaxGeneration = 3
    MaxMappings = 2
    MaxRetirements = 2
    Keys <- MCKeys
    ValidKeys <- MCKeys
    Targets <- MCTargets
    ValidTargets <- MCTargets
    CanonicalTargets <- MCTargets
    Options <- MCOptions
    ValidOptions <- MCOptions
    RetirementIDs <- MCIDs
    KeyOf <- MCKeyOf
    TargetOf <- MCTargetOf
    AnyOption = "plain"
    FaultBudget = 2
    LossAllowed = FALSE
    Restores = TRUE
    OneShotFiles <- MCNoFiles
SPECIFICATION Spec
PROPERTY NeverReactivated
