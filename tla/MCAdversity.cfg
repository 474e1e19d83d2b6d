CONSTANTS
    MaxID = 1
    MaxMark = 1
    MaxGeneration = 5
    MaxMappings = 2
    MaxRetirements = 2
    Keys <- MCKeys
    ValidKeys <- MCKeys
    Targets <- MCTargets
    ValidTargets <- MCTargets
    CanonicalTargets <- MCTargets
    Options <- MCOptions
    ValidOptions <- MCOptions
    RetirementIDs <- MCIDs
    KeyOf <- MCKeyOf
    TargetOf <- MCTargetOf
    AnyOption = "plain"
    FaultBudget = 2
    LossAllowed = FALSE
    Restores = TRUE
    OneShotFiles <- MCFiles
SPECIFICATION Spec
PROPERTY ImplementsLifecycle
