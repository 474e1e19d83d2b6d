CONSTANTS
    MaxID = 2
    MaxMark = 2
    MaxGeneration = 4
    MaxMappings = 2
    MaxRetirements = 2
    Keys <- MCKeys
    ValidKeys <- MCKeys
    Targets <- MCTargets
    ValidTargets <- MCTargets
    CanonicalTargets <- MCTargets
    Options <- MCOptions
    ValidOptions <- MCOptions
    RetirementIDs <- MCIDs
    KeyOf <- MCKeyOf
    TargetOf <- MCTargetOf
    AnyOption = "plain"
    FaultBudget = 1
    LossAllowed = TRUE
    Restores = FALSE
    OneShotFiles <- MCNoFiles
SPECIFICATION FairSpec
PROPERTIES
    EventuallyHeld
    RetirementsComplete
    LossIsContained
