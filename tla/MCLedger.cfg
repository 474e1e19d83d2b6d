CONSTANTS
    MaxID = 2
    MaxMark = 3
    MaxGeneration = 4
    MaxMappings = 2
    MaxRetirements = 2
    Keys <- MCKeys
    ValidKeys <- MCKeys
    Targets <- MCTargets
    ValidTargets <- MCTargets
    CanonicalTargets <- MCTargets
    Options <- MCOptions
    ValidOptions <- MCOptions
    RetirementIDs <- MCRetirementIDs
    Offers <- MCOffers
SPECIFICATION Spec
INVARIANTS
    TypeOK
    EveryEpochAccounted
    EpochsNeverShare
    NeverWedged
    GenerationNamesContent
    AckSeparates
PROPERTIES
    NoResurrection
    ImplementsLifecycle
CHECK_DEADLOCK FALSE
