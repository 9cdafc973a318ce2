SPECIFICATION MCSpec
CONSTANTS
    Tasks <- TwoTasks
    Objects <- Persons
    ClassOf <- Classes
    Inner <- CityInPerson
    NoObject = "nothing"
    Offered <- EmptyCity
    Foreign <- OthersTypes
    OthersCompact = FALSE
    MaxCalls = 3
    MaxChanges = 1
INVARIANTS WrittenAreKnown BytesAreCurrent
PROPERTIES RegistryIsKept CallsReturn
CHECK_DEADLOCK FALSE
