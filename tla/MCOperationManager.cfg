SPECIFICATION Spec
CONSTANTS
    shell = shell  skill = skill  image = image  value = value  job = job  job2 = job2
    h1 = h1  h2 = h2
    Specs <- AllSpecs
    Plans <- TwoPlans
    Outputs <- SomeOutputs
    Overwrites <- SomeOverwrites
    SkillFile <- SomeFile
    ImageFile <- SomeFile
    Sources <- SomeSources
    ChunkSize = 2
    MaxPending = 2
    MaxRestarts = 1
    MaxSourceBytes = 3  MaxSourcePixels = 12  MaxSize = 4  MaxWidth = 2  MaxHeight = 3
CONSTRAINT InScenario
INVARIANTS
    PrimitivesAccounted
    ReportsAreTrue
PROPERTIES
    DecisionsStand
    EndsWhenAsked
CHECK_DEADLOCK FALSE
