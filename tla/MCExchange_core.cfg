CONSTANTS
    c1 = c1
    c2 = c2
    a1 = a1
    a2 = a2
    Factory = Factory
    Null = Null
    NoCommand = NoCommand
    Commands <- TwoCommands
    Addresses <- TwoAddresses
    Batches <- MCBatches
    MaxSends = 2
SPECIFICATION FairSpec
INVARIANTS TypeOK WrittenPrefix ReadsHeld
PROPERTIES DoneIsDone CommandsReturn
CHECK_DEADLOCK FALSE
