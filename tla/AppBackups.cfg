CONSTANTS
    None = None
    Keep = 1
    MaxOps = 3
    MaxWrites = 1
    MaxCrashes = 1
    MaxByHand = 1
SPECIFICATION BackupsSpec
INVARIANTS ListedIsSound 
 
CHECK_DEADLOCK FALSE
