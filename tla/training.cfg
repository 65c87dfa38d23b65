SPECIFICATION QueuesFairSpec
CONSTANTS
    Items = {i1}
    Types = {"barracks", "shop"}
    Slots = 1
    WaitingSlots = 1
    MaxLevel = 2
    Needs <- MCNeeds
    Price <- MCPrice
    Cap = 3
    Yield <- MCYield
    StartLevel <- MCStartLevel
    StartStock = 3
    Besieged = {"shop"}
    Accrual = {0}
    Orders = {o1, o2}
    Barracks = {"barracks", "shop"}
    MaxBatch = 2
    UnitCost = 1
INVARIANTS EachUnitOnce ChainUnbroken JointBooksBalance
PROPERTIES EventuallyTrained
CHECK_DEADLOCK FALSE
