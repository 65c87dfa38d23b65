SPECIFICATION FairSpec
CONSTANTS
    Items = {i1, i2, i3}
    Types = {"farm", "depot"}
    Slots = 1
    WaitingSlots = 2
    MaxLevel = 2
    Needs <- MCNeeds
    Price <- MCPrice
    Cap = 3
    Yield <- MCYield
    StartLevel <- MCStartLevel
    StartStock = 3
    Besieged = {"depot"}
    Accrual = {0, 1}
INVARIANTS RunningIffScheduled SlotsWellUsed NeverPastMax
PROPERTIES EveryLandingRaises EventuallyLeaves
CHECK_DEADLOCK FALSE
