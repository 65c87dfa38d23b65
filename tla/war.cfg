SPECIFICATION OasisSpec
CONSTANTS
    UNIT_TYPES <- MCTypes
    Unit <- MCUnit
    RESOURCE_KINDS <- MCKinds
    WallRatio <- MCWallRatio
    RandomFactor <- MCRandomFactor
    SiegeResistance <- MCResistance
    CacheProtection <- MCProtection
    CommandCenterFloor = 1
    BuildingsTierMinDiff = 1
    Movement = {1, 2}
    Formation <- MCFormation
    Supporter = {1, 2}
    Building <- MCBuilding
    Garrison <- MCGarrison
    Outing <- MCOuting
    Guests <- MCGuests
    HomeTroops <- MCHomeTroops
    Stock <- MCStock
    HomeStock <- MCHomeStock
    Levels <- MCLevels
    Production <- MCProduction
    FoodOutput <- MCFoodOutput
    FoodUpkeep <- MCFoodUpkeep
    Cap <- MCCap
    StoreOf <- MCStoreOf
    Roll <- MCRoll
    Target <- MCTarget
    Interval = 2
    FoodPerHour = 1
    FoodCap = 2
    Excursion <- MCExcursion
    Hours = 2
INVARIANTS SpoilsConserved VisitsChangeNothing
PROPERTIES NoSilentLoss SpoilsNeedVictory StarvesInOrder
CHECK_DEADLOCK FALSE
