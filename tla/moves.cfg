SPECIFICATION FairSpec
CONSTANTS
    Settlements = {s1, s2}
    capital = s1
    Movements = {m1, m2}
    Tiles = {t1}
    Types = {"scout", "attack", "support", "settle"}
    Garrison <- MCGarrison
    SettlersRequired = 1
INVARIANTS AwayTroopsMatch EverybodyAccountedFor
PROPERTIES TileFoundedOnce EveryMarchEnds
CHECK_DEADLOCK FALSE
