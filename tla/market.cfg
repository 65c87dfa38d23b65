SPECIFICATION FairSpec
CONSTANTS
    poor = poor
    rich = rich
    guest = guest
    owner = owner
    Settlements = {poor, rich}
    Accounts = {guest, owner}
    Owner <- MCOwner
    Capacity <- MCCapacity
    Start <- MCStart
    Cap <- MCCap
    PerLevel = 2
    MaxLevel = 1
    Kinds = {"scrap", "electronics"}
    Weight <- MCWeight
    MaxRatio = 2
    SpreadPercent = 25
    Amounts = {1, 2}
    Gains <- MCGains
    Offers = {o1}
    Exchanges = {x1}
INVARIANTS BooksBalance NoValuePrinted MerchantsAccounted TradeReported
PROPERTY NothingStranded
