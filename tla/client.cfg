\* The base screen and the server on one settlement, two ticks, one reply on its way.
SPECIFICATION ClientSpec
CONSTANTS
    Factions <- MCFactions
    Start <- MCStart
    Stock <- MCStock
    Underway <- MCUnderway
    Wanted <- MCWanted
    Drafts <- MCDrafts
    Guests <- MCGuests
    Razed <- MCRazed
    InFlight = 1
    Ticks = 2
INVARIANTS MirrorsAgree OffersAreHonoured ForecastsHoldWhileFed
CHECK_DEADLOCK FALSE
