SPECIFICATION Spec
CONSTANTS
    Ticks = {k1, k2, k3}
    Builds = {depot}
    Trainings = {unit}
    Marches = {march}
    Returns = {back}
    Supports = {sup}
    Attacks = {raid}
    Rate <- MCRate
    Price = 1
    Loot = 1
    Duration = 1
    Hour = 1
    Cap = 2
    StartFood = 1
    StartGross = 2
    StartHome = 1
    Lag = 1
    MaxTime = 2
    MaxFaults = 1
    MaxWorks = 3
    None = None
    depot = depot
    raid = raid
SYMMETRY MCSymmetry
INVARIANTS DeficitIsWatched
PROPERTIES HoursOnlyAdvance
CHECK_DEADLOCK FALSE
