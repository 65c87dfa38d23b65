SPECIFICATION Spec
CONSTANTS
    Ticks = {k1, k2, k3}
    Builds = {}
    Trainings = {}
    Marches = {march}
    Returns = {}
    Supports = {}
    Attacks = {raid}
    Rate <- MCRate
    Price = 0
    Loot = 0
    Duration = 1
    Hour = 2
    Cap = 2
    StartFood = 1
    StartGross = 1
    StartHome = 1
    Lag = 0
    MaxTime = 4
    MaxWorks = 2
    MaxFaults = 0
    None = None
    depot = depot
    raid = raid
SYMMETRY MCSymmetry
INVARIANTS ExactlyOneTick
CHECK_DEADLOCK FALSE
