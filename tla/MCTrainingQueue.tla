--------------------------- MODULE MCTrainingQueue ---------------------------
\* A small instance of TrainingQueue: two buildings train, one of them can be
\* built or knocked down meanwhile.
EXTENDS TrainingQueue, TLC

MCYield == ("barracks" :> 1) @@ ("shop" :> 2)
MCNeeds == [t \in {"barracks", "shop"} |-> [u \in {"barracks", "shop"} |-> 0]]
MCPrice == [t \in {"barracks", "shop"} |-> [l \in 1..2 |-> 1]]
MCStartLevel == ("barracks" :> 1) @@ ("shop" :> 1)
==============================================================================
