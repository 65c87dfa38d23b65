----------------------------- MODULE MCBuildQueue -----------------------------
\* Small instances of BuildQueue.
EXTENDS BuildQueue, TLC

\* A farm level feeds two; a depot level eats one and needs a farm.
MCYield == ("farm" :> 2) @@ ("depot" :> -1)
MCNeeds == ("farm" :> ("farm" :> 0 @@ "depot" :> 0))
           @@ ("depot" :> ("farm" :> 1 @@ "depot" :> 0))
MCPrice == [t \in {"farm", "depot"} |-> [l \in 1..2 |-> l]]
MCStartLevel == ("farm" :> 1) @@ ("depot" :> 0)
==============================================================================
