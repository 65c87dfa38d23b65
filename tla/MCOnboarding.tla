---------------------------- MODULE MCOnboarding ----------------------------
(* Two processes boot side by side, with NPCs or without; a newcomer and an   *)
(* account that may come to own two settlements race for the tiles.           *)
EXTENDS Onboarding, TLC

CONSTANTS p1, p2, newcomer, veteran

Line == 1..4
SomeOases == (p1 :> {4}) @@ (p2 :> {1})
TheAllowed == (newcomer :> 1) @@ (veteran :> 2)

\* TheAllowed is what the game's formula says of a Command Center alone and of
\* a settlement with an Influence of 90.
E == INSTANCE Economy
ASSUME AllowedByInfluence ==
    LET new == "commandCenter" :> 1
        old == ("commandCenter" :> 10) @@ ("salvagePost" :> 20) @@ ("farm" :> 20)
               @@ ("warehouse" :> 10) @@ ("barracks" :> 10)
    IN  /\ TheAllowed[newcomer] = E!settlementsAllowed(E!calcInfluence(<<new>>))
        /\ TheAllowed[veteran] = E!settlementsAllowed(E!calcInfluence(<<old>>))
==============================================================================
