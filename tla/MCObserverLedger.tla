-------------------------- MODULE MCObserverLedger --------------------------
\* A small memory: the index and a topic with a long name.
EXTENDS ObserverLedger, TLC
CONSTANTS index, ta
MCNames == <<index, ta>>
MCBytes == index :> 1 @@ ta :> 2
Interchanged == Permutations(Observers) \cup Permutations(Bodies)
=============================================================================
