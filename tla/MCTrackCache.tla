---------------------------- MODULE MCTrackCache ----------------------------
EXTENDS TrackCache

CONSTANTS Length, Delta

ConstTimeStamps == [i \in 0 .. Length |-> Delta * i]
EverySample     == 0 .. Length
EveryThird      == {i \in 0 .. Length : i % 3 = 0}
NoProbes        == {}

\* Tracks of which a first pass leaves a cache that makes a second one fail.
LateSyncs       == {0} \cup {i \in 0 .. Length : i >= 13 /\ i % 2 = 1}
FarSyncs        == {0, 4, 7}
=============================================================================
