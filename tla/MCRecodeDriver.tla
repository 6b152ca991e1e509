--------------------------- MODULE MCRecodeDriver ---------------------------
EXTENDS RecodeDriver

CONSTANTS Length, Delta, AudioDelta

VideoTimes    == [i \in 0 .. Length |-> Delta * i]
AudioTimes    == [i \in 0 .. AudioCount |-> AudioDelta * i]
EveryFourth   == {i \in 0 .. Length : i % 4 = 0}
VideoAndAudio == <<"video", "audio">>
AllRanges     == {<<s, e>> : s \in {0, 1, 40, 41, 85, 120, 125, 200}, e \in {0, 15, 41, 80, 95, 121, 400}}
NoProbes      == {}
=============================================================================
