--------------------------- MODULE MCLiveEpisode ---------------------------
\* Steady, uneven and bursty arrivals, even and uneven work, no fault, one that
\* ends and one that begins within a horizon, and a twin with and without error.
EXTENDS LiveEpisode

Error(first, second) == [t \in 0 .. EpisodeTicks + Horizon |->
    IF t = 1 THEN first ELSE IF t = 3 THEN second ELSE 0]

MCScenarios == [
    draws : {[arrival |-> a, service |-> s] :
                a \in {<<1, 2>>, <<2, 0, 1>>}, s \in {<<1, 2, 1>>, <<2, 1>>}},
    window : {{}, {0, 1, 2}, 2 .. 9},
    error : {Error(0, 0), Error(1, -1)},
    simplify : BOOLEAN]
=============================================================================
