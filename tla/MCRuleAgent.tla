---------------------------- MODULE MCRuleAgent ----------------------------
\* Two services on two edge servers, at first both on one of them.  A tick may
\* bring nothing, a hot node with trouble for the heavier service or for both, both
\* nodes hot, late services on slow links; the first service leaks.  There is a
\* cooldown or none, and a window that is longer than what must last, or shorter.
EXTENDS RuleAgent

Brings(util, rate, slow, late, lost) ==
    [util |-> util, rate |-> rate, slow |-> slow, late |-> late, lost |-> lost]

MCTelemetry == {Brings(<<1, 1>>, <<1, 1>>, {}, {}, {}),
                Brings(<<2, 1>>, <<2, 1>>, {}, {1}, {2}),
                Brings(<<2, 2>>, <<1, 1>>, {}, {}, {1, 2}),
                Brings(<<1, 1>>, <<1, 0>>, {"l1"}, {1}, {}),
                Brings(<<1, 2>>, <<1, 1>>, {"l2"}, {1, 2}, {})}
MCPaths == {{"l1"}, {"l2"}}
MCPlacements == {[host |-> <<1, 1>>, route |-> <<{"l1"}, {"l1"}>>]}
MCRefusals == {{}, {<<"migrate", 2>>}, {<<"migrate", 1>>, <<"reroute", 1>>, <<"scale", 1>>}}
MCConfigs == {[window |-> 3, cooldown |-> 3], [window |-> 2, cooldown |-> 0],
              [window |-> 1, cooldown |-> 3]}
=============================================================================
