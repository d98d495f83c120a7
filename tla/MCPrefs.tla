------------------------------- MODULE MCPrefs -------------------------------
EXTENDS PrefsBroker, TLC
CONSTANTS eth0, eth1, bogus, host, vpk, arrow, arrowBreak, c1, c2
Symmetric == Permutations(Client)
MCPackaged == [k \in Key |-> CASE k = Device -> eth0 [] k = IP -> Detect
                               [] k = Filename -> Empty]
MCTyped == [k \in Key |-> CASE k = Device -> {eth1, bogus, Empty}
                            [] k = IP -> {host, arrow, Empty}
                            [] k = Filename -> {vpk, Empty}]
\* A string with "-->", and the same with the break that each save puts after it;
\* how many of them there are is not told apart.
MCRewritten == [v \in Value |-> IF v \in {arrow, arrowBreak} THEN arrowBreak ELSE v]
=============================================================================
