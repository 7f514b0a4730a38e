--------------------------- MODULE MCBrokerSessions ---------------------------
EXTENDS BrokerSessions, TLC
CONSTANTS s1, s2, q1, q2, c1, w1
Names == {s1, s2}
Asked == {q1, q2}
Talks == {c1}
Pages == {w1}
\* Only safety is checked, and no definition tells names apart.
Alike == Permutations(Names) \cup Permutations(Asked)
===============================================================================
