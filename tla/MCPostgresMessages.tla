-------------------------- MODULE MCPostgresMessages --------------------------
EXTENDS PostgresMessages
CONSTANTS p1, p2, c1
Requests == {p1, p2}
Sizes    == [p \in Requests |-> IF p = p1 THEN 2 ELSE 1]
Browsers == {c1}
Pools    == 1 .. 2
\* More with one connection, of which the properties claim more.
Reads3   == [n \in Pools |-> IF n = 1 THEN 3 ELSE 2]
Faults2  == [n \in Pools |-> IF n = 1 THEN 2 ELSE 1]
===============================================================================
