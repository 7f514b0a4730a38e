------------------------------- MODULE MCPgWatch -------------------------------
EXTENDS PgWatch, TLC
CONSTANTS a1, a2, b1, a, b
Objects  == {a1, a2, b1}
Called   == {a, b}
\* a1 and a2 have the same name: one is created when the other one is deleted.
Naming   == [u \in Objects |-> IF u = b1 THEN b ELSE a]
\* Only safety is checked, and no definition tells the two apart.
Alike    == Permutations({a1, a2})
===============================================================================
