---------------------------- MODULE MCChunkStream ----------------------------
EXTENDS ChunkStream
CONSTANTS q1, q2, first, second, c1, h1
Names       == {q1, q2}
Executions  == {first, second}
Executors   == {h1}
Connections == {c1}
\* Names are alike, and so are executions: one initial state for each that is the same
\* with the names or the executions exchanged.
MCInit ==
    /\ Init
    /\ run[first].query = q1
    /\ run[second].host = Engine => run[first].host = Engine
MCSpec == MCInit /\ [][Next]_vars /\ Fairness
==============================================================================
