--------------------------- MODULE MCSpanningTree ---------------------------
EXTENDS SpanningTree

\* A square and one diagonal.
Square == {<<1, 2>>, <<2, 3>>, <<3, 4>>, <<4, 1>>, <<2, 4>>}
BothWays == Square \cup {<<a[2], a[1]>> : a \in Square}
Ids == [s \in Switch |-> s]
Costs == [s \in Switch |-> IF s = 2 THEN 3 ELSE 1]
=============================================================================
