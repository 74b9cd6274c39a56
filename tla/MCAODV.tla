------------------------------- MODULE MCAODV -------------------------------
EXTENDS AODV

CONSTANTS a, b, c, p, q, PFrom, PTo, QFrom, QTo

Line == {{a, b}, {b, c}}
Triangle == {{a, b}, {b, c}, {a, c}}
AC == {{a, c}}
BC == {{b, c}}
BforC == {<<b, c>>}
Never == {}
EveryDrop == -1
MCSrc == [x \in Packet |-> IF x = p THEN PFrom ELSE QFrom]
MCDst == [x \in Packet |-> IF x = p THEN PTo ELSE QTo]
=============================================================================
