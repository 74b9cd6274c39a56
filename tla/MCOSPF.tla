------------------------------- MODULE MCOSPF -------------------------------
EXTENDS OSPF

Pair == {<<1, 2>>, <<2, 1>>}
Line == Pair \cup {<<2, 3>>, <<3, 2>>}
Joining == {<<2, 3>>, <<3, 2>>}
StartById == [a \in Arc |-> a[1]]
=============================================================================
