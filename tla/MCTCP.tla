------------------------------- MODULE MCTCP -------------------------------
(* Instances of TCP for TLC: device "a" opens connections to device "b". *)
EXTENDS TCPStream

CONSTANTS LoadA, LoadB,   \* packets of the two applications
          EndA, EndB,     \* whether they mark their last packet
          GapA, GapB      \* distance of the ISS of successive sockets of a device

MCEp == {"a", "b"}
MCLoad == [e \in MCEp |-> IF e = "a" THEN LoadA ELSE LoadB]
MCEndFlag == [e \in MCEp |-> IF e = "a" THEN EndA ELSE EndB]

\* A socket created later has a larger ISS.
MCISS == [e \in MCEp |-> [i \in 1..MaxSockets |->
    IF e = "a" THEN 1 + GapA * (i - 1) ELSE 2 + GapB * (i - 1)]]

\* Delivery is fair to the segments a connection needs to make progress.
Numbers == 0..(MaxSockets * (GapA + GapB) + LoadA)
Class(e, k, q) == [src |-> {e}, kind |-> {k}, seq |-> q]
Classes == {Class("a", "data", {MCISS["a"][1] + i}) : i \in 1..LoadA}
             \cup {Class("a", k, Numbers) : k \in {"syn", "ack"}}
             \cup {Class("b", k, Numbers) : k \in {"synack", "ack"}}

FairSpec == Spec /\ EventFairness /\ DeliveryFairness(Classes)
EventFairSpec == Spec /\ EventFairness

=============================================================================
