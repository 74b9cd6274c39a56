----------------------------- MODULE TCPStream -----------------------------
(***************************************************************************)
(* TCP implements Stream.  Each device creates one socket at most, so that *)
(* the position of a packet in the stream of e is the distance of its      *)
(* sequence number to ISS[e][1], the SYN taking the number ISS[e][1].      *)
(***************************************************************************)
EXTENDS TCP

Peer(e) == CHOOSE f \in Ep : f # e

Written == [e \in Ep |-> Load[e] - load[e]]
ReadPositions == [e \in Ep |-> {q - ISS[Peer(e)][1] : q \in got[e]}]

S == INSTANCE Stream WITH written <- Written, read <- ReadPositions

\* Sequence numbers, the retransmission and the out-of-order queue together
\* give the applications a stream: with losses, duplicates, reordering and
\* resets of the connection, an application reads a prefix of what its peer
\* has written, each packet once.
ImplementsStream == S!Spec

=============================================================================
