-------------------------- MODULE Congestion_proof --------------------------
(***************************************************************************)
(* Whatever the algorithm, the sizes and the path, without window scaling  *)
(* or with a scale that divides the segment: the window always holds a     *)
(* segment, the bytes in flight fit the largest window, and leaving fast   *)
(* recovery deflates the window.                                           *)
(*                                                                         *)
(* The inductive invariant bounds the window from below by one segment     *)
(* and, during fast recovery, the threshold from both sides: by one        *)
(* segment, so that the exit keeps the window usable, and by the flight at *)
(* the last loss, so that the exit deflates it.  The handlers of an        *)
(* acknowledgment are proved one by one on the variables they are given    *)
(* (Leaves), the actions only combine them.                                *)
(*                                                                         *)
(* Where the path keeps acknowledgments in order, the second invariant     *)
(* (PathInv) ties the duplicates the code counts to those that arrived,    *)
(* hence the retransmission at the third and the growth of the window.     *)
(***************************************************************************)
EXTENDS Congestion, SequenceTheorems, TLAPS

----------------------------------------------------------------------------
(* Arithmetic and sequences *)

\* The cast to UINT16 keeps what fits.
LEMMA CastExact == ASSUME NEW x \in 0..Word - 1 PROVE UINT16(x) = x
  BY SizeAssumption DEF UINT16

\* The cast to UINT16 always yields 16 bits.
LEMMA CastRange == ASSUME NEW x \in Int PROVE UINT16(x) \in 0..Word - 1
  BY SizeAssumption DEF UINT16

\* As many packets as divide a size take no more than that size.
LEMMA PacketsFit ==
  ASSUME NEW x \in Nat, NEW p \in Nat \ {0}, NEW n \in Nat, n <= x \div p
  PROVE  n * p <= x
<1>1. x \div p \in Nat /\ (x \div p) * p <= x  OBVIOUS
<1>2. n * p <= (x \div p) * p  BY <1>1
<1> QED BY <1>1, <1>2

\* Removing an element leaves a sequence over the same set.
LEMMA RemoveAtType ==
  ASSUME NEW S, NEW s \in Seq(S), NEW i \in DOMAIN s
  PROVE  RemoveAt(s, i) \in Seq(S)
<1>1. i \in 1..Len(s) /\ \A j \in 1..Len(s) : s[j] \in S  OBVIOUS
<1>2. SubSeq(s, 1, i - 1) \in Seq(S)  BY <1>1, SubSeqProperties
<1>3. SubSeq(s, i + 1, Len(s)) \in Seq(S)  BY <1>1, SubSeqProperties
<1> QED BY <1>2, <1>3, ConcatProperties DEF RemoveAt

\* A sequence over a set is one over any larger set.
LEMMA SeqMonotone ==
  ASSUME NEW S, NEW T, S \subseteq T, NEW s \in Seq(S) PROVE s \in Seq(T)
  OBVIOUS

\* The sizes of the configuration.
LEMMA Sizes ==
  /\ SMSS \in Nat \ {0} /\ Word \in Nat /\ 6 * SMSS < Word
  /\ PacketSize \in Nat \ {0} /\ LW = SMSS
  /\ congestion_set_IW \in SMSS..Word - 1
  /\ LargestWindow \in Nat
<1>1. Word - 1 \in Nat /\ Scale \in Nat  BY SizeAssumption
<1>2. LargestWindow \in Nat  BY <1>1 DEF LargestWindow
<1> QED BY <1>2, SizeAssumption DEF SMSS, LW, congestion_set_IW, min, max

\* Shifting the sizes stored loses nothing of a segment.  This includes
\* Scale = 1, no scaling.
ScaleDivides == SMSS % Scale = 0

\* A smaller count takes no more bytes.
LEMMA ScaleMonotone ==
  ASSUME NEW b \in Int, NEW c \in Int, b <= c PROVE b * Scale <= c * Scale
<1>1. Scale \in Nat \ {0}  BY SizeAssumption
<1> QED BY <1>1

\* Shifting out and back in never enlarges a size.
LEMMA Shift ==
  ASSUME NEW x \in Nat
  PROVE  /\ x \div Scale \in Nat /\ x \div Scale <= x
         /\ (x \div Scale) * Scale \in Nat /\ (x \div Scale) * Scale <= x
<1> DEFINE q == x \div Scale
<1>1. Scale \in Nat \ {0}  BY SizeAssumption
<1>2. q \in Nat /\ q * Scale <= x /\ x < (q + 1) * Scale  BY <1>1
<1> HIDE DEF q
<1>3. q * Scale \in Nat /\ q <= q * Scale  BY <1>1, <1>2
<1>4. q <= x  BY <1>2, <1>3
<1> QED BY <1>2, <1>3, <1>4 DEF q

\* A count of the scale is found again when it is shifted.
LEMMA ShiftBack ==
  ASSUME NEW c \in Nat, NEW n \in Nat
  PROVE  /\ c * Scale \in Nat
         /\ (c * Scale + n) \div Scale >= c
<1>1. Scale \in Nat \ {0}  BY SizeAssumption
<1>2. c * Scale \in Nat  BY <1>1
<1> DEFINE x == c * Scale + n
           q == x \div Scale
<1>3. x \in Nat /\ x >= c * Scale  BY <1>2
<1> HIDE DEF x
<1>4. q \in Nat /\ x < (q + 1) * Scale  BY <1>1, <1>3
<1> HIDE DEF q
<1>5. ASSUME q < c PROVE FALSE
  <2>1. q + 1 <= c  BY <1>4, <1>5
  <2>2. (q + 1) * Scale <= c * Scale  BY <1>4, <2>1, ScaleMonotone
  <2>3. (q + 1) * Scale \in Nat  BY <1>1, <1>4
  <2> QED BY <1>2, <1>3, <1>4, <2>2, <2>3
<1> QED BY <1>2, <1>4, <1>5 DEF q, x

\* Shifting a window of one segment or more leaves one segment.
LEMMA ShiftSegment ==
  ASSUME ScaleDivides, NEW x \in Nat, x >= SMSS
  PROVE  (x \div Scale) * Scale >= SMSS /\ x \div Scale >= 1
<1> DEFINE k == SMSS \div Scale
           q == x \div Scale
<1>1. Scale \in Nat \ {0} /\ SMSS \in Nat \ {0}  BY SizeAssumption, Sizes
<1>2. k \in Nat /\ k * Scale = SMSS
  <2>1. SMSS = k * Scale + (SMSS % Scale) /\ k \in Nat  BY <1>1
  <2> HIDE DEF k
  <2>2. k * Scale \in Nat  BY <1>1, <2>1
  <2> QED BY <1>1, <2>1, <2>2 DEF ScaleDivides
<1> HIDE DEF k
<1>3. k # 0  BY <1>1, <1>2
<1>4. q \in Nat  BY Shift
<1>5. q >= k
  <2> DEFINE n == x - SMSS
  <2>1. n \in Nat /\ x = k * Scale + n  BY <1>1, <1>2
  <2> HIDE DEF n
  <2> QED BY <1>2, <2>1, ShiftBack
<1> HIDE DEF q
<1>6. k * Scale <= q * Scale  BY <1>2, <1>4, <1>5, ScaleMonotone
<1> QED BY <1>2, <1>3, <1>4, <1>5, <1>6 DEF q

----------------------------------------------------------------------------
(* The invariant *)

\* At most half of f bytes in flight, two segments at least.
Deflated(f) == max(f \div 2, 2 * SMSS)

\* The congestion variables after a last loss with f bytes in flight.
Sound(v, f) ==
  /\ v \in Congestionvar
  /\ get_cwnd(v) >= SMSS
  /\ v.isFastRecovery =>
       /\ v.variant \in {"RENO", "NEWRENO"}
       /\ get_ssthres(v) \in SMSS..Word - 1 /\ get_ssthres(v) <= Deflated(f)

\* The positions of the transfer.
Positions ==
  /\ una \in Nat /\ nxt \in Nat /\ una <= nxt /\ FlightFitsWindow
  /\ left \in Nat /\ net \subseteq Nat
  /\ rnxt \in 0..nxt /\ ooo \subseteq Nat /\ acks \in Seq(0..nxt)

History ==
  /\ faults \in Nat /\ dupRun \in 0..TCP_DupThresh /\ resent \in BOOLEAN
  /\ lossFlight \in Nat /\ lossPoint \in Nat

CInv == Sound(cong, lossFlight) /\ Positions /\ History /\ halted = FALSE

----------------------------------------------------------------------------
(* Windows *)

\* The sizes read are counts of the scale.
LEMMA WindowsRead ==
  ASSUME NEW v \in Congestionvar
  PROVE  /\ v.cwnd \in 0..Word - 1 /\ get_cwnd(v) = v.cwnd * Scale
         /\ v.ssthresh \in 0..Word - 1 /\ get_ssthres(v) = v.ssthresh * Scale
         /\ get_cwnd(v) \in Nat /\ get_ssthres(v) \in Nat
         /\ get_cwnd(v) <= LargestWindow
<1>1. /\ v.cwnd \in 0..Word - 1 /\ v.ssthresh \in 0..Word - 1
      /\ v.cwnd \in Nat /\ v.ssthresh \in Nat /\ Word \in Nat
  BY Sizes DEF Congestionvar
<1>2. get_cwnd(v) = v.cwnd * Scale /\ get_ssthres(v) = v.ssthresh * Scale
  BY DEF get_cwnd, get_ssthres
<1>3. v.cwnd * Scale \in Nat /\ v.ssthresh * Scale \in Nat
  BY <1>1, SizeAssumption
<1>4. v.cwnd * Scale <= LargestWindow  BY <1>1, ScaleMonotone DEF LargestWindow
<1> QED BY <1>1, <1>2, <1>3, <1>4

\* Changing the window to a size that holds a segment keeps the variables sound.
LEMMA SoundWindow ==
  ASSUME NEW v, NEW f, Sound(v, f), NEW c \in 0..Word - 1, c * Scale >= SMSS
  PROVE  /\ Sound([v EXCEPT !.cwnd = c], f)
         /\ [v EXCEPT !.cwnd = c].isFastRecovery = v.isFastRecovery
         /\ get_cwnd([v EXCEPT !.cwnd = c]) = c * Scale
<1> DEFINE w == [v EXCEPT !.cwnd = c]
<1>1. /\ w \in Congestionvar /\ w.cwnd = c /\ w.ssthresh = v.ssthresh
      /\ w.isFastRecovery = v.isFastRecovery /\ w.variant = v.variant
  BY DEF Sound, Congestionvar
<1> HIDE DEF w
<1>2. get_cwnd(w) = c * Scale /\ get_ssthres(w) = get_ssthres(v)
  BY <1>1 DEF get_cwnd, get_ssthres
<1>3. Sound(w, f)  BY <1>1, <1>2 DEF Sound
<1> QED BY <1>1, <1>2, <1>3 DEF w

\* set_cwnd stores a window that holds a segment, no larger than it is told.
LEMMA SetWindow ==
  ASSUME ScaleDivides, NEW v, NEW w \in SMSS..Word - 1
  PROVE  /\ set_cwnd(v, w) = [v EXCEPT !.cwnd = w \div Scale]
         /\ w \div Scale \in 0..Word - 1
         /\ (w \div Scale) * Scale \in SMSS..w
<1>1. w \in Nat /\ w >= SMSS /\ w <= Word - 1 /\ SMSS \in Nat /\ Word \in Nat  BY Sizes
<1> DEFINE q == w \div Scale
<1>2. q \in Nat /\ q <= w /\ q * Scale \in Nat /\ q * Scale <= w  BY <1>1, Shift
<1>3. q * Scale >= SMSS /\ q >= 1  BY <1>1, ShiftSegment
<1>4. set_cwnd(v, w) = [v EXCEPT !.cwnd = IF Scale > 1 /\ UINT16(q) = 0 THEN 1 ELSE UINT16(q)]
  BY DEF set_cwnd
<1> HIDE DEF q
<1>5. q \in 0..Word - 1  BY <1>1, <1>2
<1>6. UINT16(q) = q  BY <1>5, CastExact
<1>7. set_cwnd(v, w) = [v EXCEPT !.cwnd = q]
  <2>1. ~(Scale > 1 /\ UINT16(q) = 0)  BY <1>2, <1>3, <1>6
  <2> QED BY <1>4, <1>6, <2>1
<1> QED BY <1>1, <1>2, <1>3, <1>5, <1>7 DEF q

\* A window that holds a segment, for variables that are sound.
LEMMA SetSound ==
  ASSUME ScaleDivides, NEW v, NEW f, Sound(v, f), NEW w \in SMSS..Word - 1
  PROVE  /\ Sound(set_cwnd(v, w), f)
         /\ set_cwnd(v, w).isFastRecovery = v.isFastRecovery
         /\ get_cwnd(set_cwnd(v, w)) \in SMSS..w
<1> DEFINE c == w \div Scale
<1>1. /\ set_cwnd(v, w) = [v EXCEPT !.cwnd = c] /\ c \in 0..Word - 1
      /\ c * Scale \in SMSS..w
  BY SetWindow
<1> HIDE DEF c
<1>2. c * Scale >= SMSS  BY <1>1
<1> QED BY <1>1, <1>2, SoundWindow

\* set_cwnd changes the window only.
LEMMA SetOthers ==
  ASSUME NEW v \in Congestionvar, NEW w \in Int
  PROVE  /\ set_cwnd(v, w).variant = v.variant
         /\ set_cwnd(v, w).dupAckCount = v.dupAckCount
         /\ set_cwnd(v, w).isFastRecovery = v.isFastRecovery
         /\ set_cwnd(v, w).recover = v.recover
         /\ set_cwnd(v, w).ssthresh = v.ssthresh
<1> DEFINE c == IF Scale > 1 /\ UINT16(w \div Scale) = 0 THEN 1 ELSE UINT16(w \div Scale)
<1>1. set_cwnd(v, w) = [v EXCEPT !.cwnd = c]  BY DEF set_cwnd
<1> HIDE DEF c
<1> QED BY <1>1 DEF Congestionvar

\* set_ssthres stores a threshold of one segment or more, no larger than it is told.
LEMMA SetThreshold ==
  ASSUME ScaleDivides, NEW v \in Congestionvar, NEW x \in SMSS..Word - 1
  PROVE  LET t == set_ssthres(v, x)
         IN  /\ t \in Congestionvar /\ get_ssthres(t) \in SMSS..x
             /\ get_cwnd(t) = get_cwnd(v)
             /\ t.variant = v.variant /\ t.dupAckCount = v.dupAckCount
             /\ t.isFastRecovery = v.isFastRecovery /\ t.recover = v.recover
<1> DEFINE q == x \div Scale
           t == [v EXCEPT !.ssthresh = q]
<1>1. x \in Nat /\ x >= SMSS /\ x <= Word - 1 /\ SMSS \in Nat /\ Word \in Nat  BY Sizes
<1>2. q \in Nat /\ q <= x /\ q * Scale \in Nat /\ q * Scale <= x  BY <1>1, Shift
<1>3. q * Scale >= SMSS  BY <1>1, ShiftSegment
<1>4. set_ssthres(v, x) = [v EXCEPT !.ssthresh = UINT16(q)]  BY DEF set_ssthres
<1> HIDE DEF q
<1>5. q \in 0..Word - 1  BY <1>1, <1>2
<1>6. set_ssthres(v, x) = t  BY <1>4, <1>5, CastExact
<1>7. /\ t \in Congestionvar /\ t.ssthresh = q /\ t.cwnd = v.cwnd
      /\ t.variant = v.variant /\ t.dupAckCount = v.dupAckCount
      /\ t.isFastRecovery = v.isFastRecovery /\ t.recover = v.recover
  BY <1>5 DEF Congestionvar
<1> HIDE DEF t
<1>8. get_ssthres(t) = q * Scale /\ get_cwnd(t) = get_cwnd(v)
  BY <1>7 DEF get_ssthres, get_cwnd
<1> QED BY <1>1, <1>2, <1>3, <1>6, <1>7, <1>8

\* increase_cwnd keeps the variables sound, and opens the window by n at most.
LEMMA Increase ==
  ASSUME NEW v \in Congestionvar, NEW n \in Nat
  PROVE  LET w == increase_cwnd(v, n)
         IN  /\ w \in Congestionvar
             /\ get_cwnd(w) >= get_cwnd(v) /\ get_cwnd(w) <= get_cwnd(v) + n
             /\ get_ssthres(w) = get_ssthres(v)
             /\ w.variant = v.variant /\ w.dupAckCount = v.dupAckCount
             /\ w.isFastRecovery = v.isFastRecovery
<1> DEFINE q == (get_cwnd(v) + n) \div Scale
           c == min(q, Word - 1)
           w == [v EXCEPT !.cwnd = c]
<1>1. /\ v.cwnd \in 0..Word - 1 /\ v.cwnd \in Nat /\ get_cwnd(v) = v.cwnd * Scale
      /\ get_cwnd(v) \in Nat /\ Word \in Nat
  BY WindowsRead, Sizes
<1>2. get_cwnd(v) + n \in Nat  BY <1>1
<1>3. q \in Nat /\ q * Scale \in Nat /\ q * Scale <= get_cwnd(v) + n  BY <1>2, Shift
<1>4. q >= v.cwnd  BY <1>1, ShiftBack
<1>5. increase_cwnd(v, n) = w  BY DEF increase_cwnd
<1> HIDE DEF q
<1>6. c \in 0..Word - 1 /\ c \in Nat /\ c >= v.cwnd /\ c <= q
  BY <1>1, <1>3, <1>4 DEF min
<1> HIDE DEF c
<1>7. c * Scale >= v.cwnd * Scale /\ c * Scale <= q * Scale /\ c * Scale \in Nat
  <2>1. c * Scale \in Nat  BY <1>6, SizeAssumption
  <2> QED BY <1>1, <1>3, <1>6, <2>1, ScaleMonotone
<1>8. /\ w \in Congestionvar /\ w.cwnd = c /\ w.ssthresh = v.ssthresh
      /\ w.variant = v.variant /\ w.dupAckCount = v.dupAckCount
      /\ w.isFastRecovery = v.isFastRecovery
  BY <1>6 DEF Congestionvar
<1> HIDE DEF w
<1>9. get_cwnd(w) = c * Scale /\ get_ssthres(w) = get_ssthres(v)
  BY <1>8 DEF get_cwnd, get_ssthres
<1> QED BY <1>1, <1>3, <1>5, <1>7, <1>8, <1>9

\* Hence increase_cwnd keeps the variables sound.
LEMMA IncreaseSound ==
  ASSUME NEW v, NEW f, Sound(v, f), NEW n \in Nat
  PROVE  /\ Sound(increase_cwnd(v, n), f)
         /\ increase_cwnd(v, n).isFastRecovery = v.isFastRecovery
<1> DEFINE w == increase_cwnd(v, n)
<1>1. v \in Congestionvar  BY DEF Sound
<1>2. /\ w \in Congestionvar /\ get_cwnd(w) >= get_cwnd(v)
      /\ get_ssthres(w) = get_ssthres(v) /\ w.variant = v.variant
      /\ w.isFastRecovery = v.isFastRecovery
  BY <1>1, Increase
<1> HIDE DEF w
<1>3. get_cwnd(v) \in Nat /\ get_cwnd(w) \in Nat  BY <1>1, <1>2, WindowsRead
<1>4. Sound(w, f)  BY <1>2, <1>3, Sizes DEF Sound
<1> QED BY <1>2, <1>4 DEF w

\* The threshold after a loss: two segments at least, room for the inflation
\* by three segments, and no more than half of what is really in flight, also
\* when the cast has lost bits of it.
LEMMA Threshold ==
  ASSUME Positions
  PROVE  /\ LossThreshold <= Deflated(nxt - una) /\ Deflated(nxt - una) \in Nat
         /\ LossThreshold \in 2 * SMSS .. Word - 1
         /\ LossThreshold + 3 * SMSS \in SMSS..Word - 1
<1> DEFINE x == nxt - una
<1>1. x \in Nat  BY DEF Positions
<1>2. FlightSize = UINT16(x)  BY DEF FlightSize
<1> HIDE DEF x
<1>3. UINT16(x) \in 0..Word - 1 /\ UINT16(x) <= x
  <2>1. x % Word <= x  BY <1>1, Sizes
  <2> QED BY <1>1, <2>1, CastRange DEF UINT16
<1> DEFINE y == UINT16(x)
<1>4. LossThreshold = max(y \div 2, 2 * SMSS)  BY <1>2 DEF LossThreshold
<1> HIDE DEF y
<1>5. y \in 0..Word - 1 /\ y <= x  BY <1>3 DEF y
<1> QED BY <1>1, <1>4, <1>5, Sizes DEF Deflated, max, x

----------------------------------------------------------------------------
(* Handlers of an acknowledgment *)

\* Changing the variables of a sender.
LEMMA SenderExcept ==
  ASSUME NEW v, NEW w, NEW o, NEW f, NEW p
  PROVE  /\ Sender(v, o, f, p).v = v
         /\ [Sender(v, o, f, p) EXCEPT !.v = w] = Sender(w, o, f, p)
  BY DEF Sender

Counted(v) == [v EXCEPT !.dupAckCount = @ + 1]
Moved(v)   == [v EXCEPT !.recover = nxt]

\* Counting a duplicate.
LEMMA SenderCounts ==
  ASSUME NEW v \in Congestionvar, NEW o, NEW f, NEW p
  PROVE  [Sender(v, o, f, p) EXCEPT !.v.dupAckCount = @ + 1] = Sender(Counted(v), o, f, p)
  BY DEF Sender, Congestionvar, Counted

\* Moving the recovery point.
LEMMA SenderMoves ==
  ASSUME NEW v \in Congestionvar, NEW o, NEW f, NEW p
  PROVE  [Sender(v, o, f, p) EXCEPT !.v.recover = nxt] = Sender(Moved(v), o, f, p)
  BY DEF Sender, Congestionvar, Moved

\* Reading and changing the variables of a fresh sender.
LEMMA FreshVariables ==
  ASSUME NEW v, NEW w
  PROVE  /\ Fresh(v).v = v /\ [Fresh(v) EXCEPT !.v = w] = Fresh(w)
         /\ Fresh(v).flight = lossFlight /\ Fresh(v).point = lossPoint
<1>1. Fresh(v).flight = lossFlight /\ Fresh(v).point = lossPoint
  BY DEF Fresh, Sender
<1> QED BY <1>1, SenderExcept DEF Fresh

\* The handler leaves the sender in d, coming from variables v.
Leaves(v, d) ==
  /\ d.out \subseteq Nat /\ d.flight \in Nat /\ d.point \in Nat
  /\ Sound(d.v, d.flight)
  /\ v.isFastRecovery /\ ~d.v.isFastRecovery => get_cwnd(d.v) <= Deflated(lossFlight)

\* A handler that only changes the variables, to sound ones, and resends r.
LEMMA SenderLeaves ==
  ASSUME NEW v, NEW w, NEW r, r \subseteq Nat, NEW f \in Nat, NEW p \in Nat, Sound(w, f),
         v.isFastRecovery /\ ~w.isFastRecovery => get_cwnd(w) <= Deflated(lossFlight)
  PROVE  Leaves(v, Sender(w, r, f, p))
<1>1. /\ Sender(w, r, f, p).v = w /\ Sender(w, r, f, p).out = r
      /\ Sender(w, r, f, p).flight = f /\ Sender(w, r, f, p).point = p
  BY DEF Sender
<1> QED BY <1>1 DEF Leaves

\* The same without resending anything.
LEMMA FreshLeaves ==
  ASSUME History, NEW v, NEW w, Sound(w, lossFlight),
         v.isFastRecovery /\ ~w.isFastRecovery => get_cwnd(w) <= Deflated(lossFlight)
  PROVE  Leaves(v, Fresh(w))
<1>1. {} \subseteq Nat /\ lossFlight \in Nat /\ lossPoint \in Nat  BY DEF History
<1> QED BY <1>1, SenderLeaves DEF Fresh

\* Growth in slow start or congestion avoidance.
LEMMA GrowLeaves ==
  ASSUME History, ScaleDivides, Positions, NEW v, Sound(v, lossFlight),
         NEW a \in Nat, NEW due \in BOOLEAN
  PROVE  Leaves(v, Grow(Fresh(v), a, due))
<1>1. min(UINT16(a - una), SMSS) \in Nat
  BY CastRange, Sizes DEF Positions, min
<1>2. /\ Sound(slowStart(v, a), lossFlight)
      /\ slowStart(v, a).isFastRecovery = v.isFastRecovery
  BY <1>1, IncreaseSound DEF slowStart
<1> DEFINE w == IF get_cwnd(v) <= get_ssthres(v)
                THEN slowStart(v, a) ELSE CongestionAvoidance(v, a, due)
<1>3. Grow(Fresh(v), a, due) = Fresh(w)
  BY FreshVariables DEF Grow
<1>4. Sound(w, lossFlight) /\ w.isFastRecovery = v.isFastRecovery
  BY <1>2 DEF CongestionAvoidance
<1> HIDE DEF w
<1> QED BY <1>3, <1>4, FreshLeaves

\* A duplicate ACK is counted, which changes nothing else.
LEMMA CountLeaves ==
  ASSUME History, NEW v, Sound(v, lossFlight)
  PROVE  \E w : /\ CountDup(Fresh(v)) = Fresh(w) /\ Sound(w, lossFlight)
                /\ w.isFastRecovery = v.isFastRecovery /\ w.variant = v.variant
<1> DEFINE w == Counted(v)
<1>1. v \in Congestionvar
  BY DEF Sound
<1>4. CountDup(Fresh(v)) = Fresh(w)
  BY <1>1, SenderCounts DEF CountDup, Fresh
<1>2. Sound(w, lossFlight) /\ w.isFastRecovery = v.isFastRecovery /\ w.variant = v.variant
  BY DEF Sound, Congestionvar, Counted, get_cwnd, get_ssthres
<1> HIDE DEF w
<1> QED BY <1>2, <1>4

\* The variables after the third duplicate.
Retransmitted(v) ==
  LET t == set_ssthres(v, LossThreshold)
      w == set_cwnd(t, get_ssthres(t) + TCP_DupThresh * SMSS)
  IN  [w EXCEPT !.isFastRecovery = w.variant \in {"RENO", "NEWRENO"}]

\* The third duplicate deflates the threshold and leaves a usable window.
LEMMA RetransmittedWindow ==
  ASSUME ScaleDivides, Positions, NEW v \in Congestionvar
  PROVE  LET r == Retransmitted(v)
         IN  /\ r \in Congestionvar /\ r.variant = v.variant
             /\ r.dupAckCount = v.dupAckCount /\ get_cwnd(r) >= SMSS
             /\ get_ssthres(r) \in SMSS..Word - 1
             /\ get_ssthres(r) <= Deflated(nxt - una)
             /\ r.isFastRecovery = (v.variant \in {"RENO", "NEWRENO"})
<1> DEFINE x == LossThreshold
           t == set_ssthres(v, x)
           y == get_ssthres(t) + TCP_DupThresh * SMSS
           w == set_cwnd(t, y)
           f == w.variant \in {"RENO", "NEWRENO"}
           r == [w EXCEPT !.isFastRecovery = f]
<1>1. /\ x \in SMSS..Word - 1 /\ x <= Deflated(nxt - una)
      /\ x + 3 * SMSS <= Word - 1 /\ Deflated(nxt - una) \in Nat
  BY Threshold, Sizes
<1>2. r = Retransmitted(v)  BY DEF Retransmitted
<1> HIDE DEF x
<1>3. /\ t \in Congestionvar /\ get_ssthres(t) \in SMSS..x
      /\ t.variant = v.variant /\ t.dupAckCount = v.dupAckCount
  BY <1>1, SetThreshold
<1> HIDE DEF t
<1>4. y \in SMSS..Word - 1  BY <1>1, <1>3, Sizes DEF TCP_DupThresh
<1> HIDE DEF y
<1> DEFINE c == y \div Scale
<1>5. w = [t EXCEPT !.cwnd = c] /\ c \in 0..Word - 1 /\ c * Scale >= SMSS
  BY <1>4, SetWindow, Sizes
<1> HIDE DEF c, w
<1>6. /\ w \in Congestionvar /\ w.cwnd = c /\ w.ssthresh = t.ssthresh
      /\ w.variant = v.variant /\ w.dupAckCount = v.dupAckCount
  BY <1>3, <1>5 DEF Congestionvar
<1>7. f = (v.variant \in {"RENO", "NEWRENO"}) /\ f \in BOOLEAN  BY <1>6
<1> HIDE DEF f
<1>8. /\ r \in Congestionvar /\ r.cwnd = c /\ r.ssthresh = t.ssthresh
      /\ r.variant = v.variant /\ r.dupAckCount = v.dupAckCount /\ r.isFastRecovery = f
  BY <1>6, <1>7 DEF Congestionvar
<1> HIDE DEF r
<1>9. get_cwnd(r) = c * Scale /\ get_ssthres(r) = get_ssthres(t)
  BY <1>8 DEF get_cwnd, get_ssthres
<1>10. get_ssthres(r) \in SMSS..Word - 1 /\ get_ssthres(r) <= Deflated(nxt - una)
  BY <1>1, <1>3, <1>9, Sizes
<1> QED BY <1>2, <1>5, <1>7, <1>8, <1>9, <1>10

\* Fast retransmit, on variables w in which the duplicate is counted.
LEMMA RetransmitLeaves ==
  ASSUME History, ScaleDivides, Positions, NEW v, NEW w, NEW a \in Nat,
         Sound(w, lossFlight), w.variant = v.variant,
         w.isFastRecovery = v.isFastRecovery,
         v.variant \in {"TAHOE", "RENO", "NEWRENO"}, Sound(v, lossFlight)
  PROVE  Leaves(v, FastRetransmit(Fresh(w), a))
<1>0. Fresh(w).v = w  BY FreshVariables
<1>1. CASE w.dupAckCount # TCP_DupThresh
  <2> DEFINE i == increase_cwnd(w, SMSS)
  <2>1. Sound(i, lossFlight) /\ i.isFastRecovery = v.isFastRecovery
    BY IncreaseSound, Sizes
  <2>2. FastRetransmit(Fresh(w), a) = Fresh(i)
    BY <1>0, <1>1, FreshVariables DEF FastRetransmit
  <2> HIDE DEF i
  <2> QED BY <2>1, <2>2, FreshLeaves
<1>2. CASE w.dupAckCount = TCP_DupThresh
  <2> DEFINE r == Retransmitted(w)
  <2>1. /\ r \in Congestionvar /\ r.variant = w.variant /\ get_cwnd(r) >= SMSS
        /\ get_ssthres(r) \in SMSS..Word - 1
        /\ get_ssthres(r) <= Deflated(nxt - una)
        /\ r.isFastRecovery = (w.variant \in {"RENO", "NEWRENO"})
    BY RetransmittedWindow DEF Sound
  <2>2. FastRetransmit(Fresh(w), a) = Sender(r, {a} \cap Queue, nxt - una, nxt)
    BY <1>0, <1>2
       DEF FastRetransmit, resend_segment_without_timeout, Retransmitted
  <2> HIDE DEF r
  <2>3. Sound(r, nxt - una)
    BY <2>1 DEF Sound
  <2>4. v.isFastRecovery => r.isFastRecovery
    BY <2>1 DEF Sound
  <2>5. {a} \cap Queue \subseteq Nat /\ nxt - una \in Nat /\ nxt \in Nat
    BY DEF Positions
  <2> QED BY <2>2, <2>3, <2>4, <2>5, SenderLeaves
<1> QED BY <1>1, <1>2

\* Reno leaves fast recovery.
LEMMA RecoveryLeaves ==
  ASSUME History, ScaleDivides, NEW v, Sound(v, lossFlight), v.isFastRecovery
  PROVE  Leaves(v, FastRecovery(Fresh(v)))
<1> DEFINE u == [v EXCEPT !.isFastRecovery = FALSE, !.dupAckCount = 0]
           x == get_ssthres(v)
           w == set_cwnd(u, x)
<1>1. x \in SMSS..Word - 1 /\ x <= Deflated(lossFlight)
  BY DEF Sound
<1>2. Sound(u, lossFlight)
  BY DEF Sound, Congestionvar, get_cwnd
<1>3. Fresh(v).v = v  BY FreshVariables
<1>4. u = [Fresh(v).v EXCEPT !.isFastRecovery = FALSE, !.dupAckCount = 0]
  BY <1>3
<1> HIDE DEF u
<1>5. FastRecovery(Fresh(v)) = [Fresh(v) EXCEPT !.v = w]
  BY <1>3, <1>4 DEF FastRecovery
<1> HIDE DEF x
<1>6. Sound(w, lossFlight) /\ get_cwnd(w) \in SMSS..x
  BY <1>1, <1>2, SetSound
<1> HIDE DEF w
<1>7. FastRecovery(Fresh(v)) = Fresh(w)
  BY <1>5, FreshVariables
<1>8. Deflated(lossFlight) \in Int
  BY Sizes DEF History, Deflated, max
<1>9. get_cwnd(w) <= Deflated(lossFlight)
  BY <1>1, <1>6, <1>8, Sizes
<1> QED BY <1>6, <1>7, <1>9, FreshLeaves

\* NewReno in fast recovery: full and partial acknowledgments.
LEMMA NewRenoRecoveryLeaves ==
  ASSUME ScaleDivides, Positions, NEW v, Sound(v, lossFlight), v.isFastRecovery,
         NEW a \in Nat, History
  PROVE  Leaves(v, newReno_FastRecovery(Fresh(v), a))
<1> DEFINE u == [v EXCEPT !.dupAckCount = 0]
           F == max(FlightSize, SMSS) + SMSS
           m == min(UINT16(get_ssthres(v)), F)
           n == UINT16(a - v.recover)
<1>0. Fresh(v).v = v  BY FreshVariables
<1>1. /\ Sound(u, lossFlight) /\ u.isFastRecovery /\ get_ssthres(u) = get_ssthres(v)
      /\ u.recover = v.recover /\ v.recover \in Nat
  BY DEF Sound, Congestionvar, get_cwnd, get_ssthres
<1>2. /\ get_ssthres(v) \in SMSS..Word - 1 /\ get_ssthres(v) <= Deflated(lossFlight)
      /\ get_ssthres(v) \in 0..Word - 1
  BY Sizes DEF Sound
<1>4. UINT16(get_ssthres(v)) = get_ssthres(v)
  BY <1>2, CastExact
<1>5. nxt - una \in Int
  BY DEF Positions
<1>6. FlightSize \in 0..Word - 1
  BY <1>5, CastRange DEF FlightSize
<1>7. F \in Nat /\ F >= SMSS
  BY <1>6, Sizes DEF max
<1> HIDE DEF F
<1>8. m \in SMSS..Word - 1 /\ m <= get_ssthres(v)
  BY <1>2, <1>4, <1>7, Sizes DEF min
<1>13. Deflated(lossFlight) \in Int
  BY Sizes DEF History, Deflated, max
<1>9. m <= Deflated(lossFlight)
  BY <1>2, <1>8, <1>13, Sizes
<1>10. u = [Fresh(v).v EXCEPT !.dupAckCount = 0]
  BY <1>0
<1> HIDE DEF m, u
<1>11. CASE isFullAck(Fresh(v), a)
  <2> DEFINE w == set_cwnd(u, m)
             r == [w EXCEPT !.isFastRecovery = FALSE]
  <2>1. Sound(w, lossFlight) /\ get_cwnd(w) \in SMSS..m
    BY <1>1, <1>8, SetSound
  <2>2. newReno_FastRecovery(Fresh(v), a) = [Fresh(v) EXCEPT !.v = r]
    <3>1. m = min(UINT16(get_ssthres(u)), max(FlightSize, SMSS) + SMSS)
      BY <1>1 DEF m, F
    <3> QED BY <1>10, <1>11, <3>1 DEF newReno_FastRecovery
  <2> HIDE DEF w
  <2>3. Sound(r, lossFlight) /\ get_cwnd(r) = get_cwnd(w)
    BY <2>1 DEF Sound, Congestionvar, get_cwnd, get_ssthres
  <2> HIDE DEF r
  <2>4. newReno_FastRecovery(Fresh(v), a) = Fresh(r)
    BY <2>2, FreshVariables
  <2>5. get_cwnd(r) <= Deflated(lossFlight)
    BY <1>8, <1>9, <1>13, <2>1, <2>3, Sizes
  <2> QED BY <2>3, <2>4, <2>5, FreshLeaves
<1>12. CASE ~isFullAck(Fresh(v), a)
  <2> DEFINE w == increase_cwnd(u, n)
  <2>1. n \in Nat
    BY <1>1, CastRange
  <2>2. Sound(w, lossFlight) /\ w.isFastRecovery
    BY <1>1, <2>1, IncreaseSound
  <2>4. newReno_FastRecovery(Fresh(v), a) =
          Sender(w, {a} \cap Queue, lossFlight, lossPoint)
    BY <1>1, <1>10, <1>12, FreshVariables
       DEF newReno_FastRecovery, resend_segment_without_timeout
  <2> HIDE DEF w
  <2>5. {a} \cap Queue \subseteq Nat /\ lossFlight \in Nat /\ lossPoint \in Nat
    BY DEF History
  <2> QED BY <2>2, <2>4, <2>5, SenderLeaves
<1> QED BY <1>11, <1>12

\* Every algorithm, on every acknowledgment.
LEMMA AckLeaves ==
  ASSUME ScaleDivides, Positions, NEW v, Sound(v, lossFlight),
         NEW a \in Nat, NEW due \in BOOLEAN, History
  PROVE  Leaves(v, ack_received(Fresh(v), a, due))
<1>1. Fresh(v).v = v  BY FreshVariables
<1>2. v.variant \in Algorithm  BY DEF Sound, Congestionvar
<1>3. PICK w : /\ CountDup(Fresh(v)) = Fresh(w) /\ Sound(w, lossFlight)
               /\ w.isFastRecovery = v.isFastRecovery /\ w.variant = v.variant
  BY CountLeaves
<1>4. Fresh(w).v = w  BY FreshVariables
<1>5. Leaves(v, Fresh(w))  BY <1>3, FreshLeaves
<1>6. Leaves(v, Grow(Fresh(v), a, due))  BY GrowLeaves
<1>7. v.variant # "OLDTAHOE" => Leaves(v, FastRetransmit(Fresh(w), a))
  BY <1>2, <1>3, RetransmitLeaves DEF Algorithm
<1>8. CASE v.variant = "OLDTAHOE"
  BY <1>1, <1>6, <1>8 DEF ack_received, oldtahoe_ack_received
<1>9. CASE v.variant = "TAHOE"
  <2> DEFINE u == [v EXCEPT !.dupAckCount = 0]
             r == set_cwnd(u, LW)
  <2>1. Sound(u, lossFlight) /\ u.isFastRecovery = v.isFastRecovery
    BY DEF Sound, Congestionvar, get_cwnd, get_ssthres
  <2>2. LW \in SMSS..Word - 1
    BY Sizes
  <2>3. [Fresh(v) EXCEPT !.v = set_cwnd([@ EXCEPT !.dupAckCount = 0], LW)]
          = Fresh(r)
    <3>1. u = [Fresh(v).v EXCEPT !.dupAckCount = 0]
      BY <1>1
    <3> HIDE DEF u
    <3> QED BY <3>1, FreshVariables
  <2> HIDE DEF u
  <2>5. Sound(r, lossFlight) /\ r.isFastRecovery = v.isFastRecovery
    BY <2>1, <2>2, SetSound
  <2> HIDE DEF r
  <2>6. Leaves(v, Fresh(r))
    BY <2>5, FreshLeaves
  <2>7. ack_received(Fresh(v), a, due) = tahoe_ack_received(Fresh(v), a, due)
    BY <1>1, <1>9 DEF ack_received
  <2> QED BY <1>3, <1>4, <1>5, <1>6, <1>7, <1>9, <2>3, <2>6, <2>7
             DEF tahoe_ack_received
<1>10. CASE v.variant = "RENO"
  <2>1. v.isFastRecovery => Leaves(v, FastRecovery(Fresh(v)))
    BY RecoveryLeaves
  <2>2. ack_received(Fresh(v), a, due) = reno_ack_received(Fresh(v), a, due)
    BY <1>1, <1>10 DEF ack_received
  <2> QED BY <1>1, <1>3, <1>4, <1>5, <1>6, <1>7, <1>10, <2>1, <2>2
             DEF reno_ack_received
<1>11. CASE v.variant = "NEWRENO"
  <2> DEFINE r == Moved(w)
  <2>1. /\ Sound(r, lossFlight) /\ r.variant = v.variant
        /\ r.isFastRecovery = v.isFastRecovery
    BY <1>3 DEF Sound, Congestionvar, Positions, Moved, get_cwnd, get_ssthres
  <2>2. [Fresh(w) EXCEPT !.v.recover = nxt] = Fresh(r)
    <3>1. w \in Congestionvar  BY <1>3 DEF Sound
    <3> QED BY <3>1, SenderMoves DEF Fresh
  <2> HIDE DEF r
  <2>3. Leaves(v, FastRetransmit(Fresh(r), a))
    BY <1>11, <2>1, RetransmitLeaves
  <2>4. v.isFastRecovery => Leaves(v, newReno_FastRecovery(Fresh(v), a))
    BY NewRenoRecoveryLeaves
  <2>5. ack_received(Fresh(v), a, due) = newreno_ack_received(Fresh(v), a, due)
    BY <1>1, <1>11 DEF ack_received
  <2> QED BY <1>1, <1>3, <1>4, <1>5, <1>6, <1>11, <2>2, <2>3, <2>4, <2>5
             DEF newreno_ack_received
<1> QED BY <1>2, <1>8, <1>9, <1>10, <1>11 DEF Algorithm

----------------------------------------------------------------------------
(* Steps *)

\* The connection starts with a usable window and nothing in flight.
LEMMA InitSound == ASSUME ScaleDivides, Init PROVE CInv
<1>1. PICK a \in Variants : cong = init_congestion(a)  BY DEF Init
<1> DEFINE v == [variant |-> a, cwnd |-> InitSSThresh, ssthresh |-> InitSSThresh,
                 dupAckCount |-> 0, isFastRecovery |-> FALSE, recover |-> 0]
           w == set_cwnd(v, congestion_set_IW)
           c == congestion_set_IW \div Scale
<1>2. v \in Congestionvar /\ v.isFastRecovery = FALSE
  BY SizeAssumption, VariantAssumption DEF Congestionvar
<1>4. init_congestion(a) = w
  BY DEF init_congestion
<1> HIDE DEF v
<1>3. w = [v EXCEPT !.cwnd = c] /\ c \in 0..Word - 1 /\ c * Scale >= SMSS
  <2>1. congestion_set_IW \in SMSS..Word - 1  BY Sizes
  <2>2. w = [v EXCEPT !.cwnd = c] /\ c \in 0..Word - 1  BY <2>1, SetWindow
  <2>3. c * Scale \in SMSS..congestion_set_IW  BY <2>1, SetWindow
  <2> QED BY <2>2, <2>3
<1> HIDE DEF c, w
<1>5. w \in Congestionvar /\ w.isFastRecovery = FALSE /\ w.cwnd = c
  BY <1>2, <1>3 DEF Congestionvar
<1>6. Sound(w, lossFlight)
  BY <1>3, <1>5 DEF Sound, get_cwnd
<1>7. Sound(cong, lossFlight)
  BY <1>1, <1>4, <1>6
<1>8. First \in Nat /\ Total \in Nat
  BY BoundAssumption
<1>9. acks \in Seq(0..nxt)
  BY DEF Init
<1>10. Positions
  BY <1>8, <1>9, Sizes DEF Init, Positions, FlightFitsWindow
<1>12. resent \in BOOLEAN  BY DEF Init
<1>11. History
  BY <1>12 DEF Init, History, TCP_DupThresh
<1> QED BY <1>7, <1>10, <1>11 DEF CInv, Init

\* The send loop never puts more in flight than the window of v from u on.
LEMMA SendKeeps ==
  ASSUME ScaleDivides, Positions, NEW v, NEW f, Sound(v, f), NEW u \in una..nxt,
         NEW resends, resends \subseteq Nat, send_segment(v, u, resends)
  PROVE  /\ nxt' \in Nat /\ nxt <= nxt' /\ nxt' - u <= LargestWindow
         /\ left' \in Nat /\ net' \subseteq Nat /\ halted' = FALSE
<1> DEFINE x == max(0, get_cwnd(v) + u - nxt)
           n == min(left, Room(get_cwnd(v), u))
<1>1. /\ get_cwnd(v) \in Nat /\ get_cwnd(v) >= SMSS /\ get_cwnd(v) <= LargestWindow
      /\ LargestWindow \in Nat /\ nxt - una <= LargestWindow
  <2>1. v \in Congestionvar /\ get_cwnd(v) >= SMSS  BY DEF Sound
  <2>2. get_cwnd(v) \in Nat /\ get_cwnd(v) <= LargestWindow /\ LargestWindow \in Nat
    BY <2>1, WindowsRead, Sizes
  <2> QED BY <2>1, <2>2 DEF Positions, FlightFitsWindow
<1>2. x \in Nat /\ nxt + x - u <= LargestWindow
  BY <1>1 DEF Positions, max
<1>3. PacketSize \in Nat \ {0}  BY Sizes
<1>4. Room(get_cwnd(v), u) = x \div PacketSize  BY DEF Room
<1>5. x \div PacketSize \in Nat  BY <1>2, <1>3
<1>6. n \in Nat /\ n <= x \div PacketSize /\ left - n \in Nat
  BY <1>4, <1>5 DEF min, Positions
<1>7. /\ nxt' = nxt + n * PacketSize /\ left' = left - n
      /\ net' = net \cup resends \cup {nxt + i * PacketSize : i \in 0 .. n - 1}
      /\ halted' = (get_cwnd(v) < SMSS)
  BY DEF send_segment
<1> HIDE DEF x, n
<1>8. n * PacketSize <= x /\ n * PacketSize \in Nat
  BY <1>2, <1>3, <1>6, PacketsFit
<1>9. \A i \in 0 .. n - 1 : nxt + i * PacketSize \in Nat
  BY <1>3, <1>6 DEF Positions
<1>10. nxt' \in Nat /\ nxt <= nxt' /\ nxt' - u <= LargestWindow
  <2> DEFINE y == n * PacketSize
  <2>1. y \in Nat /\ y <= x /\ nxt' = nxt + y  BY <1>7, <1>8
  <2> HIDE DEF y
  <2>2. u \in Nat /\ nxt \in Nat  BY DEF Positions
  <2> QED BY <1>1, <1>2, <2>1, <2>2
<1>11. net' \subseteq Nat
  BY <1>7, <1>9 DEF Positions
<1>12. halted' = FALSE
  <2> DEFINE low == get_cwnd(v) < SMSS
  <2>1. low = FALSE  BY <1>1, Sizes
  <2>2. halted' = low  BY <1>7
  <2> HIDE DEF low
  <2> QED BY <2>1, <2>2
<1> QED BY <1>6, <1>7, <1>10, <1>11, <1>12

\* The application hands over its packets.
LEMMA AppSendKeeps == ASSUME ScaleDivides, CInv, AppSend PROVE CInv'
<1>1. una \in una..nxt /\ Positions /\ Sound(cong, lossFlight)
  BY DEF CInv, Positions
<1> DEFINE none == {}
<1>2. send_segment(cong, una, none) /\ none \subseteq Nat  BY DEF AppSend
<1> HIDE DEF none
<1>3. /\ nxt' \in Nat /\ nxt <= nxt' /\ nxt' - una <= LargestWindow
      /\ left' \in Nat /\ net' \subseteq Nat /\ halted' = FALSE
  BY <1>1, <1>2, SendKeeps
<1>4. Sound(cong', lossFlight') /\ History'
  BY DEF AppSend, CInv, History
<1>5. 0..nxt \subseteq 0..nxt'
  BY <1>3 DEF CInv, Positions
<1>6. acks' \in Seq(0..nxt')
  BY <1>5, SeqMonotone DEF AppSend, CInv, Positions
<1>7. Positions'
  <2>1. Positions /\ UNCHANGED <<una, rnxt, ooo>>  BY DEF AppSend, CInv
  <2>2. nxt' \in Nat /\ una <= nxt' /\ rnxt \in 0..nxt'
    BY <1>3, <2>1 DEF Positions
  <2> QED BY <1>3, <1>6, <2>1, <2>2 DEF Positions, FlightFitsWindow
<1> QED BY <1>3, <1>4, <1>7 DEF CInv

\* An acknowledgment is handled; leaving fast recovery deflates the window.
LEMMA AckKeeps ==
  ASSUME ScaleDivides, CInv, AckArrives
  PROVE  /\ CInv'
         /\ cong.isFastRecovery /\ ~cong'.isFastRecovery
              => get_cwnd(cong') <= Deflated(lossFlight)
<1>1. PICK i \in DOMAIN acks, due \in BOOLEAN :
        ReceiveAck(i, due) /\ (faults' = faults \/ faults' = faults + 1)
  BY DEF AckArrives, Fault
<1> DEFINE a == acks[i]
           d == ack_received(Fresh(cong), a, due)
<1>2. Positions /\ History /\ Sound(cong, lossFlight)  BY DEF CInv
<1>3. a \in 0..nxt /\ a \in Nat
  BY <1>2 DEF Positions
<1>4. Leaves(cong, d)
  BY <1>2, <1>3, AckLeaves
<1>5. /\ cong' = d.v /\ acks' = RemoveAt(acks, i)
      /\ lossFlight' = d.flight /\ lossPoint' = d.point
      /\ rnxt' = rnxt /\ ooo' = ooo
      /\ \/ /\ a > una /\ una' = a /\ dupRun' = 0 /\ resent' = (a \in d.out)
            /\ send_segment(d.v, a, d.out)
         \/ /\ a <= una
            /\ dupRun' = IF a = una THEN min(dupRun + 1, TCP_DupThresh) ELSE dupRun
            /\ resent' = (resent \/ una \in d.out)
            /\ net' = net \cup d.out
            /\ UNCHANGED <<una, nxt, left, halted>>
  BY <1>1 DEF ReceiveAck
<1> HIDE DEF d
<1>6. Sound(cong', lossFlight')  BY <1>4, <1>5 DEF Leaves
<1>7. RemoveAt(acks, i) \in Seq(0..nxt)
  BY <1>2, RemoveAtType DEF Positions
<1>13. faults' \in Nat
  BY <1>1, <1>2 DEF History
<1>11. resent' \in BOOLEAN
  <2> DEFINE first == a \in d.out
             again == resent \/ una \in d.out
  <2>1. resent' = first \/ resent' = again  BY <1>5
  <2>2. first \in BOOLEAN /\ again \in BOOLEAN  OBVIOUS
  <2> HIDE DEF first, again
  <2> QED BY <2>1, <2>2
<1>12. dupRun' \in 0..TCP_DupThresh
  BY <1>2, <1>5 DEF History, min, TCP_DupThresh
<1>8. History'
  BY <1>2, <1>4, <1>5, <1>11, <1>12, <1>13 DEF History, Leaves
<1>9. CASE a > una
  <2>1. a \in una..nxt /\ d.out \subseteq Nat
    BY <1>2, <1>3, <1>4, <1>9 DEF Positions, Leaves
  <2>2. una' = a /\ send_segment(d.v, a, d.out) /\ Sound(d.v, d.flight)
    BY <1>2, <1>3, <1>4, <1>5, <1>9 DEF Positions, Leaves
  <2> HIDE DEF a
  <2>3. /\ nxt' \in Nat /\ nxt <= nxt' /\ nxt' - a <= LargestWindow
        /\ left' \in Nat /\ net' \subseteq Nat /\ halted' = FALSE
    BY <1>2, <2>1, <2>2, SendKeeps
  <2>4. 0..nxt \subseteq 0..nxt'
    BY <1>2, <2>3 DEF Positions
  <2>5. acks' \in Seq(0..nxt')
    BY <1>5, <1>7, <2>4, SeqMonotone
  <2>6. Positions'
    BY <1>2, <1>3, <1>5, <2>1, <2>2, <2>3, <2>5, SMTT(20) DEF Positions, FlightFitsWindow
  <2> QED BY <1>4, <1>5, <1>6, <1>8, <2>3, <2>6 DEF CInv, Leaves
<1>10. CASE a <= una
  <2>1. /\ UNCHANGED <<una, nxt, left, halted>> /\ net' = net \cup d.out
        /\ d.out \subseteq Nat
    BY <1>2, <1>3, <1>4, <1>5, <1>10 DEF Positions, Leaves
  <2>2. acks' \in Seq(0..nxt')
    BY <1>5, <1>7, <2>1
  <2>3. Positions'
    BY <1>2, <1>5, <2>1, <2>2 DEF Positions, FlightFitsWindow
  <2> QED BY <1>4, <1>5, <1>6, <1>8, <2>1, <2>3 DEF CInv, Leaves
<1> QED BY <1>2, <1>3, <1>9, <1>10 DEF Positions

\* What a timeout does to the variables.
LEMMA TimeoutWindow ==
  ASSUME ScaleDivides, Positions, NEW v, NEW f, Sound(v, f)
  PROVE  LET r == congestion_rto_timeout(v)
         IN  /\ Sound(r, nxt - una) /\ get_cwnd(r) <= SMSS
             /\ r.variant = v.variant /\ r.dupAckCount = v.dupAckCount
             /\ v.variant # "NEWRENO" => r.isFastRecovery = v.isFastRecovery
<1> DEFINE x == LossThreshold
           t == set_ssthres(v, x)
           w == set_cwnd(t, LW)
           r == [w EXCEPT !.recover = nxt, !.isFastRecovery = FALSE]
<1>1. /\ x \in SMSS..Word - 1 /\ x <= Deflated(nxt - una)
      /\ Deflated(nxt - una) \in Nat
  BY Threshold, Sizes
<1>2. congestion_rto_timeout(v) = IF v.variant = "NEWRENO" THEN r ELSE w
  BY DEF congestion_rto_timeout
<1> HIDE DEF x
<1>3. v \in Congestionvar  BY DEF Sound
<1>4. /\ t \in Congestionvar /\ get_ssthres(t) \in SMSS..x /\ get_cwnd(t) = get_cwnd(v)
      /\ t.variant = v.variant /\ t.dupAckCount = v.dupAckCount
      /\ t.isFastRecovery = v.isFastRecovery
  BY <1>1, <1>3, SetThreshold
<1> HIDE DEF t
<1>5. get_ssthres(t) \in SMSS..Word - 1 /\ get_ssthres(t) <= Deflated(nxt - una)
  BY <1>1, <1>4, Sizes
<1>6. Sound(t, nxt - una)
  BY <1>4, <1>5 DEF Sound
<1>7. LW \in SMSS..Word - 1 /\ LW = SMSS /\ LW \in Int  BY Sizes
<1>8. /\ Sound(w, nxt - una) /\ w.isFastRecovery = v.isFastRecovery
      /\ get_cwnd(w) <= SMSS
  <2>1. get_cwnd(w) \in SMSS..LW  BY <1>6, <1>7, SetSound
  <2> QED BY <1>4, <1>6, <1>7, <2>1, SetSound
<1>9. w.variant = v.variant /\ w.dupAckCount = v.dupAckCount
  BY <1>4, <1>7, SetOthers
<1> HIDE DEF w
<1>10. /\ Sound(r, nxt - una) /\ get_cwnd(r) = get_cwnd(w)
       /\ r.variant = w.variant /\ r.dupAckCount = w.dupAckCount
  BY <1>8 DEF Sound, Congestionvar, Positions, get_cwnd
<1> HIDE DEF r
<1> QED BY <1>2, <1>8, <1>9, <1>10

\* A timeout sets the window to one segment and the threshold for the flight.
LEMMA RtoKeeps ==
  ASSUME ScaleDivides, CInv, Rto
  PROVE  /\ CInv'
         /\ cong.isFastRecovery /\ ~cong'.isFastRecovery
              => get_cwnd(cong') <= Deflated(lossFlight)
<1>1. PICK q \in Queue :
        /\ cong' = congestion_rto_timeout(cong) /\ net' = net \cup {q}
        /\ resent' = (resent \/ q = una)
        /\ lossFlight' = nxt - una /\ lossPoint' = nxt /\ faults' = faults + 1
        /\ UNCHANGED <<una, nxt, left, halted, rnxt, ooo, acks, dupRun>>
  BY DEF Rto, Fault
<1>2. Positions /\ History /\ Sound(cong, lossFlight) /\ halted = FALSE  BY DEF CInv
<1>3. LET r == congestion_rto_timeout(cong)
      IN  /\ Sound(r, nxt - una) /\ get_cwnd(r) <= SMSS
  BY <1>2, TimeoutWindow DEF Sound
<1>13. Sound(cong', lossFlight') /\ get_cwnd(cong') <= SMSS
  BY <1>1, <1>3
<1>15. lossFlight \in Nat  BY <1>2 DEF History
<1>16. get_cwnd(cong') <= Deflated(lossFlight)
  <2>1. cong' \in Congestionvar  BY <1>13 DEF Sound
  <2>2. get_cwnd(cong') \in Nat  BY <2>1, WindowsRead
  <2> QED BY <1>13, <1>15, <2>2, Sizes DEF Deflated, max
<1>17. q \in Nat  BY <1>2 DEF Queue, Starts, Positions
<1>18. Positions'
  BY <1>1, <1>2, <1>17 DEF Positions, FlightFitsWindow
<1>19. History'
  BY <1>1, <1>2 DEF History, Positions
<1> QED BY <1>1, <1>2, <1>13, <1>16, <1>18, <1>19 DEF CInv

\* A segment reaches the receiver, which acknowledges at most what was sent.
LEMMA DataKeeps == ASSUME CInv, DataArrives PROVE CInv'
<1>1. PICK q \in net, next \in Starts(rnxt, nxt + 1) :
        /\ rnxt' = next /\ ooo' = {y \in ooo \cup {q} : y > next}
        /\ acks' = Append(acks, next) /\ net' = net \ {q}
        /\ UNCHANGED <<cong, una, nxt, left, halted, faults, dupRun, resent, lossFlight, lossPoint>>
  BY DEF DataArrives
<1>2. Positions /\ History /\ Sound(cong, lossFlight) /\ halted = FALSE  BY DEF CInv
<1>3. next \in 0..nxt
  BY <1>2 DEF Starts, Positions
<1>4. acks' \in Seq(0..nxt)
  BY <1>1, <1>2, <1>3 DEF Positions
<1>5. Positions'
  BY <1>1, <1>2, <1>3, <1>4 DEF Positions, FlightFitsWindow
<1>6. History' /\ Sound(cong', lossFlight')
  BY <1>1, <1>2 DEF History
<1> QED BY <1>1, <1>2, <1>5, <1>6 DEF CInv

\* The path loses a segment or an acknowledgment.
LEMMA LossKeeps == ASSUME CInv, LoseData \/ LoseAck PROVE CInv'
<1>1. Positions /\ History /\ Sound(cong, lossFlight) /\ halted = FALSE  BY DEF CInv
<1>2. /\ UNCHANGED <<cong, una, nxt, left, halted, rnxt, ooo, dupRun, resent, lossFlight, lossPoint>>
      /\ faults' = faults + 1
  BY DEF LoseData, LoseAck, Fault
<1>3. net' \subseteq net
  BY DEF LoseData, LoseAck
<1>4. acks' \in Seq(0..nxt)
  <2>1. CASE LoseData  BY <1>1, <2>1 DEF LoseData, Positions
  <2>2. CASE LoseAck
    <3>1. PICK i \in DOMAIN acks : acks' = RemoveAt(acks, i)  BY <2>2 DEF LoseAck
    <3> QED BY <1>1, <3>1, RemoveAtType DEF Positions
  <2> QED BY <2>1, <2>2
<1>5. Positions'
  BY <1>1, <1>2, <1>3, <1>4 DEF Positions, FlightFitsWindow
<1>6. History' /\ Sound(cong', lossFlight')
  BY <1>1, <1>2 DEF History
<1> QED BY <1>1, <1>2, <1>5, <1>6 DEF CInv

\* Every step keeps the invariant and deflates the window on leaving recovery.
LEMMA StepKeeps ==
  ASSUME ScaleDivides, CInv, [Next]_vars
  PROVE  /\ CInv'
         /\ ~UNCHANGED vars /\ cong.isFastRecovery /\ ~cong'.isFastRecovery
              => get_cwnd(cong') <= Deflated(lossFlight)
<1>1. CASE AppSend
  <2>1. cong' = cong  BY <1>1 DEF AppSend
  <2> QED BY <1>1, <2>1, AppSendKeeps
<1>2. CASE AckArrives  BY <1>2, AckKeeps
<1>3. CASE Rto  BY <1>3, RtoKeeps
<1>4. CASE DataArrives
  <2>1. cong' = cong  BY <1>4 DEF DataArrives
  <2> QED BY <1>4, <2>1, DataKeeps
<1>5. CASE LoseData \/ LoseAck
  <2>1. cong' = cong  BY <1>5 DEF LoseData, LoseAck
  <2> QED BY <1>5, <2>1, LossKeeps
<1>6. CASE UNCHANGED vars
  BY <1>6 DEF vars, CInv, Sound, Positions, History, FlightFitsWindow
<1> QED BY <1>1, <1>2, <1>3, <1>4, <1>5, <1>6 DEF Next

----------------------------------------------------------------------------
(* Theorems *)

\* The invariant holds for every configuration whose scale divides the segment.
THEOREM Invariance == ASSUME ScaleDivides PROVE Spec => []CInv
<1>1. Init => CInv  BY InitSound
<1>2. CInv /\ [Next]_vars => CInv'  BY StepKeeps
<1> QED BY <1>1, <1>2, PTL DEF Spec

\* The variables of the sender keep their types, and the windows their 16 bits.
THEOREM CongestionTyped == ASSUME ScaleDivides PROVE Spec => []TypeOK
<1>1. CInv => TypeOK
  <2> SUFFICES ASSUME CInv PROVE TypeOK  OBVIOUS
  <2>1. acks \in Seq(Nat)
    <3>1. 0..nxt \subseteq Nat  BY DEF CInv, Positions
    <3> QED BY <3>1, SeqMonotone DEF CInv, Positions
  <2>2. halted \in BOOLEAN  BY DEF CInv
  <2>3. rnxt \in Nat  BY DEF CInv, Positions
  <2>4. resent \in BOOLEAN  BY DEF CInv, History
  <2> QED BY <2>1, <2>2, <2>3, <2>4 DEF CInv, Sound, Positions, History, TypeOK
<1> QED BY <1>1, Invariance, PTL

\* Without window scaling, or when the scale divides the segment, the assertion
\* SND.WND >= MSS of send_segment never fails, for every algorithm and path.
THEOREM WindowSuffices == ASSUME ScaleDivides PROVE Spec => []WindowHoldsSegment
<1>1. CInv => WindowHoldsSegment  BY DEF CInv, WindowHoldsSegment
<1> QED BY <1>1, Invariance, PTL

\* No more is in flight than the largest window the sender can store.
THEOREM FlightFits == ASSUME ScaleDivides PROVE Spec => []FlightFitsWindow
<1>1. CInv => FlightFitsWindow  BY DEF CInv, Positions
<1> QED BY <1>1, Invariance, PTL

\* Without window scaling, and there only, this makes the cast to the UINT16
\* FlightSize exact.
THEOREM CastLosesNothing ==
  ASSUME Scale = 1 PROVE Spec => [](FlightSize = nxt - una)
<1>1. ScaleDivides  BY Sizes DEF ScaleDivides
<1>2. CInv => FlightSize = nxt - una
  <2> SUFFICES ASSUME CInv PROVE FlightSize = nxt - una  OBVIOUS
  <2>1. nxt - una \in 0..Word - 1
    BY Sizes DEF CInv, Positions, FlightFitsWindow, LargestWindow
  <2> QED BY <2>1, CastExact DEF FlightSize
<1> QED BY <1>1, <1>2, Invariance, PTL

\* Leaving fast recovery, for whatever reason, leaves a window of at most half
\* the flight of the last loss or two segments.
THEOREM RecoveryEnds == ASSUME ScaleDivides PROVE Spec => RecoveryDeflates
<1>1. CInv /\ CInv' /\ [Next]_vars =>
        [cong.isFastRecovery /\ ~cong'.isFastRecovery
           => get_cwnd(cong') <= max(lossFlight \div 2, 2 * SMSS)]_vars
  <2> SUFFICES ASSUME CInv, CInv', [Next]_vars, ~UNCHANGED vars,
                      cong.isFastRecovery, ~cong'.isFastRecovery
               PROVE  get_cwnd(cong') <= max(lossFlight \div 2, 2 * SMSS)
    OBVIOUS
  <2>1. get_cwnd(cong') <= Deflated(lossFlight)  BY StepKeeps
  <2> QED BY <2>1 DEF Deflated
<1> QED BY <1>1, Invariance, PTL DEF Spec, RecoveryDeflates

----------------------------------------------------------------------------
(* Growth and retransmission.  On a path that keeps the acknowledgments of *)
(* the algorithm in order none is below SND.UNA, and three duplicates that *)
(* one byte has got are three that the algorithm has counted.  Such a path *)
(* is needed: an acknowledgment below SND.UNA is counted as a duplicate,   *)
(* and for Old Tahoe it opens the window (the cast of a - una wraps).      *)

\* Removing an element shifts those behind it.
LEMMA RemoveAtElements ==
  ASSUME NEW S, NEW s \in Seq(S), NEW i \in DOMAIN s
  PROVE  /\ Len(RemoveAt(s, i)) = Len(s) - 1
         /\ \A j \in DOMAIN RemoveAt(s, i) :
              RemoveAt(s, i)[j] = s[IF j < i THEN j ELSE j + 1]
<1> DEFINE x == SubSeq(s, 1, i - 1)
           y == SubSeq(s, i + 1, Len(s))
<1>1. i \in 1..Len(s) /\ Len(s) \in Nat  OBVIOUS
<1>2. /\ x \in Seq(S) /\ Len(x) = i - 1 /\ \A j \in 1..i - 1 : x[j] = s[j]
  <2>1. \A j \in 1..i - 1 : j \in 1..Len(s)  BY <1>1
  <2> QED BY <1>1, <2>1, SubSeqProperties
<1>3. /\ y \in Seq(S) /\ Len(y) = Len(s) - i
      /\ \A j \in 1..Len(s) - i : y[j] = s[i + j]
  <2>1. \A j \in 1..Len(s) - i : i + 1 + j - 1 = i + j  BY <1>1
  <2> QED BY <1>1, <2>1, SubSeqProperties
<1>4. RemoveAt(s, i) = x \o y  BY DEF RemoveAt
<1> HIDE DEF x, y
<1>5. Len(x \o y) = Len(s) - 1  BY <1>1, <1>2, <1>3
<1>6. ASSUME NEW j \in DOMAIN (x \o y)
      PROVE  (x \o y)[j] = s[IF j < i THEN j ELSE j + 1]
  <2>1. j \in 1..Len(s) - 1  BY <1>2, <1>3, <1>5
  <2>2. CASE j < i
    <3>1. j \in 1..i - 1  BY <1>1, <2>1, <2>2
    <3> QED BY <1>2, <1>3, <2>2, <3>1
  <2>3. CASE ~(j < i)
    <3>1. j - (i - 1) \in 1..Len(s) - i /\ i + (j - (i - 1)) = j + 1
      BY <1>1, <2>1, <2>3
    <3>2. (x \o y)[j] = y[j - (i - 1)]
      <4>1. /\ j \in 1..Len(x) + Len(y) /\ ~(j <= Len(x))
            /\ j - Len(x) = j - (i - 1)
        BY <1>1, <1>2, <1>3, <2>1, <2>3
      <4> QED BY <1>2, <1>3, <4>1, ConcatProperties
    <3> QED BY <1>3, <2>3, <3>1, <3>2
  <2> QED BY <2>2, <2>3
<1> QED BY <1>4, <1>5, <1>6

Aligned(x) == (x - First) % PacketSize = 0

InOrder(s) == \A j, k \in DOMAIN s : j <= k => s[j] <= s[k]

\* Acknowledgments point at first bytes; in order they climb from SND.UNA to
\* RCV.NXT.
Ordered ==
  /\ Aligned(una) /\ \A j \in DOMAIN acks : Aligned(acks[j])
  /\ cong.variant \notin Reordering =>
       /\ una <= rnxt /\ InOrder(acks)
       /\ \A j \in DOMAIN acks : una <= acks[j] /\ acks[j] <= rnxt

\* Before the application has sent there is nothing to acknowledge.
Unsent ==
  /\ left <= Total
  /\ left = Total => una = nxt /\ net = {} /\ acks = <<>> /\ cong.dupAckCount = 0

\* Reno counts above the threshold only while it recovers.
Recovering(v) == v.variant = "RENO" /\ v.dupAckCount >= TCP_DupThresh => v.isFastRecovery

\* The algorithm has counted what the history has, and has acted on it.
Counting ==
  cong.variant \in {"TAHOE", "RENO"} \ Reordering =>
    /\ Recovering(cong) /\ dupRun <= cong.dupAckCount
    /\ cong.dupAckCount >= TCP_DupThresh => resent \/ una = nxt

PathInv == CInv /\ Ordered /\ Unsent /\ Counting

\* What an acknowledgment a does to variables v, besides Leaves.
Counts(v, a, d) ==
  /\ d.v.variant = v.variant
  /\ ~v.isFastRecovery /\ d.v.dupAckCount < TCP_DupThresh
       /\ (a >= una \/ v.variant # "OLDTAHOE")
     => get_cwnd(d.v) <= get_cwnd(v) + max(0, a - una)
  /\ v.variant \in {"TAHOE", "RENO"} /\ Recovering(v) =>
       /\ Recovering(d.v)
       /\ a <= una => /\ d.v.dupAckCount = v.dupAckCount + 1
                      /\ d.v.dupAckCount = TCP_DupThresh => d.out = {a} \cap Queue
       /\ a > una => d.v.dupAckCount < TCP_DupThresh

\* The growth of the window: by the bytes acknowledged at most.
LEMMA GrowCounts ==
  ASSUME ScaleDivides, Positions, NEW v, Sound(v, lossFlight),
         NEW a \in 0..nxt, NEW due \in BOOLEAN, a >= una
  PROVE  \E w : /\ Grow(Fresh(v), a, due) = Fresh(w)
                /\ w.variant = v.variant /\ w.dupAckCount = v.dupAckCount
                /\ w.isFastRecovery = v.isFastRecovery
                /\ get_cwnd(w) <= get_cwnd(v) + (a - una)
<1> DEFINE n == min(UINT16(a - una), SMSS)
           w == IF get_cwnd(v) <= get_ssthres(v)
                THEN slowStart(v, a) ELSE CongestionAvoidance(v, a, due)
<1>0. v \in Congestionvar /\ get_cwnd(v) \in Nat
  BY WindowsRead DEF Sound
<1> DEFINE b == a - una
<1>1. b \in Nat  BY DEF Positions
<1>2. UINT16(b) \in Nat /\ UINT16(b) <= b
  <2> HIDE DEF b
  <2>1. b % Word <= b /\ b % Word \in Nat  BY <1>1, Sizes
  <2> QED BY <2>1 DEF UINT16
<1>3. n \in Nat /\ n <= b  BY <1>1, <1>2, Sizes DEF min
<1>4. Grow(Fresh(v), a, due) = Fresh(w)  BY FreshVariables DEF Grow
<1>5. w = increase_cwnd(v, n) \/ w = v  BY DEF slowStart, CongestionAvoidance
<1> HIDE DEF n, w
<1>6. CASE w = increase_cwnd(v, n)
  <2>1. /\ w.variant = v.variant /\ w.dupAckCount = v.dupAckCount
        /\ w.isFastRecovery = v.isFastRecovery /\ get_cwnd(w) <= get_cwnd(v) + n
        /\ w \in Congestionvar
    BY <1>0, <1>3, <1>6, Increase
  <2>2. get_cwnd(w) \in Nat
    BY <2>1, WindowsRead
  <2>3. get_cwnd(w) <= get_cwnd(v) + (a - una)  BY <1>0, <1>1, <1>3, <2>1, <2>2
  <2> QED BY <1>4, <2>1, <2>3
<1>7. CASE w = v
  BY <1>0, <1>1, <1>4, <1>7
<1> QED BY <1>5, <1>6, <1>7

\* Counting a duplicate changes the counter only.
LEMMA CountCounts ==
  ASSUME NEW v \in Congestionvar
  PROVE  \E w \in Congestionvar :
           /\ CountDup(Fresh(v)) = Fresh(w) /\ w.dupAckCount = v.dupAckCount + 1
           /\ w.isFastRecovery = v.isFastRecovery /\ w.variant = v.variant
           /\ get_cwnd(w) = get_cwnd(v)
<1> DEFINE w == Counted(v)
<1>1. CountDup(Fresh(v)) = Fresh(w)
  BY SenderCounts DEF CountDup, Fresh
<1>2. /\ w \in Congestionvar /\ w.dupAckCount = v.dupAckCount + 1
      /\ w.isFastRecovery = v.isFastRecovery /\ w.variant = v.variant
      /\ get_cwnd(w) = get_cwnd(v)
  BY DEF Congestionvar, Counted, get_cwnd
<1> HIDE DEF w
<1> QED BY <1>1, <1>2

\* Fast retransmit keeps the count, and at the threshold sends the segment.
LEMMA RetransmitCounts ==
  ASSUME ScaleDivides, Positions, NEW w \in Congestionvar, NEW a \in Nat
  PROVE  LET d == FastRetransmit(Fresh(w), a)
         IN  /\ d.v.variant = w.variant /\ d.v.dupAckCount = w.dupAckCount
             /\ w.dupAckCount = TCP_DupThresh =>
                  /\ d.out = {a} \cap Queue
                  /\ d.v.isFastRecovery = (w.variant \in {"RENO", "NEWRENO"})
             /\ w.dupAckCount # TCP_DupThresh =>
                  d.v.isFastRecovery = w.isFastRecovery
<1> DEFINE d == FastRetransmit(Fresh(w), a)
<1>0. Fresh(w).v = w  BY FreshVariables
<1>1. CASE w.dupAckCount # TCP_DupThresh
  <2> DEFINE i == increase_cwnd(w, SMSS)
  <2>1. /\ i.variant = w.variant /\ i.dupAckCount = w.dupAckCount
        /\ i.isFastRecovery = w.isFastRecovery
    BY Increase, Sizes
  <2>2. d = Fresh(i)
    BY <1>0, <1>1, FreshVariables DEF FastRetransmit
  <2> HIDE DEF i, d
  <2>3. d.v = i  BY <2>2, FreshVariables
  <2> QED BY <1>1, <2>1, <2>3 DEF d
<1>2. CASE w.dupAckCount = TCP_DupThresh
  <2> DEFINE r == Retransmitted(w)
  <2>1. /\ r.variant = w.variant /\ r.dupAckCount = w.dupAckCount
        /\ r.isFastRecovery = (w.variant \in {"RENO", "NEWRENO"})
    BY RetransmittedWindow
  <2>2. d = Sender(r, {a} \cap Queue, nxt - una, nxt)
    BY <1>0, <1>2
       DEF FastRetransmit, resend_segment_without_timeout, Retransmitted
  <2> HIDE DEF r, d
  <2>3. d.v = r /\ d.out = {a} \cap Queue  BY <2>2 DEF Sender
  <2> QED BY <1>2, <2>1, <2>3 DEF d
<1> QED BY <1>1, <1>2

\* What Grow does to an acknowledgment that is not below SND.UNA, or not new.
LEMMA GrowVariant ==
  ASSUME ScaleDivides, Positions, NEW v, Sound(v, lossFlight),
         NEW a \in Nat, NEW due \in BOOLEAN
  PROVE  Grow(Fresh(v), a, due).v.variant = v.variant
<1> DEFINE n == min(UINT16(a - una), SMSS)
           w == IF get_cwnd(v) <= get_ssthres(v)
                THEN slowStart(v, a) ELSE CongestionAvoidance(v, a, due)
<1>1. n \in Nat  BY CastRange, Sizes DEF Positions, min
<1>2. Grow(Fresh(v), a, due) = Fresh(w)  BY FreshVariables DEF Grow
<1>3. w = increase_cwnd(v, n) \/ w = v  BY DEF slowStart, CongestionAvoidance
<1> HIDE DEF n, w
<1>4. w.variant = v.variant  BY <1>1, <1>3, Increase DEF Sound
<1>5. Fresh(w).v = w  BY FreshVariables
<1> QED BY <1>2, <1>4, <1>5

\* Old Tahoe only grows.
LEMMA OldTahoeCounts ==
  ASSUME ScaleDivides, Positions, NEW v, Sound(v, lossFlight), v.variant = "OLDTAHOE",
         NEW a \in 0..nxt, NEW due \in BOOLEAN
  PROVE  Counts(v, a, ack_received(Fresh(v), a, due))
<1> DEFINE d == ack_received(Fresh(v), a, due)
<1>1. Fresh(v).v = v  BY FreshVariables
<1>2. d = Grow(Fresh(v), a, due)
  BY <1>1 DEF ack_received, oldtahoe_ack_received
<1> HIDE DEF d
<1>3. a \in Nat /\ una \in Nat  BY DEF Positions
<1>4. d.v.variant = v.variant  BY <1>2, <1>3, GrowVariant
<1>5. ASSUME a >= una PROVE get_cwnd(d.v) <= get_cwnd(v) + max(0, a - una)
  <2>1. PICK w : d = Fresh(w) /\ get_cwnd(w) <= get_cwnd(v) + (a - una)
    BY <1>2, <1>5, GrowCounts
  <2>2. d.v = w  BY <2>1, FreshVariables
  <2>3. max(0, a - una) = a - una  BY <1>3, <1>5 DEF max
  <2> QED BY <2>1, <2>2, <2>3
<1> QED BY <1>4, <1>5 DEF Counts, d

\* A new acknowledgment outside recovery, for the other algorithms.
LEMMA NewCounts ==
  ASSUME ScaleDivides, Positions, NEW v, Sound(v, lossFlight), ~v.isFastRecovery,
         NEW a \in 0..nxt, NEW due \in BOOLEAN, a > una,
         v.variant = "TAHOE" => v.dupAckCount < TCP_DupThresh
  PROVE  Counts(v, a, Grow(Fresh(v), a, due))
<1> DEFINE d == Grow(Fresh(v), a, due)
<1>1. a >= una /\ una \in Nat /\ a \in Nat  BY DEF Positions
<1>2. PICK w : /\ d = Fresh(w)
               /\ w.variant = v.variant /\ w.dupAckCount = v.dupAckCount
               /\ w.isFastRecovery = v.isFastRecovery
               /\ get_cwnd(w) <= get_cwnd(v) + (a - una)
  BY <1>1, GrowCounts
<1> HIDE DEF d
<1>3. d.v = w  BY <1>2, FreshVariables
<1>4. max(0, a - una) = a - una /\ ~(a <= una)  BY <1>1 DEF max
<1>5. v.dupAckCount \in Nat  BY DEF Sound, Congestionvar
<1>6. v.variant = "RENO" /\ Recovering(v) => v.dupAckCount < TCP_DupThresh
  BY <1>5 DEF Recovering, TCP_DupThresh
<1> QED BY <1>2, <1>3, <1>4, <1>6 DEF Counts, Recovering, d

\* A duplicate, counted in w, for the other algorithms: below the threshold
\* nothing else happens.
LEMMA DuplicateCounts ==
  ASSUME ScaleDivides, Positions, NEW v, Sound(v, lossFlight),
         NEW w \in Congestionvar, NEW a \in 0..nxt, a <= una,
         w.dupAckCount = v.dupAckCount + 1, w.isFastRecovery = v.isFastRecovery,
         w.variant = v.variant, get_cwnd(w) = get_cwnd(v)
  PROVE  /\ w.dupAckCount < TCP_DupThresh \/ v.variant = "NEWRENO"
              => Counts(v, a, Fresh(w))
         /\ ~(w.dupAckCount < TCP_DupThresh) =>
              Counts(v, a, FastRetransmit(Fresh(w), a))
<1>1. /\ una \in Nat /\ a \in Nat /\ ~(a > una) /\ max(0, a - una) = 0
  BY DEF Positions, max
<1>2. /\ v.dupAckCount \in Nat /\ get_cwnd(v) \in Nat /\ w.dupAckCount \in Nat
  <2>1. v \in Congestionvar  BY DEF Sound
  <2>2. get_cwnd(v) \in Nat  BY <2>1, WindowsRead
  <2> QED BY <2>1, <2>2 DEF Congestionvar
<1>3. ASSUME w.dupAckCount < TCP_DupThresh \/ v.variant = "NEWRENO"
      PROVE  Counts(v, a, Fresh(w))
  <2>1. Fresh(w).v = w  BY FreshVariables
  <2>2. get_cwnd(w) <= get_cwnd(v) + max(0, a - una)  BY <1>1, <1>2
  <2>3. v.variant \in {"TAHOE", "RENO"} => w.dupAckCount < TCP_DupThresh
    BY <1>3
  <2>4. v.variant \in {"TAHOE", "RENO"} => Recovering(w) /\ w.dupAckCount # TCP_DupThresh
    BY <1>2, <2>3 DEF Recovering, TCP_DupThresh
  <2> QED BY <1>1, <2>1, <2>2, <2>4 DEF Counts
<1>4. ASSUME ~(w.dupAckCount < TCP_DupThresh)
      PROVE  Counts(v, a, FastRetransmit(Fresh(w), a))
  <2> DEFINE d == FastRetransmit(Fresh(w), a)
  <2>1. /\ d.v.variant = w.variant /\ d.v.dupAckCount = w.dupAckCount
        /\ w.dupAckCount = TCP_DupThresh =>
             /\ d.out = {a} \cap Queue
             /\ d.v.isFastRecovery = (w.variant \in {"RENO", "NEWRENO"})
        /\ w.dupAckCount # TCP_DupThresh => d.v.isFastRecovery = w.isFastRecovery
    BY <1>1, RetransmitCounts
  <2> HIDE DEF d
  <2>2. Recovering(v) => Recovering(d.v)
    <3>1. CASE w.dupAckCount = TCP_DupThresh
      BY <2>1, <3>1 DEF Recovering
    <3>2. CASE w.dupAckCount # TCP_DupThresh
      <4>1. v.dupAckCount >= TCP_DupThresh
        BY <1>2, <1>4, <3>2 DEF TCP_DupThresh
      <4> QED BY <2>1, <3>2, <4>1 DEF Recovering
    <3> QED BY <3>1, <3>2
  <2> QED BY <1>1, <1>4, <2>1, <2>2 DEF Counts, d
<1> QED BY <1>3, <1>4

\* Leaving or continuing a recovery keeps the algorithm; Reno's ends.
LEMMA RecoveryCounts ==
  ASSUME ScaleDivides, Positions, NEW v, Sound(v, lossFlight), v.isFastRecovery,
         NEW a \in 0..nxt, a > una
  PROVE  /\ v.variant = "RENO" => Counts(v, a, FastRecovery(Fresh(v)))
         /\ v.variant = "NEWRENO" => Counts(v, a, newReno_FastRecovery(Fresh(v), a))
<1>0. Fresh(v).v = v  BY FreshVariables
<1>1. a \in Nat /\ una \in Nat /\ ~(a <= una)  BY DEF Positions
<1>2. v \in Congestionvar  BY DEF Sound
<1>3. ASSUME v.variant = "RENO" PROVE Counts(v, a, FastRecovery(Fresh(v)))
  <2> DEFINE u == [v EXCEPT !.isFastRecovery = FALSE, !.dupAckCount = 0]
             w == set_cwnd(u, get_ssthres(v))
  <2>1. get_ssthres(v) \in Int  BY <1>2, WindowsRead
  <2>2. u \in Congestionvar /\ u.dupAckCount = 0 /\ u.variant = v.variant
    BY <1>2 DEF Congestionvar
  <2>3. u = [Fresh(v).v EXCEPT !.isFastRecovery = FALSE, !.dupAckCount = 0]
    BY <1>0
  <2> HIDE DEF u
  <2>4. FastRecovery(Fresh(v)) = [Fresh(v) EXCEPT !.v = w]
    BY <1>0, <2>3 DEF FastRecovery
  <2>5. w.dupAckCount = 0 /\ w.variant = v.variant
    BY <2>1, <2>2, SetOthers
  <2>6. v.isFastRecovery  OBVIOUS
  <2> HIDE DEF w
  <2>7. FastRecovery(Fresh(v)) = Fresh(w) /\ Fresh(w).v = w
    BY <2>4, FreshVariables
  <2> QED BY <1>1, <1>3, <2>5, <2>6, <2>7 DEF Counts, Recovering, TCP_DupThresh
<1>4. ASSUME v.variant = "NEWRENO"
      PROVE  Counts(v, a, newReno_FastRecovery(Fresh(v), a))
  <2> DEFINE u == [v EXCEPT !.dupAckCount = 0]
             d == newReno_FastRecovery(Fresh(v), a)
  <2>1. u \in Congestionvar /\ u.variant = v.variant /\ u.recover \in Nat
    BY <1>2 DEF Congestionvar
  <2>2. u = [Fresh(v).v EXCEPT !.dupAckCount = 0]  BY <1>0
  <2> HIDE DEF u
  <2>3. CASE isFullAck(Fresh(v), a)
    <3> DEFINE F == max(FlightSize, SMSS) + SMSS
               m == min(UINT16(get_ssthres(u)), F)
               s == set_cwnd(u, m)
               r == [s EXCEPT !.isFastRecovery = FALSE]
    <3>1. d = [Fresh(v) EXCEPT !.v = r]
      BY <2>2, <2>3 DEF newReno_FastRecovery
    <3>2. s.variant = v.variant /\ s = [s EXCEPT !.variant = v.variant]
      <4> DEFINE c == IF Scale > 1 /\ UINT16(m \div Scale) = 0
                      THEN 1 ELSE UINT16(m \div Scale)
      <4>1. s = [u EXCEPT !.cwnd = c]  BY DEF set_cwnd
      <4> HIDE DEF c, s
      <4> QED BY <2>1, <4>1 DEF Congestionvar
    <3> HIDE DEF s
    <3>3. r.variant = v.variant  BY <3>2
    <3> HIDE DEF r, d
    <3>4. d.v = r  BY <3>1, FreshVariables
    <3> QED BY <1>4, <3>3, <3>4 DEF Counts, d
  <2>4. CASE ~isFullAck(Fresh(v), a)
    <3> DEFINE n == UINT16(a - u.recover)
               w == increase_cwnd(u, n)
    <3>1. n \in Nat  BY <1>1, <2>1, CastRange
    <3>2. w.variant = v.variant  BY <2>1, <3>1, Increase
    <3>3. d = Sender(w, {a} \cap Queue, lossFlight, lossPoint)
      BY <2>2, <2>4, FreshVariables
         DEF newReno_FastRecovery, resend_segment_without_timeout
    <3> HIDE DEF w, d
    <3>4. d.v = w  BY <3>3 DEF Sender
    <3> QED BY <1>4, <3>2, <3>4 DEF Counts, d
  <2> QED BY <2>3, <2>4
<1> QED BY <1>3, <1>4

\* Every algorithm, on every acknowledgment.
LEMMA AckCounts ==
  ASSUME ScaleDivides, Positions, NEW v, Sound(v, lossFlight),
         NEW a \in 0..nxt, NEW due \in BOOLEAN
  PROVE  Counts(v, a, ack_received(Fresh(v), a, due))
<1>1. Fresh(v).v = v  BY FreshVariables
<1>2. v.variant \in Algorithm /\ v \in Congestionvar /\ v.dupAckCount \in Nat
  BY DEF Sound, Congestionvar
<1>3. a \in Nat /\ una \in Nat  BY DEF Positions
<1>4. PICK w \in Congestionvar :
        /\ CountDup(Fresh(v)) = Fresh(w) /\ w.dupAckCount = v.dupAckCount + 1
        /\ w.isFastRecovery = v.isFastRecovery /\ w.variant = v.variant
        /\ get_cwnd(w) = get_cwnd(v)
  BY <1>2, CountCounts
<1>5. Fresh(w).v = w  BY FreshVariables
<1>6. ASSUME a <= una, w.dupAckCount < TCP_DupThresh \/ v.variant = "NEWRENO"
      PROVE  Counts(v, a, Fresh(w))
  BY <1>4, <1>6, DuplicateCounts
<1>7. ASSUME a <= una, ~(w.dupAckCount < TCP_DupThresh)
      PROVE  Counts(v, a, FastRetransmit(Fresh(w), a))
  BY <1>4, <1>7, DuplicateCounts
<1>8. ASSUME a > una, ~v.isFastRecovery,
             v.variant = "TAHOE" => v.dupAckCount < TCP_DupThresh
      PROVE  Counts(v, a, Grow(Fresh(v), a, due))
  BY <1>8, NewCounts
<1>9. isDupAck(a) <=> a <= una  BY DEF isDupAck
<1>10. CASE v.variant = "OLDTAHOE"
  BY <1>10, OldTahoeCounts
<1>11. CASE v.variant = "TAHOE"
  <2>1. ack_received(Fresh(v), a, due) = tahoe_ack_received(Fresh(v), a, due)
    BY <1>1, <1>11 DEF ack_received
  <2>2. CASE a <= una
    BY <1>4, <1>5, <1>6, <1>7, <1>9, <2>1, <2>2 DEF tahoe_ack_received
  <2>3. CASE a > una /\ v.dupAckCount > 0
    <3> DEFINE u == [v EXCEPT !.dupAckCount = 0]
               r == set_cwnd(u, LW)
    <3>1. /\ Sound(u, lossFlight) /\ u \in Congestionvar
          /\ u.dupAckCount = 0 /\ u.variant = v.variant
      BY <1>2 DEF Sound, Congestionvar, get_cwnd, get_ssthres
    <3>2. LW \in SMSS..Word - 1 /\ LW = SMSS /\ LW \in Int  BY Sizes
    <3>3. u = [Fresh(v).v EXCEPT !.dupAckCount = 0]  BY <1>1
    <3> HIDE DEF u
    <3>4. get_cwnd(r) \in SMSS..LW  BY <3>1, <3>2, SetSound
    <3>5. r.dupAckCount = 0 /\ r.variant = v.variant
      BY <3>1, <3>2, SetOthers
    <3> HIDE DEF r
    <3>6. ~isDupAck(a)  BY <1>3, <1>9, <2>3
    <3>7. ack_received(Fresh(v), a, due) = Fresh(r)
      BY <1>1, <2>1, <2>3, <3>3, <3>6, FreshVariables DEF tahoe_ack_received, r
    <3>8. Fresh(r).v = r  BY FreshVariables
    <3>9. get_cwnd(r) <= get_cwnd(v) + max(0, a - una)
      <4>1. get_cwnd(v) >= SMSS /\ get_cwnd(v) \in Nat
        BY <1>2, WindowsRead DEF Sound
      <4>2. max(0, a - una) \in Nat  BY <1>3 DEF max
      <4> QED BY <3>2, <3>4, <4>1, <4>2, Sizes
    <3> QED BY <1>3, <1>11, <2>3, <3>5, <3>7, <3>8, <3>9
            DEF Counts, Recovering, TCP_DupThresh
  <2>4. CASE a > una /\ ~(v.dupAckCount > 0)
    <3>1. v.dupAckCount < TCP_DupThresh /\ ~isDupAck(a) /\ ~v.isFastRecovery
      BY <1>2, <1>3, <1>9, <1>11, <2>4 DEF TCP_DupThresh, Sound
    <3> QED BY <1>1, <1>8, <2>1, <2>4, <3>1 DEF tahoe_ack_received
  <2> QED BY <1>2, <1>3, <2>2, <2>3, <2>4
<1>12. CASE v.variant = "RENO"
  <2>1. ack_received(Fresh(v), a, due) = reno_ack_received(Fresh(v), a, due)
    BY <1>1, <1>12 DEF ack_received
  <2>2. CASE a <= una
    BY <1>4, <1>5, <1>6, <1>7, <1>9, <2>1, <2>2 DEF reno_ack_received
  <2>3. CASE a > una
    <3>1. ~isDupAck(a)  BY <1>3, <1>9, <2>3
    <3>2. v.isFastRecovery => Counts(v, a, FastRecovery(Fresh(v)))
      BY <1>12, <2>3, RecoveryCounts
    <3> QED BY <1>1, <1>8, <1>12, <2>1, <2>3, <3>1, <3>2 DEF reno_ack_received
  <2> QED BY <1>3, <2>2, <2>3
<1>13. CASE v.variant = "NEWRENO"
  <2>1. ack_received(Fresh(v), a, due) = newreno_ack_received(Fresh(v), a, due)
    BY <1>1, <1>13 DEF ack_received
  <2>2. CASE a <= una
    <3> DEFINE r == Moved(w)
    <3>1. /\ r \in Congestionvar /\ r.dupAckCount = v.dupAckCount + 1
          /\ r.isFastRecovery = v.isFastRecovery /\ r.variant = v.variant
          /\ get_cwnd(r) = get_cwnd(v)
      BY <1>4 DEF Congestionvar, Positions, Moved, get_cwnd
    <3>2. [Fresh(w) EXCEPT !.v.recover = nxt] = Fresh(r)
      BY <1>4, SenderMoves DEF Fresh
    <3>3. r.dupAckCount = w.dupAckCount  BY <1>4, <3>1
    <3> HIDE DEF r
    <3>4. ~(w.dupAckCount < TCP_DupThresh) => Counts(v, a, FastRetransmit(Fresh(r), a))
      BY <2>2, <3>1, <3>3, DuplicateCounts
    <3>5. Counts(v, a, Fresh(w))  BY <1>6, <1>13, <2>2
    <3> QED BY <1>4, <1>5, <1>9, <2>1, <2>2, <3>2, <3>4, <3>5 DEF newreno_ack_received
  <2>3. CASE a > una
    <3>1. ~isDupAck(a)  BY <1>3, <1>9, <2>3
    <3>2. v.isFastRecovery => Counts(v, a, newReno_FastRecovery(Fresh(v), a))
      BY <1>13, <2>3, RecoveryCounts
    <3> QED BY <1>1, <1>8, <1>13, <2>1, <2>3, <3>1, <3>2 DEF newreno_ack_received
  <2> QED BY <1>3, <2>2, <2>3
<1> QED BY <1>2, <1>10, <1>11, <1>12, <1>13 DEF Algorithm

\* What the connection starts with.
LEMMA PathInit == ASSUME ScaleDivides, Init PROVE PathInv
<1>1. CInv  BY InitSound
<1>2. PICK x \in Variants : cong = init_congestion(x)  BY DEF Init
<1>3. cong.dupAckCount = 0
  <2> DEFINE v == [variant |-> x, cwnd |-> InitSSThresh, ssthresh |-> InitSSThresh,
                   dupAckCount |-> 0, isFastRecovery |-> FALSE, recover |-> 0]
  <2>1. congestion_set_IW \in Int  BY Sizes
  <2>2. v \in Congestionvar /\ v.dupAckCount = 0
    BY SizeAssumption, VariantAssumption DEF Congestionvar
  <2>3. init_congestion(x) = set_cwnd(v, congestion_set_IW)  BY DEF init_congestion
  <2> HIDE DEF v
  <2>4. set_cwnd(v, congestion_set_IW).dupAckCount = 0  BY <2>1, <2>2, SetOthers
  <2> QED BY <1>2, <2>3, <2>4
<1>4. First \in Nat /\ Total \in Nat /\ PacketSize \in Nat \ {0}
  BY BoundAssumption, Sizes
<1>5. Ordered  BY <1>4 DEF Init, Ordered, Aligned, InOrder
<1>6. Unsent  BY <1>3, <1>4 DEF Init, Unsent
<1>7. Counting  BY <1>3 DEF Init, Counting, Recovering, TCP_DupThresh
<1> QED BY <1>1, <1>5, <1>6, <1>7 DEF PathInv

\* The first packets leave: from then on fewer than Total are left.
LEMMA AppSendPath == ASSUME ScaleDivides, PathInv, AppSend PROVE PathInv'
<1>1. CInv' /\ Positions /\ Sound(cong, lossFlight)
  BY AppSendKeeps DEF PathInv, CInv
<1>2. /\ left = Total /\ send_segment(cong, una, {})
      /\ UNCHANGED <<cong, una, rnxt, ooo, acks, dupRun, resent>>
  BY DEF AppSend
<1>3. una = nxt /\ net = {} /\ acks = <<>> /\ cong.dupAckCount = 0
  BY <1>2 DEF PathInv, Unsent
<1> DEFINE r == Room(get_cwnd(cong), una)
           n == min(left, r)
<1>4. r \in Nat /\ r >= 1
  <2>1. get_cwnd(cong) \in Nat /\ get_cwnd(cong) >= PacketSize
    <3>1. /\ get_cwnd(cong) >= SMSS /\ get_cwnd(cong) \in Nat
      BY <1>1, WindowsRead DEF Sound
    <3>2. PacketSize <= SMSS /\ SMSS \in Nat /\ PacketSize \in Nat
      BY Sizes, SizeAssumption
    <3> QED BY <3>1, <3>2
  <2>2. max(0, get_cwnd(cong) + una - nxt) = get_cwnd(cong)
    BY <1>1, <1>3, <2>1 DEF max, Positions
  <2>3. r = get_cwnd(cong) \div PacketSize  BY <2>2 DEF Room
  <2> QED BY <2>1, <2>3, Sizes
<1>5. /\ nxt' = nxt + n * PacketSize /\ left' = left - n
      /\ net' = net \cup {} \cup {nxt + i * PacketSize : i \in 0 .. n - 1}
  BY <1>2 DEF send_segment
<1> HIDE DEF r
<1>6. n \in Nat /\ left \in Nat /\ n <= left /\ (left > 0 => n > 0)
  BY <1>1, <1>4 DEF min, Positions
<1> HIDE DEF n
<1>7. Unsent'
  <2>1. CASE left > 0
    BY <1>2, <1>5, <1>6, <2>1 DEF Unsent
  <2>2. CASE left = 0
    <3>1. n = 0 /\ n * PacketSize = 0  BY <1>6, <2>2, Sizes
    <3>2. net' = {} /\ nxt' = nxt
      BY <1>1, <1>3, <1>5, <3>1 DEF Positions
    <3> QED BY <1>2, <1>3, <1>5, <1>6, <3>1, <3>2 DEF Unsent
  <2> QED BY <1>6, <2>1, <2>2
<1>8. Ordered'  BY <1>2 DEF PathInv, Ordered, Aligned, InOrder
<1>9. Counting'
  BY <1>2, <1>3 DEF PathInv, Counting, Recovering, TCP_DupThresh
<1> QED BY <1>1, <1>7, <1>8, <1>9 DEF PathInv

\* An acknowledgment is taken from the path, in order or not.
LEMMA AckPath == ASSUME ScaleDivides, PathInv, AckArrives PROVE PathInv'
<1>1. PICK i \in DOMAIN acks, due \in BOOLEAN :
        ReceiveAck(i, due) /\ (i = 1 \/ cong.variant \in Reordering)
  BY DEF AckArrives
<1> DEFINE a == acks[i]
           d == ack_received(Fresh(cong), a, due)
<1>2. /\ CInv' /\ Positions /\ Sound(cong, lossFlight) /\ acks \in Seq(0..nxt)
      /\ acks # <<>> /\ History
  <2>1. CInv' /\ CInv  BY AckKeeps DEF PathInv
  <2>2. acks \in Seq(0..nxt)  BY <2>1 DEF CInv, Positions
  <2>3. acks # <<>>  BY <1>1
  <2> QED BY <2>1, <2>2, <2>3 DEF CInv
<1>3. a \in 0..nxt /\ a \in Nat /\ una \in Nat /\ nxt \in Nat /\ una <= nxt
  BY <1>2 DEF Positions
<1>4. Counts(cong, a, d)
  BY <1>2, <1>3, AckCounts
<1>5. /\ cong' = d.v /\ acks' = RemoveAt(acks, i)
      /\ rnxt' = rnxt
      /\ \/ /\ a > una /\ una' = a /\ dupRun' = 0 /\ resent' = (a \in d.out)
            /\ send_segment(d.v, a, d.out)
         \/ /\ a <= una
            /\ dupRun' = IF a = una THEN min(dupRun + 1, TCP_DupThresh) ELSE dupRun
            /\ resent' = (resent \/ una \in d.out)
            /\ UNCHANGED <<una, nxt, left>>
  BY <1>1 DEF ReceiveAck
<1>6. /\ Len(acks') = Len(acks) - 1
      /\ \A j \in DOMAIN acks' : acks'[j] = acks[IF j < i THEN j ELSE j + 1]
  BY <1>2, <1>5, RemoveAtElements
<1>7. /\ acks' \in Seq(0..nxt) /\ Len(acks') \in Nat /\ Len(acks) \in Nat
      /\ DOMAIN acks' = 1..Len(acks') /\ DOMAIN acks = 1..Len(acks)
  BY <1>2, <1>5, RemoveAtType
<1>8. \A j \in DOMAIN acks' : (IF j < i THEN j ELSE j + 1) \in DOMAIN acks
  BY <1>6, <1>7
<1>9. cong'.variant = cong.variant  BY <1>4, <1>5 DEF Counts
<1>10. left' <= left /\ left < Total
  <2>1. left # Total /\ left <= Total  BY <1>2 DEF PathInv, Unsent
  <2>2. left \in Nat /\ Total \in Nat  BY <1>2, BoundAssumption DEF Positions
  <2>3. left' <= left
    <3>1. CASE a > una
      <4> DEFINE m == max(0, get_cwnd(d.v) + a - nxt)
                 n == min(left, Room(get_cwnd(d.v), a))
      <4>1. a > una /\ send_segment(d.v, a, d.out)  BY <1>3, <1>5, <3>1
      <4>2. left' = left - n  BY <4>1 DEF send_segment
      <4>3. Sound(cong', lossFlight') /\ cong' = d.v
        BY <1>2, <1>5 DEF CInv
      <4>4. get_cwnd(d.v) \in Nat  BY <4>3, WindowsRead DEF Sound
      <4> HIDE DEF d, a
      <4>5. m \in Nat  BY <1>3, <4>4 DEF max
      <4>6. Room(get_cwnd(d.v), a) \in Nat  BY <4>5, Sizes DEF Room
      <4>7. n \in Nat /\ n <= left  BY <2>2, <4>6 DEF min
      <4> QED BY <2>2, <4>2, <4>7
    <3>2. CASE a <= una  BY <1>3, <1>5, <2>2, <3>2
    <3> QED BY <1>3, <3>1, <3>2
  <2> QED BY <2>1, <2>2, <2>3
<1> HIDE DEF d
<1>11. una' = IF a > una THEN a ELSE una  BY <1>3, <1>5
<1>12. Ordered'
  <2>1. Aligned(a) /\ Aligned(una) /\ \A j \in DOMAIN acks : Aligned(acks[j])
    BY DEF PathInv, Ordered
  <2>2. Aligned(una)' /\ \A j \in DOMAIN acks' : Aligned(acks'[j])
    BY <1>6, <1>8, <1>11, <2>1 DEF Aligned
  <2>3. ASSUME cong.variant \notin Reordering
        PROVE  /\ una' <= rnxt' /\ InOrder(acks')
               /\ \A j \in DOMAIN acks' : una' <= acks'[j] /\ acks'[j] <= rnxt'
    <3>1. /\ i = 1 /\ una <= rnxt /\ InOrder(acks)
          /\ \A j \in DOMAIN acks : una <= acks[j] /\ acks[j] <= rnxt
      BY <1>1, <2>3 DEF PathInv, Ordered
    <3>2. una' = a  BY <1>3, <1>11, <3>1
    <3>3. \A j \in DOMAIN acks' : acks'[j] = acks[j + 1] /\ j + 1 \in DOMAIN acks
      BY <1>6, <1>7, <1>8, <3>1
    <3>4. InOrder(acks')
      BY <1>7, <3>1, <3>3 DEF InOrder
    <3>5. \A j \in DOMAIN acks' : a <= acks'[j]
      BY <1>7, <3>1, <3>3 DEF InOrder
    <3> QED BY <1>5, <3>1, <3>2, <3>3, <3>4, <3>5
  <2> QED BY <1>9, <2>2, <2>3 DEF Ordered, Aligned
<1>13. Unsent'
  BY <1>2, <1>10, BoundAssumption DEF Unsent, CInv, Positions
<1>14. Counting'
  <2> SUFFICES ASSUME cong.variant \in {"TAHOE", "RENO"} \ Reordering
               PROVE  /\ Recovering(cong') /\ dupRun' <= cong'.dupAckCount
                      /\ cong'.dupAckCount >= TCP_DupThresh => resent' \/ una' = nxt'
    BY <1>9 DEF Counting, Recovering
  <2>1. /\ Recovering(cong) /\ dupRun <= cong.dupAckCount
        /\ cong.dupAckCount >= TCP_DupThresh => resent \/ una = nxt
    BY DEF PathInv, Counting
  <2>2. /\ Recovering(d.v)
        /\ a <= una => /\ d.v.dupAckCount = cong.dupAckCount + 1
                       /\ d.v.dupAckCount = TCP_DupThresh => d.out = {a} \cap Queue
        /\ a > una => d.v.dupAckCount < TCP_DupThresh
    BY <1>4, <2>1 DEF Counts
  <2>3. a >= una /\ Aligned(una)
    BY DEF PathInv, Ordered
  <2>4. cong.dupAckCount \in Nat /\ d.v.dupAckCount \in Nat /\ dupRun \in Nat
    BY <1>2, <1>5 DEF CInv, Sound, Congestionvar, History
  <2>5. CASE a > una
    <3>1. dupRun' = 0 /\ ~(cong'.dupAckCount >= TCP_DupThresh) /\ 0 <= cong'.dupAckCount
      BY <1>3, <1>5, <2>2, <2>4, <2>5 DEF TCP_DupThresh
    <3> QED BY <1>5, <2>2, <3>1
  <2>6. CASE a <= una
    <3>1. /\ a = una /\ UNCHANGED <<una, nxt>>
          /\ dupRun' = min(dupRun + 1, TCP_DupThresh)
          /\ resent' = (resent \/ una \in d.out)
      BY <1>3, <1>5, <2>3, <2>6
    <3>2. dupRun' <= cong'.dupAckCount
      BY <1>5, <2>1, <2>2, <2>4, <2>6, <3>1 DEF min, TCP_DupThresh
    <3>3. ASSUME cong'.dupAckCount >= TCP_DupThresh PROVE resent' \/ una' = nxt'
      <4>1. CASE cong.dupAckCount >= TCP_DupThresh
        BY <2>1, <3>1, <4>1
      <4>2. CASE ~(cong.dupAckCount >= TCP_DupThresh)
        <5>1. d.v.dupAckCount = TCP_DupThresh
          BY <1>5, <2>2, <2>4, <2>6, <3>3, <4>2 DEF TCP_DupThresh
        <5>2. una < nxt => una \in Queue
          BY <1>3, <2>3 DEF Queue, Starts, Aligned
        <5>3. d.out = {una} \cap Queue  BY <2>2, <2>6, <3>1, <5>1
        <5>4. una < nxt => una \in d.out  BY <5>2, <5>3
        <5> DEFINE again == resent \/ una \in d.out
        <5>5. resent' = again  BY <3>1
        <5>6. una < nxt => again  BY <5>4
        <5>7. una < nxt \/ una = nxt  BY <1>3
        <5> HIDE DEF again
        <5>8. CASE una < nxt
          <6>1. again  BY <5>6, <5>8
          <6> QED BY <5>5, <6>1
        <5> QED BY <3>1, <5>7, <5>8
      <4> QED BY <4>1, <4>2
    <3> QED BY <1>5, <2>2, <3>2, <3>3
  <2> QED BY <1>3, <2>5, <2>6
<1> QED BY <1>2, <1>12, <1>13, <1>14 DEF PathInv

\* The timer repeats a queued segment; nothing else that counts changes.
LEMMA RtoPath == ASSUME ScaleDivides, PathInv, Rto PROVE PathInv'
<1>1. PICK q \in Queue :
        /\ cong' = congestion_rto_timeout(cong) /\ net' = net \cup {q}
        /\ resent' = (resent \/ q = una)
        /\ UNCHANGED <<una, nxt, left, rnxt, acks, dupRun>>
  BY DEF Rto
<1>2. CInv' /\ Positions /\ Sound(cong, lossFlight)
  BY RtoKeeps DEF PathInv, CInv
<1>3. /\ cong'.variant = cong.variant /\ cong'.dupAckCount = cong.dupAckCount
      /\ cong.variant # "NEWRENO" => cong'.isFastRecovery = cong.isFastRecovery
  BY <1>1, <1>2, TimeoutWindow
<1>4. una # nxt
  BY <1>1, <1>2 DEF Queue, Starts, Positions
<1>5. Unsent'  BY <1>1, <1>4 DEF PathInv, Unsent
<1>6. Ordered'  BY <1>1, <1>3 DEF PathInv, Ordered, Aligned, InOrder
<1>7. Counting'
  BY <1>1, <1>3 DEF PathInv, Counting, Recovering
<1> QED BY <1>2, <1>5, <1>6, <1>7 DEF PathInv

\* A segment arrives; its acknowledgment is the last and the highest.
LEMMA DataPath == ASSUME PathInv, DataArrives PROVE PathInv'
<1>1. PICK q \in net, next \in Starts(rnxt, nxt + 1) :
        /\ rnxt' = next /\ acks' = Append(acks, next) /\ net' = net \ {q}
        /\ UNCHANGED <<cong, una, nxt, left, dupRun, resent>>
  BY DEF DataArrives
<1>2. CInv' /\ Positions /\ acks \in Seq(0..nxt)
  BY DataKeeps DEF PathInv, CInv, Positions
<1>3. Aligned(next) /\ next >= rnxt /\ next \in Int /\ rnxt \in Int
  BY <1>2 DEF Starts, Aligned, Positions
<1>4. /\ DOMAIN acks' = DOMAIN acks \cup {Len(acks) + 1}
      /\ \A j \in DOMAIN acks : acks'[j] = acks[j] /\ j \in 1..Len(acks)
      /\ acks'[Len(acks) + 1] = next /\ Len(acks) \in Nat
  BY <1>1, <1>2
<1>5. Ordered'
  <2>1. Aligned(una)' /\ \A j \in DOMAIN acks' : Aligned(acks'[j])
    BY <1>1, <1>3, <1>4 DEF PathInv, Ordered, Aligned
  <2>2. ASSUME cong.variant \notin Reordering
        PROVE  /\ una' <= rnxt' /\ InOrder(acks')
               /\ \A j \in DOMAIN acks' : una' <= acks'[j] /\ acks'[j] <= rnxt'
    <3>1. /\ una <= rnxt /\ InOrder(acks)
          /\ \A j \in DOMAIN acks : una <= acks[j] /\ acks[j] <= rnxt
      BY <2>2 DEF PathInv, Ordered
    <3>2. una \in Int /\ \A j \in DOMAIN acks : acks[j] \in Int
      BY <1>2 DEF Positions
    <3>3. una <= next /\ \A j \in DOMAIN acks : una <= acks[j] /\ acks[j] <= next
      BY <1>3, <3>1, <3>2
    <3>4. InOrder(acks')
      BY <1>4, <3>1, <3>3, <1>3 DEF InOrder
    <3> QED BY <1>1, <1>3, <1>4, <3>3, <3>4
  <2> QED BY <1>1, <2>1, <2>2 DEF Ordered, Aligned
<1>6. Unsent'  BY <1>1 DEF PathInv, Unsent
<1>7. Counting'  BY <1>1 DEF PathInv, Counting, Recovering
<1> QED BY <1>2, <1>5, <1>6, <1>7 DEF PathInv

\* What is lost leaves the rest in order.
LEMMA LossPath == ASSUME PathInv, LoseData \/ LoseAck PROVE PathInv'
<1>1. UNCHANGED <<cong, una, nxt, left, rnxt, dupRun, resent>> /\ net' \subseteq net
  BY DEF LoseData, LoseAck
<1>2. CInv' /\ acks \in Seq(0..nxt)
  BY LossKeeps DEF PathInv, CInv, Positions
<1>3. \/ acks' = acks
      \/ \E i \in DOMAIN acks : acks' = RemoveAt(acks, i) /\ net' = net
  BY DEF LoseData, LoseAck
<1>4. CASE acks' = acks
  BY <1>1, <1>2, <1>4
     DEF PathInv, Ordered, Aligned, InOrder, Unsent, Counting, Recovering
<1>5. CASE \E i \in DOMAIN acks : acks' = RemoveAt(acks, i) /\ net' = net
  <2>1. PICK i \in DOMAIN acks : acks' = RemoveAt(acks, i)
    BY <1>5
  <2>2. /\ Len(acks') = Len(acks) - 1 /\ acks' \in Seq(0..nxt)
        /\ \A j \in DOMAIN acks' : acks'[j] = acks[IF j < i THEN j ELSE j + 1]
    BY <1>2, <2>1, RemoveAtElements, RemoveAtType
  <2> DEFINE f == [j \in DOMAIN acks' |-> IF j < i THEN j ELSE j + 1]
  <2>3. /\ \A j \in DOMAIN acks' : f[j] \in DOMAIN acks /\ acks'[j] = acks[f[j]]
        /\ \A j, k \in DOMAIN acks' : j <= k => f[j] <= f[k]
    BY <1>2, <2>2
  <2> HIDE DEF f
  <2>4. Ordered'
    BY <1>1, <2>3 DEF PathInv, Ordered, Aligned, InOrder
  <2>5. Unsent' /\ Counting'
    BY <1>1, <2>1 DEF PathInv, Unsent, Counting, Recovering
  <2> QED BY <1>2, <2>4, <2>5 DEF PathInv
<1> QED BY <1>3, <1>4, <1>5

\* Every step keeps the counts in order.
LEMMA PathKeeps == ASSUME ScaleDivides, PathInv, [Next]_vars PROVE PathInv'
<1>1. CASE UNCHANGED vars
  <2>1. CInv'  BY <1>1, StepKeeps DEF PathInv
  <2> QED BY <1>1, <2>1 DEF vars, PathInv, Ordered, Aligned, InOrder, Unsent,
                            Counting, Recovering
<1> QED BY <1>1, AppSendPath, AckPath, RtoPath, DataPath, LossPath DEF Next

LEMMA PathInvariance == ASSUME ScaleDivides PROVE Spec => []PathInv
<1>1. Init => PathInv  BY PathInit
<1>2. PathInv /\ [Next]_vars => PathInv'  BY PathKeeps
<1> QED BY <1>1, <1>2, PTL DEF Spec

\* Tahoe and Reno retransmit the oldest segment by its third duplicate ACK,
\* whatever is lost, retransmitted or timed out before, when the path keeps
\* their ACKs in order.
THEOREM ThirdDuplicateResends ==
  ASSUME ScaleDivides, {"TAHOE", "RENO"} \cap Reordering = {}
  PROVE  Spec => []LostSegmentResent
<1>1. PathInv => LostSegmentResent
  <2> SUFFICES ASSUME PathInv, ThreeDuplicates, cong.variant \in {"TAHOE", "RENO"}
               PROVE  resent
    BY DEF LostSegmentResent
  <2>1. /\ dupRun <= cong.dupAckCount
        /\ cong.dupAckCount >= TCP_DupThresh => resent \/ una = nxt
    BY DEF PathInv, Counting
  <2>2. dupRun = TCP_DupThresh /\ una < nxt  BY DEF ThreeDuplicates
  <2>3. cong.dupAckCount \in Nat /\ una \in Nat /\ nxt \in Nat
    BY DEF PathInv, CInv, Sound, Congestionvar, Positions
  <2> QED BY <2>1, <2>2, <2>3 DEF TCP_DupThresh
<1> QED BY <1>1, PathInvariance, PTL

\* Outside recovery no algorithm opens the window by more than the bytes newly
\* acknowledged, as long as Old Tahoe sees its ACKs in order.
THEOREM GrowthAcknowledged ==
  ASSUME ScaleDivides, "OLDTAHOE" \notin Reordering
  PROVE  Spec => GrowsByAckedBytes
<1>1. PathInv /\ [Next]_vars =>
        [~cong.isFastRecovery /\ cong'.dupAckCount < TCP_DupThresh
           => get_cwnd(cong') - get_cwnd(cong) <= max(0, una' - una)]_vars
  <2> SUFFICES ASSUME PathInv, Next, ~cong.isFastRecovery,
                      cong'.dupAckCount < TCP_DupThresh
               PROVE  get_cwnd(cong') - get_cwnd(cong) <= max(0, una' - una)
    OBVIOUS
  <2>1. CInv'  BY PathKeeps DEF PathInv
  <2>2. /\ get_cwnd(cong') \in Nat /\ get_cwnd(cong) \in Nat
        /\ get_cwnd(cong) >= SMSS /\ una \in Nat /\ una' \in Nat
    <3>1. cong \in Congestionvar /\ cong' \in Congestionvar
      BY <2>1 DEF PathInv, CInv, Sound
    <3> QED BY <2>1, <3>1, WindowsRead DEF PathInv, CInv, Sound, Positions
  <2>3. max(0, una' - una) \in Nat
    <3>1. \A m \in Int : max(0, m) \in Nat  BY DEF max
    <3> QED BY <2>2, <3>1
  <2>4. CASE cong' = cong
    BY <2>2, <2>3, <2>4
  <2>5. CASE Rto
    <3>1. Positions /\ Sound(cong, lossFlight)  BY DEF PathInv, CInv
    <3>2. cong' = congestion_rto_timeout(cong)  BY <2>5 DEF Rto
    <3>3. get_cwnd(cong') <= SMSS  BY <3>1, <3>2, TimeoutWindow
    <3> QED BY <2>2, <2>3, <3>3, Sizes
  <2>6. CASE AckArrives
    <3>1. PICK i \in DOMAIN acks, due \in BOOLEAN :
            ReceiveAck(i, due) /\ (i = 1 \/ cong.variant \in Reordering)
      BY <2>6 DEF AckArrives
    <3> DEFINE a == acks[i]
               d == ack_received(Fresh(cong), a, due)
    <3>2. Positions /\ Sound(cong, lossFlight) /\ a \in 0..nxt /\ a \in Nat
      BY DEF PathInv, CInv, Positions
    <3>3. Counts(cong, a, d)  BY <3>2, AckCounts
    <3>4. /\ cong' = d.v
          /\ \/ a > una /\ una' = a
             \/ a <= una /\ una' = una
      BY <3>1 DEF ReceiveAck
    <3> HIDE DEF d
    <3>5. a >= una \/ cong.variant # "OLDTAHOE"
      BY DEF PathInv, Ordered
    <3>6. get_cwnd(cong') <= get_cwnd(cong) + max(0, a - una)
      BY <3>3, <3>4, <3>5 DEF Counts
    <3>7. max(0, a - una) = max(0, una' - una)
      <4>1. \A m \in Int : m <= 0 => max(0, m) = 0  BY DEF max
      <4>2. a - una \in Int /\ una' - una \in Int  BY <2>2, <3>2
      <4>3. CASE a > una
        <5>1. ~(a <= una)  BY <2>2, <3>2, <4>3
        <5>2. una' = a  BY <3>4, <5>1
        <5> QED BY <5>2
      <4>4. CASE a <= una
        <5>1. ~(a > una)  BY <2>2, <3>2, <4>4
        <5>2. una' = una  BY <3>4, <5>1
        <5>3. a - una <= 0 /\ una' - una <= 0  BY <2>2, <3>2, <4>4, <5>2
        <5> QED BY <4>1, <4>2, <5>3
      <4> QED BY <2>2, <3>2, <4>3, <4>4
    <3> QED BY <2>2, <2>3, <3>6, <3>7
  <2>7. cong' = cong \/ Rto \/ AckArrives
    BY DEF Next, AppSend, DataArrives, LoseData, LoseAck
  <2> QED BY <2>4, <2>5, <2>6, <2>7
<1> QED BY <1>1, PathInvariance, PTL DEF Spec, GrowsByAckedBytes
=============================================================================
