------------------------------- MODULE RttProofs -------------------------------
(***************************************************************************)
(* Proofs about Rtt, for every int, unit of time and limit that            *)
(* RttAssumption allows, and for a rtt_base of any age.                    *)
(***************************************************************************)
EXTENDS Rtt, RingArithmetic

\* What the constants are.
LEMMA Sizes ==
  /\ LongestRtt \in Nat /\ MaxAge \in Nat /\ RTT_MAXNREXMT \in Nat
  /\ INT_MAX \in Nat /\ INT_MAX = 8 * LongestRtt + 7
  /\ MaxVar \in Nat /\ MaxVar = 4 * LongestRtt + 3
  /\ RTT_RXTMIN \in Nat /\ RTT_RXTMAX \in Nat /\ RTT_RXTMIN > 0
  /\ RTT_RXTMIN <= RTT_RXTMAX /\ RTT_RXTMAX <= INT_MAX /\ RTT_RXTMAX <= 4 * RTT_RXTMIN
  /\ InitVar \in 0 .. MaxVar
  BY RttAssumption DEF RttAssumption, INT_MAX, MaxVar

\* What the shifts by 3 and by 2 return.
LEMMA Shift == \A x \in Int :
                 /\ x \div 8 \in Int /\ 8 * (x \div 8) <= x /\ x < 8 * (x \div 8) + 8
                 /\ x \div 4 \in Int /\ 4 * (x \div 4) <= x /\ x < 4 * (x \div 4) + 4
  OBVIOUS

\* The clamp of the RTO.
LEMMA Clamp ==
  ASSUME NEW rto \in Int
  PROVE  /\ rtt_minmax(rto) \in RTT_RXTMIN .. RTT_RXTMAX
         /\ rtt_minmax(rto) >= rto \/ rtt_minmax(rto) = RTT_RXTMAX
  BY Sizes DEF rtt_minmax

\* A cast gives an int, and leaves an int as it is.
LEMMA Cast ==
  ASSUME NEW x \in Int
  PROVE  /\ ToInt(x) \in Int32
         /\ x \in Int32 => ToInt(x) = x
<1> DEFINE n == 2 * INT_MAX + 2
           y == x + INT_MAX + 1
<1>1. n \in Nat \ {0} /\ y \in Int /\ INT_MAX \in Nat
  BY Sizes
<1>2. ToInt(x) = (y % n) - INT_MAX - 1
  BY DEF ToInt
<1>3. x \in Int32 => y \in 0 .. n - 1
  BY <1>1 DEF Int32
<1>4. n = 2 * INT_MAX + 2 /\ y = x + INT_MAX + 1
  OBVIOUS
<1> HIDE DEF n, y
<1>5. y % n \in 0 .. n - 1
  BY <1>1, SMT
<1>6. x \in Int32 => y % n = y
  BY <1>1, <1>3, SmallMod
<1> QED BY <1>1, <1>2, <1>4, <1>5, <1>6 DEF Int32

LEMMA Product ==
  ASSUME NEW n \in Nat
  PROVE  /\ n * RTT_RXTMAX \in Nat /\ 0 * RTT_RXTMAX = 0
         /\ (n + 1) * RTT_RXTMAX = n * RTT_RXTMAX + RTT_RXTMAX
         /\ \A m \in 0 .. n : m * RTT_RXTMAX <= n * RTT_RXTMAX
  BY RttAssumption DEF RttAssumption

-----------------------------------------------------------------------------
(* One sample that fits, on estimators that may be anything. *)

\* It does not overflow srtt; a negative srtt grows, another stays so.
LEMMA Smooth ==
  ASSUME NEW r, NEW sample \in 0 .. LongestRtt, r.srtt \in Int32
  PROVE  /\ error(r, sample) \in -LongestRtt .. 2 * LongestRtt + 1
         /\ r.srtt + error(r, sample) \in Int32
         /\ r.srtt < 0 => error(r, sample) > 0
         /\ r.srtt >= 0 => /\ error(r, sample) <= LongestRtt
                           /\ r.srtt + error(r, sample) >= 0
<1> DEFINE s == r.srtt
           e == error(r, sample)
           q == s \div 8
<1>1. s \in Int /\ -8 * LongestRtt - 8 <= s /\ s <= 8 * LongestRtt + 7
  BY Sizes DEF Int32
<1>2. e = sample - q /\ s = r.srtt
  BY DEF error
<1>3. q \in Int /\ 8 * q <= s /\ s < 8 * q + 8
  BY <1>1, Shift
<1>4. sample \in Nat /\ sample <= LongestRtt /\ LongestRtt \in Nat
  BY Sizes
<1>5. e = error(r, sample)
  OBVIOUS
<1> HIDE DEF s, e, q
<1>6. q \in -LongestRtt - 1 .. LongestRtt /\ (s < 0 => q < 0) /\ (s >= 0 => q >= 0)
  BY <1>1, <1>3, <1>4
<1>7. s + e \in -8 * LongestRtt - 8 .. 8 * LongestRtt + 7
  BY <1>1, <1>2, <1>3, <1>4, <1>6
<1>8. -INT_MAX - 1 = -8 * LongestRtt - 8 /\ INT_MAX = 8 * LongestRtt + 7
  BY Sizes
<1>9. s + e \in Int32
  BY <1>7, <1>8 DEF Int32
<1> QED BY <1>1, <1>2, <1>3, <1>4, <1>5, <1>6, <1>9

\* Nor does the error overflow the deviation, which comes nearer to its range
\* and stays there.
LEMMA Deviate ==
  ASSUME NEW r, r.rttvar \in Int32, NEW d \in 0 .. 2 * LongestRtt + 1
  PROVE  /\ change(r, d) \in Int32 /\ r.rttvar + change(r, d) \in Int32
         /\ r.rttvar < 0 => change(r, d) > 0
         /\ r.rttvar >= 0 => r.rttvar + change(r, d) >= d
         /\ r.rttvar > MaxVar /\ d <= LongestRtt => change(r, d) < 0
         /\ r.rttvar <= MaxVar /\ d <= LongestRtt => r.rttvar + change(r, d) <= MaxVar
<1> DEFINE v == r.rttvar
           c == change(r, d)
           q == v \div 4
<1>1. v \in Int /\ -8 * LongestRtt - 8 <= v /\ v <= 8 * LongestRtt + 7
  BY Sizes DEF Int32
<1>2. c = d - q /\ v = r.rttvar /\ c = change(r, d)
  BY DEF change
<1>3. q \in Int /\ 4 * q <= v /\ v < 4 * q + 4
  BY <1>1, Shift
<1>4. /\ d \in Nat /\ d <= 2 * LongestRtt + 1 /\ LongestRtt \in Nat
      /\ MaxVar = 4 * LongestRtt + 3
      /\ -INT_MAX - 1 = -8 * LongestRtt - 8 /\ INT_MAX = 8 * LongestRtt + 7
  BY Sizes
<1> HIDE DEF v, c, q
<1>5. q \in -2 * LongestRtt - 2 .. 2 * LongestRtt + 1
  BY <1>1, <1>3, <1>4
<1>6. c \in Int32 /\ v + c \in Int32
  BY <1>1, <1>2, <1>3, <1>4, <1>5 DEF Int32
<1>7. (v < 0 => c > 0) /\ (v >= 0 => v + c >= d)
  BY <1>1, <1>2, <1>3, <1>4
<1>8. d <= LongestRtt => /\ v > MaxVar => c < 0
                         /\ v <= MaxVar => v + c <= MaxVar
  BY <1>1, <1>2, <1>3, <1>4
<1> QED BY <1>2, <1>6, <1>7, <1>8

\* rtt_stop computes what it would in unbounded arithmetic, but for an RTO from
\* estimators out of their range.
LEMMA Stop ==
  ASSUME NEW r \in rtt_info, NEW age \in 0 .. LongestRtt, r.nrexmt = 0
  PROVE  LET e == error(r, age)
             c == change(r, deviation(e))
         IN /\ deviation(e) \in 0 .. 2 * LongestRtt + 1
            /\ e \in Int32 /\ c \in Int32 /\ r.srtt + e \in Int32 /\ r.rttvar + c \in Int32
            /\ rtt_stop(r, age) =
                 [srtt |-> r.srtt + e, rttvar |-> r.rttvar + c,
                  rto |-> rtt_minmax(ToInt(RTT_RTOCALC(r.srtt + e, r.rttvar + c))),
                  nrexmt |-> 0]
<1> DEFINE e == error(r, age)
           d == deviation(e)
           c == change(r, d)
<1>1. r.srtt \in Int32 /\ r.rttvar \in Int32
  BY DEF rtt_info
<1>2. e \in -LongestRtt .. 2 * LongestRtt + 1 /\ r.srtt + e \in Int32
  BY <1>1, Smooth
<1>3. /\ LongestRtt \in Nat
      /\ 0 .. LongestRtt \subseteq Int32 /\ -LongestRtt .. 2 * LongestRtt + 1 \subseteq Int32
  BY Sizes DEF Int32
<1>4. d \in 0 .. 2 * LongestRtt + 1 /\ d \in Int32 /\ e \in Int32 /\ age \in Int32
  BY <1>2, <1>3 DEF deviation
<1>5. c \in Int32 /\ r.rttvar + c \in Int32
  BY <1>1, <1>4, Deviate
<1>6. \A x \in Int32 : ToInt(x) = x
  BY Cast, Sizes DEF Int32
<1>7. /\ ToInt(age) = age /\ ToInt(error(r, age)) = e /\ ToInt(r.srtt + e) = r.srtt + e
      /\ ToInt(d) = d /\ ToInt(c) = c /\ ToInt(r.rttvar + c) = r.rttvar + c
  BY <1>2, <1>4, <1>5, <1>6
<1> HIDE DEF e
<1>8. rtt_stop(r, age) =
        [r EXCEPT !.srtt = r.srtt + e, !.rttvar = r.rttvar + c,
                  !.rto = rtt_minmax(ToInt(RTT_RTOCALC(r.srtt + e, r.rttvar + c)))]
  <2>1. ~(r.nrexmt > 0)
    OBVIOUS
  <2> DEFINE e1 == ToInt(error(r, ToInt(age)))
             s1 == ToInt(r.srtt + e1)
             v1 == ToInt(r.rttvar + ToInt(change(r, ToInt(deviation(e1)))))
  <2>2. rtt_stop(r, age) =
          [r EXCEPT !.srtt = s1, !.rttvar = v1,
                    !.rto = rtt_minmax(ToInt(RTT_RTOCALC(s1, v1)))]
    BY <2>1 DEF rtt_stop
  <2>3. e1 = e
    BY <1>7
  <2> HIDE DEF e1
  <2>4. s1 = r.srtt + e /\ v1 = r.rttvar + c
    BY <1>7, <2>3
  <2> HIDE DEF s1, v1
  <2> QED BY <2>2, <2>4
<1> HIDE DEF d, c
<1>9. rtt_stop(r, age) =
        [srtt |-> r.srtt + e, rttvar |-> r.rttvar + c,
         rto |-> rtt_minmax(ToInt(RTT_RTOCALC(r.srtt + e, r.rttvar + c))),
         nrexmt |-> 0]
  BY <1>8 DEF rtt_info
<1> QED BY <1>2, <1>4, <1>5, <1>9 DEF e, d, c

-----------------------------------------------------------------------------
(* The invariant. *)

\* The least time that n timeouts take is this much less than n times the
\* longest RTO.
Short(n) == IF n = 0 THEN 0 ELSE IF n = 1 THEN RTT_RXTMAX - RTT_RXTMIN ELSE Shortfall

Waiting ==
  /\ gaveup <=> rtt.nrexmt > RTT_MAXNREXMT
  /\ left \in 0 .. rtt.rto
  /\ silent <= rtt.nrexmt * RTT_RXTMAX
  /\ waited >= rtt.nrexmt * RTT_RXTMAX - Short(rtt.nrexmt)
  /\ rtt.nrexmt = 1 => rtt.rto >= 2 * RTT_RXTMIN \/ rtt.rto = RTT_RXTMAX
  /\ rtt.nrexmt > 1 => rtt.rto = RTT_RXTMAX

RInv ==
  /\ rtt \in rtt_info /\ waited \in Nat /\ silent \in Nat /\ gaveup \in BOOLEAN
  /\ Waiting

LEMMA Init == RInit => RInv
<1> SUFFICES ASSUME RInit PROVE RInv
  OBVIOUS
<1> DEFINE rto == rtt_minmax(RTT_RTOCALC(0, InitVar))
<1>1. RTT_RTOCALC(0, InitVar) \in Int /\ 0 \in Int32 /\ InitVar \in Int32
  BY Sizes, Shift DEF RTT_RTOCALC, Int32
<1>2. rto \in RTT_RXTMIN .. RTT_RXTMAX
  BY <1>1, Clamp
<1>3. rtt = [srtt |-> 0, rttvar |-> InitVar, rto |-> rto, nrexmt |-> 0] /\ left = rtt.rto
  BY DEF RInit, rtt_init
<1> HIDE DEF rto
<1>4. rtt \in rtt_info
  BY <1>1, <1>2, <1>3, Sizes DEF rtt_info
<1>5. Waiting
  BY <1>2, <1>3, Sizes, Product DEF RInit, Waiting, Short
<1> QED
  BY <1>4, <1>5 DEF RInit, RInv

\* What a measured ACK leaves, whatever it measured.
LEMMA Measure ==
  ASSUME NEW r \in rtt_info, NEW age \in Int
  PROVE  rtt_stop(r, age) \in rtt_info
<1> DEFINE e == ToInt(error(r, ToInt(age)))
           srtt == ToInt(r.srtt + e)
           rttvar == ToInt(r.rttvar + ToInt(change(r, ToInt(deviation(e)))))
           rto == rtt_minmax(ToInt(RTT_RTOCALC(srtt, rttvar)))
<1>1. \A x \in Int : ToInt(x) \in Int32 /\ ToInt(x) \in Int
  BY Cast, Sizes DEF Int32
<1>2. r.srtt \in Int /\ r.rttvar \in Int
  BY Sizes DEF rtt_info, Int32
<1>3. e \in Int
  BY <1>1, <1>2, Shift DEF error
<1>4. ToInt(change(r, ToInt(deviation(e)))) \in Int
  BY <1>1, <1>2, <1>3, Shift DEF deviation, change
<1>5. srtt \in Int32 /\ rttvar \in Int32 /\ srtt \in Int /\ rttvar \in Int
  BY <1>1, <1>2, <1>3, <1>4
<1> HIDE DEF srtt, rttvar
<1>6. ToInt(RTT_RTOCALC(srtt, rttvar)) \in Int
  BY <1>1, <1>5, Shift DEF RTT_RTOCALC
<1>7. rto \in RTT_RXTMIN .. RTT_RXTMAX
  BY <1>6, Clamp
<1>8. rtt_stop(r, age) =
        IF r.nrexmt > 0 THEN r
        ELSE [r EXCEPT !.srtt = srtt, !.rttvar = rttvar, !.rto = rto]
  BY DEF rtt_stop, srtt, rttvar
<1> HIDE DEF rto
<1> QED BY <1>5, <1>7, <1>8 DEF rtt_info

\* A good ACK begins anew.
LEMMA Good ==
  ASSUME RInv, NEW r \in rtt_info, GoodAck(r)
  PROVE  RInv'
<1>1. rtt' = [r EXCEPT !.nrexmt = 0] /\ left' = rtt'.rto
  BY DEF GoodAck, rtt_newpack
<1>2. rtt' \in rtt_info /\ rtt'.nrexmt = 0
  BY <1>1, Sizes DEF rtt_info
<1>3. left' \in 0 .. rtt'.rto
  BY <1>1, <1>2, Sizes DEF rtt_info
<1>4. Waiting'
  BY <1>2, <1>3, Sizes, Product DEF GoodAck, RInv, Waiting, Short
<1> QED BY <1>2, <1>4 DEF GoodAck, RInv

\* A timeout.
LEMMA Alarm ==
  ASSUME RInv, RAlarm
  PROVE  RInv'
<1> USE DEF RInv
<1> DEFINE n == rtt.nrexmt
           rto == rtt_minmax(rtt.rto * 2)
<1>1. /\ rtt' = [rtt EXCEPT !.rto = rto, !.nrexmt = @ + 1]
      /\ waited' = waited + rtt.rto /\ silent' = silent + left /\ left' = rtt'.rto
      /\ ~gaveup
  BY DEF RAlarm, rtt_timeout
<1>2. n \in 0 .. RTT_MAXNREXMT /\ rtt.rto \in RTT_RXTMIN .. RTT_RXTMAX
  BY <1>1, Sizes DEF Waiting, rtt_info
<1>3. rto \in RTT_RXTMIN .. RTT_RXTMAX /\ (rto >= rtt.rto * 2 \/ rto = RTT_RXTMAX)
  BY <1>2, Sizes, Clamp
<1>4. rtt' = [srtt |-> rtt.srtt, rttvar |-> rtt.rttvar, rto |-> rto, nrexmt |-> n + 1]
  BY <1>1 DEF rtt_info
<1> HIDE DEF rto
<1>5. rtt' \in rtt_info /\ rtt'.nrexmt = n + 1 /\ rtt'.rto = rto
  BY <1>2, <1>3, <1>4, Sizes DEF rtt_info
<1>6. gaveup' \in BOOLEAN /\ (gaveup' <=> n + 1 > RTT_MAXNREXMT)
  BY <1>1, <1>5 DEF RAlarm, rtt_gives_up
<1>7. /\ n * RTT_RXTMAX \in Nat /\ 0 * RTT_RXTMAX = 0
      /\ (n + 1) * RTT_RXTMAX = n * RTT_RXTMAX + RTT_RXTMAX
  BY <1>2, Sizes, Product
<1>8. left' \in 0 .. rtt'.rto
  BY <1>1, <1>3, <1>5, Sizes
<1>9. n + 1 = 1 => rto >= 2 * RTT_RXTMIN \/ rto = RTT_RXTMAX
  BY <1>2, <1>3, Sizes
<1>10. n + 1 > 1 => rto = RTT_RXTMAX
  <2>1. n > 0 => rtt.rto * 2 >= RTT_RXTMAX
    BY <1>2, Sizes DEF Waiting
  <2> QED BY <1>2, <1>3, <2>1, Sizes
<1>11. silent' <= (n + 1) * RTT_RXTMAX /\ silent' \in Nat
  <2>1. left \in 0 .. rtt.rto /\ silent <= n * RTT_RXTMAX
    BY DEF Waiting
  <2> QED BY <1>1, <1>2, <1>7, <2>1, Sizes
<1>12. waited' >= (n + 1) * RTT_RXTMAX - Short(n + 1) /\ waited' \in Nat
  <2>1. /\ Short(0) = 0 /\ Short(1) = RTT_RXTMAX - RTT_RXTMIN
        /\ Short(n) \in Int /\ Short(n + 1) \in Int
    BY <1>2, Sizes DEF Short, Shortfall
  <2>2. RTT_RXTMAX - rtt.rto + Short(n) <= Short(n + 1)
    <3>1. CASE n = 0
      BY <3>1, <2>1, <1>2, Sizes
    <3>2. CASE n = 1
      BY <3>2, <1>2, Sizes DEF Short, Shortfall, Waiting
    <3>3. CASE n > 1
      BY <3>3, <1>2, Sizes DEF Short, Shortfall, Waiting
    <3> QED BY <1>2, <3>1, <3>2, <3>3
  <2>3. waited >= n * RTT_RXTMAX - Short(n)
    BY DEF Waiting
  <2> QED BY <1>1, <1>2, <1>7, <2>1, <2>2, <2>3, Sizes
<1>13. Waiting'
  BY <1>5, <1>6, <1>8, <1>9, <1>10, <1>11, <1>12 DEF Waiting
<1> QED BY <1>5, <1>6, <1>11, <1>12, <1>13

\* Every step keeps the invariant.
LEMMA Step == RInv /\ [RNext]_rttvars => RInv'
<1> SUFFICES ASSUME RInv, [RNext]_rttvars PROVE RInv'
  OBVIOUS
<1>1. ASSUME NEW age \in Ages, RAckMeasured(age) PROVE RInv'
  <2>1. rtt_stop(rtt, age) \in rtt_info
    BY Measure, Sizes DEF RInv, Ages
  <2> QED BY <1>1, <2>1, Good DEF RAckMeasured
<1>2. CASE RAck
  BY <1>2, Good DEF RAck, RInv
<1>3. CASE RDuplicate \/ RFastRetransmit
  <2>1. rtt' = rtt /\ waited' = waited /\ silent' = 0 /\ gaveup' = gaveup
    BY <1>3 DEF RDuplicate, RFastRetransmit
  <2>2. left' \in 0 .. rtt.rto
    BY <1>3, Sizes DEF RDuplicate, RFastRetransmit, RInv, Waiting, rtt_info
  <2>3. 0 <= rtt.nrexmt * RTT_RXTMAX
    BY Product, Sizes DEF RInv, rtt_info
  <2> QED BY <2>1, <2>2, <2>3 DEF RInv, Waiting
<1>4. CASE RAlarm
  BY <1>4, Alarm
<1>5. CASE UNCHANGED rttvars
  BY <1>5 DEF rttvars, RInv, Waiting
<1> QED
  BY <1>1, <1>2, <1>3, <1>4, <1>5 DEF RNext

\* The limits, the silence and the wait, in every behaviour.
THEOREM RttInvariant == RSpec => []RInv
  BY Init, Step, PTL DEF RSpec

-----------------------------------------------------------------------------
(* The properties. *)

\* The type invariant: whatever the samples, the RTO is within its limits.
THEOREM RttTypes == RSpec => []RTypeOK
<1>1. RInv => RTypeOK
  BY DEF RInv, Waiting, RTypeOK
<1> QED BY <1>1, RttInvariant, PTL

\* unprtt.c:80-86: no sample that fits overflows an int, from estimators that
\* may have any value.
THEOREM RttNoOverflow == RSpec => []NoOverflow
<1>1. RInv => NoOverflow
  <2> SUFFICES ASSUME RInv, NEW sample \in 0 .. LongestRtt
               PROVE  LET e == error(rtt, sample)
                          d == deviation(e)
                          c == change(rtt, d)
                      IN {e, rtt.srtt + e, d, c, rtt.rttvar + c} \subseteq Int32
    BY DEF NoOverflow
  <2> DEFINE r == [rtt EXCEPT !.nrexmt = 0]
  <2>1. r \in rtt_info /\ r.nrexmt = 0 /\ r.srtt = rtt.srtt /\ r.rttvar = rtt.rttvar
    BY Sizes DEF RInv, rtt_info
  <2> HIDE DEF r
  <2>2. error(rtt, sample) = error(r, sample) /\ \A d : change(rtt, d) = change(r, d)
    BY <2>1 DEF error, change
  <2>3. 0 .. 2 * LongestRtt + 1 \subseteq Int32
    BY Sizes DEF Int32
  <2> QED BY <2>1, <2>2, <2>3, Stop
<1> QED BY <1>1, RttInvariant, PTL

\* A measured ACK whose sample fits, when there was no timeout.
LEMMA Fits ==
  ASSUME RInv, NEW age \in Fitting, RAckMeasured(age), rtt.nrexmt = 0
  PROVE  LET e == error(rtt, age)
             c == change(rtt, deviation(e))
         IN /\ deviation(e) \in 0 .. 2 * LongestRtt + 1
            /\ rtt'.srtt = rtt.srtt + e /\ rtt'.rttvar = rtt.rttvar + c
            /\ rtt'.rto = rtt_minmax(ToInt(RTT_RTOCALC(rtt'.srtt, rtt'.rttvar)))
            /\ rtt'.srtt \in Int32 /\ rtt'.rttvar \in Int32
<1>1. rtt \in rtt_info /\ age \in 0 .. LongestRtt
  BY DEF RInv, Fitting
<1>2. rtt' = [rtt_stop(rtt, age) EXCEPT !.nrexmt = 0]
  BY DEF RAckMeasured, GoodAck, rtt_newpack
<1> QED BY <1>1, <1>2, Stop

\* A sample that fits brings both estimators nearer to their range.
THEOREM RttRecovers == RSpec => EstimatorsRecover
<1>1. RInv /\ [RNext]_rttvars =>
        [\A age \in Fitting :
           RAckMeasured(age) /\ rtt.nrexmt = 0 =>
             /\ Nearer(rtt.srtt, rtt'.srtt, INT_MAX)
             /\ rtt.srtt >= 0 => Nearer(rtt.rttvar, rtt'.rttvar, MaxVar)]_rttvars
  <2> SUFFICES ASSUME RInv, NEW age \in Fitting, RAckMeasured(age), rtt.nrexmt = 0
               PROVE  /\ Nearer(rtt.srtt, rtt'.srtt, INT_MAX)
                      /\ rtt.srtt >= 0 => Nearer(rtt.rttvar, rtt'.rttvar, MaxVar)
    OBVIOUS
  <2> DEFINE e == error(rtt, age)
             d == deviation(e)
             c == change(rtt, d)
  <2>1. /\ d \in 0 .. 2 * LongestRtt + 1
        /\ rtt'.srtt = rtt.srtt + e /\ rtt'.rttvar = rtt.rttvar + c
        /\ rtt'.srtt \in Int32 /\ rtt'.rttvar \in Int32
    BY Fits
  <2>2. rtt.srtt \in Int32 /\ rtt.rttvar \in Int32 /\ age \in 0 .. LongestRtt
    BY DEF RInv, rtt_info, Fitting
  <2>3. /\ e \in -LongestRtt .. 2 * LongestRtt + 1
        /\ rtt.srtt < 0 => e > 0
        /\ rtt.srtt >= 0 => e <= LongestRtt /\ rtt.srtt + e >= 0
    BY <2>2, Smooth
  <2>4. /\ change(rtt, d) \in Int32
        /\ rtt.rttvar < 0 => c > 0
        /\ rtt.rttvar >= 0 => rtt.rttvar + c >= d
        /\ rtt.rttvar > MaxVar /\ d <= LongestRtt => c < 0
        /\ rtt.rttvar <= MaxVar /\ d <= LongestRtt => rtt.rttvar + c <= MaxVar
    BY <2>1, <2>2, Deviate
  <2>5. rtt.srtt >= 0 => d <= LongestRtt
    BY <2>3, Sizes DEF deviation
  <2> HIDE DEF e, d, c
  <2>6. \A x \in Int32 : x \in Int /\ x <= INT_MAX
    BY Sizes DEF Int32
  <2>7. Nearer(rtt.srtt, rtt'.srtt, INT_MAX)
    BY <2>1, <2>2, <2>3, <2>6, Sizes DEF Nearer, Off
  <2>8. ASSUME rtt.srtt >= 0 PROVE Nearer(rtt.rttvar, rtt'.rttvar, MaxVar)
    <3>1. c \in Int /\ d \in Nat /\ rtt.rttvar \in Int /\ rtt'.rttvar \in Int
      BY <2>1, <2>2, <2>4, <2>6, Sizes DEF c
    <3> QED BY <3>1, <2>1, <2>4, <2>5, <2>8, Sizes DEF Nearer, Off
  <2> QED BY <2>7, <2>8
<1> QED BY <1>1, RttInvariant, PTL DEF RSpec, EstimatorsRecover

\* After a measured ACK the RTO covers the RTT just measured.
THEOREM RttCovers == RSpec => RtoCoversSample
<1>1. RInv /\ [RNext]_rttvars =>
        [\A age \in Fitting :
           RAckMeasured(age) /\ rtt.nrexmt = 0 /\ InRange =>
             rtt'.rto >= age \/ rtt'.rto = RTT_RXTMAX]_rttvars
  <2> SUFFICES ASSUME RInv, NEW age \in Fitting, RAckMeasured(age), rtt.nrexmt = 0, InRange
               PROVE  rtt'.rto >= age \/ rtt'.rto = RTT_RXTMAX
    OBVIOUS
  <2> DEFINE e == error(rtt, age)
             d == deviation(e)
             c == change(rtt, d)
             s == rtt'.srtt
             v == rtt'.rttvar
             rto == RTT_RTOCALC(s, v)
  <2>1. /\ s = rtt.srtt + e /\ v = rtt.rttvar + c /\ d \in 0 .. 2 * LongestRtt + 1
        /\ s \in Int32 /\ v \in Int32 /\ rtt'.rto = rtt_minmax(ToInt(rto))
    BY Fits
  <2>2. /\ rtt.srtt \in Int32 /\ rtt.rttvar \in Int32 /\ age \in 0 .. LongestRtt
        /\ rtt.srtt >= 0 /\ rtt.rttvar \in 0 .. MaxVar
    BY DEF RInv, rtt_info, Fitting, InRange
  <2>3. e \in -LongestRtt .. LongestRtt /\ s >= 0
    BY <2>1, <2>2, Smooth, Sizes
  <2>4. d \in 0 .. LongestRtt /\ d >= e /\ d >= -e
    BY <2>3, Sizes DEF deviation
  <2>5. v \in d .. MaxVar
    <3>1. v >= d /\ v <= MaxVar /\ v \in Int /\ d \in Int
      BY <2>1, <2>2, <2>4, Deviate, Sizes DEF Int32
    <3> QED BY <3>1, Sizes
  <2>6. e = age - (rtt.srtt \div 8)
    BY DEF error
  <2>7. rto = (s \div 8) + v
    BY DEF RTT_RTOCALC
  <2>8. s \in Int /\ s <= INT_MAX /\ rtt.srtt \in Int
    BY <2>1, <2>2, Sizes DEF Int32
  <2> HIDE DEF e, d, c, s, v, rto
  <2>9. /\ s \div 8 \in Int /\ 8 * (s \div 8) <= s /\ s < 8 * (s \div 8) + 8
        /\ rtt.srtt \div 8 \in Int /\ 8 * (rtt.srtt \div 8) <= rtt.srtt
    BY <2>8, Shift
  <2>10. rto >= age
    BY <2>1, <2>2, <2>3, <2>4, <2>5, <2>6, <2>7, <2>8, <2>9, Sizes
  <2>11. rto \in Int32
    BY <2>3, <2>4, <2>5, <2>7, <2>8, <2>9, Sizes DEF Int32
  <2>12. ToInt(rto) = rto /\ rto \in Int
    BY <2>11, Cast, Sizes DEF Int32
  <2>13. rtt_minmax(rto) >= rto \/ rtt_minmax(rto) = RTT_RXTMAX
    BY <2>12, Clamp
  <2>14. rtt_minmax(rto) \in Int
    BY <2>12, Clamp, Sizes
  <2> QED BY <2>1, <2>2, <2>10, <2>12, <2>13, <2>14
<1> QED BY <1>1, RttInvariant, PTL DEF RSpec, RtoCoversSample

\* Karn's rule: nothing is measured once there was a timeout.
THEOREM RttKarn == RSpec => KarnsRule
<1>1. RInv /\ [RNext]_rttvars =>
        [rtt.nrexmt > 0 /\ rtt'.nrexmt = 0 => rtt' = [rtt EXCEPT !.nrexmt = 0]]_rttvars
  <2> SUFFICES ASSUME RInv, RNext, rtt.nrexmt > 0, rtt'.nrexmt = 0
               PROVE  rtt' = [rtt EXCEPT !.nrexmt = 0]
    BY DEF rttvars, RInv
  <2>1. ASSUME NEW age \in Ages, RAckMeasured(age)
        PROVE  rtt' = [rtt EXCEPT !.nrexmt = 0]
    BY <2>1 DEF RAckMeasured, GoodAck, rtt_stop, rtt_newpack
  <2>2. CASE RAck
    BY <2>2 DEF RAck, GoodAck, rtt_newpack
  <2>3. ~(RDuplicate \/ RFastRetransmit \/ UNCHANGED rttvars)
    BY Sizes DEF RDuplicate, RFastRetransmit, rttvars, RInv, rtt_info
  <2>4. ~RAlarm
    <3> SUFFICES ASSUME RAlarm PROVE FALSE
      OBVIOUS
    <3>1. rtt'.nrexmt = rtt.nrexmt + 1 /\ rtt.nrexmt \in Nat
      BY Sizes DEF RAlarm, rtt_timeout, RInv, rtt_info
    <3> QED BY <3>1
  <2> QED BY <2>1, <2>2, <2>3, <2>4 DEF RNext
<1> QED BY <1>1, RttInvariant, PTL DEF RSpec, KarnsRule

\* client.c:243: after the last ACK that came in, when the last packet is sent
\* again and when the server gives up.
THEOREM RttGivesUp == RSpec => []GivesUpInTime
<1>1. RInv => GivesUpInTime
  <2> SUFFICES ASSUME RInv PROVE GivesUpInTime
    OBVIOUS
  <2> DEFINE n == rtt.nrexmt
             N == RTT_MAXNREXMT
  <2>1. /\ n \in 0 .. N + 1 /\ N \in Nat /\ waited \in Nat /\ silent \in Nat
        /\ Shortfall \in Nat /\ Short(n) <= Shortfall /\ Short(n) \in Nat
    BY Sizes DEF RInv, rtt_info, Short, Shortfall
  <2>2. /\ ~gaveup => n <= N
        /\ gaveup => n = N + 1
        /\ silent <= n * RTT_RXTMAX
        /\ waited >= n * RTT_RXTMAX - Short(n)
    BY <2>1 DEF RInv, Waiting
  <2>3. /\ \A m \in 0 .. N : m * RTT_RXTMAX <= N * RTT_RXTMAX
        /\ \A m \in 0 .. N + 1 : m * RTT_RXTMAX <= (N + 1) * RTT_RXTMAX
        /\ N * RTT_RXTMAX \in Nat /\ (N + 1) * RTT_RXTMAX \in Nat /\ n * RTT_RXTMAX \in Nat
    <3>1. N + 1 \in Nat /\ n \in Nat
      BY <2>1
    <3>2. \A m \in 0 .. N : m * RTT_RXTMAX <= N * RTT_RXTMAX
      BY <2>1, Product
    <3>3. \A m \in 0 .. N + 1 : m * RTT_RXTMAX <= (N + 1) * RTT_RXTMAX
      BY <3>1, Product
    <3>4. N * RTT_RXTMAX \in Nat /\ (N + 1) * RTT_RXTMAX \in Nat /\ n * RTT_RXTMAX \in Nat
      BY <2>1, <3>1, Product
    <3> HIDE DEF N, n
    <3> QED BY <3>2, <3>3, <3>4
  <2>4. silent <= (N + 1) * RTT_RXTMAX
    BY <2>1, <2>2, <2>3
  <2>5. ~gaveup => silent <= N * RTT_RXTMAX
    BY <2>1, <2>2, <2>3
  <2>6. gaveup => waited >= (N + 1) * RTT_RXTMAX - Shortfall
    BY <2>1, <2>2, <2>3
  <2> QED BY <2>4, <2>5, <2>6 DEF GivesUpInTime
<1> QED BY <1>1, RttInvariant, PTL
=============================================================================
