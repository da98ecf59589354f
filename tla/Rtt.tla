--------------------------------- MODULE Rtt ---------------------------------
(***************************************************************************)
(* The estimator of unprtt.c and the interval timer of transfer_file that  *)
(* it sets: Jacobson's algorithm in integers, the smoothed RTT scaled by 8 *)
(* and four times the mean deviation, with a retransmission timeout (RTO)  *)
(* that doubles at each timeout and stays between two limits.              *)
(*                                                                         *)
(* Times are integers in an arbitrary unit, microseconds in the code.      *)
(* `x >> k' of an int, negative or not, is x \div 2^k: both round down.    *)
(* The build does not optimize, so that an int that overflows wraps.       *)
(* rtt_rtt, which is only displayed between two calls, is a LET.           *)
(***************************************************************************)
EXTENDS Integers

CONSTANTS
  RTT_RXTMIN, RTT_RXTMAX,  \* 1 and 3 seconds
  RTT_MAXNREXMT,           \* 12
  InitVar,                 \* the initial deviation, 2 seconds
  LongestRtt,              \* the longest RTT that an int holds scaled by 8,
                           \* 2^28 - 1 microseconds or 268 seconds
  MaxAge                   \* bound: the age of rtt_base when an ACK is measured

INT_MAX == 8 * LongestRtt + 7
MaxVar  == 4 * LongestRtt + 3

ASSUME RttAssumption ==
  /\ RTT_RXTMIN \in Nat \ {0} /\ RTT_RXTMAX \in Nat /\ RTT_RXTMIN <= RTT_RXTMAX
  /\ RTT_MAXNREXMT \in Nat
  /\ LongestRtt \in Nat /\ InitVar \in 0 .. MaxVar /\ MaxAge \in Nat
  /\ 2 * RTT_RXTMAX <= INT_MAX /\ RTT_RXTMAX <= 4 * RTT_RXTMIN

VARIABLES
  rtt,     \* struct rtt_info, but for rtt_base
  left,    \* time until the interval timer goes off
  waited,  \* history: what the timers that went off since the last good ACK
           \* have run; at least this time has passed
  silent,  \* history: time since an ACK came in, good or not, when the timer
           \* was last set or went off
  gaveup   \* rtt_timeout has returned -1

rttvars == <<rtt, left, waited, silent, gaveup>>

Int32    == -INT_MAX - 1 .. INT_MAX
rtt_info == [srtt : Int32, rttvar : Int32, rto : RTT_RXTMIN .. RTT_RXTMAX,
             nrexmt : 0 .. RTT_MAXNREXMT + 1]

\* However the estimators overflow, the RTO is between its limits.
RTypeOK ==
  /\ rtt \in rtt_info /\ left \in 0 .. rtt.rto
  /\ waited \in Nat /\ silent \in Nat /\ gaveup \in BOOLEAN

-----------------------------------------------------------------------------
\* The value of an int, and of a cast to one.
ToInt(x) == ((x + INT_MAX + 1) % (2 * INT_MAX + 2)) - INT_MAX - 1

\* Variant: no upper limit.
rtt_minmax_no_max(rto) == IF rto < RTT_RXTMIN THEN RTT_RXTMIN ELSE rto

rtt_minmax(rto) ==
  IF rto < RTT_RXTMIN THEN RTT_RXTMIN
  ELSE IF rto > RTT_RXTMAX THEN RTT_RXTMAX ELSE rto

RTT_RTOCALC(srtt, rttvar) == (srtt \div 8) + rttvar

rtt_init == [srtt |-> 0, rttvar |-> InitVar,
             rto |-> rtt_minmax(RTT_RTOCALC(0, InitVar)), nrexmt |-> 0]

\* Variant: srtt is not scaled back.
error_unscaled(r, sample) == sample - r.srtt

\* The error of the estimate, its absolute value, and by how much that changes
\* the deviation.
error(r, sample) == sample - (r.srtt \div 8)

\* Variant: the sign of the error is kept.
deviation_signed(e) == e

deviation(e) == IF e < 0 THEN -e ELSE e

\* Variant: the old deviation does not fade.
change_undamped(r, d) == d

change(r, d) == d - (r.rttvar \div 4)

\* rtt_base is age ago, or ahead if the clock was set back.  Nothing is learnt
\* from an ACK after a timeout.
rtt_stop(r, age) ==
  LET e      == ToInt(error(r, ToInt(age)))
      srtt   == ToInt(r.srtt + e)
      rttvar == ToInt(r.rttvar + ToInt(change(r, ToInt(deviation(e)))))
  IN IF r.nrexmt > 0 THEN r
     ELSE [r EXCEPT !.srtt = srtt, !.rttvar = rttvar,
                    !.rto = rtt_minmax(ToInt(RTT_RTOCALC(srtt, rttvar)))]

rtt_newpack(r) == [r EXCEPT !.nrexmt = 0]

\* Variant: the RTO is not doubled.
rtt_timeout_constant(r) == [r EXCEPT !.nrexmt = @ + 1]

rtt_timeout(r) == [r EXCEPT !.rto = rtt_minmax(@ * 2), !.nrexmt = @ + 1]

\* After the increment: rtt_timeout returns -1.
rtt_gives_up(r) == r.nrexmt > RTT_MAXNREXMT

-----------------------------------------------------------------------------
(* transfer_file.  Time is counted while the timer is set. *)

RInit ==
  /\ rtt = rtt_init /\ left = rtt.rto
  /\ waited = 0 /\ silent = 0 /\ gaveup = FALSE

\* A good ACK: the count begins anew, and so does the timer.
GoodAck(r) ==
  /\ ~gaveup
  /\ rtt' = rtt_newpack(r) /\ left' = rtt'.rto
  /\ waited' = 0 /\ silent' = 0 /\ UNCHANGED gaveup

\* One of the oldest element alone is measured, from when the element at index 0
\* was last sent, which in a steady pipeline may be at any time in the past.
Ages == 0 .. MaxAge
RAckMeasured(age) == GoodAck(rtt_stop(rtt, age))

RAck == GoodAck(rtt)

\* An ACK that is not valid, or a duplicate, comes in.
RDuplicate ==
  /\ ~gaveup
  /\ left' \in 0 .. left /\ silent' = 0
  /\ UNCHANGED <<rtt, waited, gaveup>>

\* A third duplicate: fast retransmit clears the timer and sets it again, which
\* is no timeout.
RFastRetransmit ==
  /\ ~gaveup
  /\ left' = rtt.rto /\ silent' = 0
  /\ UNCHANGED <<rtt, waited, gaveup>>

\* SIGALRM.
RAlarm ==
  /\ ~gaveup
  /\ waited' = waited + rtt.rto /\ silent' = silent + left
  /\ rtt' = rtt_timeout(rtt) /\ left' = rtt'.rto
  /\ IF rtt_gives_up(rtt') THEN gaveup' = TRUE ELSE UNCHANGED gaveup

RNext ==
  \/ \E age \in Ages : RAckMeasured(age)
  \/ RAck
  \/ RDuplicate
  \/ RFastRetransmit
  \/ RAlarm
  \/ gaveup /\ UNCHANGED rttvars

RSpec == RInit /\ [][RNext]_rttvars

-----------------------------------------------------------------------------
(* Properties.  A sample fits if it is an RTT of at most LongestRtt; a stale *)
(* rtt_base gives others, with which unprtt.c:81 overflows.                *)

Fitting == Ages \cap (0 .. LongestRtt)

\* Whatever an overflow has left in the estimators of unprtt.c:80-86, the next
\* sample that fits does not overflow them again: neither a result nor an
\* intermediate one.
NoOverflow ==
  \A sample \in 0 .. LongestRtt :
    LET e == error(rtt, sample)
        d == deviation(e)
        c == change(rtt, d)
    IN {e, rtt.srtt + e, d, c, rtt.rttvar + c} \subseteq Int32

\* How far a value is from the range 0 .. limit.
Off(x, limit) == IF x < 0 THEN -x ELSE IF x > limit THEN x - limit ELSE 0
Nearer(old, new, limit) == Off(new, limit) < Off(old, limit) \/ Off(new, limit) = 0

\* The estimators recover from samples that do not fit: each one that fits
\* brings srtt nearer to a value that an RTT can have, once it is there it
\* stays, and the deviation follows.
EstimatorsRecover ==
  [][\A age \in Fitting :
       RAckMeasured(age) /\ rtt.nrexmt = 0 =>
         /\ Nearer(rtt.srtt, rtt'.srtt, INT_MAX)
         /\ rtt.srtt >= 0 => Nearer(rtt.rttvar, rtt'.rttvar, MaxVar)]_rttvars

\* When the estimators are in their range, a measured ACK leaves a timeout at
\* least as long as the RTT measured, as far as its limit allows: the next
\* packet, if it takes as long, is not sent again needlessly.
InRange == rtt.srtt >= 0 /\ rtt.rttvar \in 0 .. MaxVar
RtoCoversSample ==
  [][\A age \in Fitting :
       RAckMeasured(age) /\ rtt.nrexmt = 0 /\ InRange =>
         rtt'.rto >= age \/ rtt'.rto = RTT_RXTMAX]_rttvars

\* unprtt.c:68: an ACK that comes after a timeout changes neither the estimators
\* nor the backed-off RTO.  (After a fast retransmit it does.)
KarnsRule ==
  [][rtt.nrexmt > 0 /\ rtt'.nrexmt = 0 =>
       rtt' = [rtt EXCEPT !.nrexmt = 0]]_rttvars

\* client.c:243, "the max RTO on the server is 3 seconds with a max retransmit
\* attempt of 12": a server that hears nothing more sends its last packet within
\* 36 seconds and has given up after 39, whatever duplicates and fast
\* retransmits came before.  And when it gives up, no good ACK has come for as
\* long, less the Shortfall.
Shortfall ==   \* of the first two timeouts, whose RTO may not be at its maximum yet
  LET second == RTT_RXTMAX - 2 * RTT_RXTMIN
  IN (RTT_RXTMAX - RTT_RXTMIN) + (IF second < 0 THEN 0 ELSE second)
GivesUpInTime ==
  /\ silent <= (RTT_MAXNREXMT + 1) * RTT_RXTMAX
  /\ ~gaveup => silent <= RTT_MAXNREXMT * RTT_RXTMAX
  /\ gaveup  => waited >= (RTT_MAXNREXMT + 1) * RTT_RXTMAX - Shortfall
=============================================================================
