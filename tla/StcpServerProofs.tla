-------------------------- MODULE StcpServerProofs --------------------------
(***************************************************************************)
(* Proofs about StcpServer, for every window and retry limit, any value of *)
(* the uninitialized cwnd_inc, and any client, in three layers:            *)
(*  - SafeInv, types and counts, holds for every file, when sequence       *)
(*    numbers and cwnd wrap and wherever SIGALRM strikes;                  *)
(*  - SInv, what the window holds of the file, needs sequence numbers that *)
(*    do not wrap (SeqFits) and a SIGALRM that strikes only where          *)
(*    transfer_file waits or has just stopped waiting (a stall no longer   *)
(*    than the period of the timer), but not that cwnd does not wrap;      *)
(*  - CwndInv, what depends on cwnd, needs that too (CwndFits).            *)
(***************************************************************************)
EXTENDS StcpServer, RingArithmetic

-----------------------------------------------------------------------------
(* The inductive invariants. *)

Probing == {"probe", "probe_add", "probe_eof"}

\* A probe is sent alone, to a client whose window is closed, and only when
\* there is something to send.
ProbeOK ==
  /\ spc \in Probing => deadlock
  /\ deadlock => spc \in Probing \cup {"send", "rto", "done"}
  /\ deadlock /\ spc # "done" => swin.in_flight = 0 /\ swin.rwin_adv = 0
  /\ deadlock /\ spc = "send" => swin.count > 0
  /\ spc = "probe_eof" => swin.count > 0

SafeInv ==
  /\ STypeOK /\ ProbeOK
  /\ swin.in_flight <= swin.count
  /\ spc # "done" => nrexmt <= MaxRexmt

Assumed == SeqFits /\ ~AlarmDuringStall

\* A window that holds a run of segments of the file.
FilePart(win) ==
  /\ win \in SendWindow
  /\ AckedOf(win) \in Nat
  /\ AckedOf(win) + win.count <= LastSeg
  /\ win.next_seq = AckedOf(win) + win.count + 1
  /\ win.end = (win.start + win.count) % ServerWin
  /\ \A k \in 0 .. win.count - 1 :
       win.buf[(win.start + k) % ServerWin].pkt = Segment(AckedOf(win) + 1 + k)

PartOK == FilePart(swin)

\* What was read is what is in the window or acknowledged, up to the element
\* that is being read.
FileOK ==
  /\ spc \notin {"probe_add", "probe_eof"} =>
       Acked + swin.count = fpos + (IF feof THEN 1 ELSE 0)
  /\ spc \in {"probe", "probe_add"} => ~feof /\ swin.count = 0
  /\ spc = "probe_add" => rbuf = Segment(Acked + 1)
  /\ spc = "probe_eof" => ~feof /\ swin.count = 1
  /\ spc \in {"probe_add", "probe_eof"} =>
       /\ Acked + 1 = fpos + (IF IsFin(rbuf) THEN 1 ELSE 0)
       /\ IsFin(rbuf) => fpos = NChunks
  /\ feof => fpos = NChunks
  /\ feof /\ spc # "done" => swin.count > 0

\* The ACK being handled acknowledges something.
GoodAckOK == spc = "acked" => swin.count > 0 /\ win_oldest(swin).seq # sack.ack

SInv ==
  /\ SafeInv
  /\ PartOK /\ FileOK /\ GoodAckOK
  /\ sent <= LastSeg
  /\ SuccessMeansAllAcked

\* There is something to send or to probe for, wherever the server is about to
\* send or has just sent.
SomethingOK ==
  spc \in {"send", "recv", "acked", "rto"} => swin.count > 0 \/ swin.rwin_adv = 0

CwndInv ==
  /\ InFlightBounded /\ CwndEarned
  /\ SomethingOK /\ WaitIsGuarded

-----------------------------------------------------------------------------
(* What the types and the counts need: neither the file nor the sequence   *)
(* numbers nor the moment of a SIGALRM matter.                             *)

LEMMA SafeConstants ==
  /\ U16 \in Nat \ {0} /\ SeqMod \in Nat \ {0, 1}
  /\ ServerWin \in Nat \ {0} /\ ServerWin < U16
  /\ NChunks \in Nat /\ LastSeg = NChunks + 1 /\ MaxRexmt \in Nat
  /\ ClientAdv \in Nat /\ ClientAdv < U16
  /\ STCP_FAST_RETRANSMIT = 3
<1>1. U16 \in Nat \ {0}  BY DEF U16
<1> QED BY <1>1, WindowAssumption, ServerAssumption DEF LastSeg, STCP_FAST_RETRANSMIT

\* Indices of the ring and sequence numbers.
LEMMA IndexRange ==
  ASSUME NEW i \in Nat
  PROVE  i % ServerWin \in 0 .. ServerWin - 1
BY SafeConstants, ModRange

LEMMA SeqRange ==
  ASSUME NEW i \in Nat
  PROVE  i % SeqMod \in 0 .. SeqMod - 1
BY SafeConstants, ModRange

\* The fields of a window.
LEMMA WindowFields ==
  ASSUME NEW win \in SendWindow
  PROVE  /\ win.buf \in [0 .. ServerWin - 1 -> Slot] /\ win.size = ServerWin
         /\ win.count \in 0 .. ServerWin
         /\ win.start \in 0 .. ServerWin - 1 /\ win.end \in 0 .. ServerWin - 1
         /\ win.next_seq \in 0 .. SeqMod - 1 /\ win.next_ack \in 0 .. SeqMod - 1
         /\ win.in_flight \in Nat /\ win.rwin_adv \in 0 .. U16 - 1
         /\ win.cwnd \in 0 .. U16 - 1 /\ win.ssthresh \in 0 .. U16 - 1
         /\ win.dup_ack \in 0 .. 3
BY SafeConstants DEF SendWindow

\* win_add.
LEMMA AddTyped ==
  ASSUME NEW win \in SendWindow, NEW pkt \in Packet, win_can_add(win, pkt)
  PROVE  LET w == win_add(win, pkt)
         IN /\ w \in SendWindow
            /\ w.buf = [win.buf EXCEPT ![win.end] = [valid |-> TRUE, pkt |-> pkt]]
            /\ w.count = win.count + 1 /\ win.count < ServerWin
            /\ w.end = (win.end + 1) % ServerWin /\ w.start = win.start
            /\ w.next_seq = (win.next_seq + 1) % SeqMod /\ w.next_ack = win.next_ack
            /\ w.in_flight = win.in_flight /\ w.rwin_adv = win.rwin_adv
            /\ w.cwnd = win.cwnd /\ w.ssthresh = win.ssthresh
<1> DEFINE b == [win.buf EXCEPT ![win.end] = [valid |-> TRUE, pkt |-> pkt]]
           e == (win.end + 1) % ServerWin
           s == (win.next_seq + 1) % SeqMod
           n == win.count + 1
<1>1. b \in [0 .. ServerWin - 1 -> Slot]  BY WindowFields DEF Slot
<1>2. e \in 0 .. ServerWin - 1
  <2>1. win.end + 1 \in Nat  BY WindowFields, SafeConstants
  <2> QED BY <2>1, IndexRange
<1>3. s \in 0 .. SeqMod - 1
  <2>1. win.next_seq + 1 \in Nat  BY WindowFields, SafeConstants
  <2> QED BY <2>1, SeqRange
<1>4. n \in 0 .. ServerWin /\ win.count < ServerWin
  BY WindowFields, SafeConstants DEF win_can_add, win_full
<1>5. win_add(win, pkt) = [win EXCEPT !.buf = b, !.count = n, !.end = e, !.next_seq = s]
  BY WindowFields DEF win_add, AdvanceEnd, Index, SendWindow
<1> HIDE DEF b, e, s, n
<1>6. LET w == win_add(win, pkt)
      IN /\ w \in SendWindow
         /\ w.buf = b /\ w.count = n /\ w.end = e /\ w.start = win.start
         /\ w.next_seq = s /\ w.next_ack = win.next_ack
         /\ w.in_flight = win.in_flight /\ w.rwin_adv = win.rwin_adv
         /\ w.cwnd = win.cwnd /\ w.ssthresh = win.ssthresh
  BY <1>1, <1>2, <1>3, <1>4, <1>5 DEF SendWindow
<1> QED BY <1>4, <1>6 DEF b, e, s, n

\* win_remove_ack counts elements that are there.
LEMMA RemovedRange ==
  ASSUME NEW win \in SendWindow, NEW ack
  PROVE  Removed(win, ack) \in 0 .. win.count
<1>1. win.count \in Nat  BY WindowFields, SafeConstants
<1>2. CASE \E k \in 0 .. win.count - 1 : FirstAt(win, ack, k)
  <2>1. Removed(win, ack) \in 0 .. win.count - 1  BY <1>2 DEF Removed
  <2> QED BY <1>1, <2>1
<1>3. CASE ~ \E k \in 0 .. win.count - 1 : FirstAt(win, ack, k)
  <2>1. Removed(win, ack) = win.count  BY <1>3 DEF Removed
  <2> QED BY <1>1, <2>1
<1> QED BY <1>2, <1>3

\* And removes them, without touching their packets.
LEMMA RemoveTyped ==
  ASSUME NEW win \in SendWindow, NEW k \in 0 .. win.count
  PROVE  LET w == RemoveOldest(win, k)
         IN /\ w \in SendWindow
            /\ \A i \in 0 .. ServerWin - 1 : w.buf[i].pkt = win.buf[i].pkt
            /\ w.count = win.count - k /\ w.end = win.end
            /\ w.start = (win.start + k) % ServerWin
            /\ w.next_seq = win.next_seq /\ w.next_ack = (win.next_ack + k) % SeqMod
            /\ w.in_flight = win.in_flight /\ w.rwin_adv = win.rwin_adv
            /\ w.cwnd = win.cwnd /\ w.ssthresh = win.ssthresh
<1> DEFINE b == [i \in 0 .. ServerWin - 1 |->
                   IF \E j \in 0 .. k - 1 : i = Index(win, win.start, j)
                   THEN [win.buf[i] EXCEPT !.valid = FALSE] ELSE win.buf[i]]
           n == win.count - k
           s == (win.start + k) % ServerWin
           a == (win.next_ack + k) % SeqMod
           d == IF k > 0 THEN 0 ELSE win.dup_ack
<1>1. k \in Nat /\ n \in 0 .. ServerWin /\ d \in 0 .. 3
  BY WindowFields, SafeConstants
<1>2. s \in 0 .. ServerWin - 1
  <2>1. win.start + k \in Nat  BY <1>1, WindowFields, SafeConstants
  <2> QED BY <2>1, IndexRange
<1>3. a \in 0 .. SeqMod - 1
  <2>1. win.next_ack + k \in Nat  BY <1>1, WindowFields, SafeConstants
  <2> QED BY <2>1, SeqRange
<1>4. /\ b \in [0 .. ServerWin - 1 -> Slot]
      /\ \A i \in 0 .. ServerWin - 1 : b[i].pkt = win.buf[i].pkt
  <2>1. \A i \in 0 .. ServerWin - 1 :
          b[i] \in {[win.buf[i] EXCEPT !.valid = FALSE], win.buf[i]}
    OBVIOUS
  <2>2. \A i \in 0 .. ServerWin - 1 : win.buf[i] \in Slot
    BY WindowFields
  <2>3. ASSUME NEW x \in Slot, NEW y \in {[x EXCEPT !.valid = FALSE], x}
        PROVE  y \in Slot /\ y.pkt = x.pkt
    BY DEF Slot
  <2>4. \A i \in 0 .. ServerWin - 1 : b[i] \in Slot /\ b[i].pkt = win.buf[i].pkt
    BY <2>1, <2>2, <2>3
  <2>5. b = [i \in 0 .. ServerWin - 1 |-> b[i]]  OBVIOUS
  <2> HIDE DEF b
  <2> QED BY <2>4, <2>5
<1>5. RemoveOldest(win, k) = [win EXCEPT !.buf = b, !.count = n, !.start = s,
                                         !.next_ack = a, !.dup_ack = d]
  <2>1. DOMAIN win.buf = 0 .. ServerWin - 1  BY WindowFields
  <2> QED BY <2>1, WindowFields DEF RemoveOldest, Index, SendWindow
<1> HIDE DEF b, n, s, a, d
<1>6. LET w == RemoveOldest(win, k)
      IN /\ w \in SendWindow
         /\ w.buf = b /\ w.count = n /\ w.end = win.end /\ w.start = s
         /\ w.next_seq = win.next_seq /\ w.next_ack = a
         /\ w.in_flight = win.in_flight /\ w.rwin_adv = win.rwin_adv
         /\ w.cwnd = win.cwnd /\ w.ssthresh = win.ssthresh
  BY <1>1, <1>2, <1>3, <1>4, <1>5, SafeConstants DEF SendWindow
<1> QED BY <1>4, <1>6 DEF n, s, a

\* Congestion changes cwnd alone.
LEMMA CongestionTyped ==
  ASSUME NEW win \in SendWindow, NEW removed \in Nat, cwnd_inc \in Int,
         Congestion(win, removed)
  PROVE  /\ cwnd_inc' \in Int
         /\ \E c \in 0 .. U16 - 1 : swin' = [win EXCEPT !.cwnd = c]
<1>0. win.cwnd \in 0 .. U16 - 1 /\ win.ssthresh \in 0 .. U16 - 1 /\ U16 \in Nat \ {0}
  BY WindowFields, SafeConstants
<1>1. CASE win.cwnd < win.ssthresh /\ win.cwnd + removed < win.ssthresh
  <2>1. win.cwnd + removed \in 0 .. U16 - 1  BY <1>0, <1>1
  <2>2. swin' = [win EXCEPT !.cwnd = win.cwnd + removed] /\ cwnd_inc' = cwnd_inc
    BY <1>1 DEF Congestion, SendWindow
  <2> QED BY <2>1, <2>2
<1>2. CASE win.cwnd < win.ssthresh /\ ~(win.cwnd + removed < win.ssthresh)
  BY <1>0, <1>2 DEF Congestion, SendWindow
<1>3. CASE ~(win.cwnd < win.ssthresh) /\ cwnd_inc + removed >= win.cwnd
  <2> DEFINE c == (win.cwnd + 1) % U16
  <2>1. c \in 0 .. U16 - 1
    <3>1. win.cwnd + 1 \in Nat  BY <1>0
    <3> QED BY <1>0, <3>1, ModRange
  <2>2. cwnd_inc' = 0 /\ swin' = [win EXCEPT !.cwnd = c]
    BY <1>3 DEF Congestion, SendWindow
  <2> HIDE DEF c
  <2> QED BY <2>1, <2>2
<1>4. CASE ~(win.cwnd < win.ssthresh) /\ ~(cwnd_inc + removed >= win.cwnd)
  <2>1. cwnd_inc' = cwnd_inc + removed /\ swin' = win
    BY <1>4 DEF Congestion
  <2>2. win = [win EXCEPT !.cwnd = win.cwnd]  BY DEF SendWindow
  <2> QED BY <1>0, <2>1, <2>2
<1> QED BY <1>1, <1>2, <1>3, <1>4

\* The element that win_buffer_elem builds, and an element of the window.
LEMMA NextElemTyped ==
  ASSUME STypeOK
  PROVE  NextElem \in Packet /\ fpos_read \in 0 .. NChunks /\ IsFin(NextElem) \in BOOLEAN
<1>1. swin.next_seq \in 0 .. SeqMod - 1 /\ fpos \in 0 .. NChunks
  BY WindowFields DEF STypeOK
<1>2. 0 \in 0 .. SeqMod - 1 /\ 0 \in 0 .. U16 - 1 /\ 0 \in 0 .. NChunks
  BY SafeConstants
<1>3. fpos < NChunks => fpos + 1 \in 0 .. NChunks  BY <1>1, SafeConstants
<1>4. NextElem \in Packet
  BY <1>1, <1>2, <1>3 DEF NextElem, build_pkt, Packet, Flags
<1> QED BY <1>1, <1>3, <1>4 DEF fpos_read, IsFin

LEMMA ElementTyped ==
  ASSUME NEW win \in SendWindow, NEW k \in Nat
  PROVE  win_get_index(win, k) \in Packet /\ win_get_index(win, k).seq \in Nat
<1>1. win.start + k \in Nat /\ win.size = ServerWin  BY WindowFields, SafeConstants
<1>2. Index(win, win.start, k) \in 0 .. ServerWin - 1  BY <1>1, IndexRange DEF Index
<1>3. win_get_index(win, k) \in Packet
  BY <1>2, WindowFields DEF win_get_index, Slot
<1> QED BY <1>3, SafeConstants DEF Packet

\* The numbers of a step's window.
LEMMA SafeFacts ==
  ASSUME SafeInv
  PROVE  /\ swin \in SendWindow /\ swin.size = ServerWin
         /\ swin.count \in 0 .. ServerWin /\ swin.in_flight \in 0 .. swin.count
         /\ swin.rwin_adv \in 0 .. U16 - 1
         /\ nrexmt \in 0 .. MaxRexmt + 1 /\ cwnd_inc \in Int
         /\ spc # "done" => nrexmt <= MaxRexmt
BY WindowFields, SafeConstants DEF SafeInv, STypeOK

LEMMA SafeInit ==
  ASSUME SInit
  PROVE  /\ SafeInv
         /\ swin = [buf |-> [i \in 0 .. ServerWin - 1 |->
                               [valid |-> FALSE, pkt |-> NoPkt]],
                    size |-> ServerWin, count |-> 0, end |-> 0, start |-> 0,
                    next_seq |-> 1, next_ack |-> (1 + 1) % SeqMod, in_flight |-> 0,
                    rwin_adv |-> ClientAdv, cwnd |-> 1, ssthresh |-> U16 - 1,
                    dup_ack |-> 0]
<1> DEFINE b == [i \in 0 .. ServerWin - 1 |-> [valid |-> FALSE, pkt |-> NoPkt]]
           a == (1 + 1) % SeqMod
<1>1. /\ 0 \in 0 .. SeqMod - 1 /\ 0 \in 0 .. U16 - 1 /\ 0 \in 0 .. NChunks
      /\ ClientAdv \in 0 .. U16 - 1 /\ 0 \in 0 .. MaxRexmt + 1 /\ Garbage \subseteq Int
  BY SafeConstants, ServerAssumption
<1>2. swin = [buf |-> b, size |-> ServerWin, count |-> 0, end |-> 0, start |-> 0,
              next_seq |-> 1, next_ack |-> a, in_flight |-> 0, rwin_adv |-> ClientAdv,
              cwnd |-> 1, ssthresh |-> U16 - 1, dup_ack |-> 0]
  BY DEF SInit, win_init, init_seq
<1>3. NoPkt \in Packet  BY <1>1 DEF NoPkt, build_pkt, Packet, Flags
<1>4. b \in [0 .. ServerWin - 1 -> Slot]  BY <1>3 DEF Slot
<1>5. a \in 0 .. SeqMod - 1
  <2>1. 1 + 1 \in Nat  OBVIOUS
  <2> QED BY <2>1, SeqRange
<1> HIDE DEF a, b
<1>6. swin \in SendWindow /\ swin.count = 0 /\ swin.in_flight = 0
  <2>0. U16 > 1  BY DEF U16
  <2>1. /\ 0 \in 0 .. ServerWin /\ 0 \in 0 .. ServerWin - 1 /\ 0 \in Nat
        /\ 1 \in 0 .. U16 - 1 /\ U16 - 1 \in 0 .. U16 - 1
        /\ 0 \in 0 .. STCP_FAST_RETRANSMIT /\ 1 \in 0 .. SeqMod - 1
    BY <2>0, SafeConstants
  <2> QED BY <1>1, <1>2, <1>4, <1>5, <2>1 DEF SendWindow
<1>7. feof \in BOOLEAN /\ deadlock \in BOOLEAN /\ timer \in BOOLEAN /\ ~deadlock
  BY Zenon DEF SInit
<1>8. STypeOK  BY <1>1, <1>3, <1>6, <1>7 DEF STypeOK, SInit
<1>9. ProbeOK  BY <1>7 DEF ProbeOK, Probing, SInit
<1>10. nrexmt <= MaxRexmt  BY SafeConstants DEF SInit
<1> QED BY <1>2, <1>6, <1>8, <1>9, <1>10 DEF SafeInv, a, b

\* Giving up, anywhere.
LEMMA SafeExit ==
  ASSUME SafeInv, SExit("failure"),
         UNCHANGED <<swin, fileVars, cwnd_inc, rtt_base, sack, sent>>,
         deadlock' \in BOOLEAN, nrexmt' \in 0 .. MaxRexmt + 1
  PROVE  SafeInv'
<1>1. /\ spc' = "done" /\ server' = "failure" /\ timer' = FALSE
      /\ UNCHANGED <<swin, fpos, rbuf, feof, cwnd_inc, rtt_base, sack, sent>>
  BY DEF SExit, fileVars
<1>2. timer' \in BOOLEAN  BY <1>1, Zenon
<1> QED BY <1>1, <1>2 DEF SafeInv, STypeOK, ProbeOK, Probing

\* The fill loop.
LEMMA SafeFill ==
  ASSUME SafeInv, SFill
  PROVE  SafeInv'
<1>1. /\ spc = "fill" /\ win_can_add(swin, NextElem)
      /\ swin' = win_add(swin, NextElem) /\ fpos' = fpos_read /\ feof' = IsFin(NextElem)
      /\ UNCHANGED <<spc, rbuf, deadlock, cwnd_inc, nrexmt, rtt_base, timer, sack,
                     sent, server>>
  BY DEF SFill, rttVars
<1>2. NextElem \in Packet /\ fpos_read \in 0 .. NChunks /\ IsFin(NextElem) \in BOOLEAN
  BY NextElemTyped DEF SafeInv
<1>3. feof' \in BOOLEAN  BY <1>1, <1>2, Zenon
<1>4. /\ swin' \in SendWindow /\ swin'.count = swin.count + 1
      /\ swin'.in_flight = swin.in_flight
  BY <1>1, <1>2, SafeFacts, AddTyped
<1>5. STypeOK'  BY <1>1, <1>2, <1>3, <1>4 DEF SafeInv, STypeOK
<1>6. ProbeOK'  BY <1>1 DEF SafeInv, ProbeOK, Probing
<1> QED BY <1>1, <1>4, <1>5, <1>6, SafeFacts, SafeConstants DEF SafeInv

\* Steps that leave the window alone.
LEMMA SafeMove ==
  ASSUME SafeInv, SFilled \/ SWait \/ SAlarm
  PROVE  SafeInv'
<1>1. /\ UNCHANGED <<swin, fpos, rbuf, feof, deadlock, cwnd_inc, nrexmt, rtt_base,
                     sack, sent, server>>
      /\ spc # "done" /\ spc' # "done"
  BY DEF SFilled, SWait, SAlarm, fileVars, rttVars, Stalled
<1>2. timer' \in BOOLEAN
  <2>1. timer' = timer \/ timer' = TRUE  BY DEF SFilled, SWait, SAlarm
  <2>2. timer \in BOOLEAN  BY DEF SafeInv, STypeOK
  <2> QED BY <2>1, <2>2, Zenon
<1>3. STypeOK'
  BY <1>1, <1>2 DEF SafeInv, STypeOK, SFilled, SWait, SAlarm
<1>4. ProbeOK'
  <2>1. CASE SFilled  BY <2>1 DEF SFilled, SafeInv, ProbeOK, Probing
  <2>2. CASE SWait  BY <2>2 DEF SWait, MoreToSend, SafeInv, ProbeOK, Probing
  <2>3. CASE SAlarm  BY <1>1, <2>3 DEF SAlarm, SafeInv, ProbeOK, Probing
  <2> QED BY <2>1, <2>2, <2>3
<1> QED BY <1>1, <1>3, <1>4 DEF SafeInv

\* send_payload finds the element it asks for.
LEMMA SafeToSend ==
  ASSUME SafeInv, spc = "send", MoreToSend
  PROVE  swin.in_flight < swin.count
BY SafeFacts, SafeConstants DEF SafeInv, ProbeOK, MoreToSend

LEMMA SafeSend ==
  ASSUME SafeInv, NEW ok \in BOOLEAN, SSend(ok)
  PROVE  SafeInv'
<1>1. CASE ~ok
  <2>1. deadlock' \in BOOLEAN /\ nrexmt' \in 0 .. MaxRexmt + 1
    BY <1>1 DEF SSend, SafeInv, STypeOK
  <2> QED BY <1>1, <2>1, SafeExit DEF SSend
<1>2. CASE ok
  <2>1. /\ swin' = [swin EXCEPT !.in_flight = swin.in_flight + 1]
        /\ rtt_base' = IF swin.in_flight = 0 THEN ToSend.seq ELSE rtt_base
        /\ deadlock' = FALSE /\ spc = "send" /\ MoreToSend
        /\ sent' = IF ToSend.seq > sent THEN ToSend.seq ELSE sent
        /\ UNCHANGED <<spc, timer, server, fpos, rbuf, feof, cwnd_inc, nrexmt, sack>>
    BY <1>2 DEF SSend, fileVars
  <2>2. swin.in_flight < swin.count /\ swin.in_flight \in Nat /\ swin.count \in Nat
    BY <2>1, SafeToSend, SafeFacts, SafeConstants
  <2>3. ToSend.seq \in Nat  BY <2>2, SafeFacts, ElementTyped DEF ToSend
  <2>4. /\ swin' \in SendWindow /\ swin'.in_flight = swin.in_flight + 1
        /\ swin'.count = swin.count
    <3>1. swin.in_flight + 1 \in Nat  BY <2>2
    <3> QED BY <2>1, <3>1, SafeFacts DEF SendWindow
  <2>5. deadlock' \in BOOLEAN /\ ~deadlock'  BY <2>1, Zenon
  <2>6. STypeOK'  BY <2>1, <2>3, <2>4, <2>5 DEF SafeInv, STypeOK
  <2>7. ProbeOK'  BY <2>1, <2>5 DEF ProbeOK, Probing
  <2> QED BY <2>1, <2>2, <2>4, <2>6, <2>7 DEF SafeInv
<1> QED BY <1>1, <1>2

\* Fast retransmit.
LEMMA SafeFastRetransmit ==
  ASSUME SafeInv, SFastRetransmit
  PROVE  /\ SafeInv'
         /\ LET c == IF swin.cwnd > 1 THEN swin.cwnd \div 2 ELSE swin.cwnd
            IN c \in 0 .. U16 - 1
               /\ swin' = [swin EXCEPT !.dup_ack = 0, !.in_flight = 0,
                                       !.cwnd = c, !.ssthresh = c]
<1> DEFINE c == IF swin.cwnd > 1 THEN swin.cwnd \div 2 ELSE swin.cwnd
<1>1. /\ spc = "recv" /\ spc' = "send" /\ timer' = FALSE
      /\ swin' = [swin EXCEPT !.dup_ack = 0, !.in_flight = 0, !.cwnd = c, !.ssthresh = c]
      /\ UNCHANGED <<fpos, rbuf, feof, deadlock, cwnd_inc, nrexmt, rtt_base, sack,
                     sent, server>>
  BY DEF SFastRetransmit, fileVars, rttVars
<1>2. c \in 0 .. U16 - 1
  BY SafeFacts, WindowFields, SafeConstants
<1> HIDE DEF c
<1>3. swin' \in SendWindow /\ swin'.in_flight = 0 /\ swin'.count = swin.count
  <2>1. 0 \in Nat /\ 0 \in 0 .. STCP_FAST_RETRANSMIT  BY SafeConstants
  <2> QED BY <1>1, <1>2, <2>1, SafeFacts DEF SendWindow
<1>4. timer' \in BOOLEAN  BY <1>1, Zenon
<1>5. STypeOK'  BY <1>1, <1>3, <1>4 DEF SafeInv, STypeOK
<1>6. ProbeOK'  BY <1>1 DEF SafeInv, ProbeOK, Probing
<1>7. SafeInv'  BY <1>1, <1>3, <1>5, <1>6, SafeFacts DEF SafeInv
<1> QED BY <1>1, <1>2, <1>7 DEF c

\* A packet arrives.
LEMMA SafeRecv ==
  ASSUME SafeInv, NEW pkt \in Packet, SRecv(pkt)
  PROVE  /\ SafeInv'
         /\ \/ swin' = swin
            \/ swin' = [swin EXCEPT !.dup_ack = swin.dup_ack + 1]
         /\ swin' \in SendWindow
<1>1. /\ spc = "recv" /\ swin.dup_ack # STCP_FAST_RETRANSMIT
      /\ UNCHANGED <<fpos, rbuf, feof, deadlock, cwnd_inc, nrexmt, rtt_base, timer,
                     sent, server>>
  BY DEF SRecv, Receiving, fileVars, rttVars
<1>2. /\ \/ swin' = swin
         \/ swin' = [swin EXCEPT !.dup_ack = swin.dup_ack + 1]
      /\ \/ spc' = "recv" /\ sack' = sack
         \/ spc' = "acked" /\ sack' = pkt
  BY <1>1 DEF SRecv
<1>3. swin' \in SendWindow /\ swin'.in_flight = swin.in_flight /\ swin'.count = swin.count
  <2>1. swin \in SendWindow /\ swin.dup_ack + 1 \in 0 .. STCP_FAST_RETRANSMIT
    BY <1>1, SafeFacts, WindowFields, SafeConstants
  <2> QED BY <1>2, <2>1 DEF SendWindow
<1>4. STypeOK'  BY <1>1, <1>2, <1>3 DEF SafeInv, STypeOK
<1>5. ProbeOK'  BY <1>1, <1>2 DEF SafeInv, ProbeOK, Probing
<1> QED BY <1>1, <1>2, <1>3, <1>4, <1>5 DEF SafeInv

\* A good ACK: the window it leaves to slow start or congestion avoidance.
LEMMA AckSteps ==
  ASSUME SafeInv, SAck
  PROVE  \E removed \in 0 .. swin.count, v \in SendWindow :
           /\ removed = Removed(swin, sack.ack)
           /\ Congestion(v, removed)
           /\ LET r == RemoveOldest(swin, removed)
              IN /\ v.buf = r.buf /\ v.count = r.count /\ v.end = r.end
                 /\ v.start = r.start /\ v.next_seq = r.next_seq
                 /\ v.next_ack = r.next_ack /\ v.cwnd = swin.cwnd
                 /\ v.ssthresh = swin.ssthresh /\ v.rwin_adv = sack.win
                 /\ v.count = swin.count - removed
           /\ v.in_flight <= v.count /\ v.in_flight <= swin.in_flight
           /\ v.in_flight \in {0, swin.in_flight - removed}
           /\ \/ spc' = "done" /\ server' = "success" /\ v.count = 0 /\ feof
              \/ spc' = "fill" /\ server' = server /\ ~(v.count = 0 /\ feof)
<1> DEFINE removed == Removed(swin, sack.ack)
           r == RemoveOldest(swin, removed)
           w == [r EXCEPT !.rwin_adv = sack.win]
           n == InFlightAfter(w, removed)
           v == [w EXCEPT !.in_flight = n]
<1>1. removed \in 0 .. swin.count /\ swin.count \in Nat
  BY SafeFacts, RemovedRange, SafeConstants
<1>2. w = win_remove_ack(swin, sack)  BY DEF win_remove_ack
<1>3. /\ Congestion(v, removed)
      /\ \/ spc' = "done" /\ server' = "success" /\ w.count = 0 /\ feof
         \/ spc' = "fill" /\ server' = server /\ ~(w.count = 0 /\ feof)
  BY <1>2 DEF SAck, Finished, win_empty
<1>d. removed = Removed(swin, sack.ack) /\ r = RemoveOldest(swin, removed)  OBVIOUS
<1> HIDE DEF removed, r
<1>4. /\ r \in SendWindow /\ r.count = swin.count - removed
      /\ r.in_flight = swin.in_flight /\ r.cwnd = swin.cwnd /\ r.ssthresh = swin.ssthresh
  BY <1>1, <1>d, SafeFacts, RemoveTyped
<1>5. sack.win \in 0 .. U16 - 1  BY DEF SafeInv, STypeOK, Packet
<1>6. /\ w \in SendWindow /\ w.buf = r.buf /\ w.count = r.count /\ w.end = r.end
      /\ w.start = r.start /\ w.next_seq = r.next_seq /\ w.next_ack = r.next_ack
      /\ w.cwnd = r.cwnd /\ w.ssthresh = r.ssthresh
      /\ w.in_flight = r.in_flight /\ w.rwin_adv = sack.win
  BY <1>4, <1>5 DEF SendWindow
<1> HIDE DEF w
<1>7. /\ n \in Nat /\ n <= w.count /\ n <= swin.in_flight
      /\ n \in {0, swin.in_flight - removed}
  BY <1>1, <1>4, <1>6, SafeFacts DEF InFlightAfter
<1> HIDE DEF n
<1>8. /\ v \in SendWindow /\ v.buf = r.buf /\ v.count = r.count /\ v.end = r.end
      /\ v.start = r.start /\ v.next_seq = r.next_seq /\ v.next_ack = r.next_ack
      /\ v.cwnd = r.cwnd /\ v.ssthresh = r.ssthresh
      /\ v.in_flight = n /\ v.rwin_adv = sack.win
  BY <1>6, <1>7 DEF SendWindow
<1> HIDE DEF v
<1>9. v.count = swin.count - removed /\ v.cwnd = swin.cwnd /\ v.ssthresh = swin.ssthresh
      /\ v.in_flight <= v.count /\ v.in_flight <= swin.in_flight
      /\ v.in_flight \in {0, swin.in_flight - removed}
  BY <1>4, <1>6, <1>7, <1>8
<1>10. \/ spc' = "done" /\ server' = "success" /\ v.count = 0 /\ feof
       \/ spc' = "fill" /\ server' = server /\ ~(v.count = 0 /\ feof)
  BY <1>3, <1>6, <1>8
<1> QED BY <1>1, <1>3, <1>8, <1>9, <1>10, <1>d

LEMMA SafeAck ==
  ASSUME SafeInv, SAck
  PROVE  SafeInv'
<1>1. PICK removed \in 0 .. swin.count, v \in SendWindow :
        /\ Congestion(v, removed)
        /\ v.in_flight <= v.count
        /\ \/ spc' = "done" /\ server' = "success"
           \/ spc' = "fill" /\ server' = server
  BY AckSteps
<1>2. /\ spc = "acked" /\ timer' = FALSE /\ nrexmt' = 0
      /\ UNCHANGED <<fpos, rbuf, feof, deadlock, rtt_base, sack, sent>>
  BY DEF SAck, fileVars
<1>3. removed \in Nat /\ cwnd_inc \in Int  BY <1>1, SafeFacts, SafeConstants
<1>4. PICK c \in 0 .. U16 - 1 : swin' = [v EXCEPT !.cwnd = c]
  BY <1>1, <1>3, CongestionTyped
<1>5. cwnd_inc' \in Int  BY <1>1, <1>3, CongestionTyped
<1>6. swin' \in SendWindow /\ swin'.in_flight = v.in_flight /\ swin'.count = v.count
  BY <1>4 DEF SendWindow
<1>7. timer' \in BOOLEAN  BY <1>2, Zenon
<1>8. STypeOK'
  BY <1>1, <1>2, <1>5, <1>6, <1>7, SafeConstants DEF SafeInv, STypeOK
<1>9. ProbeOK'  BY <1>1, <1>2 DEF SafeInv, ProbeOK, Probing
<1> QED BY <1>1, <1>2, <1>6, <1>8, <1>9, SafeConstants DEF SafeInv

\* The retransmission after a timeout: slow start, and a probe if the client's
\* window is closed.
LEMMA RtoSteps ==
  ASSUME SafeInv, SRto
  PROVE  /\ swin' \in SendWindow /\ swin'.in_flight = 0
         /\ swin'.cwnd = 1 /\ swin'.ssthresh >= 1
         /\ swin'.buf = swin.buf /\ swin'.count = swin.count /\ swin'.end = swin.end
         /\ swin'.start = swin.start /\ swin'.next_seq = swin.next_seq
         /\ swin'.next_ack = swin.next_ack /\ swin'.rwin_adv = swin.rwin_adv
<1> DEFINE s == IF swin.cwnd \div 2 = 0 THEN 1 ELSE swin.cwnd \div 2
<1>0. U16 > 1  BY DEF U16
<1>1. /\ swin \in SendWindow /\ swin.cwnd \in 0 .. U16 - 1 /\ U16 \in Nat /\ U16 > 1
      /\ 0 \in Nat /\ 0 \in 0 .. STCP_FAST_RETRANSMIT /\ 1 \in 0 .. U16 - 1
  BY <1>0, SafeFacts, WindowFields, SafeConstants
<1>2. s \in 1 .. U16 - 1  BY <1>1
<1>3. swin' = [swin EXCEPT !.ssthresh = s, !.cwnd = 1, !.in_flight = 0, !.dup_ack = 0]
  BY <1>1 DEF SRto, SLOW_START, SendWindow
<1> HIDE DEF s
<1>4. s \in 0 .. U16 - 1 /\ s >= 1  BY <1>1, <1>2
<1> QED BY <1>1, <1>3, <1>4 DEF SendWindow

LEMMA SafeRto ==
  ASSUME SafeInv, SRto
  PROVE  SafeInv'
<1>1. /\ spc = "rto" /\ nrexmt' = nrexmt + 1
      /\ UNCHANGED <<fpos, rbuf, feof, cwnd_inc, rtt_base, sack, sent>>
  BY DEF SRto, fileVars
<1>2. \/ /\ nrexmt' > MaxRexmt /\ spc' = "done" /\ server' = "failure"
         /\ timer' = FALSE /\ deadlock' = deadlock
      \/ /\ ~(nrexmt' > MaxRexmt) /\ timer' = timer /\ server' = server
         /\ deadlock' = (deadlock \/ swin.rwin_adv = 0)
         /\ \/ spc' = "probe" /\ swin.rwin_adv = 0 /\ swin.count = 0
            \/ spc' = "send" /\ ~(swin.rwin_adv = 0 /\ swin.count = 0)
  BY <1>1 DEF SRto, SExit, win_empty
<1>3. deadlock \in BOOLEAN /\ timer \in BOOLEAN /\ (deadlock => swin.rwin_adv = 0)
  BY <1>1 DEF SafeInv, STypeOK, ProbeOK
<1>4. deadlock' \in BOOLEAN /\ (deadlock' => swin.rwin_adv = 0)
  <2>1. CASE nrexmt' > MaxRexmt
    <3>1. deadlock' = deadlock  BY <1>2, <2>1
    <3> QED BY <1>3, <3>1
  <2>2. CASE ~(nrexmt' > MaxRexmt)
    <3>1. deadlock' = (deadlock \/ swin.rwin_adv = 0)  BY <1>2, <2>2
    <3>2. deadlock' \in BOOLEAN  BY <3>1, Zenon
    <3>3. deadlock' => swin.rwin_adv = 0  BY <1>3, <3>1, Zenon
    <3> QED BY <3>2, <3>3
  <2> QED BY <2>1, <2>2
<1>5. spc' = "probe" => deadlock'
  <2>1. spc' = "probe" => deadlock' = (deadlock \/ swin.rwin_adv = 0) /\ swin.rwin_adv = 0
    BY <1>2
  <2> QED BY <2>1, Zenon
<1>6. timer' \in BOOLEAN
  <2>1. timer' = FALSE \/ timer' = timer  BY <1>2
  <2> QED BY <1>3, <2>1, Zenon
<1>7. nrexmt' \in 0 .. MaxRexmt + 1 /\ (spc' # "done" => nrexmt' <= MaxRexmt)
  BY <1>1, <1>2, SafeFacts, SafeConstants
<1>8. STypeOK'
  BY <1>1, <1>2, <1>4, <1>6, <1>7, RtoSteps DEF SafeInv, STypeOK
<1>9. ProbeOK'
  <2>1. deadlock' /\ spc' = "send" => swin'.count > 0
    BY <1>2, <1>4, RtoSteps, SafeFacts, SafeConstants
  <2>2. spc' \in {"done", "probe", "send"}  BY <1>2
  <2> QED BY <1>4, <1>5, <2>1, <2>2, RtoSteps DEF ProbeOK, Probing
<1> QED BY <1>7, <1>8, <1>9, RtoSteps, SafeFacts, SafeConstants DEF SafeInv

\* The steps of a probe.
LEMMA SafeProbe ==
  ASSUME SafeInv, SProbeRead \/ SProbeAdd \/ SProbeEof
  PROVE  SafeInv'
<1>1. CASE SProbeRead
  <2>1. /\ spc = "probe" /\ spc' = "probe_add" /\ rbuf' = NextElem /\ fpos' = fpos_read
        /\ UNCHANGED <<swin, feof, deadlock, cwnd_inc, nrexmt, rtt_base, timer, sack,
                       sent, server>>
    BY <1>1 DEF SProbeRead, rttVars
  <2>2. NextElem \in Packet /\ fpos_read \in 0 .. NChunks
    BY NextElemTyped DEF SafeInv
  <2>3. STypeOK'  BY <2>1, <2>2 DEF SafeInv, STypeOK
  <2> QED BY <2>1, <2>3 DEF SafeInv, ProbeOK, Probing
<1>2. CASE SProbeAdd
  <2>1. /\ spc = "probe_add" /\ spc' = "probe_eof" /\ swin' = win_add(swin, rbuf)
        /\ win_can_add(swin, rbuf) /\ rbuf \in Packet
        /\ UNCHANGED <<fpos, rbuf, feof, deadlock, cwnd_inc, nrexmt, rtt_base, timer,
                       sack, sent, server>>
    BY <1>2 DEF SProbeAdd, fileVars, rttVars, SafeInv, STypeOK
  <2>2. /\ swin' \in SendWindow /\ swin'.count = swin.count + 1
        /\ swin'.in_flight = swin.in_flight /\ swin'.rwin_adv = swin.rwin_adv
    BY <2>1, SafeFacts, AddTyped
  <2>3. STypeOK'  BY <2>1, <2>2 DEF SafeInv, STypeOK
  <2>4. swin'.count > 0 /\ swin'.in_flight <= swin'.count
    BY <2>2, SafeFacts, SafeConstants
  <2> QED BY <2>1, <2>2, <2>3, <2>4 DEF SafeInv, ProbeOK, Probing
<1>3. CASE SProbeEof
  <2>1. /\ spc = "probe_eof" /\ spc' = "send" /\ feof' = IsFin(rbuf)
        /\ UNCHANGED <<swin, fpos, rbuf, deadlock, cwnd_inc, nrexmt, rtt_base, timer,
                       sack, sent, server>>
    BY <1>3 DEF SProbeEof, rttVars
  <2>2. feof' \in BOOLEAN
    <3>1. IsFin(rbuf) \in BOOLEAN  BY DEF IsFin
    <3> QED BY <2>1, <3>1, Zenon
  <2>3. STypeOK'  BY <2>1, <2>2 DEF SafeInv, STypeOK
  <2> QED BY <2>1, <2>3 DEF SafeInv, ProbeOK, Probing
<1> QED BY <1>1, <1>2, <1>3

\* Giving up.
LEMMA SafeFails ==
  ASSUME SafeInv, SFillFails \/ SProbeFails \/ SRecvFails
  PROVE  SafeInv'
<1>1. deadlock' \in BOOLEAN /\ nrexmt' \in 0 .. MaxRexmt + 1
  BY DEF SFillFails, SProbeFails, SRecvFails, SafeInv, STypeOK, rttVars
<1> QED BY <1>1, SafeExit DEF SFillFails, SProbeFails, SRecvFails, rttVars

\* A step that changes nothing.
LEMMA SafeStutter ==
  ASSUME SafeInv, UNCHANGED serverVars
  PROVE  SafeInv'
BY DEF SafeInv, STypeOK, ProbeOK, Probing, serverVars, fileVars, rttVars

\* A packet of a client is well-formed.
LEMMA FromClientIsPacket ==
  ASSUME SafeInv, NEW pkt \in FromClient
  PROVE  pkt \in Packet
<1>1. PICK a \in 1 .. sent + 1, w \in 0 .. ClientAdv :
        pkt = build_pkt(0, a % SeqMod, w, {"ACK"}, 0)
  BY DEF FromClient
<1>2. sent \in Nat  BY DEF SafeInv, STypeOK
<1>3. a % SeqMod \in 0 .. SeqMod - 1
  <2>1. a \in Nat  BY <1>1, <1>2
  <2> QED BY <2>1, SeqRange
<1>4. /\ w \in 0 .. U16 - 1 /\ 0 \in 0 .. SeqMod - 1
      /\ 0 \in 0 .. NChunks /\ {"ACK"} \in SUBSET Flags
  BY <1>1, SafeConstants DEF Flags
<1> HIDE DEF Packet
<1>5. \A x \in 0 .. SeqMod - 1 : build_pkt(0, x, w, {"ACK"}, 0) \in Packet
  BY <1>4 DEF build_pkt, Packet
<1> QED BY <1>1, <1>3, <1>5

\* Every step.
\* Every step of the server keeps SafeInv.
LEMMA SafeNext ==
  ASSUME SafeInv, [SNext]_serverVars
  PROVE  SafeInv'
<1>1. CASE SLocal
  BY <1>1, SafeFill, SafeMove, SafeProbe, SafeFastRetransmit, SafeAck, SafeRto
  DEF SLocal, SFile
<1>2. CASE SAlarm  BY <1>2, SafeMove
<1>3. CASE SFillFails \/ SProbeFails \/ SRecvFails  BY <1>3, SafeFails
<1>4. CASE \E ok \in BOOLEAN : SSend(ok)  BY <1>4, SafeSend
<1>5. CASE \E pkt \in FromClient : SRecv(pkt)  BY <1>5, SafeRecv, FromClientIsPacket
<1>6. CASE UNCHANGED serverVars  BY <1>6, SafeStutter
<1> QED BY <1>1, <1>2, <1>3, <1>4, <1>5, <1>6 DEF SNext

-----------------------------------------------------------------------------
(* Constants and segments, when sequence numbers do not wrap. *)

LEMMA SConstants ==
  ASSUME Assumed
  PROVE  /\ ServerWin \in Nat \ {0} /\ ServerWin < U16
         /\ NChunks \in Nat /\ LastSeg = NChunks + 1 /\ LastSeg \in Nat
         /\ SeqMod \in Nat \ {0} /\ LastSeg + 3 <= SeqMod
         /\ U16 \in Nat
         /\ ClientAdv \in Nat /\ ClientAdv < U16 /\ MaxRexmt \in Nat
BY SafeConstants DEF Assumed, SeqFits

\* Small numbers are their own remainders.
LEMMA SmallSeq ==
  ASSUME Assumed, NEW s \in 0 .. LastSeg + 2
  PROVE  s % SeqMod = s /\ s \in 0 .. SeqMod - 1
<1>1. s \in 0 .. SeqMod - 1 /\ SeqMod \in Nat \ {0}  BY SConstants
<1> QED BY <1>1, SmallMod

\* The s-th segment has sequence number s.
LEMMA SSegmentFacts ==
  ASSUME Assumed, NEW s \in 1 .. LastSeg
  PROVE  /\ Segment(s) \in Packet
         /\ Segment(s).seq = s
         /\ IsFin(Segment(s)) <=> s = LastSeg
         /\ Segment(s) = IF s <= NChunks THEN build_pkt(s, 0, 0, {}, s)
                         ELSE build_pkt(s, 0, 0, {"FIN"}, 0)
<1>1. s % SeqMod = s /\ s \in 0 .. SeqMod - 1
  BY SConstants, SmallSeq
<1>2. 0 \in 0 .. SeqMod - 1 /\ 0 \in 0 .. U16 - 1
  BY SConstants
<1>3. CASE s <= NChunks
  <2>1. Segment(s) = [seq |-> s, ack |-> 0, win |-> 0, flags |-> {}, data |-> s]
    BY <1>1, <1>3 DEF Segment, build_pkt
  <2> QED BY <1>1, <1>2, <1>3, <2>1, SConstants DEF Packet, Flags, IsFin, build_pkt
<1>4. CASE ~(s <= NChunks)
  <2>1. Segment(s) = [seq |-> s, ack |-> 0, win |-> 0, flags |-> {"FIN"}, data |-> 0]
    BY <1>1, <1>4 DEF Segment, build_pkt
  <2> QED BY <1>1, <1>2, <1>4, <2>1, SConstants DEF Packet, Flags, IsFin, build_pkt
<1> QED BY <1>3, <1>4

-----------------------------------------------------------------------------
(* The operations on the sending window keep it a part of the file. *)

\* The numbers that describe the window.
LEMMA PartNumbers ==
  ASSUME Assumed, NEW win, FilePart(win)
  PROVE  /\ win \in SendWindow
         /\ win.count \in 0 .. ServerWin /\ win.size = ServerWin
         /\ AckedOf(win) \in 0 .. LastSeg /\ AckedOf(win) + win.count \in 0 .. LastSeg
         /\ win.next_ack = AckedOf(win) + 2 /\ win.next_ack \in Nat
         /\ win.next_seq = AckedOf(win) + win.count + 1
         /\ win.start \in 0 .. ServerWin - 1 /\ win.end \in 0 .. ServerWin - 1
<1>1. /\ win.count \in 0 .. ServerWin /\ win.size = ServerWin
      /\ win.start \in 0 .. ServerWin - 1 /\ win.end \in 0 .. ServerWin - 1
      /\ win.next_ack \in 0 .. SeqMod - 1
  BY DEF FilePart, SendWindow
<1> QED BY <1>1, SConstants DEF FilePart, AckedOf

\* The element k places after the oldest.
LEMMA ElementAt ==
  ASSUME Assumed, NEW win, FilePart(win), NEW k \in 0 .. win.count - 1
  PROVE  /\ win_get_index(win, k) = Segment(AckedOf(win) + 1 + k)
         /\ AckedOf(win) + 1 + k \in 1 .. LastSeg
         /\ win_get_index(win, k).seq = AckedOf(win) + 1 + k
<1>1. win_get_index(win, k) = Segment(AckedOf(win) + 1 + k)
  BY PartNumbers DEF FilePart, win_get_index, Index
<1>2. AckedOf(win) + 1 + k \in 1 .. LastSeg  BY PartNumbers, SConstants
<1> QED BY <1>1, <1>2, SSegmentFacts

\* The oldest element is the one at place 0.
LEMMA OldestAt ==
  ASSUME Assumed, NEW win, FilePart(win), win.count > 0
  PROVE  win_oldest(win) = win_get_index(win, 0)
         /\ win_oldest(win).seq = AckedOf(win) + 1
<1>1. win.start \in 0 .. ServerWin - 1 /\ ServerWin \in Nat \ {0}
  BY PartNumbers, SConstants
<1>2. (win.start + 0) % ServerWin = win.start
  <2>1. win.start + 0 = win.start  BY <1>1
  <2>2. win.start % ServerWin = win.start  BY <1>1, SmallMod
  <2> QED BY <2>1, <2>2
<1>3. win_oldest(win) = win_get_index(win, 0)
  BY <1>2, PartNumbers DEF win_oldest, win_get_index, Index
<1>4. 0 \in 0 .. win.count - 1 /\ AckedOf(win) + 1 + 0 = AckedOf(win) + 1
  BY PartNumbers
<1> QED BY <1>3, <1>4, ElementAt

\* The fields that describe the ring decide whether it is a part of the file.
LEMMA SameRing ==
  ASSUME Assumed, NEW win, FilePart(win), NEW w \in SendWindow,
         w.buf = win.buf, w.count = win.count, w.end = win.end,
         w.start = win.start, w.next_seq = win.next_seq, w.next_ack = win.next_ack
  PROVE  FilePart(w) /\ AckedOf(w) = AckedOf(win)
<1>1. AckedOf(w) = AckedOf(win)  BY DEF AckedOf
<1> QED BY <1>1 DEF FilePart

\* win_add of the next segment of the file.
LEMMA AddPart ==
  ASSUME Assumed, NEW win, FilePart(win), win.count < ServerWin,
         AckedOf(win) + win.count + 1 <= LastSeg,
         NEW pkt, pkt = Segment(AckedOf(win) + win.count + 1)
  PROVE  /\ win_can_add(win, pkt)
         /\ FilePart(win_add(win, pkt))
         /\ AckedOf(win_add(win, pkt)) = AckedOf(win)
         /\ win_add(win, pkt).count = win.count + 1
         /\ win_add(win, pkt).in_flight = win.in_flight
         /\ win_add(win, pkt).rwin_adv = win.rwin_adv
<1> DEFINE a == AckedOf(win)
           n == win.count
           w == win_add(win, pkt)
<1>0. /\ ServerWin \in Nat \ {0} /\ LastSeg \in Nat /\ SeqMod \in Nat \ {0}
      /\ LastSeg + 3 <= SeqMod
  BY SConstants
<1>1. /\ win \in SendWindow /\ n \in 0 .. ServerWin - 1 /\ win.size = ServerWin
      /\ a \in 0 .. LastSeg /\ win.next_seq = a + n + 1
      /\ win.start \in 0 .. ServerWin - 1 /\ win.end \in 0 .. ServerWin - 1
      /\ win.end = (win.start + n) % ServerWin
      /\ a + n + 1 \in 1 .. LastSeg
  BY <1>0, PartNumbers DEF FilePart
<1>2. pkt \in Packet /\ pkt.seq = win.next_seq  BY <1>1, SSegmentFacts
<1>3. win_can_add(win, pkt)  BY <1>1, <1>2 DEF win_can_add, win_full
<1>4. (win.next_seq + 1) % SeqMod = win.next_seq + 1
  <2>1. win.next_seq + 1 \in 0 .. LastSeg + 2  BY <1>0, <1>1
  <2> QED BY <2>1, SmallSeq
<1>6. (win.end + 1) % ServerWin = (win.start + (n + 1)) % ServerWin
  <2> DEFINE m == win.start + n
  <2>1. m \in Nat /\ 1 \in Nat /\ m + 1 = win.start + (n + 1)  BY <1>1
  <2>2. win.end = m % ServerWin  BY <1>1
  <2> HIDE DEF m
  <2>3. ((m % ServerWin) + 1) % ServerWin = (m + 1) % ServerWin  BY <1>0, <2>1, ModAdd
  <2> QED BY <2>1, <2>2, <2>3
<1>8. win.buf \in [0 .. ServerWin - 1 -> Slot]  BY <1>1, WindowFields
<1>9. /\ w \in SendWindow
      /\ w.buf = [win.buf EXCEPT ![win.end] = [valid |-> TRUE, pkt |-> pkt]]
      /\ w.count = n + 1 /\ w.end = (win.end + 1) % ServerWin /\ w.start = win.start
      /\ w.next_seq = win.next_seq + 1 /\ w.next_ack = win.next_ack
      /\ w.in_flight = win.in_flight /\ w.rwin_adv = win.rwin_adv
  BY <1>1, <1>2, <1>3, <1>4, AddTyped
<1> HIDE DEF a, n, w
<1>10. AckedOf(w) = a  BY <1>9 DEF AckedOf, a
<1>11. \A k \in 0 .. w.count - 1 :
         w.buf[(w.start + k) % ServerWin].pkt = Segment(AckedOf(w) + 1 + k)
  <2> SUFFICES ASSUME NEW k \in 0 .. n
               PROVE  w.buf[(win.start + k) % ServerWin].pkt = Segment(a + 1 + k)
    BY <1>1, <1>9, <1>10
  <2>1. win.start + k \in Nat  BY <1>1
  <2>2. (win.start + k) % ServerWin \in 0 .. ServerWin - 1  BY <2>1, IndexRange
  <2>3. CASE k = n
    <3>1. (win.start + k) % ServerWin = win.end  BY <1>1, <2>3
    <3>2. a + 1 + k = a + n + 1  BY <1>1, <2>3
    <3>3. w.buf[win.end] = [valid |-> TRUE, pkt |-> pkt]  BY <1>1, <1>8, <1>9
    <3> QED BY <3>1, <3>2, <3>3 DEF a, n
  <2>4. CASE k # n
    <3>1. k \in 0 .. n - 1  BY <1>1, <2>4
    <3>2. (win.start + k) % ServerWin # win.end
      <4> DEFINE i == win.start + k  j == win.start + n
      <4>1. i \in Nat /\ j \in Nat /\ i - j < ServerWin /\ j - i < ServerWin /\ i # j
        BY <1>0, <1>1, <3>1
      <4>2. win.end = j % ServerWin  BY <1>1
      <4> HIDE DEF i, j
      <4>3. i % ServerWin # j % ServerWin  BY <1>0, <4>1, ModInj
      <4> QED BY <4>2, <4>3 DEF i
    <3>3. w.buf[(win.start + k) % ServerWin] = win.buf[(win.start + k) % ServerWin]
      BY <1>8, <1>9, <2>2, <3>2
    <3> QED BY <3>1, <3>3 DEF FilePart, a, n
  <2> QED BY <2>3, <2>4
<1>12. FilePart(w)
  <2>1. AckedOf(w) \in Nat /\ AckedOf(w) + w.count <= LastSeg
        /\ w.next_seq = AckedOf(w) + w.count + 1
    BY <1>1, <1>9, <1>10
  <2>2. w.end = (w.start + w.count) % ServerWin  BY <1>6, <1>9
  <2> QED BY <1>9, <1>11, <2>1, <2>2 DEF FilePart
<1> QED BY <1>3, <1>9, <1>10, <1>12 DEF a, n, w

\* Removing the k oldest elements moves the window on by k segments.
LEMMA RemovePart ==
  ASSUME Assumed, NEW win, FilePart(win), NEW k \in 0 .. win.count
  PROVE  LET w == RemoveOldest(win, k)
         IN FilePart(w) /\ AckedOf(w) = AckedOf(win) + k
<1> DEFINE a == AckedOf(win)
           n == win.count
           w == RemoveOldest(win, k)
<1>0. /\ ServerWin \in Nat \ {0} /\ LastSeg \in Nat /\ SeqMod \in Nat \ {0}
      /\ LastSeg + 3 <= SeqMod
  BY SConstants
<1>1. /\ win \in SendWindow /\ n \in 0 .. ServerWin /\ win.size = ServerWin
      /\ a \in 0 .. LastSeg /\ win.next_ack = a + 2 /\ win.next_seq = a + n + 1
      /\ win.start \in 0 .. ServerWin - 1 /\ win.end \in 0 .. ServerWin - 1
      /\ win.end = (win.start + n) % ServerWin /\ a + n \in 0 .. LastSeg
  BY <1>0, PartNumbers DEF FilePart
<1>2. k \in 0 .. n /\ k \in Nat  BY <1>1
<1>3. (win.next_ack + k) % SeqMod = win.next_ack + k
  <2>1. win.next_ack + k \in 0 .. LastSeg + 2  BY <1>0, <1>1, <1>2
  <2> QED BY <2>1, SmallSeq
<1>8. /\ w \in SendWindow
      /\ \A i \in 0 .. ServerWin - 1 : w.buf[i].pkt = win.buf[i].pkt
      /\ w.count = n - k /\ w.start = (win.start + k) % ServerWin
      /\ w.next_ack = win.next_ack + k /\ w.next_seq = win.next_seq /\ w.end = win.end
  BY <1>1, <1>2, <1>3, RemoveTyped
<1> HIDE DEF a, n, w
<1>9. AckedOf(w) = a + k  BY <1>1, <1>2, <1>8 DEF AckedOf
<1>10. \A j \in Nat : (w.start + j) % ServerWin = (win.start + (k + j)) % ServerWin
  <2> SUFFICES ASSUME NEW j \in Nat
               PROVE  (w.start + j) % ServerWin = (win.start + (k + j)) % ServerWin
    OBVIOUS
  <2> DEFINE m == win.start + k
  <2>1. m \in Nat /\ m + j = win.start + (k + j)  BY <1>1, <1>2
  <2>2. w.start = m % ServerWin  BY <1>8
  <2> HIDE DEF m
  <2>3. ((m % ServerWin) + j) % ServerWin = (m + j) % ServerWin  BY <1>0, <2>1, ModAdd
  <2> QED BY <2>1, <2>2, <2>3
<1>11. \A j \in 0 .. w.count - 1 :
         w.buf[(w.start + j) % ServerWin].pkt = Segment(AckedOf(w) + 1 + j)
  <2> SUFFICES ASSUME NEW j \in 0 .. n - k - 1
               PROVE  w.buf[(w.start + j) % ServerWin].pkt = Segment(a + k + 1 + j)
    BY <1>8, <1>9
  <2>1. k + j \in 0 .. n - 1 /\ j \in Nat /\ a + 1 + (k + j) = a + k + 1 + j
        /\ win.start + (k + j) \in Nat
    BY <1>1, <1>2
  <2>2. (w.start + j) % ServerWin = (win.start + (k + j)) % ServerWin  BY <1>10, <2>1
  <2>3. (win.start + (k + j)) % ServerWin \in 0 .. ServerWin - 1  BY <2>1, IndexRange
  <2>4. win.buf[(win.start + (k + j)) % ServerWin].pkt = Segment(a + 1 + (k + j))
    BY <2>1 DEF FilePart, a, n
  <2> QED BY <1>8, <2>1, <2>2, <2>3, <2>4
<1>12. w.end = (w.start + w.count) % ServerWin
  <2>1. n - k \in Nat /\ k + (n - k) = n  BY <1>1, <1>2
  <2>2. (w.start + (n - k)) % ServerWin = (win.start + n) % ServerWin  BY <1>10, <2>1
  <2> QED BY <1>1, <1>8, <2>2
<1>13. FilePart(w)
  <2>1. AckedOf(w) \in Nat /\ AckedOf(w) + w.count <= LastSeg
        /\ w.next_seq = AckedOf(w) + w.count + 1
    BY <1>0, <1>1, <1>2, <1>8, <1>9
  <2> QED BY <1>8, <1>11, <1>12, <2>1 DEF FilePart
<1> QED BY <1>8, <1>9, <1>13 DEF a, n, w

\* win_remove_ack removes elements that are there, and at least one unless the
\* ACK asks for the oldest.
LEMMA RemovedFacts ==
  ASSUME Assumed, NEW win, FilePart(win), NEW ack
  PROVE  /\ Removed(win, ack) \in 0 .. win.count
         /\ win.count > 0 /\ win_oldest(win).seq # ack => Removed(win, ack) >= 1
<1>1. win.count \in Nat  BY PartNumbers
<1>2. CASE \E k \in 0 .. win.count - 1 : FirstAt(win, ack, k)
  <2>1. Removed(win, ack) \in 0 .. win.count - 1 /\ FirstAt(win, ack, Removed(win, ack))
    BY <1>2 DEF Removed
  <2>2. win.count > 0 /\ win_oldest(win).seq # ack => Removed(win, ack) # 0
    BY <2>1, OldestAt DEF FirstAt
  <2> QED BY <1>1, <2>1, <2>2
<1>3. CASE ~ \E k \in 0 .. win.count - 1 : FirstAt(win, ack, k)
  <2>1. Removed(win, ack) = win.count  BY <1>3 DEF Removed
  <2> QED BY <1>1, <2>1
<1> QED BY <1>2, <1>3

-----------------------------------------------------------------------------
(* The steps keep SInv. *)

\* The numbers of the server's window.
LEMMA WinFacts ==
  ASSUME Assumed, SInv
  PROVE  /\ FilePart(swin) /\ swin \in SendWindow /\ swin.size = ServerWin
         /\ swin.count \in 0 .. ServerWin
         /\ Acked \in 0 .. LastSeg /\ Acked + swin.count \in 0 .. LastSeg
         /\ swin.next_seq = Acked + swin.count + 1
         /\ swin.in_flight \in Nat /\ swin.rwin_adv \in Nat
         /\ swin.in_flight <= swin.count
<1>1. FilePart(swin) /\ SafeInv  BY DEF SInv, PartOK
<1>2. /\ swin \in SendWindow /\ swin.size = ServerWin
      /\ swin.count \in 0 .. ServerWin
      /\ Acked \in 0 .. LastSeg /\ Acked + swin.count \in 0 .. LastSeg
      /\ swin.next_seq = Acked + swin.count + 1
  BY <1>1, PartNumbers DEF Acked
<1> QED BY <1>1, <1>2, SafeFacts, SConstants

\* What win_buffer_elem reads next is the segment after the last one read.
LEMMA NextIsSegment ==
  ASSUME Assumed, SInv, ~feof, spc \notin {"probe_add", "probe_eof"}
  PROVE  /\ fpos = Acked + swin.count /\ fpos + 1 \in 1 .. LastSeg
         /\ NextElem = Segment(fpos + 1) /\ NextElem \in Packet
         /\ fpos_read \in 0 .. NChunks
         /\ IsFin(NextElem) <=> fpos = NChunks
         /\ fpos_read = IF fpos < NChunks THEN fpos + 1 ELSE fpos
<1>1. fpos \in 0 .. NChunks /\ fpos = Acked + swin.count
  BY SConstants, WinFacts DEF SInv, SafeInv, STypeOK, FileOK
<1>2. fpos + 1 \in 1 .. LastSeg  BY <1>1, SConstants
<1>3. swin.next_seq = fpos + 1  BY <1>1, WinFacts
<1>4. /\ Segment(fpos + 1) \in Packet
      /\ IsFin(Segment(fpos + 1)) <=> fpos + 1 = LastSeg
      /\ Segment(fpos + 1) = IF fpos + 1 <= NChunks
                             THEN build_pkt(fpos + 1, 0, 0, {}, fpos + 1)
                             ELSE build_pkt(fpos + 1, 0, 0, {"FIN"}, 0)
  BY <1>2, SSegmentFacts
<1>5. fpos < NChunks <=> fpos + 1 <= NChunks  BY <1>1, SConstants
<1>6. NextElem = Segment(fpos + 1)  BY <1>3, <1>4, <1>5 DEF NextElem
<1>7. fpos_read = IF fpos < NChunks THEN fpos + 1 ELSE fpos  BY DEF fpos_read
<1>8. fpos + 1 = LastSeg <=> fpos = NChunks  BY <1>1, SConstants
<1>9. fpos_read \in 0 .. NChunks  BY <1>1, <1>7, SConstants
<1> QED BY <1>1, <1>2, <1>4, <1>6, <1>7, <1>8, <1>9

\* The first state.
LEMMA InitInv ==
  ASSUME Assumed, SInit
  PROVE  SInv
<1>0. /\ ServerWin \in Nat \ {0} /\ LastSeg \in Nat /\ NChunks \in Nat
  BY SConstants
<1>1. (1 + 1) % SeqMod = 2
  <2>1. 2 \in 0 .. LastSeg + 2 /\ 1 + 1 = 2  BY <1>0
  <2> QED BY <2>1, SmallSeq
<1>2. SafeInv /\ swin \in SendWindow /\ swin.count = 0 /\ swin.start = 0 /\ swin.end = 0
      /\ swin.next_seq = 1 /\ swin.next_ack = 2
  BY <1>1, SafeInit DEF SafeInv, STypeOK
<1>6. Acked = 0 /\ AckedOf(swin) = 0  BY <1>2 DEF Acked, AckedOf
<1>7. PartOK
  <2>1. (0 + 0) % ServerWin = 0
    <3>1. 0 \in 0 .. ServerWin - 1 /\ 0 + 0 = 0  BY <1>0
    <3> QED BY <1>0, <3>1, SmallMod
  <2> QED BY <1>0, <1>2, <1>6, <2>1 DEF PartOK, FilePart
<1>9. FileOK /\ GoodAckOK
  BY <1>0, <1>2, <1>6 DEF FileOK, GoodAckOK, SInit
<1>10. sent <= LastSeg /\ SuccessMeansAllAcked
  BY <1>0 DEF SuccessMeansAllAcked, SInit
<1> QED BY <1>2, <1>7, <1>9, <1>10 DEF SInv

\* win_buffer_elem adds the next segment of the file.
LEMMA SFillFacts ==
  ASSUME Assumed, SInv, SFill
  PROVE  /\ FilePart(swin') /\ AckedOf(swin') = AckedOf(swin)
         /\ swin'.count = swin.count + 1
         /\ swin'.in_flight = swin.in_flight
         /\ swin'.rwin_adv = swin.rwin_adv
         /\ swin.count < swin.rwin_adv
<1>1. /\ spc = "fill" /\ ~feof /\ swin.count < win_send_limit(swin)
      /\ swin' = win_add(swin, NextElem)
  BY DEF SFill, MoreToBuffer
<1>2. /\ fpos = Acked + swin.count /\ fpos + 1 \in 1 .. LastSeg
      /\ NextElem = Segment(fpos + 1)
  BY <1>1, NextIsSegment
<1>3. swin.cwnd \in Nat  BY WinFacts, WindowFields, SConstants
<1>4. swin.count < ServerWin /\ swin.count < swin.rwin_adv
  BY <1>1, <1>3, WinFacts, SConstants DEF win_send_limit, Least, win_available
<1>5. FilePart(swin) /\ AckedOf(swin) + swin.count + 1 <= LastSeg
      /\ AckedOf(swin) + swin.count + 1 = fpos + 1
  BY <1>2, WinFacts DEF Acked
<1> QED BY <1>1, <1>2, <1>4, <1>5, AddPart

LEMMA SFillInv ==
  ASSUME Assumed, SInv, SFill
  PROVE  SInv'
<1>0. SafeInv'  BY SafeFill DEF SInv
<1>1. /\ spc = "fill" /\ ~feof /\ fpos' = fpos_read /\ feof' = IsFin(NextElem)
      /\ UNCHANGED <<spc, sent, server>>
  BY DEF SFill, MoreToBuffer
<1>2. /\ fpos = Acked + swin.count
      /\ IsFin(NextElem) <=> fpos = NChunks
      /\ fpos_read = IF fpos < NChunks THEN fpos + 1 ELSE fpos
      /\ fpos_read \in 0 .. NChunks
  BY <1>1, NextIsSegment
<1>4. /\ FilePart(swin') /\ AckedOf(swin') = AckedOf(swin)
      /\ swin'.count = swin.count + 1
  BY SFillFacts
<1>5. Acked' = Acked  BY <1>4 DEF Acked
<1>6. feof' <=> fpos = NChunks
  <2>1. feof' <=> IsFin(NextElem)  BY <1>1, Zenon
  <2> QED BY <1>2, <2>1, Zenon
<1>10. FileOK' /\ GoodAckOK'
  BY <1>1, <1>2, <1>4, <1>5, <1>6, WinFacts, SConstants DEF FileOK, GoodAckOK
<1>12. sent' <= LastSeg /\ SuccessMeansAllAcked'
  BY <1>1, <1>5 DEF SInv, SuccessMeansAllAcked
<1> QED BY <1>0, <1>4, <1>10, <1>12 DEF SInv, PartOK

\* Giving up, anywhere but between the read and the win_add of a probe.
LEMMA ExitInv ==
  ASSUME Assumed, SInv, SExit("failure"), spc \notin {"probe_add", "probe_eof"},
         UNCHANGED <<swin, fileVars, cwnd_inc, rtt_base, sack, sent>>,
         deadlock' \in BOOLEAN, nrexmt' \in 0 .. MaxRexmt + 1
  PROVE  SInv'
<1>0. SafeInv'  BY SafeExit DEF SInv
<1>1. /\ spc' = "done" /\ server' = "failure"
      /\ UNCHANGED <<swin, fpos, rbuf, feof, sack, sent>>
  BY DEF SExit, fileVars
<1>2. Acked' = Acked  BY <1>1 DEF Acked, AckedOf
<1>3. PartOK'  BY <1>1, WinFacts DEF PartOK
<1>5. FileOK' /\ GoodAckOK'
  BY <1>1, <1>2 DEF SInv, FileOK, GoodAckOK
<1>6. sent' <= LastSeg /\ SuccessMeansAllAcked'
  BY <1>1 DEF SInv, SuccessMeansAllAcked
<1> QED BY <1>0, <1>3, <1>5, <1>6 DEF SInv

\* win_add never fails for a probe: the window is empty and the probe is the
\* next segment.
LEMMA ProbeFits ==
  ASSUME Assumed, SInv, spc = "probe_add"
  PROVE  win_can_add(swin, rbuf)
<1>1. /\ swin.count = 0 /\ rbuf = Segment(Acked + 1)
      /\ Acked + 1 = fpos + (IF IsFin(rbuf) THEN 1 ELSE 0)
      /\ IsFin(rbuf) => fpos = NChunks
      /\ fpos \in 0 .. NChunks
  BY DEF SInv, FileOK, SafeInv, STypeOK
<1>2. Acked + 1 \in 1 .. LastSeg  BY <1>1, WinFacts, SConstants
<1>3. rbuf.seq = swin.next_seq  BY <1>1, <1>2, SSegmentFacts, WinFacts
<1> QED BY <1>1, <1>3, WinFacts, SConstants DEF win_can_add, win_full

LEMMA SFailsInv ==
  ASSUME Assumed, SInv, SFillFails \/ SProbeFails \/ SRecvFails
  PROVE  SInv'
<1>1. deadlock' \in BOOLEAN /\ nrexmt' \in 0 .. MaxRexmt + 1
  BY DEF SFillFails, SProbeFails, SRecvFails, SInv, SafeInv, STypeOK, rttVars
<1>2. spc \notin {"probe_add", "probe_eof"}
  BY ProbeFits DEF SFillFails, SProbeFails, SRecvFails, Receiving
<1> QED BY <1>1, <1>2, ExitInv DEF SFillFails, SProbeFails, SRecvFails, rttVars

\* The fill loop ends, the timer is armed, or SIGALRM strikes where the server
\* waits or has just stopped waiting.
LEMMA SMoveInv ==
  ASSUME Assumed, SInv, SFilled \/ SWait \/ SAlarm
  PROVE  SInv'
<1>0. SafeInv'  BY SafeMove DEF SInv
<1>1. /\ spc \in {"fill", "send", "recv", "acked"} /\ spc' \in {"send", "recv", "rto"}
      /\ UNCHANGED <<swin, fpos, rbuf, feof, sack, sent, server>>
  BY DEF SFilled, SWait, SAlarm, fileVars, rttVars, Assumed
<1>2. Acked' = Acked  BY <1>1 DEF Acked, AckedOf
<1>3. PartOK'  BY <1>1, WinFacts DEF PartOK
<1>5. FileOK' /\ GoodAckOK'
  BY <1>1, <1>2 DEF SInv, FileOK, GoodAckOK
<1>6. sent' <= LastSeg /\ SuccessMeansAllAcked'
  BY <1>1, <1>2 DEF SInv, SuccessMeansAllAcked
<1> QED BY <1>0, <1>3, <1>5, <1>6 DEF SInv

\* send_payload finds the element it asks for.
LEMMA SendFacts ==
  ASSUME Assumed, SInv, spc = "send", MoreToSend
  PROVE  /\ swin.in_flight \in 0 .. swin.count - 1
         /\ ToSend.seq = Acked + 1 + swin.in_flight
<1>1. swin.in_flight \in 0 .. swin.count - 1
  BY SafeToSend, WinFacts DEF SInv
<1>2. ToSend.seq = AckedOf(swin) + 1 + swin.in_flight
  BY <1>1, WinFacts, ElementAt DEF ToSend
<1> QED BY <1>1, <1>2 DEF Acked

LEMMA SSendInv ==
  ASSUME Assumed, SInv, NEW ok \in BOOLEAN, SSend(ok)
  PROVE  SInv'
<1>0. SafeInv'  BY SafeSend DEF SInv
<1>1. spc = "send" /\ MoreToSend  BY DEF SSend
<1>2. CASE ~ok
  <2>1. deadlock' \in BOOLEAN /\ nrexmt' \in 0 .. MaxRexmt + 1
    BY <1>2 DEF SSend, SInv, SafeInv, STypeOK
  <2> QED BY <1>1, <1>2, <2>1, ExitInv DEF SSend
<1>3. CASE ok
  <2>1. /\ swin' = [swin EXCEPT !.in_flight = swin.in_flight + 1]
        /\ sent' = IF ToSend.seq > sent THEN ToSend.seq ELSE sent
        /\ UNCHANGED <<spc, server, fpos, rbuf, feof, sack>>
    BY <1>3 DEF SSend, fileVars
  <2>2. /\ swin.in_flight \in 0 .. swin.count - 1
        /\ ToSend.seq = Acked + 1 + swin.in_flight
    BY <1>1, SendFacts
  <2>3. ToSend.seq <= LastSeg  BY <2>2, WinFacts, SConstants
  <2>4. /\ swin' \in SendWindow
        /\ swin'.buf = swin.buf /\ swin'.count = swin.count /\ swin'.end = swin.end
        /\ swin'.start = swin.start /\ swin'.next_seq = swin.next_seq
        /\ swin'.next_ack = swin.next_ack
    <3>1. swin \in SendWindow /\ swin.in_flight + 1 \in Nat  BY WinFacts
    <3> QED BY <2>1, <3>1 DEF SendWindow
  <2>5. FilePart(swin') /\ Acked' = Acked
    BY <2>4, WinFacts, SameRing DEF Acked
  <2>7. FileOK' /\ GoodAckOK'
    BY <1>1, <2>1, <2>4, <2>5 DEF SInv, FileOK, GoodAckOK
  <2>9. sent' <= LastSeg /\ SuccessMeansAllAcked'
    BY <2>1, <2>3, <2>5 DEF SInv, SuccessMeansAllAcked
  <2> QED BY <1>0, <2>5, <2>7, <2>9 DEF SInv, PartOK
<1> QED BY <1>2, <1>3

LEMMA SFastRetransmitInv ==
  ASSUME Assumed, SInv, SFastRetransmit
  PROVE  SInv'
<1> DEFINE c == IF swin.cwnd > 1 THEN swin.cwnd \div 2 ELSE swin.cwnd
<1>0. SafeInv' /\ swin' = [swin EXCEPT !.dup_ack = 0, !.in_flight = 0,
                                       !.cwnd = c, !.ssthresh = c]
  BY SafeFastRetransmit DEF SInv
<1>1. /\ spc = "recv" /\ spc' = "send"
      /\ UNCHANGED <<fpos, rbuf, feof, sack, sent, server>>
  BY DEF SFastRetransmit, fileVars, rttVars
<1> HIDE DEF c
<1>4. /\ swin' \in SendWindow
      /\ swin'.buf = swin.buf /\ swin'.count = swin.count /\ swin'.end = swin.end
      /\ swin'.start = swin.start /\ swin'.next_seq = swin.next_seq
      /\ swin'.next_ack = swin.next_ack
  <2>1. swin' \in SendWindow  BY <1>0 DEF SafeInv, STypeOK
  <2> QED BY <1>0, <2>1, WinFacts DEF SendWindow
<1>5. FilePart(swin') /\ Acked' = Acked
  BY <1>4, WinFacts, SameRing DEF Acked
<1>7. FileOK' /\ GoodAckOK'
  BY <1>1, <1>4, <1>5 DEF SInv, FileOK, GoodAckOK
<1>8. sent' <= LastSeg /\ SuccessMeansAllAcked'
  BY <1>1, <1>5 DEF SInv, SuccessMeansAllAcked
<1> QED BY <1>0, <1>5, <1>7, <1>8 DEF SInv, PartOK

LEMMA SRecvInv ==
  ASSUME Assumed, SInv, NEW pkt \in Packet, SRecv(pkt)
  PROVE  SInv'
<1>0. /\ SafeInv' /\ swin' \in SendWindow
      /\ \/ swin' = swin
         \/ swin' = [swin EXCEPT !.dup_ack = swin.dup_ack + 1]
  BY SafeRecv DEF SInv
<1>1. /\ spc = "recv"
      /\ UNCHANGED <<fpos, rbuf, feof, sent, server>>
  BY DEF SRecv, Receiving, fileVars
<1>2. \/ spc' = "recv" /\ sack' = sack
      \/ /\ spc' = "acked" /\ sack' = pkt
         /\ swin.count # 0 /\ win_oldest(swin).seq # pkt.ack
  BY <1>1 DEF SRecv, win_valid_ack, win_dup_ack, win_empty
<1>3. /\ swin'.buf = swin.buf /\ swin'.count = swin.count /\ swin'.end = swin.end
      /\ swin'.start = swin.start /\ swin'.next_seq = swin.next_seq
      /\ swin'.next_ack = swin.next_ack
  BY <1>0, WinFacts DEF SendWindow
<1>4. FilePart(swin') /\ Acked' = Acked
  BY <1>0, <1>3, WinFacts, SameRing DEF Acked
<1>6. FileOK'
  BY <1>1, <1>2, <1>3, <1>4 DEF SInv, FileOK
<1>7. GoodAckOK'
  <2>1. win_oldest(swin') = win_oldest(swin)  BY <1>3 DEF win_oldest
  <2>2. swin.count \in Nat  BY WinFacts
  <2>3. spc' = "acked" => swin'.count > 0 /\ win_oldest(swin').seq # sack'.ack
    BY <1>2, <1>3, <2>1, <2>2
  <2> QED BY <2>3 DEF GoodAckOK
<1>8. sent' <= LastSeg /\ SuccessMeansAllAcked'
  BY <1>1, <1>4 DEF SInv, SuccessMeansAllAcked
<1> QED BY <1>0, <1>4, <1>6, <1>7, <1>8 DEF SInv, PartOK

\* What a good ACK does to the window.
LEMMA AckFacts ==
  ASSUME Assumed, SInv, SAck
  PROVE  \E removed \in 1 .. swin.count :
           /\ removed = Removed(swin, sack.ack) /\ swin'.rwin_adv = sack.win
           /\ FilePart(swin') /\ Acked' = Acked + removed
           /\ swin'.count = swin.count - removed
           /\ swin'.in_flight <= swin'.count /\ swin'.in_flight <= swin.in_flight
           /\ swin'.in_flight \in {0, swin.in_flight - removed}
           /\ \/ spc' = "done" /\ server' = "success" /\ swin'.count = 0 /\ feof
              \/ spc' = "fill" /\ server' = server /\ ~(swin'.count = 0 /\ feof)
<1>1. swin.count > 0 /\ win_oldest(swin).seq # sack.ack
  BY DEF SAck, SInv, GoodAckOK
<1>2. PICK removed \in 0 .. swin.count, v \in SendWindow :
           /\ removed = Removed(swin, sack.ack)
           /\ Congestion(v, removed)
           /\ LET r == RemoveOldest(swin, removed)
              IN /\ v.buf = r.buf /\ v.count = r.count /\ v.end = r.end
                 /\ v.start = r.start /\ v.next_seq = r.next_seq
                 /\ v.next_ack = r.next_ack /\ v.rwin_adv = sack.win
                 /\ v.count = swin.count - removed
           /\ v.in_flight <= v.count /\ v.in_flight <= swin.in_flight
           /\ v.in_flight \in {0, swin.in_flight - removed}
           /\ \/ spc' = "done" /\ server' = "success" /\ v.count = 0 /\ feof
              \/ spc' = "fill" /\ server' = server /\ ~(v.count = 0 /\ feof)
  BY AckSteps DEF SInv
<1>3. removed \in 1 .. swin.count /\ removed \in Nat
  BY <1>1, <1>2, WinFacts, RemovedFacts
<1> DEFINE r == RemoveOldest(swin, removed)
<1>4. FilePart(r) /\ AckedOf(r) = AckedOf(swin) + removed
  BY WinFacts, RemovePart
<1>5. PICK c \in 0 .. U16 - 1 : swin' = [v EXCEPT !.cwnd = c]
  <2>1. cwnd_inc \in Int  BY SafeFacts DEF SInv
  <2> QED BY <1>2, <1>3, <2>1, CongestionTyped
<1> HIDE DEF r
<1>6. /\ swin' \in SendWindow
      /\ swin'.buf = v.buf /\ swin'.count = v.count /\ swin'.end = v.end
      /\ swin'.start = v.start /\ swin'.next_seq = v.next_seq
      /\ swin'.next_ack = v.next_ack /\ swin'.in_flight = v.in_flight
      /\ swin'.rwin_adv = v.rwin_adv
  BY <1>5 DEF SendWindow
<1>7. FilePart(swin') /\ AckedOf(swin') = AckedOf(swin) + removed
  BY <1>2, <1>4, <1>6, SameRing DEF r
<1> QED BY <1>2, <1>3, <1>6, <1>7 DEF Acked

LEMMA SAckInv ==
  ASSUME Assumed, SInv, SAck
  PROVE  SInv'
<1>0. SafeInv'  BY SafeAck DEF SInv
<1>1. PICK removed \in 1 .. swin.count :
           /\ FilePart(swin') /\ Acked' = Acked + removed
           /\ swin'.count = swin.count - removed
           /\ \/ spc' = "done" /\ server' = "success" /\ swin'.count = 0 /\ feof
              \/ spc' = "fill" /\ server' = server /\ ~(swin'.count = 0 /\ feof)
  BY AckFacts
<1>2. spc = "acked" /\ UNCHANGED <<fpos, rbuf, feof, sack, sent>>
  BY DEF SAck, fileVars
<1>3. /\ Acked' + swin'.count = Acked + swin.count
      /\ swin.count \in Nat /\ swin'.count \in Nat /\ Acked \in Nat
      /\ fpos \in 0 .. NChunks /\ (server = "up" <=> spc # "done")
  BY <1>1, WinFacts, SConstants DEF SInv, SafeInv, STypeOK
<1>5. FileOK' /\ GoodAckOK'
  BY <1>1, <1>2, <1>3 DEF SInv, FileOK, GoodAckOK
<1>7. SuccessMeansAllAcked'
  BY <1>1, <1>2, <1>3, SConstants DEF SInv, FileOK, SuccessMeansAllAcked
<1>8. sent' <= LastSeg  BY <1>2 DEF SInv
<1> QED BY <1>0, <1>1, <1>5, <1>7, <1>8 DEF SInv, PartOK

\* The retransmission after a timeout: slow start, and a probe if the client's
\* window is closed.
LEMMA SRtoInv ==
  ASSUME Assumed, SInv, SRto
  PROVE  SInv'
<1>0. SafeInv'  BY SafeRto DEF SInv
<1>1. spc = "rto" /\ UNCHANGED <<fpos, rbuf, feof, sack, sent>>
  BY DEF SRto, fileVars
<1>2. \/ spc' = "done" /\ server' = "failure"
      \/ /\ server' = server
         /\ \/ spc' = "probe" /\ swin.count = 0
            \/ spc' = "send"
  BY DEF SRto, SExit, win_empty
<1>3. /\ swin' \in SendWindow
      /\ swin'.buf = swin.buf /\ swin'.count = swin.count /\ swin'.end = swin.end
      /\ swin'.start = swin.start /\ swin'.next_seq = swin.next_seq
      /\ swin'.next_ack = swin.next_ack
  BY RtoSteps DEF SInv
<1>4. FilePart(swin') /\ Acked' = Acked
  BY <1>3, WinFacts, SameRing DEF Acked
<1>5. FileOK' /\ GoodAckOK'
  BY <1>1, <1>2, <1>3, <1>4 DEF SInv, FileOK, GoodAckOK
<1>6. sent' <= LastSeg  BY <1>1 DEF SInv
<1>7. SuccessMeansAllAcked'
  BY <1>1, <1>2, <1>4 DEF SInv, SuccessMeansAllAcked
<1> QED BY <1>0, <1>4, <1>5, <1>6, <1>7 DEF SInv, PartOK

\* read() for a probe: the next segment is built but not yet in the window.
LEMMA SProbeReadInv ==
  ASSUME Assumed, SInv, SProbeRead
  PROVE  SInv'
<1>0. SafeInv'  BY SafeProbe DEF SInv
<1>1. /\ spc = "probe" /\ spc' = "probe_add" /\ rbuf' = NextElem /\ fpos' = fpos_read
      /\ UNCHANGED <<swin, feof, sack, sent, server>>
  BY DEF SProbeRead
<1>2. ~feof /\ swin.count = 0  BY <1>1 DEF SInv, FileOK
<1>3. /\ fpos = Acked /\ NextElem = Segment(fpos + 1)
      /\ (IsFin(NextElem) <=> fpos = NChunks)
      /\ fpos_read = IF fpos < NChunks THEN fpos + 1 ELSE fpos
      /\ fpos \in 0 .. NChunks /\ NChunks \in Nat
  <2>1. fpos = Acked + swin.count /\ Acked \in Nat
    BY <1>1, <1>2, NextIsSegment, WinFacts
  <2> QED BY <1>1, <1>2, <2>1, NextIsSegment, SConstants DEF SInv, SafeInv, STypeOK
<1>4. Acked' = Acked  BY <1>1 DEF Acked, AckedOf
<1>5. PartOK'  BY <1>1, WinFacts DEF PartOK
<1>7. FileOK'
  <2>1. IsFin(rbuf') <=> fpos = NChunks  BY <1>1, <1>3
  <2>2. Acked' + 1 = fpos' + (IF IsFin(rbuf') THEN 1 ELSE 0)
    BY <1>1, <1>3, <1>4, <2>1
  <2>3. IsFin(rbuf') => fpos' = NChunks  BY <1>1, <1>3, <2>1
  <2>4. rbuf' = Segment(Acked' + 1)  BY <1>1, <1>3, <1>4
  <2> QED BY <1>1, <1>2, <2>2, <2>3, <2>4 DEF FileOK
<1>9. GoodAckOK' /\ sent' <= LastSeg /\ SuccessMeansAllAcked'
  BY <1>1, <1>4 DEF SInv, GoodAckOK, SuccessMeansAllAcked
<1> QED BY <1>0, <1>5, <1>7, <1>9 DEF SInv

\* win_add for a probe.
LEMMA SProbeAddFacts ==
  ASSUME Assumed, SInv, SProbeAdd
  PROVE  /\ FilePart(swin') /\ AckedOf(swin') = AckedOf(swin)
         /\ swin'.count = 1
         /\ swin'.in_flight = swin.in_flight
         /\ swin'.rwin_adv = swin.rwin_adv
<1>1. spc = "probe_add" /\ swin' = win_add(swin, rbuf)
  BY DEF SProbeAdd
<1>2. /\ swin.count = 0 /\ rbuf = Segment(Acked + 1)
      /\ Acked + 1 = fpos + (IF IsFin(rbuf) THEN 1 ELSE 0)
      /\ (IsFin(rbuf) => fpos = NChunks)
      /\ fpos \in 0 .. NChunks
  BY <1>1 DEF SInv, FileOK, SafeInv, STypeOK
<1>3. /\ FilePart(swin) /\ swin.count < ServerWin
      /\ AckedOf(swin) + swin.count + 1 <= LastSeg
      /\ rbuf = Segment(AckedOf(swin) + swin.count + 1)
  <2>1. NChunks \in Nat /\ LastSeg = NChunks + 1 /\ ServerWin \in Nat \ {0}
        /\ Acked \in Nat
    BY WinFacts, SConstants
  <2> QED BY <1>2, <2>1, WinFacts DEF Acked
<1> QED BY <1>1, <1>2, <1>3, AddPart

LEMMA SProbeAddInv ==
  ASSUME Assumed, SInv, SProbeAdd
  PROVE  SInv'
<1>0. SafeInv'  BY SafeProbe DEF SInv
<1>1. /\ spc = "probe_add" /\ spc' = "probe_eof"
      /\ UNCHANGED <<fpos, rbuf, feof, sack, sent, server>>
  BY DEF SProbeAdd, fileVars
<1>2. /\ ~feof /\ Acked + 1 = fpos + (IF IsFin(rbuf) THEN 1 ELSE 0)
      /\ (IsFin(rbuf) => fpos = NChunks)
  BY <1>1 DEF SInv, FileOK
<1>3. FilePart(swin') /\ AckedOf(swin') = AckedOf(swin) /\ swin'.count = 1
  BY SProbeAddFacts
<1>4. Acked' = Acked  BY <1>3 DEF Acked
<1>6. FileOK'
  BY <1>1, <1>2, <1>3, <1>4 DEF FileOK
<1>8. GoodAckOK' /\ sent' <= LastSeg /\ SuccessMeansAllAcked'
  BY <1>1, <1>4 DEF SInv, GoodAckOK, SuccessMeansAllAcked
<1> QED BY <1>0, <1>3, <1>6, <1>8 DEF SInv, PartOK

\* The caller of win_buffer_elem learns whether the probe is the FIN.
LEMMA SProbeEofInv ==
  ASSUME Assumed, SInv, SProbeEof
  PROVE  SInv'
<1>0. SafeInv'  BY SafeProbe DEF SInv
<1>1. /\ spc = "probe_eof" /\ spc' = "send" /\ feof' = IsFin(rbuf)
      /\ UNCHANGED <<swin, fpos, rbuf, sack, sent, server>>
  BY DEF SProbeEof
<1>2. /\ swin.count = 1 /\ Acked + 1 = fpos + (IF IsFin(rbuf) THEN 1 ELSE 0)
      /\ (IsFin(rbuf) => fpos = NChunks)
  BY <1>1 DEF SInv, FileOK
<1>3. feof' <=> IsFin(rbuf)  BY <1>1, Zenon
<1>4. Acked' = Acked  BY <1>1 DEF Acked, AckedOf
<1>5. PartOK'  BY <1>1, WinFacts DEF PartOK
<1>7. FileOK'
  <2>1. Acked' + swin'.count = fpos' + (IF feof' THEN 1 ELSE 0)
    BY <1>1, <1>2, <1>3, <1>4
  <2> QED BY <1>1, <1>2, <1>3, <2>1 DEF FileOK
<1>9. GoodAckOK' /\ sent' <= LastSeg /\ SuccessMeansAllAcked'
  BY <1>1, <1>4 DEF SInv, GoodAckOK, SuccessMeansAllAcked
<1> QED BY <1>0, <1>5, <1>7, <1>9 DEF SInv

\* A step that changes nothing.
LEMMA SStutterInv ==
  ASSUME SInv, UNCHANGED serverVars
  PROVE  SInv'
<1>1. SafeInv'  BY SafeStutter DEF SInv
<1> QED
  BY <1>1 DEF SInv, PartOK, FilePart, AckedOf, Acked, FileOK, GoodAckOK,
     SuccessMeansAllAcked, serverVars, fileVars, SendWindow, win_oldest

\* Every step of the server keeps SInv.
LEMMA SStepInv ==
  ASSUME Assumed, SInv, [SNext]_serverVars
  PROVE  SInv'
<1>1. CASE SLocal
  BY <1>1, SFillInv, SMoveInv, SProbeReadInv, SProbeAddInv, SProbeEofInv,
     SFastRetransmitInv, SAckInv, SRtoInv
  DEF SLocal, SFile
<1>2. CASE SAlarm  BY <1>2, SMoveInv
<1>3. CASE SFillFails \/ SProbeFails \/ SRecvFails  BY <1>3, SFailsInv
<1>4. CASE \E ok \in BOOLEAN : SSend(ok)  BY <1>4, SSendInv
<1>5. CASE \E pkt \in FromClient : SRecv(pkt)
  BY <1>5, SRecvInv, FromClientIsPacket DEF SInv
<1>6. CASE UNCHANGED serverVars  BY <1>6, SStutterInv
<1> QED BY <1>1, <1>2, <1>3, <1>4, <1>5, <1>6 DEF SNext

-----------------------------------------------------------------------------
(* The steps keep CwndInv, when cwnd does not wrap. *)

LEMMA CwndBounds ==
  ASSUME Assumed, CwndFits, SInv, CwndInv
  PROVE  /\ swin.cwnd \in 1 .. 1 + Acked /\ swin.cwnd \in Nat
         /\ swin.ssthresh \in Nat /\ swin.ssthresh >= 1
         /\ swin.in_flight <= swin.cwnd /\ swin.in_flight <= swin.count
         /\ LastSeg + 3 < U16
BY WinFacts, WindowFields, SConstants
DEF CwndInv, CwndEarned, InFlightBounded, CwndFits

\* What Congestion does to cwnd and the window.
LEMMA CongestionFacts ==
  ASSUME NEW win \in SendWindow, NEW removed \in Nat, removed >= 1,
         cwnd_inc \in Int, win.cwnd >= 1, win.ssthresh >= 1, win.cwnd + removed < U16,
         Congestion(win, removed)
  PROVE  /\ swin'.cwnd >= win.cwnd /\ swin'.cwnd <= win.cwnd + removed
         /\ swin' = [win EXCEPT !.cwnd = swin'.cwnd]
<1>0. U16 \in Nat /\ win.cwnd \in 1 .. U16 - 1 /\ win.ssthresh \in 1 .. U16 - 1
  BY SafeConstants, WindowFields
<1>1. CASE win.cwnd < win.ssthresh /\ win.cwnd + removed < win.ssthresh
  BY <1>0, <1>1 DEF Congestion, SendWindow
<1>2. CASE win.cwnd < win.ssthresh /\ ~(win.cwnd + removed < win.ssthresh)
  BY <1>0, <1>2 DEF Congestion, SendWindow
<1>3. CASE ~(win.cwnd < win.ssthresh) /\ cwnd_inc + removed >= win.cwnd
  <2>1. win.cwnd + 1 \in 0 .. U16 - 1  BY <1>0
  <2>2. (win.cwnd + 1) % U16 = win.cwnd + 1  BY <1>0, <2>1, SmallMod
  <2>3. swin' = [win EXCEPT !.cwnd = win.cwnd + 1]
    BY <1>3, <2>2 DEF Congestion, SendWindow
  <2> QED BY <1>0, <1>3, <2>1, <2>3 DEF SendWindow
<1>4. CASE ~(win.cwnd < win.ssthresh) /\ ~(cwnd_inc + removed >= win.cwnd)
  <2>1. swin' = win  BY <1>4 DEF Congestion
  <2>2. win = [win EXCEPT !.cwnd = win.cwnd]  BY DEF SendWindow
  <2> QED BY <1>0, <1>4, <2>1, <2>2
<1> QED BY <1>1, <1>2, <1>3, <1>4

\* A step that keeps cwnd, ssthresh, in_flight and what was acknowledged.
LEMMA CwndKept ==
  ASSUME Assumed, CwndFits, SInv, SInv', CwndInv, Acked' = Acked,
         swin'.cwnd = swin.cwnd, swin'.ssthresh = swin.ssthresh,
         swin'.in_flight = swin.in_flight
  PROVE  InFlightBounded' /\ CwndEarned'
<1>1. swin'.in_flight <= swin'.count  BY DEF SInv, SafeInv
<1> QED BY <1>1, CwndBounds DEF InFlightBounded, CwndEarned

\* win_add changes neither.
LEMMA CwndAdd ==
  ASSUME Assumed, CwndFits, SInv, SInv', CwndInv, NEW pkt \in Packet,
         win_can_add(swin, pkt), swin' = win_add(swin, pkt)
  PROVE  InFlightBounded' /\ CwndEarned'
<1>1. /\ swin'.cwnd = swin.cwnd /\ swin'.ssthresh = swin.ssthresh
      /\ swin'.in_flight = swin.in_flight /\ swin'.next_ack = swin.next_ack
  BY WinFacts, AddTyped
<1>2. Acked' = Acked  BY <1>1 DEF Acked, AckedOf
<1> QED BY <1>1, <1>2, CwndKept

LEMMA CwndFill ==
  ASSUME Assumed, CwndFits, SInv, SInv', CwndInv,
         SFill \/ SProbeRead \/ SProbeAdd \/ SProbeEof
  PROVE  CwndInv'
<1>1. CASE SFill
  <2>1. InFlightBounded' /\ CwndEarned'
    <3>1. NextElem \in Packet /\ win_can_add(swin, NextElem)
          /\ swin' = win_add(swin, NextElem)
      BY <1>1, NextElemTyped DEF SFill, SInv, SafeInv
    <3> QED BY <3>1, CwndAdd
  <2>2. spc' = "fill"  BY <1>1 DEF SFill
  <2> QED BY <2>1, <2>2 DEF CwndInv, SomethingOK, WaitIsGuarded
<1>2. CASE SProbeRead
  <2>1. swin' = swin /\ spc' = "probe_add"  BY <1>2 DEF SProbeRead
  <2>2. Acked' = Acked  BY <2>1 DEF Acked, AckedOf
  <2>3. InFlightBounded' /\ CwndEarned'  BY <2>1, <2>2, CwndKept
  <2> QED BY <2>1, <2>3 DEF CwndInv, SomethingOK, WaitIsGuarded
<1>3. CASE SProbeAdd
  <2>1. InFlightBounded' /\ CwndEarned'
    <3>1. rbuf \in Packet /\ win_can_add(swin, rbuf) /\ swin' = win_add(swin, rbuf)
      BY <1>3 DEF SProbeAdd, SInv, SafeInv, STypeOK
    <3> QED BY <3>1, CwndAdd
  <2>2. spc' = "probe_eof"  BY <1>3 DEF SProbeAdd
  <2> QED BY <2>1, <2>2 DEF CwndInv, SomethingOK, WaitIsGuarded
<1>4. CASE SProbeEof
  <2>1. swin' = swin /\ spc' = "send" /\ spc = "probe_eof"  BY <1>4 DEF SProbeEof
  <2>2. Acked' = Acked  BY <2>1 DEF Acked, AckedOf
  <2>3. InFlightBounded' /\ CwndEarned'  BY <2>1, <2>2, CwndKept
  <2>4. swin.count > 0  BY <2>1 DEF SInv, SafeInv, ProbeOK
  <2> QED BY <2>1, <2>3, <2>4 DEF CwndInv, SomethingOK, WaitIsGuarded
<1> QED BY <1>1, <1>2, <1>3, <1>4

\* The fill loop ends at end of file or when the window holds all that cwnd and
\* the client's window allow: something, unless that window is closed.
LEMMA CwndFilled ==
  ASSUME Assumed, CwndFits, SInv, SInv', CwndInv, SFilled
  PROVE  CwndInv'
<1>1. swin' = swin /\ spc = "fill" /\ spc' = "send" /\ ~MoreToBuffer  BY DEF SFilled
<1>2. Acked' = Acked  BY <1>1 DEF Acked, AckedOf
<1>3. InFlightBounded' /\ CwndEarned'  BY <1>1, <1>2, CwndKept
<1>4. swin.count > 0 \/ swin.rwin_adv = 0
  <2> SUFFICES ASSUME ~(swin.count > 0) PROVE swin.rwin_adv = 0
    OBVIOUS
  <2>1. ~feof /\ swin.count = 0  BY <1>1, WinFacts DEF SInv, FileOK
  <2>2. ~(0 < win_send_limit(swin))  BY <1>1, <2>1 DEF MoreToBuffer
  <2> QED BY <2>1, <2>2, WinFacts, CwndBounds, SConstants
          DEF win_send_limit, Least, win_available
<1> QED BY <1>1, <1>3, <1>4 DEF CwndInv, SomethingOK, WaitIsGuarded

\* The timer is armed, and something is in flight or to be probed.
LEMMA CwndWait ==
  ASSUME Assumed, CwndFits, SInv, SInv', CwndInv, SWait
  PROVE  CwndInv'
<1>1. swin' = swin /\ spc = "send" /\ spc' = "recv" /\ ~MoreToSend /\ timer' = TRUE
  BY DEF SWait
<1>2. Acked' = Acked  BY <1>1 DEF Acked, AckedOf
<1>3. InFlightBounded' /\ CwndEarned'  BY <1>1, <1>2, CwndKept
<1>4. swin.in_flight >= swin.cwnd \/ swin.in_flight >= swin.count
  BY <1>1, WinFacts, CwndBounds DEF MoreToSend
<1>5. swin.count > 0 \/ swin.rwin_adv = 0  BY <1>1 DEF CwndInv, SomethingOK
<1>6. swin.in_flight > 0 \/ (swin.count = 0 /\ swin.rwin_adv = 0)
  BY <1>4, <1>5, WinFacts, CwndBounds
<1> QED BY <1>1, <1>3, <1>5, <1>6 DEF CwndInv, SomethingOK, WaitIsGuarded, win_empty

\* SIGALRM, and giving up.
LEMMA CwndBreak ==
  ASSUME Assumed, CwndFits, SInv, SInv', CwndInv,
         SAlarm \/ SFillFails \/ SProbeFails \/ SRecvFails
  PROVE  CwndInv'
<1>1. /\ swin' = swin
      /\ \/ spc' = "done"
         \/ spc \in {"recv", "acked"} /\ spc' = "rto"
  BY DEF SAlarm, SFillFails, SProbeFails, SRecvFails, SExit, Assumed
<1>2. Acked' = Acked  BY <1>1 DEF Acked, AckedOf
<1>3. InFlightBounded' /\ CwndEarned'  BY <1>1, <1>2, CwndKept
<1> QED BY <1>1, <1>3 DEF CwndInv, SomethingOK, WaitIsGuarded

LEMMA CwndSend ==
  ASSUME Assumed, CwndFits, SInv, SInv', CwndInv, NEW ok \in BOOLEAN, SSend(ok)
  PROVE  CwndInv'
<1>1. spc = "send" /\ MoreToSend  BY DEF SSend
<1>2. CASE ~ok
  <2>1. swin' = swin /\ spc' = "done"  BY <1>2 DEF SSend, SExit
  <2>2. Acked' = Acked  BY <2>1 DEF Acked, AckedOf
  <2>3. InFlightBounded' /\ CwndEarned'  BY <2>1, <2>2, CwndKept
  <2> QED BY <2>1, <2>3 DEF CwndInv, SomethingOK, WaitIsGuarded
<1>3. CASE ok
  <2>1. swin' = [swin EXCEPT !.in_flight = swin.in_flight + 1] /\ spc' = spc
    BY <1>3 DEF SSend
  <2>2. /\ swin'.in_flight = swin.in_flight + 1 /\ swin'.count = swin.count
        /\ swin'.rwin_adv = swin.rwin_adv /\ swin'.cwnd = swin.cwnd
        /\ swin'.ssthresh = swin.ssthresh /\ swin'.next_ack = swin.next_ack
    BY <2>1, WinFacts DEF SendWindow
  <2>3. Acked' = Acked  BY <2>2 DEF Acked, AckedOf
  <2>4. swin.in_flight < swin.count  BY <1>1, SafeToSend DEF SInv
  <2>5. swin.in_flight < swin.cwnd
    BY <1>1, CwndBounds DEF MoreToSend, SInv, SafeInv, ProbeOK
  <2>6. InFlightBounded' /\ CwndEarned'
    BY <2>2, <2>3, <2>4, <2>5, WinFacts, CwndBounds DEF InFlightBounded, CwndEarned
  <2> QED BY <1>1, <2>1, <2>2, <2>6 DEF CwndInv, SomethingOK, WaitIsGuarded
<1> QED BY <1>2, <1>3

\* A loss halves cwnd, but not to nothing.
LEMMA CwndLoss ==
  ASSUME Assumed, CwndFits, SInv, SInv', CwndInv, SFastRetransmit \/ SRto
  PROVE  CwndInv'
<1>1. CASE SFastRetransmit
  <2> DEFINE c == IF swin.cwnd > 1 THEN swin.cwnd \div 2 ELSE swin.cwnd
  <2>1. /\ swin' = [swin EXCEPT !.dup_ack = 0, !.in_flight = 0,
                                !.cwnd = c, !.ssthresh = c]
        /\ spc = "recv" /\ spc' = "send"
    BY <1>1, SafeFastRetransmit DEF SInv, SFastRetransmit
  <2>2. c \in 1 .. 1 + Acked  BY CwndBounds, WinFacts
  <2> HIDE DEF c
  <2>3. /\ swin'.in_flight = 0 /\ swin'.count = swin.count
        /\ swin'.rwin_adv = swin.rwin_adv /\ swin'.cwnd = c
        /\ swin'.ssthresh = c /\ swin'.next_ack = swin.next_ack
    BY <2>1, WinFacts DEF SendWindow
  <2>4. Acked' = Acked  BY <2>3 DEF Acked, AckedOf
  <2>5. InFlightBounded' /\ CwndEarned'
    BY <2>2, <2>3, <2>4, WinFacts DEF InFlightBounded, CwndEarned
  <2> QED BY <2>1, <2>3, <2>5 DEF CwndInv, SomethingOK, WaitIsGuarded
<1>2. CASE SRto
  <2>1. /\ swin'.in_flight = 0 /\ swin'.cwnd = 1 /\ swin'.ssthresh >= 1
        /\ swin'.count = swin.count /\ swin'.next_ack = swin.next_ack
        /\ swin'.rwin_adv = swin.rwin_adv
    BY <1>2, RtoSteps DEF SInv
  <2>2. spc = "rto" /\ spc' \in {"done", "probe", "send"}
    BY <1>2 DEF SRto, SExit
  <2>3. Acked' = Acked  BY <2>1 DEF Acked, AckedOf
  <2>4. InFlightBounded' /\ CwndEarned'
    BY <2>1, <2>3, WinFacts DEF InFlightBounded, CwndEarned
  <2> QED BY <2>1, <2>2, <2>4 DEF CwndInv, SomethingOK, WaitIsGuarded
<1> QED BY <1>1, <1>2

LEMMA CwndRecv ==
  ASSUME Assumed, CwndFits, SInv, SInv', CwndInv, NEW pkt \in FromClient, SRecv(pkt)
  PROVE  CwndInv'
<1>1. \/ swin' = swin
      \/ swin' = [swin EXCEPT !.dup_ack = swin.dup_ack + 1]
  BY SafeRecv, FromClientIsPacket DEF SInv
<1>2. /\ swin'.in_flight = swin.in_flight /\ swin'.count = swin.count
      /\ swin'.rwin_adv = swin.rwin_adv /\ swin'.cwnd = swin.cwnd
      /\ swin'.ssthresh = swin.ssthresh /\ swin'.next_ack = swin.next_ack
  BY <1>1, WinFacts DEF SendWindow
<1>3. Acked' = Acked  BY <1>2 DEF Acked, AckedOf
<1>4. InFlightBounded' /\ CwndEarned'  BY <1>2, <1>3, CwndKept
<1>5. spc = "recv" /\ spc' \in {"recv", "acked"} /\ timer' = timer
  BY DEF SRecv, Receiving
<1> QED BY <1>2, <1>4, <1>5 DEF CwndInv, SomethingOK, WaitIsGuarded, win_empty

\* An ACK of n elements opens cwnd by n at most, and the server fills again.
LEMMA CwndAck ==
  ASSUME Assumed, CwndFits, SInv, SInv', CwndInv, SAck
  PROVE  CwndInv'
<1>1. PICK removed \in 1 .. swin.count :
           /\ removed = Removed(swin, sack.ack)
           /\ Acked' = Acked + removed
           /\ swin'.in_flight <= swin'.count /\ swin'.in_flight <= swin.in_flight
           /\ spc' \in {"done", "fill"}
  BY AckFacts
<1>2. PICK v \in SendWindow :
           /\ Congestion(v, removed)
           /\ v.cwnd = swin.cwnd /\ v.ssthresh = swin.ssthresh
  BY <1>1, AckSteps DEF SInv
<1>3. /\ removed \in Nat /\ removed >= 1 /\ Acked + removed <= LastSeg
      /\ v.cwnd >= 1 /\ v.ssthresh >= 1 /\ v.cwnd + removed < U16
      /\ swin.cwnd \in Nat /\ swin.cwnd <= 1 + Acked /\ Acked \in Nat
      /\ swin.in_flight \in Nat /\ swin.in_flight <= swin.cwnd /\ U16 \in Nat
  BY <1>1, <1>2, WinFacts, CwndBounds, SConstants
<1>4. cwnd_inc \in Int  BY SafeFacts DEF SInv
<1>5. /\ swin'.cwnd >= v.cwnd /\ swin'.cwnd <= v.cwnd + removed
      /\ swin' = [v EXCEPT !.cwnd = swin'.cwnd]
  BY <1>2, <1>3, <1>4, CongestionFacts
<1>6. swin'.ssthresh = v.ssthresh
  <2> DEFINE c == swin'.cwnd
  <2>1. swin' = [v EXCEPT !.cwnd = c]  BY <1>5
  <2> HIDE DEF c
  <2> QED BY <2>1 DEF SendWindow
<1>7. swin'.cwnd \in Int /\ swin'.in_flight \in Nat
  <2>1. swin' \in SendWindow  BY DEF SInv, SafeInv, STypeOK
  <2> QED BY <2>1, WindowFields
<1>8. InFlightBounded'
  BY <1>1, <1>2, <1>3, <1>5, <1>7 DEF InFlightBounded
<1>9. CwndEarned'
  BY <1>1, <1>2, <1>3, <1>5, <1>6, <1>7 DEF CwndEarned
<1> QED BY <1>1, <1>8, <1>9 DEF CwndInv, SomethingOK, WaitIsGuarded

LEMMA CwndStep ==
  ASSUME Assumed, CwndFits, SInv, SInv', CwndInv, [SNext]_serverVars
  PROVE  CwndInv'
<1>1. CASE SLocal
  BY <1>1, CwndFill, CwndFilled, CwndWait, CwndLoss, CwndAck DEF SLocal, SFile
<1>2. CASE SAlarm \/ SFillFails \/ SProbeFails \/ SRecvFails
  BY <1>2, CwndBreak
<1>3. CASE \E ok \in BOOLEAN : SSend(ok)  BY <1>3, CwndSend
<1>4. CASE \E pkt \in FromClient : SRecv(pkt)  BY <1>4, CwndRecv
<1>5. CASE UNCHANGED serverVars
  BY <1>5 DEF CwndInv, InFlightBounded, CwndEarned, Acked, AckedOf, SomethingOK,
     WaitIsGuarded, win_empty, serverVars
<1> QED BY <1>1, <1>2, <1>3, <1>4, <1>5 DEF SNext

-----------------------------------------------------------------------------
(* The theorems. *)

\* server.c:260-533: whatever the file, the sequence numbers, the client's
\* answers and the moment a SIGALRM strikes, the types and the counts hold.
THEOREM ServerSafe == SSpec => []SafeInv
<1>1. SInit => SafeInv  BY SafeInit
<1>2. SafeInv /\ [SNext]_serverVars => SafeInv'  BY SafeNext
<1> QED BY <1>1, <1>2, PTL DEF SSpec

\* The variables have their types: indices stay inside the ring, the window
\* never holds more than its slots, in_flight, which server.c:496 subtracts
\* from, never goes below zero, dup_ack never passes the threshold.
THEOREM ServerTypes == SSpec => []STypeOK
<1>1. SafeInv => STypeOK  BY DEF SafeInv
<1> QED BY <1>1, ServerSafe, PTL

\* send_payload never dereferences a NULL element, even when a SIGALRM during
\* a stall jumps out of the fill of a probe.
THEOREM ServerSendsElements == SSpec => []NeverSendsNull
<1>1. SafeInv => NeverSendsNull
  BY SafeToSend DEF NeverSendsNull, win_can_get_index
<1> QED BY <1>1, ServerSafe, PTL

\* The window is a part of the file and the server's counts and flags agree
\* with it, although cwnd may wrap.
THEOREM ServerInvariant ==
  ASSUME Assumed
  PROVE  SSpec => []SInv
<1>1. SInit => SInv  BY InitInv
<1>2. SInv /\ [SNext]_serverVars => SInv'  BY SStepInv
<1> QED BY <1>1, <1>2, PTL DEF SSpec

\* Nothing read from the file is lost, added twice or put out of order.
THEOREM ServerWindow ==
  ASSUME Assumed
  PROVE  SSpec => []WindowIsFilePart
<1>1. SInv => WindowIsFilePart
  <2> SUFFICES ASSUME SInv PROVE WindowIsFilePart
    OBVIOUS
  <2>1. \A k \in 0 .. swin.count - 1 : win_get_index(swin, k) = Segment(Acked + 1 + k)
    BY WinFacts, ElementAt DEF Acked
  <2> QED BY <2>1, WinFacts DEF SInv, FileOK, WindowIsFilePart
<1> QED BY <1>1, ServerInvariant, PTL

\* Success means that the whole file and the FIN were acknowledged.
THEOREM ServerSuccess ==
  ASSUME Assumed
  PROVE  SSpec => []SuccessMeansAllAcked
<1>1. SInv => SuccessMeansAllAcked  BY DEF SInv
<1> QED BY <1>1, ServerInvariant, PTL

\* What depends on cwnd.
THEOREM ServerCwndInvariant ==
  ASSUME Assumed, CwndFits
  PROVE  SSpec => []CwndInv
<1>1. SInit => CwndInv
  <2> SUFFICES ASSUME SInit PROVE CwndInv
    OBVIOUS
  <2>1. /\ swin.count = 0 /\ swin.in_flight = 0 /\ swin.cwnd = 1
        /\ swin.ssthresh = U16 - 1 /\ swin.next_ack = (1 + 1) % SeqMod
    BY SafeInit
  <2>2. (1 + 1) % SeqMod = 2
    <3>1. 2 \in 0 .. LastSeg + 2 /\ 1 + 1 = 2  BY SConstants
    <3> QED BY <3>1, SmallSeq
  <2>3. Acked = 0  BY <2>1, <2>2 DEF Acked, AckedOf
  <2>4. U16 > 1  BY DEF U16
  <2>5. U16 \in Nat  BY SConstants
  <2> QED BY <2>1, <2>3, <2>4, <2>5
          DEF SInit, CwndInv, InFlightBounded, CwndEarned, SomethingOK, WaitIsGuarded
<1>2. SInv /\ SInv' /\ CwndInv /\ [SNext]_serverVars => CwndInv'  BY CwndStep
<1> QED BY <1>1, <1>2, ServerInvariant, PTL DEF SSpec

\* Elements in flight are elements of the window and of the congestion window.
THEOREM ServerInFlight ==
  ASSUME Assumed, CwndFits
  PROVE  SSpec => []InFlightBounded
<1>1. CwndInv => InFlightBounded  BY DEF CwndInv
<1> QED BY <1>1, ServerCwndInvariant, PTL

\* The server never waits without a timer, nor for nothing.
THEOREM ServerWaits ==
  ASSUME Assumed, CwndFits
  PROVE  SSpec => []WaitIsGuarded
<1>1. CwndInv => WaitIsGuarded  BY DEF CwndInv
<1> QED BY <1>1, ServerCwndInvariant, PTL

\* cwnd is earned by acknowledged elements, whatever cwnd_inc begins with.
THEOREM ServerCwnd ==
  ASSUME Assumed, CwndFits
  PROVE  SSpec => []CwndEarned
<1>1. CwndInv => CwndEarned  BY DEF CwndInv
<1> QED BY <1>1, ServerCwndInvariant, PTL

-----------------------------------------------------------------------------
(* Progress: what an ACK, and nothing but an ACK, changes. *)

\* Every other step leaves the oldest element, and puts in flight at most the
\* one it sends.
LEMMA OtherSteps ==
  ASSUME Assumed, SInv, [SNext]_serverVars, ~SAck
  PROVE  /\ Acked' = Acked /\ nrexmt' \in {nrexmt, nrexmt + 1} /\ sent' >= sent
         /\ \/ swin'.in_flight \in {swin.in_flight, 0}
            \/ swin'.in_flight = swin.in_flight + 1 /\ sent' >= Acked + swin'.in_flight
<1>0. /\ nrexmt \in Int /\ sent \in Int /\ swin \in SendWindow
      /\ Acked \in Int /\ swin.in_flight \in Nat
  BY WinFacts, SConstants DEF SInv, SafeInv, STypeOK
<1>1. ASSUME swin' = swin, UNCHANGED <<nrexmt, sent>>
      PROVE  /\ Acked' = Acked /\ nrexmt' \in {nrexmt, nrexmt + 1} /\ sent' >= sent
             /\ swin'.in_flight = swin.in_flight
  BY <1>0, <1>1 DEF Acked, AckedOf
<1>2. CASE SFill
  BY <1>0, <1>2, SFillFacts DEF SFill, Acked, rttVars
<1>3. CASE SProbeAdd
  BY <1>0, <1>3, SProbeAddFacts DEF SProbeAdd, Acked, rttVars
<1>4. CASE SFilled \/ SWait \/ SAlarm \/ SProbeRead \/ SProbeEof
           \/ SFillFails \/ SProbeFails \/ SRecvFails \/ UNCHANGED serverVars
  BY <1>1, <1>4
  DEF SFilled, SWait, SAlarm, SProbeRead, SProbeEof, SFillFails, SProbeFails, SRecvFails,
      rttVars, serverVars
<1>5. CASE SFastRetransmit
  <2>1. swin'.next_ack = swin.next_ack /\ swin'.in_flight = 0
    BY <1>0, <1>5, SafeFastRetransmit DEF SInv, SendWindow
  <2> QED BY <1>0, <1>5, <2>1 DEF SFastRetransmit, Acked, AckedOf, rttVars
<1>6. CASE SRto
  BY <1>0, <1>6, RtoSteps DEF SRto, SInv, Acked, AckedOf
<1>7. ASSUME NEW pkt \in FromClient, SRecv(pkt)
      PROVE  /\ Acked' = Acked /\ nrexmt' \in {nrexmt, nrexmt + 1} /\ sent' >= sent
             /\ swin'.in_flight = swin.in_flight
  <2>1. swin' = swin \/ swin' = [swin EXCEPT !.dup_ack = swin.dup_ack + 1]
    BY <1>7, SafeRecv, FromClientIsPacket DEF SInv
  <2>2. swin'.next_ack = swin.next_ack /\ swin'.in_flight = swin.in_flight
    BY <1>0, <2>1 DEF SendWindow
  <2> QED BY <1>0, <1>7, <2>2 DEF SRecv, Acked, AckedOf, rttVars
<1>8. ASSUME NEW ok \in BOOLEAN, SSend(ok)
      PROVE  /\ Acked' = Acked /\ nrexmt' \in {nrexmt, nrexmt + 1} /\ sent' >= sent
             /\ \/ swin'.in_flight = swin.in_flight
                \/ /\ swin'.in_flight = swin.in_flight + 1
                   /\ sent' >= Acked + swin'.in_flight
  <2>1. CASE ~ok  BY <1>1, <1>8, <2>1 DEF SSend
  <2>2. CASE ok
    <3>1. /\ spc = "send" /\ MoreToSend /\ nrexmt' = nrexmt
          /\ swin' = [swin EXCEPT !.in_flight = swin.in_flight + 1]
          /\ sent' = IF ToSend.seq > sent THEN ToSend.seq ELSE sent
      BY <1>8, <2>2 DEF SSend
    <3>2. ToSend.seq = Acked + 1 + swin.in_flight  BY <3>1, SendFacts
    <3>3. swin'.next_ack = swin.next_ack /\ swin'.in_flight = swin.in_flight + 1
      BY <1>0, <3>1 DEF SendWindow
    <3> QED BY <1>0, <3>1, <3>2, <3>3 DEF Acked, AckedOf
  <2> QED BY <2>1, <2>2
<1> QED
  BY <1>2, <1>3, <1>4, <1>5, <1>6, <1>7, <1>8 DEF SNext, SLocal, SFile

\* The window only moves forward, and the count of retransmissions begins anew
\* only when an ACK has moved it: a server whose client acknowledges nothing
\* new, whatever else it sends, gives up after RTT_MAXNREXMT timeouts.
OnlyForward ==
  [][Acked' >= Acked /\ (nrexmt' < nrexmt => Acked' > Acked)]_serverVars
THEOREM ServerForward ==
  ASSUME Assumed
  PROVE  SSpec => OnlyForward
<1>1. SInv /\ [SNext]_serverVars
        => [Acked' >= Acked /\ (nrexmt' < nrexmt => Acked' > Acked)]_serverVars
  <2> SUFFICES ASSUME SInv, [SNext]_serverVars
               PROVE  Acked' >= Acked /\ (nrexmt' < nrexmt => Acked' > Acked)
    OBVIOUS
  <2>1. Acked \in Int /\ nrexmt \in Int
    BY WinFacts, SConstants DEF SInv, SafeInv, STypeOK
  <2>2. CASE SAck
    <3>1. PICK removed \in 1 .. swin.count : Acked' = Acked + removed
      BY <2>2, AckFacts
    <3> QED BY <2>1, <3>1
  <2>3. CASE ~SAck  BY <2>1, <2>3, OtherSteps
  <2> QED BY <2>2, <2>3
<1> QED BY <1>1, ServerInvariant, PTL DEF SSpec, OnlyForward

\* An ACK removes only what comes before the segment it asks for.
LEMMA RemovedBefore ==
  ASSUME Assumed, NEW win, FilePart(win), NEW ack \in Nat, ack > AckedOf(win)
  PROVE  AckedOf(win) + Removed(win, ack) < ack
<1>0. win.count \in Nat /\ AckedOf(win) \in Nat  BY PartNumbers, SConstants
<1>1. CASE \E k \in 0 .. win.count - 1 : FirstAt(win, ack, k)
  <2>1. Removed(win, ack) \in 0 .. win.count - 1 /\ FirstAt(win, ack, Removed(win, ack))
    BY <1>1 DEF Removed
  <2>2. ack = AckedOf(win) + 1 + Removed(win, ack)
    BY <2>1, ElementAt DEF FirstAt
  <2> QED BY <1>0, <2>1, <2>2
<1>2. CASE ~ \E k \in 0 .. win.count - 1 : FirstAt(win, ack, k)
  <2>1. Removed(win, ack) = win.count  BY <1>2 DEF Removed
  <2> SUFFICES ASSUME ack <= AckedOf(win) + win.count PROVE FALSE
    BY <1>0, <2>1
  <2> DEFINE k == ack - AckedOf(win) - 1
  <2>2. k \in 0 .. win.count - 1 /\ AckedOf(win) + 1 + k = ack  BY <1>0
  <2> HIDE DEF k
  <2>3. win_get_index(win, k).seq = ack  BY <2>2, ElementAt
  <2>4. \A j \in 0 .. k - 1 : win_get_index(win, j).seq # ack
    <3> TAKE j \in 0 .. k - 1
    <3>1. j \in 0 .. win.count - 1 /\ j < k  BY <1>0, <2>2
    <3>2. win_get_index(win, j).seq = AckedOf(win) + 1 + j  BY <3>1, ElementAt
    <3> QED BY <1>0, <2>2, <3>1, <3>2
  <2> QED BY <1>2, <2>2, <2>3, <2>4 DEF FirstAt
<1> QED BY <1>1, <1>2

\* The elements in flight were sent, and a good ACK is for a window of which
\* something is in flight.  A stale ACK is valid only when the window holds a
\* single element.
SentInv ==
  /\ Acked + swin.in_flight <= sent
  /\ spc = "acked" =>
       /\ swin.in_flight > 0 /\ sack.ack <= sent + 1
       /\ swin.count = 1 \/ sack.ack > Acked

\* A packet that is taken for a good ACK.
LEMMA GoodAckSent ==
  ASSUME Assumed, CwndFits, SInv, CwndInv, SentInv,
         NEW pkt \in FromClient, SRecv(pkt), spc' = "acked"
  PROVE  SentInv'
<1>1. PICK a \in 1 .. sent + 1, w \in 0 .. ClientAdv :
        pkt = build_pkt(0, a % SeqMod, w, {"ACK"}, 0)
  BY DEF FromClient
<1>2. sent \in Nat /\ sent <= LastSeg /\ LastSeg \in Nat
  BY SConstants DEF SInv, SafeInv, STypeOK
<1>3. pkt.ack = a
  <2>1. a \in 0 .. LastSeg + 2  BY <1>2
  <2> QED BY <1>1, <2>1, SmallSeq DEF build_pkt
<1>4. /\ spc = "recv" /\ sack' = pkt /\ sent' = sent
      /\ win_valid_ack(swin, pkt) /\ ~win_empty(swin)
  BY DEF SRecv, Receiving, win_valid_ack
<1>5. swin.in_flight > 0  BY <1>4 DEF CwndInv, WaitIsGuarded
<1>6. swin.count = 1 \/ pkt.ack > Acked
  <2>1. /\ swin.next_ack = Acked + 2 /\ swin.next_seq = Acked + swin.count + 1
        /\ Acked \in Nat /\ swin.count \in Nat /\ swin.count # 0
    BY <1>4, WinFacts, PartNumbers, SConstants DEF Acked, win_empty
  <2> QED BY <1>1, <1>3, <1>4, <2>1 DEF win_valid_ack
<1>7. /\ swin'.in_flight = swin.in_flight /\ swin'.count = swin.count
      /\ swin'.next_ack = swin.next_ack
  <2>1. swin' = swin \/ swin' = [swin EXCEPT !.dup_ack = swin.dup_ack + 1]
    BY SafeRecv, FromClientIsPacket DEF SInv
  <2> QED BY <2>1, WinFacts DEF SendWindow
<1>8. Acked' = Acked  BY <1>7 DEF Acked, AckedOf
<1> QED BY <1>2, <1>3, <1>4, <1>5, <1>6, <1>7, <1>8 DEF SentInv

\* The other steps keep it as OtherSteps says; an ACK removes what was sent.
LEMMA SentStep ==
  ASSUME Assumed, CwndFits, SInv, CwndInv, SentInv, [SNext]_serverVars
  PROVE  SentInv'
<1>0. /\ sent \in Nat /\ Acked \in Nat /\ swin.in_flight \in Nat
      /\ swin.count \in Nat /\ FilePart(swin)
  BY WinFacts, SConstants DEF SInv, SafeInv, STypeOK
<1>1. CASE SAck
  <2>1. PICK removed \in 1 .. swin.count :
          /\ removed = Removed(swin, sack.ack) /\ Acked' = Acked + removed
          /\ swin'.in_flight \in {0, swin.in_flight - removed}
    BY <1>1, AckFacts
  <2>2. /\ spc = "acked" /\ spc' # "acked" /\ sent' = sent  BY <1>1 DEF SAck
  <2>3. Acked + removed <= sent
    <3>1. CASE swin.count = 1  BY <1>0, <2>1, <2>2, <3>1 DEF SentInv
    <3>2. CASE sack.ack > Acked
      <4>1. sack.ack \in Nat
        BY SConstants DEF SInv, SafeInv, STypeOK, Packet
      <4>2. Acked + removed < sack.ack
        BY <1>0, <2>1, <3>2, <4>1, RemovedBefore DEF Acked
      <4> QED BY <1>0, <2>1, <2>2, <4>1, <4>2 DEF SentInv
    <3> QED BY <2>2, <3>1, <3>2 DEF SentInv
  <2> QED BY <1>0, <2>1, <2>2, <2>3 DEF SentInv
<1>2. CASE ~SAck /\ spc' # "acked"
  <2>1. sent' \in Nat
    <3>1. SafeInv'  BY SafeNext DEF SInv
    <3> QED BY <3>1 DEF SafeInv, STypeOK
  <2>2. Acked' + swin'.in_flight <= sent'
    BY <1>0, <1>2, <2>1, OtherSteps DEF SentInv
  <2> QED BY <1>2, <2>2 DEF SentInv
<1>3. CASE ~SAck /\ spc' = "acked"
  <2>1. CASE \E pkt \in FromClient : SRecv(pkt)
    BY <1>3, <2>1, GoodAckSent
  <2>2. CASE UNCHANGED serverVars
    BY <2>2 DEF serverVars, SentInv, Acked, AckedOf
  <2>3. CASE SLocal
    BY <1>3, <2>3
    DEF SLocal, SFile, SFill, SFilled, SProbeRead, SProbeAdd, SProbeEof, SWait,
        SFastRetransmit, SRto, SExit
  <2>4. CASE SAlarm \/ SFillFails \/ SProbeFails \/ SRecvFails
    BY <1>3, <2>4 DEF SAlarm, SFillFails, SProbeFails, SRecvFails, SExit
  <2>5. CASE \E ok \in BOOLEAN : SSend(ok)
    BY <1>3, <2>5 DEF SSend, SExit
  <2> QED BY <2>1, <2>2, <2>3, <2>4, <2>5 DEF SNext
<1> QED BY <1>1, <1>2, <1>3

\* What was acknowledged, and what counts as in flight, was sent: the buffer may
\* be filled further than cwnd lets the server send, but an ACK, stale or
\* repeated, never removes a segment of the file that the client was not sent.
AckedWasSent == Acked + swin.in_flight <= sent
THEOREM ServerAckedWasSent ==
  ASSUME Assumed, CwndFits
  PROVE  SSpec => []AckedWasSent
<1>1. SInit => SentInv
  <2> SUFFICES ASSUME SInit PROVE SentInv
    OBVIOUS
  <2>1. swin.in_flight = 0 /\ swin.next_ack = (1 + 1) % SeqMod  BY SafeInit
  <2>2. (1 + 1) % SeqMod = 2
    <3>1. 2 \in 0 .. LastSeg + 2 /\ 1 + 1 = 2  BY SConstants
    <3> QED BY <3>1, SmallSeq
  <2> QED BY <2>1, <2>2 DEF SInit, SentInv, Acked, AckedOf
<1>2. SInv /\ CwndInv /\ SentInv /\ [SNext]_serverVars => SentInv'  BY SentStep
<1>3. SentInv => AckedWasSent  BY DEF SentInv, AckedWasSent
<1> QED BY <1>1, <1>2, <1>3, ServerInvariant, ServerCwndInvariant, PTL DEF SSpec
=============================================================================
