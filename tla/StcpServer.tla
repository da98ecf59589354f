----------------------------- MODULE StcpServer -----------------------------
(***************************************************************************)
(* transfer_file of server.c: the child server reads the file into its     *)
(* sending window and sends it with ARQ, slow start, congestion avoidance, *)
(* fast retransmit and zero-window probes.  SIGALRM, raised by an interval *)
(* timer, interrupts it and jumps back to the retransmission code.         *)
(*                                                                         *)
(* As in StcpClient, what recv() returns and whether send() succeeds are   *)
(* parameters; SSpec runs the server against any client.                   *)
(***************************************************************************)
EXTENDS StcpWindow, Sequences

CONSTANTS
  ServerWin,         \* slots of the sending window, from server.in
  ClientAdv,         \* the window the client advertised in the handshake
  MaxRexmt,          \* RTT_MAXNREXMT, 12 in the code
  Garbage,           \* the values the uninitialized cwnd_inc may have
  AlarmDuringStall   \* can a stall outlast the period of the interval timer?

ASSUME ServerAssumption ==
  /\ ServerWin \in 1 .. U16 - 1
  /\ ClientAdv \in 1 .. U16 - 1
  /\ MaxRexmt \in Nat
  /\ Garbage # {} /\ Garbage \subseteq Int
  /\ AlarmDuringStall \in BOOLEAN

VARIABLES
  swin,      \* the sending window
  spc,       \* where transfer_file is
  fpos,      \* chunks read from the file
  rbuf,      \* the element win_buffer_elem has built but not yet added
  feof,      \* eof
  deadlock,  \* send one packet in spite of a closed window
  cwnd_inc,  \* elements acknowledged toward the next increase of cwnd
  nrexmt,    \* rtt_nrexmt: timeouts since the last good ACK
  rtt_base,  \* number of the segment whose send time rtt_base holds, 0: none
  timer,     \* the interval timer is armed
  sack,      \* the good ACK being handled
  sent,      \* history: the highest segment number sent
  server     \* the result: "up", then "success" or "failure"

rttVars   == <<nrexmt, rtt_base>>
fileVars  == <<fpos, rbuf, feof>>
serverVars == <<swin, spc, fileVars, deadlock, cwnd_inc, rttVars, timer, sack,
                sent, server>>

SendWindow ==
  [buf : [0 .. ServerWin - 1 -> Slot], size : {ServerWin},
   count : 0 .. ServerWin,
   end : 0 .. ServerWin - 1, start : 0 .. ServerWin - 1,
   next_seq : 0 .. SeqMod - 1, next_ack : 0 .. SeqMod - 1,
   in_flight : Nat, rwin_adv : 0 .. U16 - 1, cwnd : 0 .. U16 - 1,
   ssthresh : 0 .. U16 - 1, dup_ack : 0 .. STCP_FAST_RETRANSMIT]

STypeOK ==
  /\ swin \in SendWindow
  /\ spc \in {"fill", "send", "recv", "acked", "rto",
              "probe", "probe_add", "probe_eof", "done"}
  /\ fpos \in 0 .. NChunks /\ rbuf \in Packet
  /\ feof \in BOOLEAN /\ deadlock \in BOOLEAN /\ timer \in BOOLEAN
  /\ cwnd_inc \in Int /\ nrexmt \in 0 .. MaxRexmt + 1 /\ rtt_base \in Nat
  /\ sack \in Packet /\ sent \in Nat
  /\ server \in {"up", "success", "failure"}
  /\ server = "up" <=> spc # "done"

\* The sequence number after the SYN's.
init_seq == 1

SInit ==
  /\ swin = [win_init(ServerWin, init_seq) EXCEPT !.rwin_adv = ClientAdv]
  /\ spc = "fill" /\ fpos = 0 /\ rbuf = NoPkt /\ feof = FALSE
  /\ deadlock = FALSE /\ cwnd_inc \in Garbage
  /\ nrexmt = 0 /\ rtt_base = 0 /\ timer = FALSE /\ sack = NoPkt
  /\ sent = 0 /\ server = "up"

\* clean_up: the timer is cleared and the result returned.
SExit(result) ==
  /\ spc' = "done" /\ server' = result /\ timer' = FALSE

-----------------------------------------------------------------------------
(* Reading the file into the window. *)

\* The element win_buffer_elem builds from the next read(): a chunk, or the FIN
\* at end of file.
NextElem == IF fpos < NChunks
            THEN build_pkt(swin.next_seq, 0, 0, {}, fpos + 1)
            ELSE build_pkt(swin.next_seq, 0, 0, {"FIN"}, 0)
fpos_read == IF fpos < NChunks THEN fpos + 1 ELSE fpos

MoreToBuffer == ~feof /\ swin.count < win_send_limit(swin)

SFill ==
  /\ spc = "fill" /\ MoreToBuffer
  /\ win_can_add(swin, NextElem)
  /\ swin' = win_add(swin, NextElem)
  /\ fpos' = fpos_read
  /\ feof' = IsFin(NextElem)
  /\ UNCHANGED <<spc, rbuf, deadlock, cwnd_inc, rttVars, timer, sack, sent,
                 server>>

\* read() fails, or the window is full.
SFillFails ==
  /\ spc = "fill" /\ MoreToBuffer
  /\ SExit("failure")
  /\ UNCHANGED <<swin, fileVars, deadlock, cwnd_inc, rttVars, sack, sent>>

SFilled ==
  /\ spc = "fill" /\ ~MoreToBuffer
  /\ spc' = "send"
  /\ UNCHANGED <<swin, fileVars, deadlock, cwnd_inc, rttVars, timer, sack, sent,
                 server>>

-----------------------------------------------------------------------------
(* send_payload.  The loop's index i starts as in_flight and moves with it. *)

\* Variant: the end of the window is not looked at.
MoreToSend_cwnd_only == swin.in_flight < swin.cwnd \/ deadlock

MoreToSend == (swin.in_flight < swin.cwnd /\ swin.in_flight < swin.count) \/ deadlock

ToSend == win_get_index(swin, swin.in_flight)

SSend(ok) ==
  /\ spc = "send" /\ MoreToSend /\ win_can_get_index(swin, swin.in_flight)
  /\ IF ok THEN /\ swin' = [swin EXCEPT !.in_flight = @ + 1]
                /\ rtt_base' = IF swin.in_flight = 0 THEN ToSend.seq ELSE rtt_base
                /\ deadlock' = FALSE
                /\ sent' = IF ToSend.seq > sent THEN ToSend.seq ELSE sent
                /\ UNCHANGED <<spc, timer, server>>
     ELSE /\ SExit("failure")
          /\ UNCHANGED <<swin, rtt_base, deadlock, sent>>
  /\ UNCHANGED <<fileVars, cwnd_inc, nrexmt, sack>>

\* Variant: the timer is armed only the first time.
SWait_timer_kept ==
  /\ spc = "send" /\ ~MoreToSend
  /\ spc' = "recv" /\ timer' = (timer \/ sent = 1)
  /\ UNCHANGED <<swin, fileVars, deadlock, cwnd_inc, rttVars, sack, sent,
                 server>>

\* Nothing more to send: set_timeout.
SWait ==
  /\ spc = "send" /\ ~MoreToSend
  /\ spc' = "recv" /\ timer' = TRUE
  /\ UNCHANGED <<swin, fileVars, deadlock, cwnd_inc, rttVars, sack, sent,
                 server>>

-----------------------------------------------------------------------------
(* Waiting for a good ACK. *)

SFastRetransmit ==
  /\ spc = "recv" /\ swin.dup_ack = STCP_FAST_RETRANSMIT
  /\ LET cwnd == IF swin.cwnd > 1 THEN swin.cwnd \div 2 ELSE swin.cwnd
     IN swin' = [swin EXCEPT !.dup_ack = 0, !.in_flight = 0,
                             !.cwnd = cwnd, !.ssthresh = cwnd]
  /\ timer' = FALSE /\ spc' = "send"
  /\ UNCHANGED <<fileVars, deadlock, cwnd_inc, rttVars, sack, sent, server>>

Receiving == spc = "recv" /\ swin.dup_ack # STCP_FAST_RETRANSMIT

\* Variant: a duplicate ACK ends the loop too.
SRecv_dup_is_good(pkt) ==
  /\ Receiving
  /\ IF win_valid_ack(swin, pkt)
     THEN /\ swin' = [swin EXCEPT !.dup_ack = @ + 1]
          /\ spc' = "acked" /\ sack' = pkt
     ELSE UNCHANGED <<swin, spc, sack>>
  /\ UNCHANGED <<fileVars, deadlock, cwnd_inc, rttVars, timer, sent, server>>

\* win_dup_ack counts every valid ACK, duplicate or not.
SRecv(pkt) ==
  /\ Receiving
  /\ IF win_valid_ack(swin, pkt)
     THEN /\ swin' = [swin EXCEPT !.dup_ack = @ + 1]
          /\ IF win_dup_ack(swin, pkt) THEN UNCHANGED <<spc, sack>>
             ELSE spc' = "acked" /\ sack' = pkt
     ELSE UNCHANGED <<swin, spc, sack>>
  /\ UNCHANGED <<fileVars, deadlock, cwnd_inc, rttVars, timer, sent, server>>

SRecvFails ==
  /\ Receiving
  /\ SExit("failure")
  /\ UNCHANGED <<swin, fileVars, deadlock, cwnd_inc, rttVars, sack, sent>>

\* Slow start and congestion avoidance for `removed' acknowledged elements.
Congestion(win, removed) ==
  IF win.cwnd < win.ssthresh
  THEN IF win.cwnd + removed < win.ssthresh
       THEN /\ swin' = [win EXCEPT !.cwnd = @ + removed]
            /\ UNCHANGED cwnd_inc
       ELSE /\ swin' = [win EXCEPT !.cwnd = win.ssthresh]
            /\ cwnd_inc' = 0
  ELSE IF cwnd_inc + removed >= win.cwnd
       THEN /\ swin' = [win EXCEPT !.cwnd = (@ + 1) % U16]
            /\ cwnd_inc' = 0
       ELSE /\ swin' = win
            /\ cwnd_inc' = cwnd_inc + removed

\* Does the ACK give an RTT sample (rtt_stop past its test of retransmission)?
RttSample == swin.next_ack = sack.ack /\ nrexmt = 0

\* Variant: acknowledged elements stay in flight.
InFlightAfter_kept(win, removed) == win.in_flight

\* Variant: as if an ACK covered nothing that is not in flight.
InFlightAfter_unclamped(win, removed) == win.in_flight - removed

\* in_flight after an ACK.  After a timeout it counts only what was sent again,
\* so the ACK may cover more.
InFlightAfter(win, removed) ==
  IF win.in_flight < removed THEN 0 ELSE win.in_flight - removed

\* Variant: the end of the file is not looked at.
Finished_when_empty(win) == win_empty(win)

Finished(win) == win_empty(win) /\ feof

\* From clear_timeout to the end of the outer loop.
SAck ==
  /\ spc = "acked"
  /\ timer' = FALSE /\ nrexmt' = 0
  /\ LET removed == Removed(swin, sack.ack)
         win == win_remove_ack(swin, sack)
     IN /\ Congestion([win EXCEPT !.in_flight = InFlightAfter(win, removed)], removed)
        /\ IF Finished(win) THEN spc' = "done" /\ server' = "success"
           ELSE spc' = "fill" /\ UNCHANGED server
  /\ UNCHANGED <<fileVars, deadlock, rtt_base, sack, sent>>

-----------------------------------------------------------------------------
(* SIGALRM. *)

Stalled == {"send", "probe", "probe_add", "probe_eof"}

\* The handler jumps to the sigsetjmp.  The timer repeats, so it stays armed
\* and can fire again before it is set anew, if the process stalls that long.
SAlarm ==
  /\ timer
  /\ spc \in {"recv", "acked"} \cup (IF AlarmDuringStall THEN Stalled ELSE {})
  /\ spc' = "rto"
  /\ UNCHANGED <<swin, fileVars, deadlock, cwnd_inc, rttVars, timer, sack, sent,
                 server>>

SLOW_START(win) ==
  [win EXCEPT !.ssthresh = IF win.cwnd \div 2 = 0 THEN 1 ELSE win.cwnd \div 2,
              !.cwnd = 1]

\* After the jump: slow start, one more retransmission or give up, and a probe
\* when the client's window is closed.
SRto ==
  /\ spc = "rto"
  /\ swin' = [SLOW_START(swin) EXCEPT !.in_flight = 0, !.dup_ack = 0]
  /\ nrexmt' = nrexmt + 1
  /\ IF nrexmt' > MaxRexmt THEN SExit("failure") /\ UNCHANGED deadlock
     ELSE /\ deadlock' = (deadlock \/ swin.rwin_adv = 0)
          /\ spc' = IF swin.rwin_adv = 0 /\ win_empty(swin) THEN "probe" ELSE "send"
          /\ UNCHANGED <<timer, server>>
  /\ UNCHANGED <<fileVars, cwnd_inc, rtt_base, sack, sent>>

\* win_buffer_elem for the probe, in the steps a signal can fall between:
\* read(), win_add(), and the caller's assignment to eof.
SProbeRead ==
  /\ spc = "probe"
  /\ rbuf' = NextElem /\ fpos' = fpos_read
  /\ spc' = "probe_add"
  /\ UNCHANGED <<swin, feof, deadlock, cwnd_inc, rttVars, timer, sack, sent,
                 server>>

SProbeAdd ==
  /\ spc = "probe_add" /\ win_can_add(swin, rbuf)
  /\ swin' = win_add(swin, rbuf)
  /\ spc' = "probe_eof"
  /\ UNCHANGED <<fileVars, deadlock, cwnd_inc, rttVars, timer, sack, sent,
                 server>>

SProbeEof ==
  /\ spc = "probe_eof"
  /\ feof' = IsFin(rbuf)
  /\ spc' = "send"
  /\ UNCHANGED <<swin, fpos, rbuf, deadlock, cwnd_inc, rttVars, timer, sack, sent,
                 server>>

\* read() fails, or win_add does.
SProbeFails ==
  /\ spc \in {"probe", "probe_add"}
  /\ spc = "probe_add" => ~win_can_add(swin, rbuf)
  /\ SExit("failure")
  /\ UNCHANGED <<swin, fileVars, deadlock, cwnd_inc, rttVars, sack, sent>>

-----------------------------------------------------------------------------
SFile  == SFill \/ SFilled \/ SProbeRead \/ SProbeAdd \/ SProbeEof
SLocal == SFile \/ SWait \/ SFastRetransmit \/ SAck \/ SRto

\* Any packet a client could send for what it may have been sent.
FromClient == {build_pkt(0, a % SeqMod, w, {"ACK"}, 0) :
                 a \in 1 .. sent + 1, w \in 0 .. ClientAdv}

SNext ==
  \/ SLocal
  \/ SAlarm
  \/ SFillFails \/ SProbeFails
  \/ \E ok \in BOOLEAN : SSend(ok)
  \/ \E pkt \in FromClient : SRecv(pkt)
  \/ SRecvFails
  \/ spc = "done" /\ UNCHANGED serverVars

SSpec == SInit /\ [][SNext]_serverVars

-----------------------------------------------------------------------------
(* Properties. *)

\* Those about the file need sequence numbers that do not wrap, and those about
\* cwnd, which may grow by one with every segment, a file of fewer segments
\* than a uint16_t counts.
SeqFits  == NChunks + 4 <= SeqMod
CwndFits == NChunks + 4 < U16

\* The sending window always holds a run of consecutive segments of the file,
\* beginning with the oldest one not acknowledged and ending with the last one
\* read: nothing read is lost or added twice, the FIN included.
AckedOf(win) == win.next_ack - 2      \* elements removed from the window
Acked == AckedOf(swin)
WindowIsFilePart ==
  /\ swin.next_seq = Acked + swin.count + 1
  /\ \A k \in 0 .. swin.count - 1 : win_get_index(swin, k) = Segment(Acked + 1 + k)
  /\ spc \notin {"probe_add", "probe_eof"} =>
       Acked + swin.count = fpos + (IF feof THEN 1 ELSE 0)

\* in_flight never counts more than the window holds or cwnd allows.
InFlightBounded == swin.in_flight <= swin.count /\ swin.in_flight <= swin.cwnd

\* send_payload never asks for an element that is not there: win_get_index
\* would return the NULL that the loop dereferences.
NeverSendsNull ==
  spc = "send" /\ MoreToSend => win_can_get_index(swin, swin.in_flight)

\* While the server waits the timer is armed, and there is something to wait
\* for: an element in flight or a closed window to probe.
WaitIsGuarded ==
  spc = "recv" => /\ timer
                  /\ swin.in_flight > 0 \/ (win_empty(swin) /\ swin.rwin_adv = 0)

\* Success is reported only when every segment, the FIN too, was acknowledged.
SuccessMeansAllAcked == server = "success" => Acked = LastSeg

\* server.c:509: cwnd is earned by acknowledged elements, whatever value
\* cwnd_inc begins with or keeps through a loss: no ACK, and no sequence of
\* ACKs, opens it by more than the elements removed from the window.  And no
\* loss closes it, or the threshold it grows to.
CwndEarned == swin.cwnd \in 1 .. 1 + Acked /\ swin.ssthresh >= 1

\* stcp.h:342: a duplicate ACK, one that asks for the oldest element again, is
\* valid.
DuplicateAcksValid ==
  Receiving /\ ~win_empty(swin) =>
    \A pkt \in FromClient :
      pkt.ack = win_oldest(swin).seq => win_valid_ack(swin, pkt)

\* README.md:17: an RTT sample is measured from the time that the element
\* just acknowledged was sent.
RttFromOwnTimestamp ==
  spc = "acked" /\ RttSample => rtt_base = win_oldest(swin).seq
=============================================================================
