------------------------- MODULE StcpTransferProofs -------------------------
(***************************************************************************)
(* Proofs about StcpTransfer: the two ends together, over a network that   *)
(* loses packets but keeps their order, for every file, window, retry      *)
(* limit and capacity of the network.  They build on the invariants of the *)
(* client (CInv) and of the server (SInv), which hold in any environment,  *)
(* and add what relates the two ends and the packets between them.  Like   *)
(* SInv they allow cwnd to wrap: how far it opens is no part of the        *)
(* argument.                                                               *)
(***************************************************************************)
EXTENDS StcpTransfer, StcpClientProofs, StcpServerProofs, SequenceTheorems

TAssumed == Assumed /\ NoWrap /\ ~NetReorders

-----------------------------------------------------------------------------
(* The inductive invariant. *)

\* The producer has the whole file and has told the server so.
FinTold == ppc = "join" /\ ~err

\* An ACK on its way: it asks for a segment that was not acknowledged before,
\* promises no more than the client's window still holds, and acknowledges the
\* FIN only when the producer is done.
AckOK(pkt) ==
  /\ pkt \in Packet
  /\ pkt.ack >= Acked + 1 /\ pkt.ack <= InOrder + 1
  /\ pkt.ack - 1 + pkt.win <= RightEdge
  /\ pkt.ack = LastSeg + 1 => FinTold

\* ACKs arrive in the order of their numbers.
AcksOK ==
  /\ toServer \in Seq(Packet) /\ Len(toServer) <= ChanCap
  /\ \A i \in 1 .. Len(toServer) : AckOK(toServer[i])
  /\ \A i, j \in 1 .. Len(toServer) : i <= j => toServer[i].ack <= toServer[j].ack

SackOK ==
  spc = "acked" => /\ AckOK(sack)
                   /\ \A i \in 1 .. Len(toServer) : sack.ack <= toServer[i].ack

\* Segments on their way were sent.
SegmentsOK ==
  /\ toClient \in Seq(FromServer) /\ Len(toClient) <= ChanCap
  /\ \A i \in 1 .. Len(toClient) : toClient[i].seq <= sent

\* So was all that the client has.
ReceivedOK ==
  /\ ppc = "got" => pelem.seq <= sent
  /\ \A i \in 0 .. ClientWin - 1 : rwin.buf[i].valid => rwin.buf[i].pkt.seq <= sent
  /\ InOrder <= sent

\* The producer notices the FIN when it is in order, and how the client fails.
ProducerOK ==
  /\ ppc \in {"select", "got"} => InOrder < LastSeg
  /\ ppc \in {"advance", "reply"} => (pfin <=> InOrder = LastSeg)
  /\ err => ppc = "join"
  /\ client = "failure" => err \/ exit_status = "null"
  /\ exit_status = "null" => NChunks = 0

\* What the server knows of the client: never more than is true.
ServerOK ==
  /\ sent <= Acked + swin.count
  /\ Acked <= InOrder
  /\ Acked + swin.rwin_adv <= RightEdge
  /\ Acked + swin.count <= RightEdge \/ (swin.rwin_adv = 0 /\ swin.count = 1)
  /\ spc \in {"probe", "probe_add", "probe_eof"} => swin.rwin_adv = 0
  /\ Acked = LastSeg => FinTold

IcmpOK == clientIcmp \in BOOLEAN /\ serverIcmp \in BOOLEAN

TInv ==
  /\ CInv /\ SInv /\ IcmpOK
  /\ AcksOK /\ SackOK /\ SegmentsOK /\ ReceivedOK /\ ProducerOK /\ ServerOK

-----------------------------------------------------------------------------
(* The numbers of a state, and the network. *)

\* The numbers of the two ends.
LEMMA TNumbers ==
  ASSUME TAssumed, CInv, SInv
  PROVE  /\ InOrder \in 0 .. LastSeg /\ rwin.next_seq = InOrder + 1
         /\ RightEdge \in Nat /\ RightEdge >= InOrder
         /\ rwin.count \in 0 .. ClientWin /\ rwin.size = ClientWin
         /\ win_available(rwin) \in Nat /\ win_available(rwin) < U16
         /\ RightEdge = InOrder + win_available(rwin)
         /\ Acked \in 0 .. LastSeg /\ swin.count \in Nat /\ swin.rwin_adv \in Nat
         /\ Acked + swin.count <= LastSeg
         /\ sent \in Nat /\ LastSeg \in Nat /\ LastSeg + 3 <= SeqMod /\ SeqMod \in Nat
         /\ U16 \in Nat /\ ClientWin \in Nat
<1>1. /\ InOrder \in 0 .. LastSeg /\ rwin.next_seq = InOrder + 1
      /\ rwin.count \in 0 .. ClientWin /\ rwin.size = ClientWin
  BY RingNumbers DEF TAssumed, CInv, RingOK, InOrder
<1>2. ClientWin \in Nat /\ ClientWin < U16
  BY Constants DEF TAssumed, U16
<1>3. win_available(rwin) \in Nat /\ win_available(rwin) < U16
      /\ RightEdge = InOrder + win_available(rwin)
  <2>1. U16 \in Nat  BY SConstants DEF TAssumed
  <2> QED BY <1>1, <1>2, <2>1 DEF win_available, RightEdge
<1>4. /\ Acked \in 0 .. LastSeg /\ Acked + swin.count \in 0 .. LastSeg
      /\ swin.count \in 0 .. ServerWin /\ swin.rwin_adv \in Nat
  BY WinFacts DEF TAssumed
<1>5. sent \in Nat  BY DEF SInv, SafeInv, STypeOK
<1>6. LastSeg \in Nat /\ LastSeg + 3 <= SeqMod /\ SeqMod \in Nat /\ U16 \in Nat
  BY SConstants DEF TAssumed
<1> QED BY <1>1, <1>2, <1>3, <1>4, <1>5, <1>6

\* A packet that is sent is lost or becomes the last one on its way.
LEMMA TransmitFacts ==
  ASSUME TAssumed, NEW S, NEW chan \in Seq(S), Len(chan) <= ChanCap, NEW pkt \in S,
         NEW next \in Transmit(chan, pkt)
  PROVE  /\ next \in Seq(S) /\ Len(next) <= ChanCap
         /\ \/ next = chan
            \/ /\ Len(next) = Len(chan) + 1 /\ next[Len(chan) + 1] = pkt
               /\ \A i \in 1 .. Len(chan) : next[i] = chan[i]
<1>1. CASE next = chan  BY <1>1
<1>2. CASE next # chan
  <2> DEFINE last == Len(chan) + 1
  <2>1. Len(chan) # ChanCap /\ next = Inserted(chan, last, pkt)
    BY <1>2 DEF Transmit, TAssumed
  <2>2. Len(chan) \in Nat /\ ChanCap \in Nat /\ Len(chan) + 1 <= ChanCap
    BY <2>1, NetAssumption
  <2>3. SubSeq(chan, 1, last - 1) = chan
    <3>1. last - 1 = Len(chan)  BY <2>2
    <3> HIDE DEF last
    <3> QED BY <3>1, SubSeqFull
  <2>4. SubSeq(chan, last, Len(chan)) = << >>
    BY <2>2, SubSeqEmpty
  <2> HIDE DEF last
  <2>5. next = chan \o <<pkt>> \o << >>
    BY <2>1, <2>3, <2>4, Zenon DEF Inserted
  <2>6. next = Append(chan, pkt)
    <3>1. chan \o <<pkt>> \in Seq(S) /\ Append(chan, pkt) = chan \o <<pkt>>
      BY AppendIsConcat, AppendProperties
    <3> QED BY <2>5, <3>1, ConcatEmptySeq
  <2> QED BY <2>2, <2>6, AppendProperties
<1> QED BY <1>1, <1>2

\* The oldest packet is received.
LEMMA TailFacts ==
  ASSUME NEW S, NEW chan \in Seq(S), chan # << >>
  PROVE  /\ Head(chan) = chan[1] /\ Head(chan) \in S /\ Len(chan) \in Nat /\ Len(chan) >= 1
         /\ Tail(chan) \in Seq(S) /\ Len(Tail(chan)) = Len(chan) - 1
         /\ \A i \in 1 .. Len(chan) - 1 : Tail(chan)[i] = chan[i + 1]
BY HeadTailProperties

-----------------------------------------------------------------------------
(* The steps of the client. *)

\* A step of the client that receives only what was sent.
ClientMoves ==
  \/ \E pkt \in FromServer : pkt.seq <= sent /\ PRecv(pkt)
  \/ PRecvFails
  \/ ProducerLocal
  \/ \E ok \in BOOLEAN : PReply(ok)
  \/ Consumer

LEMMA ClientKeepsCInv ==
  ASSUME TAssumed, CInv, ClientMoves
  PROVE  CInv'
<1>1. CNext  BY DEF ClientMoves, CNext
<1> QED BY <1>1, CInvNext DEF TAssumed

\* win_add, win_add_ahead, AdvanceEnd and win_remove put at most the packet in
\* hand in the buffer.
LEMMA BufferSteps ==
  ASSUME TAssumed, NEW win \in RecvWindow, NEW pkt \in Packet
  PROVE  /\ \A i \in 0 .. ClientWin - 1 :
              win_add(win, pkt).buf[i].valid =>
                \/ win.buf[i].valid /\ win_add(win, pkt).buf[i].pkt = win.buf[i].pkt
                \/ win_add(win, pkt).buf[i].pkt = pkt
         /\ \A i \in 0 .. ClientWin - 1 :
              win_remove(win).buf[i].valid =>
                win.buf[i].valid /\ win_remove(win).buf[i].pkt = win.buf[i].pkt
         /\ AdvanceEnd(win).buf = win.buf
         /\ \A i \in 0 .. ClientWin - 1 :
              win_add_ahead(win, pkt).buf[i].valid =>
                \/ win.buf[i].valid /\ win_add_ahead(win, pkt).buf[i].pkt = win.buf[i].pkt
                \/ win_add_ahead(win, pkt).buf[i].pkt = pkt
<1>1. /\ win.buf \in [0 .. ClientWin - 1 -> Slot]
      /\ win.start \in 0 .. ClientWin - 1 /\ win.end \in 0 .. ClientWin - 1
  BY DEF RecvWindow
<1>2. AdvanceEnd(win).buf = win.buf  BY DEF AdvanceEnd, RecvWindow
<1>3. \A i \in 0 .. ClientWin - 1 :
        win_add(win, pkt).buf[i].valid =>
          \/ win.buf[i].valid /\ win_add(win, pkt).buf[i].pkt = win.buf[i].pkt
          \/ win_add(win, pkt).buf[i].pkt = pkt
  <2>1. CASE win_can_add(win, pkt)
    <3>1. win_add(win, pkt).buf
            = [win.buf EXCEPT ![win.end] = [valid |-> TRUE, pkt |-> pkt]]
      BY <2>1 DEF win_add, AdvanceEnd, RecvWindow
    <3> QED BY <1>1, <3>1
  <2>2. CASE ~win_can_add(win, pkt)
    BY <2>2 DEF win_add
  <2> QED BY <2>1, <2>2
<1>4. \A i \in 0 .. ClientWin - 1 :
        win_remove(win).buf[i].valid =>
          win.buf[i].valid /\ win_remove(win).buf[i].pkt = win.buf[i].pkt
  <2>1. CASE win_empty(win)  BY <2>1 DEF win_remove
  <2>2. CASE ~win_empty(win)
    <3>1. win_remove(win).buf
            = [win.buf EXCEPT ![win.start] = [win.buf[win.start] EXCEPT !.valid = FALSE]]
      BY <1>1, <2>2 DEF win_remove, RecvWindow
    <3> QED BY <1>1, <3>1 DEF Slot
  <2> QED BY <2>1, <2>2
<1>5. \A i \in 0 .. ClientWin - 1 :
        win_add_ahead(win, pkt).buf[i].valid =>
          \/ win.buf[i].valid /\ win_add_ahead(win, pkt).buf[i].pkt = win.buf[i].pkt
          \/ win_add_ahead(win, pkt).buf[i].pkt = pkt
  <2> DEFINE k == win_get(win, fwdoff(win, pkt.seq))
  <2>1. CASE win.buf[k].valid  BY <2>1 DEF win_add_ahead
  <2>2. CASE ~win.buf[k].valid
    <3>1. win_add_ahead(win, pkt).buf
            = [win.buf EXCEPT ![k] = [valid |-> TRUE, pkt |-> pkt]]
      BY <2>2 DEF win_add_ahead, RecvWindow
    <3> HIDE DEF k
    <3> QED BY <1>1, <3>1
  <2> QED BY <2>1, <2>2
<1> QED BY <1>2, <1>3, <1>4, <1>5

\* A step of the client acknowledges and promises no less than before, and
\* holds only segments that were sent.
LEMMA ReceivedStep ==
  ASSUME TAssumed, CInv, SInv, ReceivedOK, ClientMoves, sent' = sent
  PROVE  /\ InOrder' \in Nat /\ RightEdge' \in Nat
         /\ InOrder' >= InOrder /\ RightEdge' >= RightEdge
         /\ ReceivedOK'
<1> DEFINE Held(win) == \A i \in 0 .. ClientWin - 1 :
                          win.buf[i].valid => win.buf[i].pkt.seq <= sent
<1>0. Held(rwin) /\ InOrder <= sent /\ rwin \in RecvWindow /\ pelem \in Packet
  BY DEF ReceivedOK, CInv, CTypeOK
<1>1. /\ InOrder \in Nat /\ rwin.next_seq = InOrder + 1 /\ rwin.size = ClientWin
      /\ rwin.count \in Nat /\ ClientWin \in Nat /\ RightEdge = InOrder + win_available(rwin)
  BY TNumbers
<1>2. /\ rwin'.size = ClientWin /\ rwin'.next_seq \in Nat /\ rwin'.count \in Nat
      /\ InOrder' \in Nat /\ RightEdge' \in Nat
  <2>1. GoodRing(rwin')  BY ClientKeepsCInv DEF CInv, RingOK
  <2>2. /\ InOrderOf(rwin') \in Nat /\ rwin'.count \in 0 .. ClientWin
        /\ rwin'.size = ClientWin /\ rwin'.next_seq = InOrderOf(rwin') + 1
    BY <2>1, RingNumbers DEF TAssumed
  <2>3. win_available(rwin') \in Nat
    BY <2>2, Constants DEF TAssumed, win_available
  <2> QED BY <2>2, <2>3, Constants DEF TAssumed, InOrder, RightEdge
<1>3. CASE rwin' = rwin
  <2>1. InOrder' = InOrder /\ RightEdge' = RightEdge
    BY <1>3 DEF InOrder, RightEdge
  <2>2. ppc' = "got" => pelem'.seq <= sent
    BY DEF ReceivedOK, ClientMoves, PRecv, PRecvFails, ProducerFails, ProducerLocal,
           PReply, Consumer, PDrop, PLock, PAddNext, PAddAhead, PAdvance, PAdvanced,
           PJoin, CWake, CLock, CRead, CUnlock, CCancel, pvars
  <2> QED BY <1>0, <1>1, <1>3, <2>1, <2>2, TNumbers DEF ReceivedOK
<1>4. CASE PAddNext
  <2>1. /\ rwin' = win_add(rwin, pelem) /\ ppc' = "advance" /\ ppc = "got"
        /\ pelem \in FromServer /\ pelem.seq <= sent /\ RingOK
    BY <1>4 DEF PAddNext, PLock, CInv, InHand, ReceivedOK
  <2>2. /\ rwin'.next_seq = rwin.next_seq + 1 /\ rwin'.count = rwin.count + 1
        /\ pelem.seq = rwin.next_seq
    BY <1>4, <2>1, AddNextRing, SegmentFacts, TNumbers DEF PAddNext, RingOK, TAssumed
  <2>3. Held(rwin')  BY <1>0, <2>1, BufferSteps
  <2> QED BY <1>1, <1>2, <2>1, <2>2, <2>3
          DEF ReceivedOK, InOrder, InOrderOf, RightEdge, win_available
<1>5. CASE PAddAhead
  <2>1. /\ rwin' = rwin \/ rwin' = win_add_ahead(rwin, pelem)
        /\ ppc = "got" /\ pelem \in FromServer /\ pelem.seq <= sent /\ RingOK
        /\ pelem' = pelem /\ ~win_full(rwin) /\ win_valid_seq(rwin, pelem.seq)
    BY <1>5 DEF PAddAhead, PLock, CInv, InHand, ReceivedOK
  <2>2. rwin'.next_seq = rwin.next_seq /\ rwin'.count = rwin.count
    BY <2>1, AddAheadRing DEF RingOK, TAssumed
  <2>3. Held(rwin')  BY <1>0, <2>1, BufferSteps
  <2> QED BY <1>0, <1>1, <1>2, <2>1, <2>2, <2>3
          DEF ReceivedOK, InOrder, InOrderOf, RightEdge, win_available
<1>6. CASE PAdvance
  <2>1. /\ rwin' = AdvanceEnd(rwin) /\ ppc' = "advance" /\ RingOK
        /\ win_end_is_next(rwin)
    BY <1>6 DEF PAdvance, CInv
  <2>2. rwin'.next_seq = rwin.next_seq + 1 /\ rwin'.count = rwin.count + 1
    BY <2>1, AdvanceRing DEF RingOK, TAssumed
  <2>3. Held(rwin')  BY <1>0, <2>1, BufferSteps
  <2>4. rwin.next_seq <= sent
    <3>1. rwin.end \in 0 .. ClientWin - 1  BY <1>0 DEF RecvWindow
    <3> QED BY <1>0, <2>1, <3>1 DEF win_end_is_next, win_end
  <2> QED BY <1>1, <1>2, <2>1, <2>2, <2>3, <2>4
          DEF ReceivedOK, InOrder, InOrderOf, RightEdge, win_available
<1>7. CASE CRead
  <2>1. /\ rwin' = win_remove(rwin) /\ UNCHANGED <<ppc, pelem>> /\ RingOK
        /\ ~win_empty(rwin)
    BY <1>7 DEF CRead, CInv, pvars
  <2>2. rwin'.next_seq = rwin.next_seq /\ rwin'.count = rwin.count - 1
    BY <2>1, RemoveRing DEF RingOK, TAssumed
  <2>3. Held(rwin')  BY <1>0, <2>1, BufferSteps
  <2> QED BY <1>0, <1>1, <1>2, <2>1, <2>2, <2>3
          DEF ReceivedOK, InOrder, InOrderOf, RightEdge, win_available
<1> QED
  BY <1>3, <1>4, <1>5, <1>6, <1>7
     DEF ClientMoves, PRecv, PRecvFails, ProducerLocal, PReply, Consumer, PDrop, PLock,
         PAdvanced, PJoin, CWake, CLock, CUnlock, CCancel

\* A step of the client keeps what is known of its producer, and a producer
\* that has finished stays so.
LEMMA ProducerStep ==
  ASSUME TAssumed, CInv, SInv, ProducerOK, ClientMoves
  PROVE  /\ ProducerOK'
         /\ FinTold => FinTold'
<1>0. /\ InOrder \in 0 .. LastSeg /\ LastSeg \in Nat /\ NChunks \in Nat
      /\ LastSeg = NChunks + 1
  BY TNumbers, Constants DEF TAssumed
<1>1. CASE (\E pkt \in FromServer : PRecv(pkt)) \/ PRecvFails \/ PDrop \/ PAdvanced \/ PJoin
  BY <1>0, <1>1 DEF ProducerOK, FinTold, PRecv, PRecvFails, ProducerFails, PDrop, PLock,
                    PAdvanced, PJoin, pvars, cvars, InOrder, Up
<1>2. CASE \E ok \in BOOLEAN : PReply(ok)
  BY <1>0, <1>2 DEF ProducerOK, FinTold, PReply, ProducerFails, cvars, InOrder, Up
<1>3. CASE PAddNext
  <2>1. /\ ppc = "got" /\ ppc' = "advance" /\ pfin' = IsFin(pelem)
        /\ UNCHANGED <<err, exit_status, client>>
        /\ pelem \in FromServer /\ RingOK /\ ~win_full(rwin)
        /\ win_valid_seq(rwin, pelem.seq) /\ fwdoff(rwin, pelem.seq) = 0
    BY <1>3 DEF PAddNext, PLock, CInv, InHand, cvars
  <2>2. /\ rwin.next_seq <= LastSeg /\ pelem = Segment(rwin.next_seq)
        /\ rwin.next_seq = InOrder + 1
    BY <2>1, AddNextRing, TNumbers DEF RingOK, TAssumed
  <2>3. InOrder' = InOrder + 1
    BY <1>3, <2>1, AddNextFacts DEF PAddNext, InOrder, TAssumed
  <2>4. IsFin(pelem) <=> InOrder + 1 = LastSeg
    <3>1. InOrder + 1 \in 1 .. LastSeg  BY <1>0, <2>2
    <3> QED BY <2>2, <3>1, SegmentFacts DEF TAssumed
  <2>5. pfin' <=> IsFin(pelem)  BY <2>1, Zenon
  <2> QED BY <2>1, <2>3, <2>4, <2>5 DEF ProducerOK, FinTold
<1>4. CASE PAdvance
  <2>1. /\ ppc = "advance" /\ ppc' = "advance" /\ pfin' = IsFin(win_end(rwin).pkt)
        /\ UNCHANGED <<err, exit_status, client>> /\ RingOK /\ win_end_is_next(rwin)
    BY <1>4 DEF PAdvance, CInv, cvars
  <2>2. /\ rwin.next_seq <= LastSeg /\ win_end(rwin).pkt = Segment(rwin.next_seq)
        /\ rwin.next_seq = InOrder + 1
    BY <2>1, AdvanceRing, TNumbers DEF RingOK, TAssumed
  <2>3. InOrder' = InOrder + 1
    BY <1>4, <2>1, AdvanceFacts DEF PAdvance, InOrder, TAssumed
  <2>4. IsFin(win_end(rwin).pkt) <=> InOrder + 1 = LastSeg
    <3>1. InOrder + 1 \in 1 .. LastSeg  BY <1>0, <2>2
    <3> QED BY <2>2, <3>1, SegmentFacts DEF TAssumed
  <2>5. pfin' <=> IsFin(win_end(rwin).pkt)  BY <2>1, Zenon
  <2> QED BY <2>1, <2>3, <2>4, <2>5 DEF ProducerOK, FinTold
<1>5. CASE PAddAhead
  <2>1. /\ RingOK /\ ~win_full(rwin) /\ pelem \in FromServer
        /\ win_valid_seq(rwin, pelem.seq)
    BY <1>5 DEF CInv, InHand, PAddAhead, PLock
  <2>2. /\ ppc = "got" /\ ppc' = "reply" /\ pfin' = FALSE
        /\ UNCHANGED <<err, exit_status, client>>
        /\ rwin' = win_add_ahead(rwin, pelem)
    BY <1>5, <2>1, AddAheadRing DEF PAddAhead, PLock, cvars, RingOK, TAssumed
  <2>3. InOrder' = InOrder
    BY <2>1, <2>2, AddAheadRing DEF InOrder, InOrderOf, RingOK, TAssumed
  <2> QED BY <1>0, <2>2, <2>3 DEF ProducerOK, FinTold
<1>6. CASE CWake \/ CLock \/ CCancel
  BY <1>6 DEF ProducerOK, FinTold, CWake, CLock, CCancel, pvars, InOrder, Up
<1>7. CASE CRead
  <2>1. UNCHANGED <<ppc, pfin, err, exit_status, client>>
    BY <1>7 DEF CRead, pvars
  <2>2. InOrder' = InOrder
    BY <1>7, ReadFacts DEF CRead, CInv, InOrder, TAssumed
  <2> QED BY <2>1, <2>2 DEF ProducerOK, FinTold
<1>8. CASE CUnlock
  <2>1. /\ Up /\ cpc = "read" /\ UNCHANGED <<ppc, pfin, err, client, rwin>>
        /\ ctot' = ctot + nread
        /\ exit_status' = IF ~eof THEN exit_status
                          ELSE IF ctot' = 0 THEN "null" ELSE "bytes"
    BY <1>8 DEF CUnlock, pvars
  <2>2. eof /\ ctot' = 0 => NChunks = 0
    <3> SUFFICES ASSUME eof, ctot' = 0, NChunks # 0 PROVE FALSE
      OBVIOUS
    <3>1. Consumed = LastSeg  BY <2>1 DEF CInv, EndsOK
    <3>2. Bytes(LastSeg) = 0  BY <2>1, <3>1 DEF CInv, BytesCounted
    <3>3. Bytes(LastSeg) = (NChunks - 1) * MaxData + LastLen
      BY <1>0 DEF Bytes, FileSize
    <3>4. MaxData \in Nat /\ LastLen \in Nat /\ LastLen >= 1
      BY WindowAssumption
    <3> DEFINE n == NChunks - 1
    <3>5. n \in Nat  BY <1>0
    <3> HIDE DEF n
    <3>6. n * MaxData \in Nat  BY <3>4, <3>5
    <3> QED BY <3>2, <3>3, <3>4, <3>6 DEF n
  <2>3. InOrder' = InOrder  BY <2>1 DEF InOrder
  <2>4. exit_status # "null"  => (exit_status' = "null" => NChunks = 0)
    BY <2>1, <2>2
  <2>5. client # "failure" /\ client' = client  BY <2>1 DEF Up
  <2> QED BY <2>1, <2>3, <2>4, <2>5 DEF ProducerOK, FinTold
<1> QED BY <1>1, <1>2, <1>3, <1>4, <1>5, <1>6, <1>7, <1>8
        DEF ClientMoves, ProducerLocal, Consumer

\* A step of the client that sends nothing.
LEMMA ClientFrame ==
  ASSUME TAssumed, TInv, ClientMoves, UNCHANGED serverVars, IcmpOK',
         toServer' = toServer, SegmentsOK'
  PROVE  TInv'
<1>1. CInv'  BY ClientKeepsCInv DEF TInv
<1>2. SInv'  BY SStutterInv DEF TInv
<1>3. UNCHANGED <<swin, spc, sack, sent>>  BY DEF serverVars
<1>4. Acked' = Acked  BY <1>3 DEF Acked, AckedOf
<1>5. /\ InOrder' \in Nat /\ RightEdge' \in Nat
      /\ InOrder' >= InOrder /\ RightEdge' >= RightEdge /\ ReceivedOK'
  BY <1>3, ReceivedStep DEF TInv
<1>6. ProducerOK' /\ (FinTold => FinTold')  BY ProducerStep DEF TInv
<1>7. /\ InOrder \in Nat /\ RightEdge \in Nat /\ Acked \in Nat
      /\ swin.count \in Nat /\ swin.rwin_adv \in Nat /\ sent \in Nat /\ SeqMod \in Nat
  BY TNumbers DEF TInv
<1>8. ASSUME NEW pkt \in Packet, pkt.ack <= InOrder + 1, pkt.ack - 1 + pkt.win <= RightEdge
      PROVE  pkt.ack <= InOrder' + 1 /\ pkt.ack - 1 + pkt.win <= RightEdge'
  <2>1. pkt.ack \in Int /\ pkt.win \in Int  BY <1>7, SConstants DEF Packet, TAssumed
  <2> QED BY <1>5, <1>7, <1>8, <2>1
<1>9. AcksOK'
  BY <1>4, <1>6, <1>8 DEF TInv, AcksOK, AckOK
<1>10. SackOK'
  BY <1>3, <1>4, <1>6, <1>8 DEF TInv, SackOK, AckOK
<1>11. ServerOK'
  BY <1>3, <1>4, <1>5, <1>6, <1>7 DEF TInv, ServerOK
<1> QED BY <1>1, <1>2, <1>5, <1>6, <1>9, <1>10, <1>11 DEF TInv

\* The acknowledgment of the producer joins those on their way.
LEMMA ReplyInv ==
  ASSUME TAssumed, TInv, ClientReply, UNCHANGED serverVars
  PROVE  TInv'
<1>0. /\ PReply(~clientIcmp) /\ clientIcmp' = FALSE /\ UNCHANGED <<toClient, serverIcmp>>
      /\ toServer' \in IF clientIcmp THEN {toServer} ELSE Transmit(toServer, Ack)
  BY DEF ClientReply
<1>1. ClientMoves
  <2>1. (~clientIcmp) \in BOOLEAN  BY Zenon
  <2>2. \E ok \in BOOLEAN : PReply(ok)  BY <1>0, <2>1, Zenon
  <2> QED BY <2>2 DEF ClientMoves
<1>2. IcmpOK'
  <2>1. clientIcmp' \in BOOLEAN  BY <1>0, Zenon
  <2> QED BY <1>0, <2>1 DEF TInv, IcmpOK
<1>3. UNCHANGED <<swin, spc, sack, sent>>  BY DEF serverVars
<1>4. SegmentsOK'  BY <1>0, <1>3 DEF TInv, SegmentsOK
<1>5. CASE toServer' = toServer
  BY <1>1, <1>2, <1>4, <1>5, ClientFrame
<1>6. CASE toServer' # toServer
  <2>1. ~clientIcmp /\ toServer' \in Transmit(toServer, Ack)  BY <1>0, <1>6
  <2>2. CInv'  BY <1>1, ClientKeepsCInv DEF TInv
  <2>3. SInv'  BY SStutterInv DEF TInv
  <2>4. Acked' = Acked  BY <1>3 DEF Acked, AckedOf
  <2>5. rwin' = rwin /\ ppc = "reply" /\ ppc' = (IF pfin THEN "join" ELSE "select")
        /\ err' = err
    BY <1>0, <2>1 DEF PReply
  <2>6. InOrder' = InOrder /\ RightEdge' = RightEdge
    BY <2>5 DEF InOrder, RightEdge
  <2>7. ProducerOK' /\ (FinTold => FinTold')  BY <1>1, ProducerStep DEF TInv
  <2>8. ReceivedOK'  BY <1>1, <1>3, ReceivedStep DEF TInv
  <2>9. /\ InOrder \in 0 .. LastSeg /\ RightEdge = InOrder + win_available(rwin)
        /\ rwin.next_seq = InOrder + 1 /\ Acked \in Nat /\ LastSeg \in Nat
        /\ win_available(rwin) \in Nat /\ win_available(rwin) < U16
        /\ LastSeg + 3 <= SeqMod /\ SeqMod \in Nat /\ U16 \in Nat
    BY TNumbers DEF TInv
  <2>10. /\ Ack.ack = InOrder + 1 /\ Ack.win = win_available(rwin) /\ Ack \in Packet
    <3>1. /\ InOrder + 1 \in 0 .. SeqMod - 1 /\ 0 \in 0 .. SeqMod - 1
          /\ win_available(rwin) \in 0 .. U16 - 1 /\ 0 \in 0 .. NChunks
      BY <2>9, Constants DEF TAssumed
    <3>2. (IF pfin THEN {"ACK", "FIN"} ELSE {"ACK"}) \in SUBSET Flags  BY DEF Flags
    <3>3. Ack = [seq |-> 0, ack |-> InOrder + 1, win |-> win_available(rwin),
                 flags |-> IF pfin THEN {"ACK", "FIN"} ELSE {"ACK"}, data |-> 0]
      BY <2>9 DEF Ack, build_pkt
    <3> QED BY <3>1, <3>2, <3>3 DEF Packet
  <2>11. InOrder = LastSeg => FinTold'
    BY <2>5 DEF TInv, ProducerOK, FinTold
  <2>12. /\ toServer' \in Seq(Packet) /\ Len(toServer') <= ChanCap
         /\ Len(toServer) \in Nat /\ Len(toServer') = Len(toServer) + 1
         /\ toServer'[Len(toServer) + 1] = Ack
         /\ \A i \in 1 .. Len(toServer) : toServer'[i] = toServer[i]
    BY <1>6, <2>1, <2>10, TransmitFacts DEF TInv, AcksOK
  <2>13. ServerOK'
    BY <1>3, <2>4, <2>6, <2>7 DEF TInv, ServerOK
  <2>14. Acked <= InOrder  BY DEF TInv, ServerOK
  <2>15. /\ Ack.ack >= Acked' + 1 /\ Ack.ack <= InOrder' + 1
         /\ Ack.ack - 1 + Ack.win <= RightEdge'
         /\ Ack.ack = LastSeg + 1 => FinTold'
    BY <2>4, <2>6, <2>9, <2>10, <2>11, <2>14
  <2>16. \A i \in 1 .. Len(toServer) :
           /\ toServer[i] \in Packet
           /\ toServer[i].ack >= Acked' + 1 /\ toServer[i].ack <= InOrder' + 1
           /\ toServer[i].ack - 1 + toServer[i].win <= RightEdge'
           /\ toServer[i].ack = LastSeg + 1 => FinTold'
    BY <2>4, <2>6, <2>7 DEF TInv, AcksOK, AckOK
  <2>17. AcksOK'
    <3>1. \A i \in 1 .. Len(toServer') :
             /\ toServer'[i] \in Packet
             /\ toServer'[i].ack >= Acked' + 1 /\ toServer'[i].ack <= InOrder' + 1
             /\ toServer'[i].ack - 1 + toServer'[i].win <= RightEdge'
             /\ toServer'[i].ack = LastSeg + 1 => FinTold'
      BY <2>10, <2>12, <2>15, <2>16
    <3>2. \A i, j \in 1 .. Len(toServer') : i <= j => toServer'[i].ack <= toServer'[j].ack
      <4> SUFFICES ASSUME NEW i \in 1 .. Len(toServer'), NEW j \in 1 .. Len(toServer'), i <= j
                   PROVE  toServer'[i].ack <= toServer'[j].ack
        OBVIOUS
      <4>1. CASE j \in 1 .. Len(toServer)
        BY <2>12, <4>1 DEF TInv, AcksOK
      <4>2. CASE j = Len(toServer) + 1
        BY <2>6, <2>9, <2>10, <2>12, <3>1, <4>2
      <4> QED BY <2>12, <4>1, <4>2
    <3> QED BY <2>12, <3>1, <3>2 DEF AcksOK, AckOK
  <2>18. SackOK'
    <3> SUFFICES ASSUME spc' = "acked" PROVE SackOK'
      BY DEF SackOK
    <3>1. spc = "acked" /\ sack' = sack  BY <1>3
    <3>2. AckOK(sack) /\ \A i \in 1 .. Len(toServer) : sack.ack <= toServer[i].ack
      BY <3>1 DEF TInv, SackOK
    <3>3. AckOK(sack)'
      BY <2>4, <2>6, <2>7, <3>1, <3>2 DEF AckOK
    <3>4. \A i \in 1 .. Len(toServer') : sack'.ack <= toServer'[i].ack
      BY <2>6, <2>10, <2>12, <3>1, <3>2, <3>3 DEF AckOK
    <3> QED BY <3>3, <3>4 DEF SackOK
  <2> QED BY <1>2, <1>4, <2>2, <2>3, <2>7, <2>8, <2>13, <2>17, <2>18 DEF TInv
<1> QED BY <1>5, <1>6

\* All other steps of the client.
LEMMA ClientStepInv ==
  ASSUME TAssumed, TInv,
         \/ ClientStep
         \/ ConsumerStep
  PROVE  TInv'
<1>1. CASE ClientRecv /\ UNCHANGED serverVars
  <2>1. /\ toClient \in Seq(FromServer) /\ toClient # << >>
        /\ \A i \in 1 .. Len(toClient) : toClient[i].seq <= sent
        /\ Len(toClient) <= ChanCap
    BY <1>1 DEF TInv, SegmentsOK, ClientRecv
  <2>2. /\ Head(toClient) = toClient[1] /\ Head(toClient) \in FromServer
        /\ Len(toClient) \in Nat /\ Len(toClient) >= 1
        /\ Tail(toClient) \in Seq(FromServer) /\ Len(Tail(toClient)) = Len(toClient) - 1
        /\ \A i \in 1 .. Len(toClient) - 1 : Tail(toClient)[i] = toClient[i + 1]
    BY <2>1, TailFacts
  <2>3. ClientMoves
    <3>1. Head(toClient).seq <= sent /\ PRecv(Head(toClient))
      BY <1>1, <2>1, <2>2 DEF ClientRecv
    <3> QED BY <2>2, <3>1 DEF ClientMoves
  <2>4. sent' = sent /\ toClient' = Tail(toClient)
        /\ UNCHANGED <<toServer, clientIcmp, serverIcmp>>
    BY <1>1 DEF ClientRecv, serverVars
  <2>5. SegmentsOK'
    <3>1. ChanCap \in Nat  BY NetAssumption
    <3> QED BY <2>1, <2>2, <2>4, <3>1 DEF SegmentsOK
  <2> QED BY <1>1, <2>3, <2>4, <2>5, ClientFrame DEF TInv, IcmpOK
<1>2. CASE ClientReply /\ UNCHANGED serverVars
  BY <1>2, ReplyInv
<1>3. CASE (ClientRecvError \/ ClientTimeout) /\ UNCHANGED serverVars
  <2>1. ClientMoves  BY <1>3 DEF ClientRecvError, ClientTimeout, ClientMoves
  <2>2. UNCHANGED <<toClient, toServer, serverIcmp, sent>>
        /\ (clientIcmp' = FALSE \/ clientIcmp' = clientIcmp)
    BY <1>3 DEF ClientRecvError, ClientTimeout, netVars, serverVars
  <2>3. IcmpOK'
    <3>1. clientIcmp' \in BOOLEAN  BY <2>2, Zenon DEF TInv, IcmpOK
    <3> QED BY <2>2, <3>1 DEF TInv, IcmpOK
  <2> QED BY <1>3, <2>1, <2>2, <2>3, ClientFrame DEF TInv, SegmentsOK
<1>4. CASE (ProducerLocal \/ Consumer) /\ UNCHANGED <<serverVars, netVars>>
  <2>1. ClientMoves  BY <1>4 DEF ClientMoves
  <2>2. UNCHANGED <<toClient, toServer, clientIcmp, serverIcmp, sent>>
    BY <1>4 DEF netVars, serverVars
  <2> QED BY <1>4, <2>1, <2>2, ClientFrame DEF TInv, SegmentsOK, IcmpOK
<1> QED BY <1>1, <1>2, <1>3, <1>4 DEF ClientStep, ConsumerStep

-----------------------------------------------------------------------------
(* The steps of the server. *)

\* What a step of the server leaves alone.
LEMMA ClientSame ==
  ASSUME UNCHANGED clientVars
  PROVE  InOrder' = InOrder /\ RightEdge' = RightEdge /\ FinTold' = FinTold
         /\ (ProducerOK => ProducerOK') /\ UNCHANGED <<rwin, ppc, pelem>>
<1>1. UNCHANGED <<rwin, ppc, pelem, pfin, err, exit_status, client>>
  BY DEF clientVars, pvars, cvars
<1>2. InOrder' = InOrder /\ RightEdge' = RightEdge /\ FinTold' = FinTold
  BY <1>1 DEF InOrder, RightEdge, FinTold
<1> QED BY <1>1, <1>2 DEF ProducerOK

\* What remains to be shown of a step of the server.
LEMMA ServerFrame ==
  ASSUME TAssumed, TInv, UNCHANGED clientVars, sent' >= sent,
         SInv', ServerOK', IcmpOK', AcksOK', SackOK', SegmentsOK'
  PROVE  TInv'
<1>1. CInv'  BY CInvNext DEF TInv, TAssumed
<1>2. ProducerOK'  BY ClientSame DEF TInv
<1>3. ReceivedOK'
  <2>1. sent \in Nat /\ sent' \in Nat /\ SeqMod \in Nat /\ InOrder \in Nat
    BY TNumbers, SConstants DEF TInv, SInv, SafeInv, STypeOK, TAssumed
  <2>2. /\ rwin \in RecvWindow /\ pelem \in Packet
        /\ rwin.buf \in [0 .. ClientWin - 1 -> Slot]
    BY DEF TInv, CInv, CTypeOK, RecvWindow
  <2>3. \A i \in 0 .. ClientWin - 1 : rwin.buf[i].pkt.seq \in Nat
    <3>1. \A pkt \in Packet : pkt.seq \in Nat  BY <2>1 DEF Packet
    <3>2. \A i \in 0 .. ClientWin - 1 : rwin.buf[i].pkt \in Packet
      BY <2>2 DEF Slot
    <3> QED BY <3>1, <3>2
  <2>4. pelem.seq \in Nat  BY <2>1, <2>2 DEF Packet
  <2> QED BY <2>1, <2>3, <2>4, ClientSame DEF TInv, ReceivedOK
<1> QED BY <1>1, <1>2, <1>3 DEF TInv

\* A step that neither takes an ACK nor changes what is acknowledged.
LEMMA QuietStep ==
  ASSUME TAssumed, TInv, UNCHANGED clientVars, sent' >= sent, Acked' = Acked,
         spc' = "acked" => spc = "acked" /\ sack' = sack,
         toServer' = toServer, SInv', ServerOK', IcmpOK', SegmentsOK'
  PROVE  TInv'
<1>1. AcksOK'  BY ClientSame DEF TInv, AcksOK, AckOK
<1>2. SackOK'  BY ClientSame DEF TInv, SackOK, AckOK
<1> QED BY <1>1, <1>2, ServerFrame

\* The counts that the server keeps of the client decide ServerOK.
LEMMA SameCounts ==
  ASSUME TInv, UNCHANGED clientVars, Acked' = Acked, sent' = sent,
         swin'.count = swin.count, swin'.rwin_adv = swin.rwin_adv,
         spc' \in {"probe", "probe_add", "probe_eof"} => swin.rwin_adv = 0
  PROVE  ServerOK'
BY ClientSame DEF TInv, ServerOK

\* The oldest ACK leaves the network.
LEMMA AcksTail ==
  ASSUME AcksOK, toServer # << >>, toServer' = Tail(toServer),
         Acked' = Acked, UNCHANGED clientVars
  PROVE  /\ AcksOK' /\ AckOK(toServer[1]) /\ Head(toServer) = toServer[1]
         /\ \A i \in 1 .. Len(toServer') : toServer[1].ack <= toServer'[i].ack
         /\ \A n \in Int : (\A i \in 1 .. Len(toServer) : n <= toServer[i].ack)
                             => \A i \in 1 .. Len(toServer') : n <= toServer'[i].ack
<1>1. /\ Head(toServer) = toServer[1] /\ Len(toServer) \in Nat /\ Len(toServer) >= 1
      /\ toServer' \in Seq(Packet) /\ Len(toServer') = Len(toServer) - 1
      /\ \A i \in 1 .. Len(toServer) - 1 : toServer'[i] = toServer[i + 1]
      /\ ChanCap \in Nat
  BY TailFacts, NetAssumption DEF AcksOK
<1>2. InOrder' = InOrder /\ RightEdge' = RightEdge /\ FinTold' = FinTold
  BY ClientSame
<1>3. \A i \in 1 .. Len(toServer') : i + 1 \in 1 .. Len(toServer)
  BY <1>1
<1>4. \A i \in 1 .. Len(toServer') : AckOK(toServer[i + 1])
  BY <1>3 DEF AcksOK
<1>5. AcksOK'
  <2>1. \A i \in 1 .. Len(toServer') :
          /\ toServer'[i] \in Packet
          /\ toServer'[i].ack >= Acked' + 1 /\ toServer'[i].ack <= InOrder' + 1
          /\ toServer'[i].ack - 1 + toServer'[i].win <= RightEdge'
          /\ toServer'[i].ack = LastSeg + 1 => FinTold'
    BY <1>1, <1>2, <1>4 DEF AckOK
  <2>2. \A i, j \in 1 .. Len(toServer') : i <= j => toServer'[i].ack <= toServer'[j].ack
    BY <1>1, <1>3 DEF AcksOK
  <2> QED BY <1>1, <2>1, <2>2 DEF AcksOK, AckOK
<1>6. 1 \in 1 .. Len(toServer)  BY <1>1
<1>7. \A i \in 1 .. Len(toServer') : toServer[1].ack <= toServer'[i].ack
  BY <1>1, <1>3, <1>6 DEF AcksOK
<1>8. AckOK(toServer[1])  BY <1>6 DEF AcksOK
<1> QED BY <1>1, <1>3, <1>5, <1>7, <1>8

\* Reading, probing, waiting and timing out: no packet is sent or taken.
LEMMA LocalInv ==
  ASSUME TAssumed, TInv, UNCHANGED <<clientVars, netVars>>,
         \/ SFile \/ SWait \/ SFastRetransmit \/ SRto \/ SAlarm
         \/ SFillFails \/ SProbeFails
  PROVE  TInv'
<1>0. Assumed /\ SInv  BY DEF TInv, TAssumed
<1>1. SInv'
  <2>1. SNext  BY DEF SNext, SLocal
  <2> QED BY <1>0, <2>1, SStepInv
<1>2. UNCHANGED <<clientVars, toClient, toServer, clientIcmp, serverIcmp, sent>>
  BY DEF netVars, SFile, SFill, SFilled, SProbeRead, SProbeAdd, SProbeEof, SWait,
         SFastRetransmit, SRto, SAlarm, SFillFails, SProbeFails
<1>3. IcmpOK' /\ SegmentsOK'
  BY <1>2 DEF TInv, IcmpOK, SegmentsOK
<1>4. sent' >= sent  BY <1>0, <1>2, WinFacts DEF SInv, SafeInv, STypeOK
<1>5. /\ Acked \in Nat /\ swin.count \in Nat /\ swin.rwin_adv \in Nat /\ sent \in Nat
      /\ RightEdge \in Nat /\ swin \in SendWindow
  BY <1>0, TNumbers, WinFacts DEF TInv
<1>6. CASE SFill
  <2>1. /\ Acked' = Acked /\ swin'.count = swin.count + 1
        /\ swin'.rwin_adv = swin.rwin_adv /\ swin.count < swin.rwin_adv
    BY <1>0, <1>6, SFillFacts DEF Acked
  <2>2. spc = "fill" /\ spc' = "fill"  BY <1>6 DEF SFill
  <2>3. ServerOK'
    BY <1>2, <1>5, <2>1, <2>2, ClientSame DEF TInv, ServerOK
  <2> QED BY <1>1, <1>2, <1>3, <1>4, <2>1, <2>2, <2>3, QuietStep
<1>7. CASE SProbeAdd
  <2>1. /\ Acked' = Acked /\ swin'.count = 1 /\ swin'.rwin_adv = swin.rwin_adv
    BY <1>0, <1>7, SProbeAddFacts DEF Acked
  <2>2. spc = "probe_add" /\ spc' = "probe_eof" /\ swin.count = 0
    BY <1>0, <1>7 DEF SProbeAdd, SInv, FileOK
  <2>3. ServerOK'
    BY <1>2, <1>5, <2>1, <2>2, ClientSame DEF TInv, ServerOK
  <2> QED BY <1>1, <1>2, <1>3, <1>4, <2>1, <2>2, <2>3, QuietStep
<1>8. CASE SFastRetransmit \/ SRto
  <2>1. /\ swin'.next_ack = swin.next_ack /\ swin'.count = swin.count
        /\ swin'.rwin_adv = swin.rwin_adv
    BY <1>5, <1>8 DEF SFastRetransmit, SRto, SLOW_START, SendWindow
  <2>2. spc' \in {"send", "probe", "done"} /\ (spc' = "probe" => swin.rwin_adv = 0)
    BY <1>8 DEF SFastRetransmit, SRto, SExit
  <2>3. Acked' = Acked  BY <2>1 DEF Acked, AckedOf
  <2>4. ServerOK'
    BY <1>2, <2>1, <2>2, <2>3, SameCounts
  <2> QED BY <1>1, <1>2, <1>3, <1>4, <2>2, <2>3, <2>4, QuietStep
<1>9. CASE \/ SFilled \/ SProbeRead \/ SProbeEof \/ SWait \/ SAlarm
           \/ SFillFails \/ SProbeFails
  <2>1. swin' = swin
    BY <1>9 DEF SFilled, SProbeRead, SProbeEof, SWait, SAlarm, SFillFails, SProbeFails
  <2>2. spc' # "acked" /\ (spc' \in {"probe", "probe_add", "probe_eof"} => spc = "probe")
    BY <1>9 DEF SFilled, SProbeRead, SProbeEof, SWait, SAlarm, SFillFails, SProbeFails,
                SExit
  <2>3. Acked' = Acked  BY <2>1 DEF Acked, AckedOf
  <2>4. ServerOK'
    BY <1>2, <2>1, <2>2, <2>3, SameCounts DEF TInv, ServerOK
  <2> QED BY <1>1, <1>2, <1>3, <1>4, <2>2, <2>3, <2>4, QuietStep
<1> QED BY <1>6, <1>7, <1>8, <1>9 DEF SFile

\* The ACK that the server takes acknowledges just what precedes its number.
LEMMA AckTaken ==
  ASSUME TAssumed, TInv, SAck
  PROVE  /\ Acked' = sack.ack - 1 /\ swin'.rwin_adv = sack.win
         /\ Acked' + swin'.count = Acked + swin.count
         /\ swin'.count \in Nat /\ swin'.count < swin.count
         /\ spc' \in {"fill", "done"}
<1>0. Assumed /\ SInv /\ FilePart(swin)  BY WinFacts DEF TInv, TAssumed
<1>1. PICK removed \in 1 .. swin.count :
        /\ removed = Removed(swin, sack.ack) /\ swin'.rwin_adv = sack.win
        /\ Acked' = Acked + removed /\ swin'.count = swin.count - removed
        /\ spc' \in {"fill", "done"}
  BY <1>0, AckFacts
<1>2. /\ Acked \in Nat /\ swin.count \in Nat /\ InOrder \in Nat /\ sent \in Nat
      /\ SeqMod \in Nat
  BY TNumbers DEF TInv, TAssumed
<1>3. /\ sack.ack \in Nat /\ sack.ack >= Acked + 1 /\ sack.ack <= Acked + swin.count + 1
  <2>1. AckOK(sack)  BY DEF SAck, TInv, SackOK
  <2>2. sack.ack \in Nat  BY <1>2, <2>1 DEF AckOK, Packet
  <2>3. InOrder <= sent /\ sent <= Acked + swin.count
    BY DEF TInv, ReceivedOK, ServerOK
  <2> QED BY <1>2, <2>1, <2>2, <2>3 DEF AckOK
<1>4. \A k \in 0 .. swin.count - 1 : win_get_index(swin, k).seq = Acked + 1 + k
  BY <1>0, ElementAt DEF Acked
<1>5. removed = sack.ack - 1 - Acked
  <2>1. CASE \E k \in 0 .. swin.count - 1 : FirstAt(swin, sack.ack, k)
    <3>1. removed \in 0 .. swin.count - 1 /\ FirstAt(swin, sack.ack, removed)
      BY <1>1, <2>1 DEF Removed
    <3>2. win_get_index(swin, removed).seq = sack.ack  BY <3>1 DEF FirstAt
    <3>3. win_get_index(swin, removed).seq = Acked + 1 + removed  BY <1>4, <3>1
    <3> QED BY <1>2, <1>3, <3>1, <3>2, <3>3
  <2>2. CASE ~\E k \in 0 .. swin.count - 1 : FirstAt(swin, sack.ack, k)
    <3>1. removed = swin.count  BY <1>1, <2>2 DEF Removed
    <3>2. sack.ack = Acked + swin.count + 1
      <4> SUFFICES ASSUME sack.ack # Acked + swin.count + 1
                   PROVE  FALSE
        OBVIOUS
      <4> DEFINE k == sack.ack - 1 - Acked
      <4>1. k \in 0 .. swin.count - 1 /\ Acked + 1 + k = sack.ack
        BY <1>2, <1>3
      <4> HIDE DEF k
      <4>2. win_get_index(swin, k).seq = sack.ack  BY <1>4, <4>1
      <4>3. \A j \in 0 .. k - 1 : win_get_index(swin, j).seq # sack.ack
        BY <1>2, <1>4, <4>1
      <4>4. FirstAt(swin, sack.ack, k)  BY <4>1, <4>2, <4>3 DEF FirstAt
      <4> QED BY <2>2, <4>1, <4>4
    <3> QED BY <1>2, <1>3, <3>1, <3>2
  <2> QED BY <2>1, <2>2
<1> QED BY <1>1, <1>2, <1>3, <1>5

LEMMA AckInv ==
  ASSUME TAssumed, TInv, SAck, UNCHANGED <<clientVars, netVars>>
  PROVE  TInv'
<1>0. Assumed /\ SInv  BY DEF TInv, TAssumed
<1>1. SInv'
  <2>1. SNext  BY DEF SNext, SLocal
  <2> QED BY <1>0, <2>1, SStepInv
<1>2. UNCHANGED <<toClient, toServer, clientIcmp, serverIcmp, sent>>
  BY DEF netVars, SAck
<1>3. IcmpOK' /\ SegmentsOK'
  BY <1>2 DEF TInv, IcmpOK, SegmentsOK
<1>4. /\ Acked' = sack.ack - 1 /\ swin'.rwin_adv = sack.win
      /\ Acked' + swin'.count = Acked + swin.count
      /\ swin'.count \in Nat /\ swin'.count < swin.count /\ spc' \in {"fill", "done"}
  BY AckTaken
<1>5. /\ Acked \in Nat /\ swin.count \in Nat /\ InOrder \in Nat /\ sent \in Nat
      /\ RightEdge \in Nat /\ RightEdge >= InOrder /\ SeqMod \in Nat /\ U16 \in Nat
      /\ LastSeg \in Nat
  BY TNumbers DEF TInv
<1>6. /\ AckOK(sack) /\ \A i \in 1 .. Len(toServer) : sack.ack <= toServer[i].ack
  BY DEF SAck, TInv, SackOK
<1>7. sack.ack \in Nat /\ sack.win \in Nat  BY <1>5, <1>6 DEF AckOK, Packet
<1>8. AcksOK'
  <2>1. Acked' + 1 = sack.ack  BY <1>4, <1>7
  <2>2. \A i \in 1 .. Len(toServer) :
          /\ toServer[i] \in Packet
          /\ toServer[i].ack >= Acked' + 1 /\ toServer[i].ack <= InOrder' + 1
          /\ toServer[i].ack - 1 + toServer[i].win <= RightEdge'
          /\ toServer[i].ack = LastSeg + 1 => FinTold'
    <3>1. \A i \in 1 .. Len(toServer) : toServer[i].ack >= sack.ack
      <4>1. \A pkt \in Packet : pkt.ack \in Nat  BY <1>5 DEF Packet
      <4>2. \A i \in 1 .. Len(toServer) : toServer[i].ack \in Nat
        BY <4>1 DEF TInv, AcksOK, AckOK
      <4> QED BY <1>6, <1>7, <4>2
    <3> QED BY <2>1, <3>1, ClientSame DEF TInv, AcksOK, AckOK
  <2> QED BY <1>2, <2>2 DEF TInv, AcksOK, AckOK
<1>9. SackOK'  BY <1>4 DEF SackOK
<1>10. ServerOK'
  <2>1. sent' <= Acked' + swin'.count  BY <1>2, <1>4 DEF TInv, ServerOK
  <2>2. Acked' <= InOrder' /\ Acked' + swin'.rwin_adv <= RightEdge'
        /\ (Acked' = LastSeg => FinTold')
    <3>1. /\ sack.ack <= InOrder + 1 /\ sack.ack - 1 + sack.win <= RightEdge
          /\ sack.ack = LastSeg + 1 => FinTold
      BY <1>6 DEF AckOK
    <3>2. InOrder' = InOrder /\ RightEdge' = RightEdge  BY ClientSame
    <3>3. Acked' = LastSeg => sack.ack = LastSeg + 1  BY <1>4, <1>5, <1>7
    <3>4. FinTold' = FinTold  BY ClientSame
    <3>5. Acked' = LastSeg => FinTold'  BY <3>1, <3>3, <3>4, Zenon
    <3>6. Acked' <= InOrder' /\ Acked' + swin'.rwin_adv <= RightEdge'
      BY <1>4, <1>5, <1>7, <3>1, <3>2
    <3> QED BY <3>5, <3>6
  <2>3. Acked' + swin'.count <= RightEdge'
    <3>1. CASE Acked + swin.count <= RightEdge  BY <1>4, <3>1, ClientSame
    <3>2. CASE swin.count = 1
      <4>1. swin'.count = 0  BY <1>4, <3>2
      <4> QED BY <1>4, <1>5, <1>7, <2>2, <4>1, ClientSame
    <3> QED BY <3>1, <3>2 DEF TInv, ServerOK
  <2> QED BY <1>4, <2>1, <2>2, <2>3 DEF ServerOK
<1>11. sent' >= sent  BY <1>2, <1>5
<1> QED BY <1>1, <1>3, <1>8, <1>9, <1>10, <1>11, ServerFrame

\* A segment of the window is sent, or send() fails.
LEMMA SendInv ==
  ASSUME TAssumed, TInv, ServerSend, UNCHANGED clientVars
  PROVE  TInv'
<1>0. /\ Assumed /\ SInv /\ SSend(~serverIcmp) /\ serverIcmp' = FALSE
      /\ UNCHANGED <<toServer, clientIcmp>>
      /\ toClient' \in IF serverIcmp THEN {toClient} ELSE Transmit(toClient, ToSend)
  BY DEF TInv, TAssumed, ServerSend
<1>1. SInv'
  <2>1. (~serverIcmp) \in BOOLEAN  BY Zenon
  <2>2. \E ok \in BOOLEAN : SSend(ok)  BY <1>0, <2>1, Zenon
  <2>3. SNext  BY <2>2 DEF SNext
  <2> QED BY <1>0, <2>3, SStepInv
<1>2. IcmpOK'
  <2>1. serverIcmp' \in BOOLEAN  BY <1>0, Zenon
  <2> QED BY <1>0, <2>1 DEF TInv, IcmpOK
<1>3. /\ Acked \in Nat /\ swin.count \in Nat /\ sent \in Nat /\ LastSeg \in Nat
      /\ swin \in SendWindow /\ swin.in_flight \in Nat /\ swin.in_flight < swin.count
      /\ Acked + swin.count <= LastSeg
      /\ ToSend = Segment(Acked + 1 + swin.in_flight)
      /\ ToSend.seq = Acked + 1 + swin.in_flight
  <2>1. spc = "send" /\ MoreToSend  BY <1>0 DEF SSend
  <2>2. swin.in_flight \in 0 .. swin.count - 1
        /\ ToSend.seq = Acked + 1 + swin.in_flight
    BY <1>0, <2>1, SendFacts
  <2>3. FilePart(swin)  BY <1>0, WinFacts
  <2>4. ToSend = Segment(Acked + 1 + swin.in_flight)
    BY <1>0, <2>2, <2>3, ElementAt DEF ToSend, Acked
  <2> QED BY <1>0, <2>2, <2>4, TNumbers, WinFacts DEF TInv
<1>4. /\ swin'.count = swin.count /\ swin'.rwin_adv = swin.rwin_adv
      /\ swin'.next_ack = swin.next_ack /\ spc' \in {"send", "done"}
  BY <1>0, <1>3 DEF SSend, SExit, SendWindow
<1>5. sent' >= sent /\ sent' \in Nat /\ sent' <= Acked + swin.count
      /\ (~serverIcmp => ToSend.seq <= sent')
  <2>1. sent <= Acked + swin.count  BY DEF TInv, ServerOK
  <2> QED BY <1>0, <1>3, <2>1 DEF SSend
<1>6. Acked' = Acked  BY <1>4 DEF Acked, AckedOf
<1>7. ServerOK'
  BY <1>4, <1>5, <1>6, ClientSame DEF TInv, ServerOK
<1>8. SegmentsOK'
  <2>1. /\ toClient \in Seq(FromServer) /\ Len(toClient) <= ChanCap
        /\ Len(toClient) \in Nat /\ SeqMod \in Nat
        /\ \A i \in 1 .. Len(toClient) :
             toClient[i] \in FromServer /\ toClient[i].seq <= sent
    <3>1. /\ toClient \in Seq(FromServer) /\ Len(toClient) <= ChanCap
          /\ \A i \in 1 .. Len(toClient) : toClient[i].seq <= sent
      BY DEF TInv, SegmentsOK
    <3>2. Len(toClient) \in Nat /\ \A i \in 1 .. Len(toClient) : toClient[i] \in FromServer
      BY <3>1, LenProperties, ElementOfSeq
    <3> QED BY <3>1, <3>2, SConstants DEF TAssumed
  <2>2. \A i \in 1 .. Len(toClient) : toClient[i].seq \in Nat
    <3>1. \A pkt \in FromServer : pkt \in Packet  BY FromServerPackets DEF TAssumed
    <3>2. \A pkt \in FromServer : pkt.seq \in Nat  BY <2>1, <3>1 DEF Packet
    <3> QED BY <2>1, <3>2
  <2>3. \A i \in 1 .. Len(toClient) : toClient[i].seq <= sent'
    BY <1>3, <1>5, <2>1, <2>2
  <2>4. CASE toClient' = toClient  BY <2>1, <2>3, <2>4 DEF SegmentsOK
  <2>5. CASE toClient' # toClient
    <3>1. toClient' \in Transmit(toClient, ToSend) /\ ~serverIcmp  BY <1>0, <2>5
    <3>2. ToSend \in FromServer
      <4>1. Acked + 1 + swin.in_flight \in 1 .. LastSeg  BY <1>3
      <4> QED BY <1>3, <4>1 DEF FromServer
    <3>3. /\ toClient' \in Seq(FromServer) /\ Len(toClient') <= ChanCap
          /\ Len(toClient') = Len(toClient) + 1
          /\ toClient'[Len(toClient) + 1] = ToSend
          /\ \A i \in 1 .. Len(toClient) : toClient'[i] = toClient[i]
      BY <2>1, <2>5, <3>1, <3>2, TransmitFacts
    <3> QED BY <1>5, <2>1, <2>3, <3>1, <3>3 DEF SegmentsOK
  <2> QED BY <2>4, <2>5
<1> QED BY <1>0, <1>1, <1>2, <1>4, <1>5, <1>6, <1>7, <1>8, QuietStep

\* An ACK arrives at the server.
LEMMA RecvInv ==
  ASSUME TAssumed, TInv, ServerRecv, UNCHANGED clientVars
  PROVE  TInv'
<1>0. /\ Assumed /\ SInv /\ toServer # << >> /\ SRecv(Head(toServer))
      /\ toServer' = Tail(toServer) /\ UNCHANGED <<toClient, clientIcmp, serverIcmp>>
  BY DEF TInv, TAssumed, ServerRecv
<1> DEFINE pkt == Head(toServer)
<1>1. /\ spc = "recv" /\ sent' = sent
      /\ \/ swin' = swin
         \/ swin' = [swin EXCEPT !.dup_ack = swin.dup_ack + 1]
      /\ \/ spc' = spc
         \/ spc' = "acked" /\ sack' = pkt
  BY <1>0 DEF SRecv, Receiving
<1>2. /\ swin'.count = swin.count /\ swin'.rwin_adv = swin.rwin_adv
      /\ swin'.next_ack = swin.next_ack
  <2>1. swin \in SendWindow  BY <1>0, WinFacts
  <2> QED BY <1>1, <2>1 DEF SendWindow
<1>3. Acked' = Acked  BY <1>2 DEF Acked, AckedOf
<1>4. /\ AcksOK' /\ AckOK(pkt) /\ pkt = toServer[1]
      /\ \A i \in 1 .. Len(toServer') : pkt.ack <= toServer'[i].ack
  BY <1>0, <1>3, AcksTail DEF TInv
<1>5. pkt \in Packet  BY <1>4 DEF AckOK
<1> HIDE DEF pkt
<1>6. SInv'  BY <1>0, <1>5, SRecvInv DEF pkt
<1>7. SackOK'
  <2> SUFFICES ASSUME spc' = "acked" PROVE SackOK'
    BY DEF SackOK
  <2>1. sack' = pkt  BY <1>1
  <2>2. /\ pkt.ack >= Acked' + 1 /\ pkt.ack <= InOrder' + 1
        /\ pkt.ack - 1 + pkt.win <= RightEdge'
        /\ pkt.ack = LastSeg + 1 => FinTold'
    BY <1>3, <1>4, ClientSame DEF AckOK
  <2> QED BY <1>4, <1>5, <2>1, <2>2 DEF SackOK, AckOK
<1>8. ServerOK'
  BY <1>1, <1>2, <1>3, SameCounts
<1>9. IcmpOK' /\ SegmentsOK' /\ sent' >= sent
  BY <1>0, <1>1, TNumbers DEF TInv, IcmpOK, SegmentsOK
<1> QED BY <1>4, <1>6, <1>7, <1>8, <1>9, ServerFrame

\* recv() returns an error.
LEMMA RecvErrorInv ==
  ASSUME TAssumed, TInv, ServerRecvError, UNCHANGED clientVars
  PROVE  TInv'
<1>0. /\ Assumed /\ SInv /\ SRecvFails /\ serverIcmp' = FALSE
      /\ UNCHANGED <<toClient, toServer, clientIcmp>>
  BY DEF TInv, TAssumed, ServerRecvError
<1>1. SInv'
  <2>1. SNext  BY <1>0 DEF SNext
  <2> QED BY <1>0, <2>1, SStepInv
<1>2. swin' = swin /\ sent' = sent /\ spc' = "done"
  BY <1>0 DEF SRecvFails, SExit
<1>3. Acked' = Acked  BY <1>2 DEF Acked, AckedOf
<1>4. ServerOK'  BY <1>2, <1>3, SameCounts
<1>5. IcmpOK'
  <2>1. serverIcmp' \in BOOLEAN  BY <1>0, Zenon
  <2> QED BY <1>0, <2>1 DEF TInv, IcmpOK
<1>6. SegmentsOK' /\ sent' >= sent
  BY <1>0, <1>2, TNumbers DEF TInv, SegmentsOK
<1> QED BY <1>0, <1>1, <1>2, <1>3, <1>4, <1>5, <1>6, QuietStep

\* A packet arrives at a closed port.
LEMMA ClosedPortInv ==
  ASSUME TAssumed, TInv, ClosedPort
  PROVE  TInv'
<1>1. UNCHANGED <<clientVars, serverVars>>  BY DEF ClosedPort
<1>2. SInv'  BY <1>1, SStutterInv DEF TInv
<1>3. UNCHANGED <<swin, spc, sack, sent>>  BY <1>1 DEF serverVars
<1>4. Acked' = Acked  BY <1>3 DEF Acked, AckedOf
<1>5. sent' >= sent  BY <1>3, TNumbers DEF TInv
<1>6. ServerOK'  BY <1>1, <1>3, <1>4, SameCounts DEF TInv, ServerOK
<1>7. CASE /\ toClient # << >> /\ toClient' = Tail(toClient) /\ serverIcmp' = TRUE
           /\ UNCHANGED <<toServer, clientIcmp>>
  <2>1. IcmpOK'
    <3>1. serverIcmp' \in BOOLEAN  BY <1>7, Zenon
    <3> QED BY <1>7, <3>1 DEF TInv, IcmpOK
  <2>2. SegmentsOK'
    <3>1. /\ toClient \in Seq(FromServer) /\ Len(toClient) <= ChanCap
          /\ \A i \in 1 .. Len(toClient) : toClient[i].seq <= sent
      BY DEF TInv, SegmentsOK
    <3>2. ChanCap \in Nat  BY NetAssumption
    <3> QED BY <1>3, <1>7, <3>1, <3>2, TailFacts DEF SegmentsOK
  <2> QED BY <1>1, <1>2, <1>3, <1>4, <1>5, <1>6, <1>7, <2>1, <2>2, QuietStep
<1>8. CASE /\ toServer # << >> /\ toServer' = Tail(toServer) /\ clientIcmp' = TRUE
           /\ UNCHANGED <<toClient, serverIcmp>>
  <2>1. IcmpOK'
    <3>1. clientIcmp' \in BOOLEAN  BY <1>8, Zenon
    <3> QED BY <1>8, <3>1 DEF TInv, IcmpOK
  <2>2. SegmentsOK'  BY <1>3, <1>8 DEF TInv, SegmentsOK
  <2>3. /\ AcksOK'
        /\ \A n \in Int : (\A i \in 1 .. Len(toServer) : n <= toServer[i].ack)
                             => \A i \in 1 .. Len(toServer') : n <= toServer'[i].ack
    BY <1>1, <1>4, <1>8, AcksTail DEF TInv
  <2>4. SackOK'
    <3> SUFFICES ASSUME spc = "acked" PROVE SackOK'
      BY <1>3 DEF SackOK
    <3>1. AckOK(sack) /\ \A i \in 1 .. Len(toServer) : sack.ack <= toServer[i].ack
      BY DEF TInv, SackOK
    <3>2. sack.ack \in Int  BY <3>1, SConstants DEF AckOK, Packet, TAssumed
    <3>3. \A i \in 1 .. Len(toServer') : sack.ack <= toServer'[i].ack
      BY <2>3, <3>1, <3>2
    <3> QED BY <1>1, <1>3, <1>4, <3>1, <3>3, ClientSame DEF SackOK, AckOK
  <2> QED BY <1>1, <1>2, <1>5, <1>6, <2>1, <2>2, <2>3, <2>4, ServerFrame
<1> QED BY <1>7, <1>8 DEF ClosedPort

LEMMA StutterInv ==
  ASSUME TAssumed, TInv, UNCHANGED vars
  PROVE  TInv'
<1>1. UNCHANGED <<clientVars, serverVars, toClient, toServer, clientIcmp, serverIcmp>>
  BY DEF vars, netVars
<1>2. SInv'  BY <1>1, SStutterInv DEF TInv
<1>3. UNCHANGED <<swin, spc, sack, sent>>  BY <1>1 DEF serverVars
<1>4. Acked' = Acked  BY <1>3 DEF Acked, AckedOf
<1>5. sent' >= sent  BY <1>3, TNumbers DEF TInv
<1>6. ServerOK'  BY <1>1, <1>3, <1>4, SameCounts DEF TInv, ServerOK
<1>7. IcmpOK' /\ SegmentsOK'  BY <1>1, <1>3 DEF TInv, IcmpOK, SegmentsOK
<1> QED BY <1>1, <1>2, <1>3, <1>4, <1>5, <1>6, <1>7, QuietStep

-----------------------------------------------------------------------------
(* The invariant of the transfer. *)

LEMMA TInvInit ==
  ASSUME TAssumed, Init
  PROVE  TInv
<1>0. Assumed /\ NoWrap  BY DEF TAssumed
<1>1. CInv  BY <1>0, CInvInit DEF Init
<1>2. SInv  BY <1>0, InitInv DEF Init
<1>3. /\ LastSeg \in Nat /\ LastSeg >= 1 /\ SeqMod \in Nat \ {0} /\ SeqMod > 3
      /\ ClientWin \in Nat /\ ClientWin > 0 /\ ClientAdv = ClientWin /\ ChanCap \in Nat \ {0}
      /\ NChunks \in Nat
  BY <1>0, SConstants, Constants, NetAssumption
<1>4. /\ rwin.next_seq = 1 /\ rwin.count = 0 /\ rwin.size = ClientWin
      /\ \A i \in 0 .. ClientWin - 1 : ~rwin.buf[i].valid
  BY DEF Init, CInit, win_init
<1>5. InOrder = 0 /\ RightEdge = ClientWin
  BY <1>3, <1>4 DEF InOrder, InOrderOf, RightEdge, win_available
<1>6. swin.count = 0 /\ swin.rwin_adv = ClientWin /\ swin.next_ack = (1 + 1) % SeqMod
  BY <1>3 DEF Init, SInit, win_init, init_seq
<1>7. Acked = 0
  <2>1. 2 % SeqMod = 2
    <3>1. 2 \in 0 .. SeqMod - 1  BY <1>3
    <3> QED BY <1>3, <3>1, SmallMod
  <2>2. 1 + 1 = 2  OBVIOUS
  <2> QED BY <1>6, <2>1, <2>2 DEF Acked, AckedOf
<1>8. /\ sent = 0 /\ spc = "fill" /\ ppc = "select" /\ err = FALSE /\ client = "up"
      /\ exit_status = "running"
  BY DEF Init, CInit, SInit
<1>9. IcmpOK  BY DEF Init, IcmpOK
<1>10. AcksOK /\ SackOK  BY <1>3, <1>8 DEF Init, AcksOK, SackOK
<1>11. SegmentsOK
  <2>1. SynAck \in FromServer /\ SynAck.seq = 0
    BY DEF FromServer, SynAck, build_pkt
  <2>2. /\ << >> \in Seq(FromServer) /\ Len(<< >>) = 0
        /\ <<SynAck>> \in Seq(FromServer) /\ Len(<<SynAck>>) = 1
        /\ <<SynAck>>[1] = SynAck
    BY <2>1
  <2>3. toClient \in Seq(FromServer) /\ Len(toClient) <= ChanCap
    <3>1. toClient = << >> \/ toClient = <<SynAck>>  BY DEF Init
    <3>2. Len(toClient) = 0 \/ Len(toClient) = 1  BY <2>2, <3>1, Zenon
    <3>3. toClient \in Seq(FromServer)  BY <2>2, <3>1, Zenon
    <3> QED BY <1>3, <3>2, <3>3
  <2>4. \A i \in 1 .. Len(toClient) : toClient[i].seq <= sent
    <3>1. CASE toClient = << >>  BY <3>1
    <3>2. CASE toClient = <<SynAck>>
      <4>1. \A i \in 1 .. Len(toClient) : toClient[i] = SynAck  BY <3>2
      <4> QED BY <1>8, <2>1, <4>1
    <3> QED BY <3>1, <3>2 DEF Init
  <2> QED BY <2>3, <2>4 DEF SegmentsOK
<1>12. ReceivedOK  BY <1>4, <1>5, <1>8 DEF ReceivedOK
<1>13. ProducerOK  BY <1>3, <1>5, <1>8 DEF ProducerOK
<1>14. ServerOK  BY <1>3, <1>5, <1>6, <1>7, <1>8 DEF ServerOK
<1> QED BY <1>1, <1>2, <1>9, <1>10, <1>11, <1>12, <1>13, <1>14 DEF TInv

LEMMA TInvNext ==
  ASSUME TAssumed, TInv, [Next]_vars
  PROVE  TInv'
<1>1. CASE ClientStep \/ ConsumerStep  BY <1>1, ClientStepInv
<1>2. CASE (ServerSend \/ ServerRecv \/ ServerRecvError) /\ UNCHANGED clientVars
  BY <1>2, SendInv, RecvInv, RecvErrorInv
<1>3. CASE SLocal /\ UNCHANGED <<clientVars, netVars>>
  BY <1>3, LocalInv, AckInv DEF SLocal
<1>4. CASE ServerAlarm \/ ServerFileError
  BY <1>4, LocalInv DEF ServerAlarm, ServerFileError
<1>5. CASE ClosedPort  BY <1>5, ClosedPortInv
<1>6. CASE UNCHANGED vars  BY <1>6, StutterInv
<1> QED BY <1>1, <1>2, <1>3, <1>4, <1>5, <1>6 DEF Next, ServerStep

\* stcp.c, server.c:260-533, client.c:242-310: what the two ends and the network
\* between them know of each other, in every execution.
THEOREM TransferInvariant ==
  ASSUME TAssumed
  PROVE  Spec => []TInv
<1>1. Init => TInv  BY TInvInit
<1>2. TInv /\ [Next]_vars => TInv'  BY TInvNext
<1> QED BY <1>1, <1>2, PTL DEF Spec

\* All variables, the packets on their way included, keep their types.
THEOREM TransferTypes ==
  ASSUME TAssumed
  PROVE  Spec => []TypeOK
<1>1. TInv => TypeOK
  <2> SUFFICES ASSUME TInv PROVE TypeOK
    OBVIOUS
  <2>1. toClient \in Seq(Packet)
    <3>1. FromServer \subseteq Packet  BY FromServerPackets DEF TAssumed
    <3>2. toClient \in Seq(FromServer)  BY DEF TInv, SegmentsOK
    <3>3. \A i \in 1 .. Len(toClient) : toClient[i] \in Packet
      BY <3>1, <3>2, ElementOfSeq
    <3> QED BY <3>2, <3>3, LenProperties
  <2> QED BY <2>1 DEF TInv, CInv, SInv, SafeInv, IcmpOK, AcksOK, SegmentsOK, TypeOK, NTypeOK
<1> QED BY <1>1, TransferInvariant, PTL

\* What win_remove_ack takes from the server's window the client has in order.
THEOREM TransferAcked ==
  ASSUME TAssumed
  PROVE  Spec => []AckedIsBuffered
<1>1. TInv => AckedIsBuffered  BY DEF TInv, ServerOK, AckedIsBuffered
<1> QED BY <1>1, TransferInvariant, PTL

\* The server succeeds only when the client has the whole file and the FIN.
THEOREM TransferSuccess ==
  ASSUME TAssumed
  PROVE  Spec => []ServerSuccessMeansFinBuffered
<1>1. TInv => ServerSuccessMeansFinBuffered
  BY TNumbers DEF TInv, ServerOK, SInv, SuccessMeansAllAcked, ServerSuccessMeansFinBuffered
<1> QED BY <1>1, TransferInvariant, PTL

\* When the server succeeds the client does not fail.  For an empty file it
\* would: its consumer returns NULL to main, which takes that for a failure.
THEOREM TransferAgrees ==
  ASSUME TAssumed, NChunks > 0
  PROVE  Spec => []NoSplitOutcome
<1>1. TInv => NoSplitOutcome
  BY Constants DEF TInv, ServerOK, SInv, SuccessMeansAllAcked, FinTold, ProducerOK,
                   NoSplitOutcome, TAssumed
<1> QED BY <1>1, TransferInvariant, PTL

\* Each segment that is sent is one of the server's window.
LEMMA SentBound ==
  ASSUME TAssumed, TInv, [Next]_vars
  PROVE  sent' <= Acked + swin.count
<1>1. sent <= Acked + swin.count /\ Assumed /\ SInv
  BY DEF TInv, ServerOK, TAssumed
<1>2. CASE ServerSend
  <2>1. PICK ok \in BOOLEAN : SSend(ok)
    <3>1. (~serverIcmp) \in BOOLEAN  BY Zenon
    <3>2. SSend(~serverIcmp)  BY <1>2 DEF ServerSend
    <3> QED BY <3>1, <3>2, Zenon
  <2>2. swin.in_flight \in 0 .. swin.count - 1
        /\ ToSend.seq = Acked + 1 + swin.in_flight
    BY <1>1, <2>1, SendFacts DEF SSend
  <2>3. sent' = sent \/ sent' = ToSend.seq  BY <2>1 DEF SSend
  <2> QED BY <1>1, <2>2, <2>3, TNumbers DEF TInv
<1>3. CASE ~ServerSend
  <2>1. sent' = sent
    BY <1>3 DEF Next, ClientStep, ConsumerStep, ServerStep, ServerAlarm, ServerFileError,
                ClosedPort, vars, serverVars, SLocal, SFile, SFill, SFilled, SProbeRead,
                SProbeAdd, SProbeEof, SWait, SFastRetransmit, SAck, SRto, SAlarm,
                SFillFails, SProbeFails, ServerRecv, SRecv, ServerRecvError, SRecvFails
  <2> QED BY <1>1, <2>1
<1> QED BY <1>2, <1>3

\* The server keeps to the client's window, but for a probe of a closed one.
THEOREM TransferFlowControl ==
  ASSUME TAssumed
  PROVE  Spec => FlowControl
<1>1. TInv /\ [Next]_vars =>
        [Up /\ sent' > RightEdge =>
           sent' = RightEdge + 1 /\ swin.rwin_adv = 0 /\ swin.count = 1]_vars
  <2> SUFFICES ASSUME TInv, [Next]_vars, sent' > RightEdge
               PROVE  sent' = RightEdge + 1 /\ swin.rwin_adv = 0 /\ swin.count = 1
    BY Zenon
  <2>1. sent' <= Acked + swin.count  BY SentBound
  <2>2. sent' \in Nat
    <3>1. SInv'  BY TInvNext DEF TInv
    <3> QED BY <3>1 DEF SInv, SafeInv, STypeOK
  <2>3. /\ Acked \in Nat /\ swin.count \in Nat /\ InOrder \in Nat /\ RightEdge \in Nat
        /\ RightEdge >= InOrder
    BY TNumbers DEF TInv
  <2>4. Acked + swin.count <= RightEdge \/ (swin.rwin_adv = 0 /\ swin.count = 1)
    BY DEF TInv, ServerOK
  <2>5. Acked <= InOrder  BY DEF TInv, ServerOK
  <2> QED BY <2>1, <2>2, <2>3, <2>4, <2>5
<1> QED BY <1>1, TransferInvariant, PTL DEF Spec, FlowControl

-----------------------------------------------------------------------------
(* The refinement. *)

\* The steps of the server that end it, and those that do not.
LEMMA ServerEnds ==
  ASSUME TAssumed, TInv, TInv', UNCHANGED clientVars,
         \/ server' = server
         \/ server = "up" /\ server' \in {"success", "failure"}
  PROVE  [Delivery!Next]_(Delivery!vars)
<1>1. InOrder' = InOrder /\ printed' = printed /\ client' = client
  BY ClientSame DEF clientVars, cvars
<1>2. CASE server' = server  BY <1>1, <1>2 DEF Delivery!vars
<1>3. CASE server = "up" /\ server' \in {"success", "failure"}
  <2>1. server' = "success" => InOrder = NChunks + 1
    <3>1. server' = "success" => Acked' = LastSeg /\ Acked' <= InOrder'
      BY DEF TInv, SInv, SuccessMeansAllAcked, ServerOK
    <3>2. InOrder \in 0 .. LastSeg /\ LastSeg = NChunks + 1 /\ NChunks \in Nat
      BY TNumbers, Constants DEF TInv, TAssumed
    <3> QED BY <1>1, <3>1, <3>2
  <2>2. Delivery!SenderEnds(server')
    BY <1>1, <1>3, <2>1 DEF Delivery!SenderEnds
  <2> QED BY <1>3, <2>2 DEF Delivery!Next
<1> QED BY <1>2, <1>3

\* The client's steps: those of its end alone, while the server's stays.
LEMMA ClientDelivery ==
  ASSUME TAssumed, TInv, TInv', ClientMoves, server' = server
  PROVE  [Delivery!Next]_(Delivery!vars)
<1>1. NoWrap /\ CInv /\ CInv'  BY DEF TInv, TAssumed
<1>2. CNext  BY DEF ClientMoves, CNext
<1>3. [Reception!Next]_(Reception!vars)  BY <1>1, <1>2, ClientReceives
<1>4. CASE Reception!Accept
  BY <1>4 DEF Reception!Accept, Delivery!Accept, Delivery!Next
<1>5. CASE Reception!Consume
  BY <1>5 DEF Reception!Consume, Delivery!Consume, Delivery!Next
<1>6. ASSUME NEW result \in {"success", "failure"}, Reception!SenderEnds(result)
      PROVE  FALSE
  BY <1>6 DEF Reception!SenderEnds
<1>7. ASSUME NEW result \in {"success", "failure"}, Reception!ReceiverEnds(result)
      PROVE  [Delivery!Next]_(Delivery!vars)
  BY <1>7 DEF Reception!ReceiverEnds, Delivery!ReceiverEnds, Delivery!Next
<1>8. CASE UNCHANGED Reception!vars  BY <1>8 DEF Reception!vars, Delivery!vars
<1> QED BY <1>3, <1>4, <1>5, <1>6, <1>7, <1>8 DEF Reception!Next

\* Client, server and network together implement FileDelivery: README.md's
\* reliable transfer of a file over UDP.
THEOREM TransferImplements ==
  ASSUME TAssumed
  PROVE  Spec => ImplementsFileDelivery
<1>1. Init => Delivery!Init
  <2> SUFFICES ASSUME Init PROVE Delivery!Init
    OBVIOUS
  <2>1. InOrder = 0  BY DEF Init, CInit, win_init, InOrder, InOrderOf
  <2> QED BY <2>1 DEF Init, CInit, SInit, Delivery!Init
<1>2. TInv /\ TInv' /\ [Next]_vars => [Delivery!Next]_(Delivery!vars)
  <2> SUFFICES ASSUME TInv, TInv', [Next]_vars
               PROVE  [Delivery!Next]_(Delivery!vars)
    OBVIOUS
  <2>1. CASE ClientStep \/ ConsumerStep
    <3>1. server' = server
      BY <2>1 DEF ClientStep, ConsumerStep, serverVars
    <3>2. ClientMoves
      <4>1. CASE ClientRecv
        <5>1. /\ toClient \in Seq(FromServer) /\ toClient # << >>
              /\ \A i \in 1 .. Len(toClient) : toClient[i].seq <= sent
          BY <4>1 DEF TInv, SegmentsOK, ClientRecv
        <5>2. Head(toClient) \in FromServer /\ Head(toClient).seq <= sent
          BY <5>1, TailFacts
        <5> QED BY <4>1, <5>2 DEF ClientRecv, ClientMoves
      <4>2. CASE ClientReply
        <5>1. (~clientIcmp) \in BOOLEAN  BY Zenon
        <5>2. PReply(~clientIcmp)  BY <4>2 DEF ClientReply
        <5>3. \E ok \in BOOLEAN : PReply(ok)  BY <5>1, <5>2, Zenon
        <5> QED BY <5>3 DEF ClientMoves
      <4>3. CASE ClientRecvError \/ ClientTimeout \/ ProducerLocal \/ Consumer
        BY <4>3 DEF ClientRecvError, ClientTimeout, ClientMoves
      <4> QED BY <2>1, <4>1, <4>2, <4>3 DEF ClientStep, ConsumerStep
    <3> QED BY <3>1, <3>2, ClientDelivery
  <2>2. CASE ServerStep \/ ServerAlarm \/ ServerFileError
    <3>1. UNCHANGED clientVars
      BY <2>2 DEF ServerStep, ServerAlarm, ServerFileError
    <3>2. server' = server \/ (server = "up" /\ server' \in {"success", "failure"})
      BY <2>2 DEF ServerStep, ServerAlarm, ServerFileError, ServerSend, ServerRecv,
                  ServerRecvError, SSend, SRecv, SRecvFails, SExit, SLocal, SFile, SFill,
                  SFilled, SProbeRead, SProbeAdd, SProbeEof, SWait, SFastRetransmit, SAck,
                  SRto, SAlarm, SFillFails, SProbeFails, Receiving, TInv, SInv, SafeInv, STypeOK
    <3> QED BY <3>1, <3>2, ServerEnds
  <2>3. CASE ClosedPort \/ UNCHANGED vars
    <3>1. UNCHANGED clientVars /\ server' = server
      BY <2>3 DEF ClosedPort, vars, serverVars
    <3> QED BY <3>1, ServerEnds
  <2> QED BY <2>1, <2>2, <2>3 DEF Next
<1> QED
  BY <1>1, <1>2, TransferInvariant, PTL DEF Spec, ImplementsFileDelivery, Delivery!Spec
=============================================================================
