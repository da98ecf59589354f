----------------------------- MODULE StcpClient -----------------------------
(***************************************************************************)
(* The client after the handshake: main() of client.c running the producer *)
(* (runProducer, stcp_client_recv), which puts the segments of the file in *)
(* order in the receiving window, and the consumer thread (runConsumer,    *)
(* stcp_client_read), which prints them.  They share the window under      *)
(* stcp->mutex.                                                            *)
(*                                                                         *)
(* The actions that touch the network take what recv() returned and        *)
(* whether send() succeeded as parameters: CSpec below runs the client     *)
(* against any sequence of segments of the file, and StcpTransfer runs it  *)
(* against the server over a network.                                      *)
(***************************************************************************)
EXTENDS StcpWindow, Sequences

CONSTANT ClientWin   \* slots of the receiving window, from client.in

ASSUME ClientAssumption == ClientWin \in 1 .. U16 - 1

VARIABLES
  rwin,        \* stcp->win
  mutex,       \* stcp->mutex: who holds it
  ppc,         \* where the producer is
  pelem,       \* elem.pkt, the packet the producer last received
  pfin,        \* new_end is the FIN: the producer is done
  ptot,        \* total_bytes of runProducer
  err,         \* err of main(): the producer failed
  cpc,         \* where the consumer is
  nread, eof,  \* locals of stcp_client_read
  ctot,        \* total_bytes of runConsumer
  canceled,    \* pthread_cancel was called on the consumer
  exit_status, \* what pthread_join will return for the consumer
  client,      \* the process: "up", or how it ended
  printed      \* history: the chunks the consumer has printed

pvars == <<ppc, pelem, pfin, ptot, err, canceled>>
cvars == <<cpc, nread, eof, ctot, exit_status, printed>>
clientVars == <<rwin, mutex, pvars, cvars, client>>

\* The SYN-ACK, which the server also sends on the new port when it
\* retransmits it; the client may find it in its socket after the handshake.
SynAck == build_pkt(0, 1, 0, {"SYN", "ACK"}, 0)
FromServer == {Segment(s) : s \in 1 .. LastSeg} \cup {SynAck}

ReadBuf == MaxData * ClientWin     \* sizeof(read_buf) in runConsumer

\* The fields that only a sender uses keep the values of win_init.
RecvWindow ==
  [buf : [0 .. ClientWin - 1 -> Slot], size : {ClientWin}, count : 0 .. ClientWin,
   end : 0 .. ClientWin - 1, start : 0 .. ClientWin - 1,
   next_seq : 0 .. SeqMod - 1, next_ack : 0 .. SeqMod - 1,
   in_flight : {0}, rwin_adv : {0}, cwnd : {1}, ssthresh : {U16 - 1}, dup_ack : {0}]

CTypeOK ==
  /\ rwin \in RecvWindow
  /\ mutex \in {"free", "producer", "consumer"}
  /\ ppc \in {"select", "got", "advance", "reply", "join"}
  /\ pelem \in Packet
  /\ pfin \in BOOLEAN /\ err \in BOOLEAN /\ eof \in BOOLEAN /\ canceled \in BOOLEAN
  /\ ptot \in Nat /\ nread \in Nat /\ ctot \in Nat
  /\ cpc \in {"sleep", "lock", "read", "exited"}
  /\ exit_status \in {"running", "null", "bytes", "canceled"}
  /\ client \in {"up", "success", "failure", "crashed"}
  /\ printed \in Seq(1 .. NChunks)

CInit ==
  /\ rwin = [win_init(ClientWin, 0) EXCEPT !.next_seq = 1]  \* stcp_connect
  /\ mutex = "free"
  /\ ppc = "select" /\ pelem = NoPkt /\ pfin = FALSE
  /\ ptot = 0 /\ err = FALSE
  /\ cpc = "sleep" /\ nread = 0 /\ eof = FALSE /\ ctot = 0
  /\ canceled = FALSE /\ exit_status = "running"
  /\ client = "up" /\ printed = <<>>

Up == client = "up"

-----------------------------------------------------------------------------
(* The producer. *)

\* Variant: main does not note the error.
ProducerFails_unnoticed == ppc' = "join" /\ canceled' = TRUE /\ UNCHANGED err

\* runProducer returned -1: main cancels the consumer, then joins it.
ProducerFails ==
  /\ ppc' = "join"
  /\ err' = TRUE
  /\ canceled' = TRUE

\* recv() returned the packet pkt.
PRecv(pkt) ==
  /\ Up /\ ppc = "select"
  /\ ppc' = "got"
  /\ pelem' = pkt
  /\ UNCHANGED <<rwin, mutex, pfin, ptot, err, canceled, cvars, client>>

\* recv() failed (the server's port is closed), or select() timed out.
PRecvFails ==
  /\ Up /\ ppc = "select"
  /\ ProducerFails
  /\ UNCHANGED <<rwin, mutex, pelem, pfin, ptot, cvars, client>>

\* Lock the mutex with a packet in hand.
PLock ==
  /\ Up /\ ppc = "got" /\ mutex = "free"
  /\ UNCHANGED <<pelem, err, canceled, cvars>>

\* No room, or not a sequence number of the window: only an ACK is sent.
PDrop ==
  /\ PLock
  /\ win_full(rwin) \/ ~win_valid_seq(rwin, pelem.seq)
  /\ mutex' = "producer" /\ ppc' = "reply" /\ pfin' = FALSE
  /\ UNCHANGED <<rwin, ptot, client>>

\* Variant: the FIN is noticed only when it was buffered out of order.
PAddNext_fin_missed ==
  /\ PLock
  /\ ~win_full(rwin) /\ win_valid_seq(rwin, pelem.seq)
  /\ fwdoff(rwin, pelem.seq) = 0
  /\ mutex' = "producer" /\ ppc' = "advance"
  /\ rwin' = win_add(rwin, pelem)
  /\ pfin' = FALSE
  /\ ptot' = ptot + dlen(pelem)
  /\ UNCHANGED client

\* The expected segment.
PAddNext ==
  /\ PLock
  /\ ~win_full(rwin) /\ win_valid_seq(rwin, pelem.seq)
  /\ fwdoff(rwin, pelem.seq) = 0
  /\ mutex' = "producer" /\ ppc' = "advance"
  /\ rwin' = win_add(rwin, pelem)
  /\ pfin' = IsFin(pelem)
  /\ ptot' = ptot + dlen(pelem)
  /\ UNCHANGED client

\* A later segment of the window; win_get's NULL would be dereferenced.
PAddAhead ==
  /\ PLock
  /\ ~win_full(rwin) /\ win_valid_seq(rwin, pelem.seq)
  /\ fwdoff(rwin, pelem.seq) # 0
  /\ IF win_can_get(rwin, fwdoff(rwin, pelem.seq))
     THEN /\ mutex' = "producer" /\ ppc' = "reply" /\ pfin' = FALSE
          /\ rwin' = win_add_ahead(rwin, pelem)
          /\ UNCHANGED <<ptot, client>>
     ELSE /\ client' = "crashed"
          /\ UNCHANGED <<rwin, mutex, ppc, pfin, ptot>>

\* Variant: the bytes of segments buffered earlier are not counted.
PAdvance_bytes_missed ==
  /\ Up /\ ppc = "advance" /\ win_end_is_next(rwin)
  /\ rwin' = AdvanceEnd(rwin)
  /\ pfin' = IsFin(win_end(rwin).pkt)
  /\ UNCHANGED <<ptot, mutex, ppc, pelem, err, canceled, cvars, client>>

\* One turn of the loop that advances past segments buffered earlier.
PAdvance ==
  /\ Up /\ ppc = "advance" /\ win_end_is_next(rwin)
  /\ rwin' = AdvanceEnd(rwin)
  /\ pfin' = IsFin(win_end(rwin).pkt)
  /\ ptot' = ptot + dlen(win_end(rwin).pkt)
  /\ UNCHANGED <<mutex, ppc, pelem, err, canceled, cvars, client>>

PAdvanced ==
  /\ Up /\ ppc = "advance" /\ ~win_end_is_next(rwin)
  /\ ppc' = "reply"
  /\ UNCHANGED <<rwin, mutex, pelem, pfin, ptot, err, canceled, cvars, client>>

\* Variant: the segment just received is acknowledged, in order or not.
Ack_of_received ==
  build_pkt(0, (pelem.seq + 1) % SeqMod, win_available(rwin),
            IF pfin THEN {"ACK", "FIN"} ELSE {"ACK"}, 0)

\* The cumulative ACK with the window left, a FIN-ACK when the FIN is in order.
Ack == build_pkt(0, rwin.next_seq, win_available(rwin),
                 IF pfin THEN {"ACK", "FIN"} ELSE {"ACK"}, 0)

\* Variant: the producer goes on waiting for packets after the FIN.
PReply_never_done(sent) ==
  /\ Up /\ ppc = "reply"
  /\ mutex' = "free"
  /\ IF sent THEN ppc' = "select" /\ UNCHANGED <<err, canceled>>
     ELSE ProducerFails
  /\ UNCHANGED <<rwin, pelem, pfin, ptot, cvars, client>>

\* Send the ACK, unlock, and go back to select() unless done or in error.
PReply(sent) ==
  /\ Up /\ ppc = "reply"
  /\ mutex' = "free"
  /\ IF sent THEN /\ ppc' = IF pfin THEN "join" ELSE "select"
                  /\ UNCHANGED <<err, canceled>>
     ELSE ProducerFails
  /\ UNCHANGED <<rwin, pelem, pfin, ptot, cvars, client>>

\* pthread_join, and the exit status of the process.
PJoin ==
  /\ Up /\ ppc = "join" /\ cpc = "exited"
  /\ client' = IF exit_status = "null" \/ err THEN "failure" ELSE "success"
  /\ UNCHANGED <<rwin, mutex, pvars, cvars>>

-----------------------------------------------------------------------------
(* The consumer. *)

CWake ==
  /\ Up /\ cpc = "sleep"
  /\ cpc' = "lock"
  /\ UNCHANGED <<rwin, mutex, pvars, nread, eof, ctot, exit_status, client, printed>>

\* Variant: *nread is not cleared.
CLock_nread_kept ==
  /\ Up /\ cpc = "lock" /\ mutex = "free"
  /\ mutex' = "consumer"
  /\ cpc' = "read" /\ eof' = FALSE
  /\ UNCHANGED <<rwin, pvars, nread, ctot, exit_status, client, printed>>

CLock ==
  /\ Up /\ cpc = "lock" /\ mutex = "free"
  /\ mutex' = "consumer"
  /\ cpc' = "read" /\ nread' = 0 /\ eof' = FALSE
  /\ UNCHANGED <<rwin, pvars, ctot, exit_status, client, printed>>

\* One turn of stcp_client_read's loop.  It spins when the data does not fit.
CRead ==
  /\ Up /\ cpc = "read" /\ ~win_empty(rwin)
  /\ LET pkt == win_oldest(rwin)
     IN /\ nread + dlen(pkt) <= ReadBuf
        /\ nread' = nread + dlen(pkt)
        /\ eof' = (eof \/ IsFin(pkt))
        /\ printed' = IF pkt.data = 0 THEN printed ELSE Append(printed, pkt.data)
  /\ rwin' = win_remove(rwin)
  /\ UNCHANGED <<mutex, pvars, cpc, ctot, exit_status, client>>

\* Unlock; at end of file the thread exits with the number of bytes read as a
\* pointer, which is NULL when there were none.
CUnlock ==
  /\ Up /\ cpc = "read" /\ win_empty(rwin)
  /\ mutex' = "free"
  /\ ctot' = ctot + nread
  /\ cpc' = IF eof THEN "exited" ELSE "sleep"
  /\ exit_status' = IF ~eof THEN exit_status
                    ELSE IF ctot' = 0 THEN "null" ELSE "bytes"
  /\ UNCHANGED <<rwin, pvars, nread, eof, client, printed>>

\* Variant: cancellation stays enabled in stcp_client_read.
CCancel_anywhere ==
  /\ Up /\ cpc \in {"sleep", "lock", "read"} /\ canceled
  /\ cpc' = "exited" /\ exit_status' = "canceled"
  /\ UNCHANGED <<rwin, mutex, pvars, nread, eof, ctot, client, printed>>

\* Cancellation is enabled only outside stcp_client_read.
CCancel ==
  /\ Up /\ cpc = "sleep" /\ canceled
  /\ cpc' = "exited" /\ exit_status' = "canceled"
  /\ UNCHANGED <<rwin, mutex, pvars, nread, eof, ctot, client, printed>>

-----------------------------------------------------------------------------
ProducerLocal == PDrop \/ PAddNext \/ PAddAhead \/ PAdvance \/ PAdvanced \/ PJoin
Consumer == CWake \/ CLock \/ CRead \/ CUnlock \/ CCancel

\* The client against an environment that may deliver any packet of the
\* server at any time, any number of times, and fail any call.
CNext ==
  \/ \E pkt \in FromServer : PRecv(pkt)
  \/ PRecvFails
  \/ ProducerLocal
  \/ \E sent \in BOOLEAN : PReply(sent)
  \/ Consumer
  \/ ~Up /\ UNCHANGED clientVars

CSpec == CInit /\ [][CNext]_clientVars

-----------------------------------------------------------------------------
(* Properties.  Sequence numbers do not wrap in a file of fewer than SeqMod  *)
(* segments: NoWrap is the assumption under which the rest is stated.        *)
NoWrap == NChunks + 2 * ClientWin + 2 < SeqMod

\* The consumer prints the chunks of the file in order, without gap or
\* repetition, whatever the order and number of their arrivals.
DeliveredInOrder == \A i \in 1 .. Len(printed) : printed[i] = i

\* Segments in order so far, and how many of them the consumer has read.
InOrderOf(win) == win.next_seq - 1
ConsumedOf(win) == InOrderOf(win) - win.count
InOrder  == InOrderOf(rwin)
Consumed == ConsumedOf(rwin)

\* The ring of the receiving window.  A valid slot holds the segment that
\* belongs there, of the range between the oldest element not yet read and the
\* advertised right edge; every segment before next_seq and not yet read is
\* there; a segment is in at most one slot.
SlotOf(s) == (s - 1) % ClientWin
Ring(win) ==
  /\ win.end = InOrderOf(win) % ClientWin
  /\ win.start = ConsumedOf(win) % ClientWin
  /\ \A i \in 0 .. ClientWin - 1 : win.buf[i].valid =>
       \E s \in ConsumedOf(win) + 1 .. ConsumedOf(win) + ClientWin :
         s <= LastSeg /\ SlotOf(s) = i /\ win.buf[i].pkt = Segment(s)
  /\ \A s \in ConsumedOf(win) + 1 .. InOrderOf(win) : win.buf[SlotOf(s)].valid
WindowShape == Ring(rwin)

\* No byte is lost or counted twice between the two threads: the producer has
\* counted the bytes of the segments in order, the consumer those it has read.
\* It holds at every step, also inside the critical sections.
Bytes(n) == IF n < NChunks THEN n * MaxData ELSE FileSize
BytesCounted ==
  Up => /\ ptot = Bytes(InOrder)
        /\ ctot + (IF cpc = "read" THEN nread ELSE 0) = Bytes(Consumed)

\* The consumer holds the mutex only inside stcp_client_read and the producer
\* only while it handles a packet: a canceled consumer never leaves it locked.
MutexOwned ==
  Up => /\ mutex = "consumer" <=> cpc = "read"
        /\ mutex = "producer" <=> ppc \in {"advance", "reply"}

\* stcp_client_read never spins on an element that does not fit in read_buf,
\* which it would do for ever with the mutex locked.
ReadFits ==
  cpc = "read" /\ ~win_empty(rwin) =>
    nread + dlen(win_oldest(rwin)) <= ReadBuf

\* A client that exits with success has printed the whole file.
SuccessMeansWholeFile == client = "success" => Len(printed) = NChunks

\* The client never dereferences the NULL of win_get.
NoCrash == client # "crashed"

\* The right edge of the window, which the server was promised, never moves
\* left, and the cumulative ACK never goes back.
EdgeNeverShrinks ==
  [][/\ rwin'.next_seq >= rwin.next_seq
     /\ rwin'.next_seq + win_available(rwin') >= rwin.next_seq + win_available(rwin)]_clientVars

\* The client is the receiver of FileDelivery, whatever the other end and the
\* network do: segments may arrive in any order, any number of times or never,
\* and calls fail.  What the sender knows of it is StcpTransfer's.
Reception == INSTANCE FileDelivery WITH
  N        <- NChunks,
  accepted <- InOrder,
  consumed <- printed,
  sender   <- "up",
  receiver <- client
ImplementsReception == Reception!Spec
=============================================================================
