----------------------------- MODULE StcpWindow -----------------------------
(***************************************************************************)
(* Segments and the circular buffer `Window' of stcp.h/stcp.c, which the   *)
(* client uses to put received segments in order and the server uses to    *)
(* keep what it may have to send again.                                    *)
(*                                                                         *)
(* A Window is the C structure as a record.  A slot of its buffer is       *)
(* [valid, pkt]; as in the code, removing an element only clears `valid'.  *)
(* The file is abstracted to NChunks chunks, the results of successive     *)
(* read() calls: a packet carries the number of its chunk instead of its   *)
(* bytes, and dlen gives the number of bytes the chunk holds.              *)
(***************************************************************************)
EXTENDS Integers, FiniteSets

CONSTANTS
  NChunks,  \* number of non-empty reads of the file before end of file
  MaxData,  \* STCP_MAX_DATA, the bytes of a full segment
  LastLen,  \* bytes in the last chunk, the only one that may be short
  SeqMod    \* number of sequence numbers, 2^32 in the code

ASSUME WindowAssumption ==
  /\ NChunks \in Nat
  /\ MaxData \in Nat \ {0}
  /\ LastLen \in 1 .. MaxData
  /\ SeqMod \in Nat \ {0, 1}

U16 == 65536                    \* number of values of a uint16_t
STCP_FAST_RETRANSMIT == 3

Flags  == {"FIN", "SYN", "ACK"}
Packet == [seq   : 0 .. SeqMod - 1,
           ack   : 0 .. SeqMod - 1,
           win   : 0 .. U16 - 1,
           flags : SUBSET Flags,
           data  : 0 .. NChunks]       \* 0: no data

build_pkt(seq, ack, win, flags, data) ==
  [seq |-> seq, ack |-> ack, win |-> win, flags |-> flags, data |-> data]

NoPkt == build_pkt(0, 0, 0, {}, 0)     \* calloc()ed memory

\* pkt->dlen: the file is read in full segments until its last chunk.
dlen(pkt) == IF pkt.data = 0 THEN 0
             ELSE IF pkt.data = NChunks THEN LastLen ELSE MaxData

FileSize == IF NChunks = 0 THEN 0 ELSE (NChunks - 1) * MaxData + LastLen

IsFin(pkt) == "FIN" \in pkt.flags

\* The s-th segment of the connection, s \in 1 .. NChunks + 1: one per chunk,
\* then the FIN that stands for end of file.  Sequence number 0 is the SYN's.
LastSeg == NChunks + 1
Segment(s) == IF s <= NChunks THEN build_pkt(s % SeqMod, 0, 0, {}, s)
              ELSE build_pkt(s % SeqMod, 0, 0, {"FIN"}, 0)

-----------------------------------------------------------------------------
(* Operations common to both sides. *)

Slot == [valid : BOOLEAN, pkt : Packet]

win_init(size, initial_seq) ==
  [buf       |-> [i \in 0 .. size - 1 |-> [valid |-> FALSE, pkt |-> NoPkt]],
   size      |-> size,
   count     |-> 0,
   end       |-> 0,
   start     |-> 0,
   next_seq  |-> initial_seq,
   next_ack  |-> (initial_seq + 1) % SeqMod,
   in_flight |-> 0,
   rwin_adv  |-> 0,
   cwnd      |-> 1,
   ssthresh  |-> U16 - 1,
   dup_ack   |-> 0]

win_available(win) == win.size - win.count
win_full(win)      == win.count = win.size
win_empty(win)     == win.count = 0
win_oldest(win)    == win.buf[win.start].pkt
win_end(win)       == win.buf[win.end]

\* The slot `off' places after index i of the ring.
Index(win, i, off) == (i + off) % win.size

\* Variant: next_seq is not advanced.
AdvanceEnd_next_seq_kept(win) ==
  [win EXCEPT !.count = @ + 1, !.end = Index(win, win.end, 1)]

\* The assignments that make the slot at win.end the newest element.
AdvanceEnd(win) ==
  [win EXCEPT !.count    = @ + 1,
              !.end      = Index(win, win.end, 1),
              !.next_seq = (@ + 1) % SeqMod]

\* win_add returns NULL, and changes nothing, when this is false.
win_can_add(win, pkt) == win.next_seq = pkt.seq /\ ~win_full(win)

win_add(win, pkt) ==
  IF win_can_add(win, pkt)
  THEN AdvanceEnd([win EXCEPT !.buf[win.end] = [valid |-> TRUE, pkt |-> pkt]])
  ELSE win

\* Variant: start is not advanced.
win_remove_start_kept(win) ==
  IF win_empty(win) THEN win
  ELSE [win EXCEPT !.buf[win.start].valid = FALSE, !.count = @ - 1]

win_remove(win) ==
  IF win_empty(win) THEN win
  ELSE [win EXCEPT !.buf[win.start].valid = FALSE,
                   !.count    = @ - 1,
                   !.start    = Index(win, win.start, 1),
                   !.next_ack = (@ + 1) % SeqMod,
                   !.dup_ack  = 0]

-----------------------------------------------------------------------------
(* Receiver side. *)

\* Is seq in [next_seq, next_seq + free slots), modulo 2^32?
win_valid_seq(win, seq) ==
  LET bound == (win.next_seq + win_available(win)) % SeqMod
  IN IF win.next_seq < bound THEN win.next_seq <= seq /\ seq < bound
                             ELSE win.next_seq <= seq \/ seq < bound

\* Variant: the difference is taken the wrong way round.
fwdoff_reversed(win, seq) == (win.next_seq - seq) % SeqMod

\* The forward offset win_add_oor computes: the absolute difference of the two
\* numbers, passed on to win_get as an int (two's complement).
fwdoff(win, seq) == IF seq < win.next_seq THEN win.next_seq - seq
                                          ELSE seq - win.next_seq
AsInt(u) == IF 2 * u < SeqMod THEN u ELSE u - SeqMod

\* Variant: the offset is counted from the oldest element.
win_get_from_start(win, off) == Index(win, win.start, off)

\* win_get returns NULL, which its caller dereferences, when this is false.
win_can_get(win, off) == 0 <= AsInt(off) /\ AsInt(off) <= win.size
win_get(win, off)     == Index(win, win.end, AsInt(off))

\* win_add_oor for a valid seq that is not the next one: fill a free slot.
win_add_ahead(win, pkt) ==
  LET i == win_get(win, fwdoff(win, pkt.seq))
  IN IF win.buf[i].valid THEN win
     ELSE [win EXCEPT !.buf[i] = [valid |-> TRUE, pkt |-> pkt]]

\* Variant: any valid slot is taken to be the next segment.
win_end_is_next_if_valid(win) == win_end(win).valid

\* The condition of win_add_oor's loop: the slot after the end already holds
\* the next segment.
win_end_is_next(win) ==
  win_end(win).valid /\ win_end(win).pkt.seq = win.next_seq

-----------------------------------------------------------------------------
(* Sender side. *)

\* The element `off' places after the oldest one; NULL unless off < count.
win_can_get_index(win, off) == off < win.count
win_get_index(win, off)     == win.buf[Index(win, win.start, off)].pkt

Least(a, b) == IF a < b THEN a ELSE b

\* Variant: the advertised window is forgotten.
win_send_limit_cwnd(win) == Least(win.cwnd, win_available(win))

\* How many elements the window may hold before sending.
win_send_limit(win) ==
  Least(Least(win.cwnd, win_available(win)), win.rwin_adv)

win_valid_ack(win, pkt) ==
  /\ "ACK" \in pkt.flags
  /\ ~win_empty(win)
  /\ IF win.next_ack < win.next_seq
     THEN pkt.ack >= win.next_ack /\ pkt.ack <= win.next_seq
     ELSE pkt.ack >= win.next_ack \/ pkt.ack <= win.next_seq

\* The value win_dup_ack returns; its caller also counts the ACK in dup_ack.
win_dup_ack(win, pkt) == ~win_empty(win) /\ win_oldest(win).seq = pkt.ack

\* win_remove_ack removes from the oldest element on, up to the first whose
\* sequence number equals the ACK, and everything when there is none.
FirstAt(win, ack, k) ==
  /\ k \in 0 .. win.count - 1
  /\ win_get_index(win, k).seq = ack
  /\ \A j \in 0 .. k - 1 : win_get_index(win, j).seq # ack
\* Variant: the element the ACK asks for is removed too.
Removed_one_more(win, ack) ==
  Cardinality({k \in 0 .. win.count - 1 : win_get_index(win, k).seq <= ack})

Removed(win, ack) ==
  IF \E k \in 0 .. win.count - 1 : FirstAt(win, ack, k)
  THEN CHOOSE k \in 0 .. win.count - 1 : FirstAt(win, ack, k)
  ELSE win.count

\* Variant: start is not advanced.
RemoveOldest_start_kept(win, k) ==
  [win EXCEPT !.count = @ - k, !.next_ack = (@ + k) % SeqMod, !.dup_ack = 0]

\* k calls of win_remove on a window of at least k elements.
RemoveOldest(win, k) ==
  [win EXCEPT
     !.buf      = [i \in DOMAIN @ |->
                     IF \E j \in 0 .. k - 1 : i = Index(win, win.start, j)
                     THEN [@[i] EXCEPT !.valid = FALSE] ELSE @[i]],
     !.count    = @ - k,
     !.start    = Index(win, win.start, k),
     !.next_ack = (@ + k) % SeqMod,
     !.dup_ack  = IF k > 0 THEN 0 ELSE @]

win_remove_ack(win, pkt) ==
  [RemoveOldest(win, Removed(win, pkt.ack)) EXCEPT !.rwin_adv = pkt.win]
=============================================================================
