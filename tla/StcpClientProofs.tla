-------------------------- MODULE StcpClientProofs --------------------------
(***************************************************************************)
(* Proofs about StcpClient, for every file of fewer than SeqMod segments   *)
(* and every size of the window (NoWrap), and every environment of CSpec:  *)
(* the type invariant, the shape of the ring and delivery in order.        *)
(***************************************************************************)
EXTENDS StcpClient, RingArithmetic


-----------------------------------------------------------------------------
(* Constants, segments and slots. *)

LEMMA Constants ==
  ASSUME NoWrap
  PROVE  /\ ClientWin \in Nat \ {0} /\ ClientWin < 65536
         /\ NChunks \in Nat /\ LastSeg = NChunks + 1 /\ SeqMod \in Nat
         /\ LastSeg + 2 * ClientWin + 1 < SeqMod
BY WindowAssumption, ClientAssumption DEF NoWrap, LastSeg, U16

\* The s-th segment has sequence number s, and what it carries.
LEMMA SegmentFacts ==
  ASSUME NoWrap, NEW s \in 1 .. LastSeg
  PROVE  /\ Segment(s) \in Packet
         /\ Segment(s).seq = s
         /\ Segment(s).data = IF s <= NChunks THEN s ELSE 0
         /\ IsFin(Segment(s)) <=> s = LastSeg
<1>1. s % SeqMod = s
  BY Constants, SmallMod
<1>2. s \in 0 .. SeqMod - 1 /\ 0 \in 0 .. SeqMod - 1 /\ 0 \in 0 .. U16 - 1
  BY Constants DEF U16
<1>3. CASE s <= NChunks
  <2>1. Segment(s) = [seq |-> s, ack |-> 0, win |-> 0, flags |-> {}, data |-> s]
    BY <1>1, <1>3 DEF Segment, build_pkt
  <2> QED BY <1>2, <1>3, <2>1, Constants DEF Packet, Flags, IsFin
<1>4. CASE ~(s <= NChunks)
  <2>1. Segment(s) = [seq |-> s, ack |-> 0, win |-> 0, flags |-> {"FIN"}, data |-> 0]
    BY <1>1, <1>4 DEF Segment, build_pkt
  <2> QED BY <1>2, <1>4, <2>1, Constants DEF Packet, Flags, IsFin
<1> QED BY <1>3, <1>4

\* The slot of a segment is an index of the ring.
LEMMA SlotRange ==
  ASSUME NoWrap, NEW s \in Nat \ {0}
  PROVE  SlotOf(s) \in 0 .. ClientWin - 1
<1> DEFINE a == s - 1
<1>1. a \in Nat  OBVIOUS
<1> HIDE DEF a
<1>w. ClientWin \in Nat \ {0}  BY Constants
<1>2. a % ClientWin \in 0 .. ClientWin - 1  BY <1>1, <1>w, ModRange
<1> QED BY <1>2 DEF SlotOf, a

\* Segments of one window have slots of their own.
LEMMA SlotInj ==
  ASSUME NoWrap, NEW s \in Nat \ {0}, NEW t \in Nat \ {0},
         s - t < ClientWin, t - s < ClientWin, SlotOf(s) = SlotOf(t)
  PROVE  s = t
<1> DEFINE a == s - 1  b == t - 1
<1>1. a \in Nat /\ b \in Nat /\ a - b < ClientWin /\ b - a < ClientWin
  BY Constants
<1>2. a % ClientWin = b % ClientWin  BY DEF SlotOf
<1> HIDE DEF a, b
<1>3. a = b  BY <1>1, <1>2, Constants, ModInj
<1> QED BY <1>3 DEF a, b

\* k places after the slot that follows segment s is the slot of s + k + 1.
LEMMA SlotAfter ==
  ASSUME NoWrap, NEW s \in Nat, NEW k \in Nat
  PROVE  ((s % ClientWin) + k) % ClientWin = SlotOf(s + k + 1)
<1>w. ClientWin \in Nat \ {0}  BY Constants
<1>1. ((s % ClientWin) + k) % ClientWin = (s + k) % ClientWin
  BY <1>w, ModAdd
<1>2. s + k + 1 - 1 = s + k  OBVIOUS
<1> QED BY <1>1, <1>2 DEF SlotOf

-----------------------------------------------------------------------------
(* The operations on the receiving window preserve the shape of its ring. *)

GoodRing(win) ==
  /\ win \in RecvWindow
  /\ win.next_seq \in 1 .. LastSeg + 1
  /\ win.count < win.next_seq
  /\ Ring(win)

\* The numbers that describe a ring, and the slots of its two ends.
LEMMA RingNumbers ==
  ASSUME NoWrap, NEW win, GoodRing(win)
  PROVE  /\ ConsumedOf(win) \in Nat /\ InOrderOf(win) \in 0 .. LastSeg
         /\ win.next_seq = InOrderOf(win) + 1
         /\ win.count \in 0 .. ClientWin /\ win.size = ClientWin
         /\ InOrderOf(win) = ConsumedOf(win) + win.count
         /\ win.end = SlotOf(InOrderOf(win) + 1)
         /\ win.start = SlotOf(ConsumedOf(win) + 1)
<1>1. win.next_seq \in 1 .. LastSeg + 1 /\ win.count \in 0 .. ClientWin
      /\ win.count < win.next_seq /\ win.size = ClientWin
  BY DEF GoodRing, RecvWindow
<1>2. ConsumedOf(win) \in Nat /\ InOrderOf(win) \in 0 .. LastSeg
      /\ InOrderOf(win) = ConsumedOf(win) + win.count
      /\ win.next_seq = InOrderOf(win) + 1
  BY <1>1, Constants DEF ConsumedOf, InOrderOf
<1>3. win.end = InOrderOf(win) % ClientWin /\ win.start = ConsumedOf(win) % ClientWin
  BY DEF GoodRing, Ring
<1>4. InOrderOf(win) + 1 - 1 = InOrderOf(win) /\ ConsumedOf(win) + 1 - 1 = ConsumedOf(win)
  BY <1>2
<1> QED BY <1>1, <1>2, <1>3, <1>4 DEF SlotOf

\* What a valid slot holds: the one segment of the window that belongs there.
LEMMA SlotHolds ==
  ASSUME NoWrap, NEW win, GoodRing(win),
         NEW s \in ConsumedOf(win) + 1 .. ConsumedOf(win) + ClientWin,
         win.buf[SlotOf(s)].valid
  PROVE  s <= LastSeg /\ win.buf[SlotOf(s)].pkt = Segment(s)
<1>1. ConsumedOf(win) \in Nat /\ ClientWin \in Nat \ {0}
  BY RingNumbers, Constants
<1>2. s \in Nat \ {0}  BY <1>1
<1>3. SlotOf(s) \in 0 .. ClientWin - 1  BY <1>2, SlotRange
<1>4. PICK t \in ConsumedOf(win) + 1 .. ConsumedOf(win) + ClientWin :
        t <= LastSeg /\ SlotOf(t) = SlotOf(s) /\ win.buf[SlotOf(s)].pkt = Segment(t)
  BY <1>3 DEF GoodRing, Ring
<1>5. t \in Nat \ {0} /\ s - t < ClientWin /\ t - s < ClientWin  BY <1>1
<1>6. s = t  BY <1>2, <1>4, <1>5, SlotInj
<1> QED BY <1>4, <1>6

\* The window with segment s stored in its slot.
Put(win, s) ==
  [win EXCEPT !.buf[SlotOf(s)] = [valid |-> TRUE, pkt |-> Segment(s)]]

\* Storing a segment of the window in its slot.
LEMMA PutRing ==
  ASSUME NoWrap, NEW win, GoodRing(win),
         NEW s \in ConsumedOf(win) + 1 .. ConsumedOf(win) + ClientWin, s <= LastSeg
  PROVE  /\ GoodRing(Put(win, s))
         /\ Put(win, s).next_seq = win.next_seq
         /\ Put(win, s).count = win.count
         /\ Put(win, s).end = win.end
         /\ Put(win, s).buf[SlotOf(s)] = [valid |-> TRUE, pkt |-> Segment(s)]
<1> DEFINE w == Put(win, s)
<1>1. ConsumedOf(win) \in Nat /\ ClientWin \in Nat \ {0}
  BY RingNumbers, Constants
<1>2. s \in 1 .. LastSeg /\ s \in Nat \ {0}  BY <1>1
<1>3. SlotOf(s) \in 0 .. ClientWin - 1  BY <1>2, SlotRange
<1>4. Segment(s) \in Packet  BY <1>2, SegmentFacts
<1>5. win \in RecvWindow  BY DEF GoodRing
<1>6. /\ w \in RecvWindow
      /\ w.next_seq = win.next_seq /\ w.count = win.count
      /\ w.end = win.end /\ w.start = win.start
      /\ w.buf = [win.buf EXCEPT ![SlotOf(s)] = [valid |-> TRUE, pkt |-> Segment(s)]]
  BY <1>3, <1>4, <1>5 DEF Put, RecvWindow, Slot
<1>7. DOMAIN win.buf = 0 .. ClientWin - 1  BY <1>5 DEF RecvWindow
<1> HIDE DEF w
<1>8. /\ w.buf[SlotOf(s)] = [valid |-> TRUE, pkt |-> Segment(s)]
      /\ \A i \in 0 .. ClientWin - 1 : i # SlotOf(s) => w.buf[i] = win.buf[i]
  BY <1>3, <1>6, <1>7
<1>9. InOrderOf(w) = InOrderOf(win) /\ ConsumedOf(w) = ConsumedOf(win)
  BY <1>6 DEF InOrderOf, ConsumedOf
<1>10. \A i \in 0 .. ClientWin - 1 : w.buf[i].valid =>
         \E t \in ConsumedOf(w) + 1 .. ConsumedOf(w) + ClientWin :
           t <= LastSeg /\ SlotOf(t) = i /\ w.buf[i].pkt = Segment(t)
  <2> SUFFICES ASSUME NEW i \in 0 .. ClientWin - 1, w.buf[i].valid
               PROVE  \E t \in ConsumedOf(win) + 1 .. ConsumedOf(win) + ClientWin :
                        t <= LastSeg /\ SlotOf(t) = i /\ w.buf[i].pkt = Segment(t)
    BY <1>9
  <2>1. CASE i = SlotOf(s)  BY <2>1, <1>8
  <2>2. CASE i # SlotOf(s)  BY <2>2, <1>8 DEF GoodRing, Ring
  <2> QED BY <2>1, <2>2
<1>11. \A t \in ConsumedOf(w) + 1 .. InOrderOf(w) : w.buf[SlotOf(t)].valid
  <2> SUFFICES ASSUME NEW t \in ConsumedOf(win) + 1 .. InOrderOf(win)
               PROVE  w.buf[SlotOf(t)].valid
    BY <1>9
  <2>1. t \in Nat \ {0}  BY <1>1, RingNumbers
  <2>2. SlotOf(t) \in 0 .. ClientWin - 1  BY <2>1, SlotRange
  <2>3. win.buf[SlotOf(t)].valid  BY DEF GoodRing, Ring
  <2> QED BY <2>2, <2>3, <1>8
<1>12. Ring(w)  BY <1>6, <1>9, <1>10, <1>11 DEF GoodRing, Ring
<1> QED BY <1>6, <1>8, <1>12 DEF GoodRing, w

\* The slot after the end holds the next segment only if there is one and there
\* is room for it; then it may become the newest element.
LEMMA AdvanceRing ==
  ASSUME NoWrap, NEW win, GoodRing(win), win_end_is_next(win)
  PROVE  /\ win.next_seq <= LastSeg /\ win.count < ClientWin
         /\ win_end(win).pkt = Segment(win.next_seq)
         /\ GoodRing(AdvanceEnd(win))
         /\ AdvanceEnd(win).next_seq = win.next_seq + 1
         /\ AdvanceEnd(win).count = win.count + 1
<1> DEFINE w == AdvanceEnd(win)
           a == InOrderOf(win)
<1>0. ClientWin \in Nat \ {0} /\ LastSeg \in Nat /\ LastSeg + 1 < SeqMod /\ SeqMod \in Nat
  BY Constants
<1>1. /\ ConsumedOf(win) \in Nat /\ a \in 0 .. LastSeg /\ win.next_seq = a + 1
      /\ win.count \in 0 .. ClientWin /\ win.size = ClientWin
      /\ a = ConsumedOf(win) + win.count
  BY RingNumbers
<1>2. win \in RecvWindow  BY DEF GoodRing
<1>3. win.end = a % ClientWin /\ win.end \in 0 .. ClientWin - 1
  BY <1>2 DEF GoodRing, Ring, RecvWindow
<1>4. PICK t \in ConsumedOf(win) + 1 .. ConsumedOf(win) + ClientWin :
        t <= LastSeg /\ SlotOf(t) = win.end /\ win.buf[win.end].pkt = Segment(t)
  BY <1>3 DEF GoodRing, Ring, win_end_is_next, win_end
<1>5. t \in 1 .. LastSeg  BY <1>0, <1>1, <1>4
<1>6. Segment(t).seq = t  BY <1>5, SegmentFacts
<1>7. t = win.next_seq  BY <1>4, <1>6 DEF win_end_is_next, win_end
<1>8. win.next_seq <= LastSeg /\ win.count < ClientWin  BY <1>0, <1>1, <1>4, <1>7
<1>9. win_end(win).pkt = Segment(win.next_seq)  BY <1>4, <1>7 DEF win_end
<1>10. win.next_seq + 1 \in 0 .. SeqMod - 1 /\ SeqMod \in Nat \ {0}
  BY <1>0, <1>1, <1>8
<1>11. (win.next_seq + 1) % SeqMod = win.next_seq + 1  BY <1>10, SmallMod
<1>12. (win.end + 1) % ClientWin = (a + 1) % ClientWin
  <2>1. a \in Nat /\ 1 \in Nat  BY <1>1
  <2> HIDE DEF a
  <2> QED BY <1>0, <1>3, <2>1, ModAdd
<1>13. (a + 1) % ClientWin \in 0 .. ClientWin - 1
  <2> DEFINE b == a + 1
  <2>1. b \in Nat  BY <1>1
  <2> HIDE DEF b
  <2>2. b % ClientWin \in 0 .. ClientWin - 1  BY <1>0, <2>1, ModRange
  <2> QED BY <2>2 DEF b
<1> HIDE DEF a
<1>14. /\ w.buf = win.buf /\ w.count = win.count + 1
       /\ w.end = (a + 1) % ClientWin /\ w.start = win.start
       /\ w.next_seq = win.next_seq + 1
       /\ w \in RecvWindow
  <2>1. w = [win EXCEPT !.count = win.count + 1, !.end = (a + 1) % ClientWin,
                        !.next_seq = win.next_seq + 1]
    BY <1>1, <1>2, <1>11, <1>12 DEF AdvanceEnd, Index, RecvWindow
  <2>2. win.count + 1 \in 0 .. ClientWin  BY <1>0, <1>1, <1>8
  <2> HIDE DEF w
  <2> QED BY <1>2, <1>10, <1>13, <2>1, <2>2 DEF RecvWindow
<1> HIDE DEF w
<1>15. InOrderOf(w) = a + 1 /\ ConsumedOf(w) = ConsumedOf(win)
  BY <1>1, <1>14 DEF InOrderOf, ConsumedOf
<1>16. \A i \in 0 .. ClientWin - 1 : w.buf[i].valid =>
         \E u \in ConsumedOf(w) + 1 .. ConsumedOf(w) + ClientWin :
           u <= LastSeg /\ SlotOf(u) = i /\ w.buf[i].pkt = Segment(u)
  BY <1>14, <1>15 DEF GoodRing, Ring
<1>17. \A u \in ConsumedOf(w) + 1 .. InOrderOf(w) : w.buf[SlotOf(u)].valid
  <2> SUFFICES ASSUME NEW u \in ConsumedOf(win) + 1 .. a + 1
               PROVE  win.buf[SlotOf(u)].valid
    BY <1>14, <1>15
  <2>1. CASE u = a + 1
    BY <2>1, <1>1, <1>4, <1>7 DEF win_end_is_next, win_end
  <2>2. CASE u # a + 1
    <3>1. u \in ConsumedOf(win) + 1 .. InOrderOf(win)  BY <2>2, <1>1 DEF a
    <3> QED BY <3>1 DEF GoodRing, Ring
  <2> QED BY <2>1, <2>2
<1>18. Ring(w)
  <2>1. w.start = ConsumedOf(w) % ClientWin  BY <1>14, <1>15 DEF GoodRing, Ring
  <2> QED BY <2>1, <1>14, <1>15, <1>16, <1>17 DEF Ring
<1>19. GoodRing(w)
  <2>1. w.next_seq \in 1 .. LastSeg + 1 /\ w.count < w.next_seq
    BY <1>0, <1>1, <1>8, <1>14
  <2> QED BY <2>1, <1>14, <1>18 DEF GoodRing
<1> QED BY <1>8, <1>9, <1>14, <1>19 DEF w

\* The oldest element is the segment after the last one read; removing it
\* moves the window on by one.
LEMMA RemoveRing ==
  ASSUME NoWrap, NEW win, GoodRing(win), ~win_empty(win)
  PROVE  /\ ConsumedOf(win) + 1 \in 1 .. LastSeg
         /\ win_oldest(win) = Segment(ConsumedOf(win) + 1)
         /\ GoodRing(win_remove(win))
         /\ win_remove(win).next_seq = win.next_seq
         /\ win_remove(win).count = win.count - 1
<1> DEFINE w == win_remove(win)
           c == ConsumedOf(win)
<1>0. ClientWin \in Nat \ {0} /\ LastSeg \in Nat /\ SeqMod \in Nat \ {0}
  BY Constants
<1>1. /\ c \in Nat /\ InOrderOf(win) \in 0 .. LastSeg /\ win.next_seq = InOrderOf(win) + 1
      /\ win.count \in 0 .. ClientWin /\ win.size = ClientWin
      /\ InOrderOf(win) = c + win.count
      /\ win.start = SlotOf(c + 1)
  BY RingNumbers
<1>2. win \in RecvWindow  BY DEF GoodRing
<1>3. win.count \in 1 .. ClientWin  BY <1>1 DEF win_empty
<1>4. c + 1 \in 1 .. LastSeg /\ c + 1 \in c + 1 .. InOrderOf(win)
      /\ c + 1 \in c + 1 .. c + ClientWin /\ c + 1 \in Nat \ {0}
  BY <1>0, <1>1, <1>3
<1>5. win.buf[SlotOf(c + 1)].valid  BY <1>4 DEF GoodRing, Ring
<1>6. win_oldest(win) = Segment(c + 1)  BY <1>1, <1>4, <1>5, SlotHolds DEF win_oldest
<1>7. win.start = c % ClientWin /\ win.start \in 0 .. ClientWin - 1
  BY <1>2 DEF GoodRing, Ring, RecvWindow
<1>w. ClientWin \in Nat \ {0}  BY <1>0
<1>8. (win.start + 1) % ClientWin = (c + 1) % ClientWin
  <2>1. c \in Nat /\ 1 \in Nat  BY <1>1
  <2> HIDE DEF c
  <2>2. ((c % ClientWin) + 1) % ClientWin = (c + 1) % ClientWin
    BY <1>w, <2>1, ModAdd
  <2>3. win.start = c % ClientWin  BY <1>7 DEF c
  <2> QED BY <2>2, <2>3
<1>9. (c + 1) % ClientWin \in 0 .. ClientWin - 1
  <2> DEFINE b == c + 1
  <2>1. b \in Nat  BY <1>1
  <2> HIDE DEF b
  <2>2. b % ClientWin \in 0 .. ClientWin - 1  BY <1>0, <2>1, ModRange
  <2> QED BY <2>2 DEF b
<1>10. (win.next_ack + 1) % SeqMod \in 0 .. SeqMod - 1
  <2> DEFINE b == win.next_ack + 1
  <2>1. b \in Nat  BY <1>2 DEF RecvWindow
  <2> HIDE DEF b
  <2>2. b % SeqMod \in 0 .. SeqMod - 1  BY <1>0, <2>1, ModRange
  <2> QED BY <2>2 DEF b
<1> HIDE DEF c
<1>11. /\ w.count = win.count - 1 /\ w.end = win.end
       /\ w.start = (c + 1) % ClientWin /\ w.next_seq = win.next_seq
       /\ w.buf = [win.buf EXCEPT ![win.start].valid = FALSE]
       /\ w \in RecvWindow
  <2>1. w = [win EXCEPT !.buf = [win.buf EXCEPT ![win.start].valid = FALSE],
                        !.count = win.count - 1,
                        !.start = (c + 1) % ClientWin,
                        !.next_ack = (win.next_ack + 1) % SeqMod,
                        !.dup_ack = 0]
    BY <1>1, <1>2, <1>8 DEF win_remove, Index, RecvWindow
  <2>2. win.count - 1 \in 0 .. ClientWin  BY <1>0, <1>3
  <2>3. [win.buf EXCEPT ![win.start].valid = FALSE] \in [0 .. ClientWin - 1 -> Slot]
    BY <1>2, <1>7 DEF RecvWindow, Slot
  <2> HIDE DEF w
  <2> QED BY <1>2, <1>9, <1>10, <2>1, <2>2, <2>3 DEF RecvWindow
<1> HIDE DEF w
<1>12. /\ ~w.buf[win.start].valid
       /\ \A i \in 0 .. ClientWin - 1 : i # win.start => w.buf[i] = win.buf[i]
  <2>1. win.buf \in [0 .. ClientWin - 1 -> Slot]  BY <1>2 DEF RecvWindow
  <2>2. DOMAIN win.buf = 0 .. ClientWin - 1 /\ win.buf[win.start] \in Slot
    BY <2>1, <1>7
  <2>3. w.buf = [win.buf EXCEPT ![win.start] = [win.buf[win.start] EXCEPT !.valid = FALSE]]
    BY <1>11
  <2>4. w.buf[win.start] = [win.buf[win.start] EXCEPT !.valid = FALSE]
    BY <2>2, <2>3, <1>7
  <2>5. ~w.buf[win.start].valid  BY <2>2, <2>4 DEF Slot
  <2>6. \A i \in 0 .. ClientWin - 1 : i # win.start => w.buf[i] = win.buf[i]
    BY <2>2, <2>3, <1>7
  <2> QED BY <2>5, <2>6
<1>13. InOrderOf(w) = InOrderOf(win) /\ ConsumedOf(w) = c + 1
  BY <1>1, <1>3, <1>11 DEF InOrderOf, ConsumedOf
<1>14. \A i \in 0 .. ClientWin - 1 : w.buf[i].valid =>
         \E u \in ConsumedOf(w) + 1 .. ConsumedOf(w) + ClientWin :
           u <= LastSeg /\ SlotOf(u) = i /\ w.buf[i].pkt = Segment(u)
  <2> SUFFICES ASSUME NEW i \in 0 .. ClientWin - 1, w.buf[i].valid
               PROVE  \E u \in c + 2 .. c + 1 + ClientWin :
                        u <= LastSeg /\ SlotOf(u) = i /\ w.buf[i].pkt = Segment(u)
    BY <1>0, <1>1, <1>13
  <2>1. i # win.start /\ w.buf[i] = win.buf[i]  BY <1>12
  <2>2. PICK u \in c + 1 .. c + ClientWin :
          u <= LastSeg /\ SlotOf(u) = i /\ win.buf[i].pkt = Segment(u)
    BY <2>1 DEF GoodRing, Ring, c
  <2>3. u # c + 1  BY <1>1, <2>1, <2>2
  <2>4. u \in c + 2 .. c + 1 + ClientWin  BY <1>0, <1>1, <2>3
  <2> QED BY <2>1, <2>2, <2>4
<1>15. \A u \in ConsumedOf(w) + 1 .. InOrderOf(w) : w.buf[SlotOf(u)].valid
  <2> SUFFICES ASSUME NEW u \in c + 2 .. InOrderOf(win)
               PROVE  w.buf[SlotOf(u)].valid
    BY <1>1, <1>13
  <2>1. u \in Nat \ {0} /\ u - (c + 1) < ClientWin /\ (c + 1) - u < ClientWin /\ u # c + 1
    BY <1>0, <1>1, <1>3
  <2>2. SlotOf(u) # win.start  BY <2>1, <1>1, <1>4, SlotInj
  <2>3. SlotOf(u) \in 0 .. ClientWin - 1  BY <2>1, SlotRange
  <2>4. u \in c + 1 .. InOrderOf(win)  BY <1>1
  <2>5. win.buf[SlotOf(u)].valid  BY <2>4 DEF GoodRing, Ring, c
  <2> QED BY <2>2, <2>3, <2>5, <1>12
<1>16. Ring(w)
  <2>1. w.end = InOrderOf(w) % ClientWin  BY <1>11, <1>13 DEF GoodRing, Ring
  <2> QED BY <2>1, <1>11, <1>13, <1>14, <1>15 DEF Ring
<1>17. GoodRing(w)
  <2>1. w.next_seq \in 1 .. LastSeg + 1 /\ w.count < w.next_seq
    BY <1>0, <1>1, <1>3, <1>11
  <2> QED BY <2>1, <1>11, <1>16 DEF GoodRing
<1> QED BY <1>4, <1>6, <1>11, <1>17 DEF w, c

\* A packet of the server whose sequence number is valid is the segment with
\* that number, and one of the window.
LEMMA ValidPacket ==
  ASSUME NoWrap, NEW win, GoodRing(win), ~win_full(win),
         NEW pkt \in FromServer, win_valid_seq(win, pkt.seq)
  PROVE  \E s \in ConsumedOf(win) + 1 .. ConsumedOf(win) + ClientWin :
           /\ win.next_seq <= s /\ s <= LastSeg
           /\ pkt = Segment(s) /\ pkt.seq = s
<1>1. /\ ClientWin \in Nat \ {0} /\ LastSeg \in Nat /\ SeqMod \in Nat \ {0}
      /\ LastSeg + 2 * ClientWin + 1 < SeqMod
  BY Constants
<1>2. /\ ConsumedOf(win) \in Nat /\ InOrderOf(win) \in 0 .. LastSeg
      /\ win.next_seq = InOrderOf(win) + 1
      /\ win.count \in 0 .. ClientWin /\ win.size = ClientWin
      /\ InOrderOf(win) = ConsumedOf(win) + win.count
  BY RingNumbers
<1> DEFINE b == win.next_seq + win_available(win)
<1>3. b \in 0 .. SeqMod - 1 /\ win.next_seq < b /\ b = ConsumedOf(win) + ClientWin + 1
  BY <1>1, <1>2 DEF win_available, win_full
<1>4. b % SeqMod = b
  <2> HIDE DEF b
  <2> QED BY <1>1, <1>3, SmallMod
<1>5. win.next_seq <= pkt.seq /\ pkt.seq < b
  BY <1>3, <1>4 DEF win_valid_seq
<1>6. pkt # SynAck  BY <1>2, <1>5 DEF SynAck, build_pkt
<1>7. PICK s \in 1 .. LastSeg : pkt = Segment(s)  BY <1>6 DEF FromServer
<1>8. pkt.seq = s  BY <1>7, SegmentFacts
<1>9. s \in ConsumedOf(win) + 1 .. ConsumedOf(win) + ClientWin
  BY <1>1, <1>2, <1>3, <1>5, <1>8
<1> QED BY <1>5, <1>7, <1>8, <1>9

\* win_add of the expected segment.
LEMMA AddNextRing ==
  ASSUME NoWrap, NEW win, GoodRing(win), ~win_full(win),
         NEW pkt \in FromServer, win_valid_seq(win, pkt.seq), fwdoff(win, pkt.seq) = 0
  PROVE  /\ win.next_seq <= LastSeg /\ pkt = Segment(win.next_seq)
         /\ GoodRing(win_add(win, pkt))
         /\ win_add(win, pkt).next_seq = win.next_seq + 1
         /\ win_add(win, pkt).count = win.count + 1
<1>1. PICK s \in ConsumedOf(win) + 1 .. ConsumedOf(win) + ClientWin :
        /\ win.next_seq <= s /\ s <= LastSeg
        /\ pkt = Segment(s) /\ pkt.seq = s
  BY ValidPacket
<1>2. /\ ConsumedOf(win) \in Nat /\ win.next_seq \in Nat
      /\ win.next_seq = InOrderOf(win) + 1 /\ win.end = SlotOf(win.next_seq)
  BY RingNumbers
<1>3. s = win.next_seq  BY <1>1, <1>2 DEF fwdoff
<1> DEFINE w == Put(win, s)
<1>4. win_add(win, pkt) = AdvanceEnd(w)
  BY <1>1, <1>2, <1>3 DEF win_add, win_can_add, Put
<1>5. /\ GoodRing(w) /\ w.next_seq = win.next_seq /\ w.count = win.count
      /\ w.end = SlotOf(s) /\ w.buf[SlotOf(s)] = [valid |-> TRUE, pkt |-> pkt]
  BY <1>1, <1>2, <1>3, PutRing
<1> HIDE DEF w
<1>6. win_end_is_next(w)  BY <1>1, <1>3, <1>5 DEF win_end_is_next, win_end
<1>7. /\ GoodRing(AdvanceEnd(w)) /\ AdvanceEnd(w).next_seq = w.next_seq + 1
      /\ AdvanceEnd(w).count = w.count + 1
  BY <1>5, <1>6, AdvanceRing
<1> QED BY <1>1, <1>3, <1>4, <1>5, <1>7

\* win_add_oor of a later segment: win_get finds a slot, the one that belongs to
\* the segment, and next_seq and count stay.
LEMMA AddAheadRing ==
  ASSUME NoWrap, NEW win, GoodRing(win), ~win_full(win),
         NEW pkt \in FromServer, win_valid_seq(win, pkt.seq)
  PROVE  /\ win_can_get(win, fwdoff(win, pkt.seq))
         /\ GoodRing(win_add_ahead(win, pkt))
         /\ win_add_ahead(win, pkt).next_seq = win.next_seq
         /\ win_add_ahead(win, pkt).count = win.count
<1>1. PICK s \in ConsumedOf(win) + 1 .. ConsumedOf(win) + ClientWin :
        /\ win.next_seq <= s /\ s <= LastSeg
        /\ pkt = Segment(s) /\ pkt.seq = s
  BY ValidPacket
<1> DEFINE c == InOrderOf(win)
           k == fwdoff(win, s)
<1>2. /\ ClientWin \in Nat \ {0} /\ LastSeg \in Nat /\ SeqMod \in Nat
      /\ LastSeg + 2 * ClientWin + 1 < SeqMod
  BY Constants
<1>3. /\ ConsumedOf(win) \in Nat /\ c \in Nat
      /\ win.next_seq = c + 1 /\ win.size = ClientWin
      /\ c = ConsumedOf(win) + win.count /\ win.count \in 0 .. ClientWin
  BY RingNumbers
<1>4. k \in Nat /\ k < ClientWin /\ c + k + 1 = s
  BY <1>1, <1>2, <1>3 DEF fwdoff
<1>5. AsInt(k) = k  BY <1>2, <1>4 DEF AsInt
<1>6. win_can_get(win, k)  BY <1>2, <1>3, <1>4, <1>5 DEF win_can_get
<1>7. win.end = c % ClientWin  BY DEF GoodRing, Ring
<1>8. win_get(win, k) = ((c % ClientWin) + k) % ClientWin
  BY <1>3, <1>5, <1>7 DEF win_get, Index
<1> HIDE DEF c, k
<1>9. win_get(win, k) = SlotOf(s)  BY <1>3, <1>4, <1>8, SlotAfter
<1>10. win_add_ahead(win, pkt) \in {win, Put(win, s)}
  BY <1>1, <1>9 DEF win_add_ahead, Put, k
<1>11. /\ GoodRing(Put(win, s)) /\ Put(win, s).next_seq = win.next_seq
       /\ Put(win, s).count = win.count
  BY <1>1, PutRing
<1> QED BY <1>1, <1>6, <1>10, <1>11 DEF k

-----------------------------------------------------------------------------
(* Bytes. *)

\* Counting one more segment in order adds the bytes it holds.
LEMMA BytesStep ==
  ASSUME NoWrap, NEW n \in Nat, n + 1 <= LastSeg
  PROVE  /\ dlen(Segment(n + 1)) \in 0 .. MaxData
         /\ Bytes(n) \in Nat
         /\ Bytes(n + 1) = Bytes(n) + dlen(Segment(n + 1))
<1> DEFINE d == Segment(n + 1).data
<1>1. /\ NChunks \in Nat /\ LastSeg = NChunks + 1 /\ MaxData \in Nat \ {0}
      /\ LastLen \in 1 .. MaxData
  BY Constants, WindowAssumption
<1>2. d = IF n + 1 <= NChunks THEN n + 1 ELSE 0
  BY <1>1, SegmentFacts
<1>3. dlen(Segment(n + 1)) = IF d = 0 THEN 0 ELSE IF d = NChunks THEN LastLen ELSE MaxData
  BY DEF dlen
<1> HIDE DEF d
<1>4. FileSize = IF NChunks = 0 THEN 0 ELSE (NChunks - 1) * MaxData + LastLen
  BY DEF FileSize
<1>5. CASE n + 1 < NChunks
  <2>1. dlen(Segment(n + 1)) = MaxData  BY <1>1, <1>2, <1>3, <1>5
  <2>a. n < NChunks  BY <1>1, <1>5
  <2>2. Bytes(n) = n * MaxData /\ Bytes(n + 1) = (n + 1) * MaxData
    BY <1>5, <2>a, Zenon DEF Bytes
  <2>3. (n + 1) * MaxData = n * MaxData + MaxData /\ n * MaxData \in Nat
    BY <1>1
  <2> QED BY <1>1, <2>1, <2>2, <2>3
<1>6. CASE n + 1 = NChunks
  <2>1. dlen(Segment(n + 1)) = LastLen  BY <1>1, <1>2, <1>3, <1>6
  <2>2. Bytes(n) = n * MaxData /\ Bytes(n + 1) = n * MaxData + LastLen
    BY <1>1, <1>4, <1>6 DEF Bytes
  <2>3. n * MaxData \in Nat  BY <1>1
  <2> QED BY <1>1, <2>1, <2>2, <2>3
<1>7. CASE n = NChunks
  <2>1. dlen(Segment(n + 1)) = 0  BY <1>1, <1>2, <1>3, <1>7
  <2>2. Bytes(n) = FileSize /\ Bytes(n + 1) = FileSize
    BY <1>1, <1>7 DEF Bytes
  <2>3. NChunks # 0 => (NChunks - 1) * MaxData \in Nat  BY <1>1
  <2>4. FileSize \in Nat  BY <1>1, <1>4, <2>3
  <2> QED BY <1>1, <2>1, <2>2, <2>4
<1> QED BY <1>1, <1>5, <1>6, <1>7

-----------------------------------------------------------------------------
(* The inductive invariant. *)

RingOK    == GoodRing(rwin)
InHand    == ppc = "got" => pelem \in FromServer
PrintedOK == Len(printed) = Least(Consumed, NChunks) /\ DeliveredInOrder
FitsOK    == cpc = "read" => nread + MaxData * rwin.count <= ReadBuf

\* How the consumer and the process end.
EndsOK ==
  /\ canceled = err
  /\ exit_status # "running" <=> cpc = "exited"
  /\ exit_status = "canceled" => canceled
  /\ exit_status = "bytes" \/ (cpc = "read" /\ eof) => Consumed = LastSeg
  /\ client = "success" => exit_status = "bytes"
  /\ client # "crashed"

CInv ==
  CTypeOK /\ RingOK /\ InHand /\ PrintedOK /\ FitsOK /\ EndsOK /\ MutexOwned
  /\ BytesCounted

\* Reading the oldest element consumes the next chunk, or the FIN.
LEMMA ReadFacts ==
  ASSUME NoWrap, RingOK, ~win_empty(rwin)
  PROVE  LET pkt == win_oldest(rwin)
         IN /\ Consumed \in 0 .. NChunks
            /\ dlen(pkt) \in 0 .. MaxData
            /\ Bytes(Consumed + 1) = Bytes(Consumed) + dlen(pkt)
            /\ pkt.data = IF Consumed < NChunks THEN Consumed + 1 ELSE 0
            /\ IsFin(pkt) <=> Consumed = NChunks
            /\ GoodRing(win_remove(rwin))
            /\ win_remove(rwin).next_seq = rwin.next_seq
            /\ win_remove(rwin).count = rwin.count - 1
            /\ ConsumedOf(win_remove(rwin)) = Consumed + 1
            /\ InOrderOf(win_remove(rwin)) = InOrder
<1> DEFINE c == ConsumedOf(rwin)
           w == win_remove(rwin)
<1>1. /\ c + 1 \in 1 .. LastSeg /\ win_oldest(rwin) = Segment(c + 1)
      /\ GoodRing(w) /\ w.next_seq = rwin.next_seq /\ w.count = rwin.count - 1
  BY RemoveRing DEF RingOK
<1>2. NChunks \in Nat /\ LastSeg = NChunks + 1  BY Constants
<1>3. /\ c \in Nat /\ rwin.next_seq \in Nat /\ rwin.count \in Nat
      /\ c = rwin.next_seq - 1 - rwin.count
  <2>1. rwin.next_seq \in Nat /\ rwin.count \in Nat /\ c \in Nat
    BY RingNumbers DEF RingOK
  <2> QED BY <2>1 DEF ConsumedOf, InOrderOf
<1>4. ConsumedOf(w) = c + 1 /\ InOrderOf(w) = InOrder
  BY <1>1, <1>3 DEF ConsumedOf, InOrderOf, InOrder
<1>5. c = Consumed  BY DEF Consumed
<1> HIDE DEF c, w
<1>6. /\ dlen(Segment(c + 1)) \in 0 .. MaxData
      /\ Bytes(c + 1) = Bytes(c) + dlen(Segment(c + 1))
  BY <1>1, <1>3, BytesStep
<1>7. /\ Segment(c + 1).data = IF c + 1 <= NChunks THEN c + 1 ELSE 0
      /\ IsFin(Segment(c + 1)) <=> c + 1 = LastSeg
  BY <1>1, SegmentFacts
<1>8. c \in 0 .. NChunks  BY <1>1, <1>2, <1>3
<1>9. Segment(c + 1).data = IF c < NChunks THEN c + 1 ELSE 0
  BY <1>2, <1>7, <1>8
<1>10. IsFin(Segment(c + 1)) <=> c = NChunks  BY <1>2, <1>7, <1>8
<1> QED BY <1>1, <1>4, <1>5, <1>6, <1>8, <1>9, <1>10 DEF w

\* The slot after the end, once it becomes the newest element, adds its bytes.
LEMMA AdvanceFacts ==
  ASSUME NoWrap, RingOK, win_end_is_next(rwin)
  PROVE  LET pkt == win_end(rwin).pkt
             w   == AdvanceEnd(rwin)
         IN /\ pkt \in Packet /\ dlen(pkt) \in 0 .. MaxData
            /\ Bytes(InOrder + 1) = Bytes(InOrder) + dlen(pkt)
            /\ GoodRing(w) /\ w.next_seq = rwin.next_seq + 1
            /\ w.count = rwin.count + 1
            /\ ConsumedOf(w) = Consumed /\ InOrderOf(w) = InOrder + 1
<1> DEFINE a == InOrder
           w == AdvanceEnd(rwin)
<1>1. /\ rwin.next_seq <= LastSeg
      /\ win_end(rwin).pkt = Segment(rwin.next_seq)
      /\ GoodRing(w) /\ w.next_seq = rwin.next_seq + 1 /\ w.count = rwin.count + 1
  BY AdvanceRing DEF RingOK
<1>2. /\ a \in Nat /\ rwin.next_seq = a + 1 /\ rwin.count \in Nat
      /\ LastSeg \in Nat
  BY RingNumbers, Constants DEF RingOK, InOrder
<1>3. InOrderOf(w) = a + 1 /\ ConsumedOf(w) = Consumed
  BY <1>1, <1>2 DEF InOrderOf, ConsumedOf, Consumed, InOrder
<1> HIDE DEF a, w
<1>4. /\ dlen(Segment(a + 1)) \in 0 .. MaxData
      /\ Bytes(a + 1) = Bytes(a) + dlen(Segment(a + 1))
  BY <1>1, <1>2, BytesStep
<1>5. Segment(a + 1) \in Packet  BY <1>1, <1>2, SegmentFacts
<1> QED BY <1>1, <1>2, <1>3, <1>4, <1>5 DEF a, w

\* The same for the segment just received, when it is the expected one.
LEMMA AddNextFacts ==
  ASSUME NoWrap, RingOK, ~win_full(rwin), pelem \in FromServer,
         win_valid_seq(rwin, pelem.seq), fwdoff(rwin, pelem.seq) = 0
  PROVE  LET w == win_add(rwin, pelem)
         IN /\ dlen(pelem) \in 0 .. MaxData
            /\ Bytes(InOrder + 1) = Bytes(InOrder) + dlen(pelem)
            /\ GoodRing(w) /\ w.next_seq = rwin.next_seq + 1
            /\ w.count = rwin.count + 1
            /\ ConsumedOf(w) = Consumed /\ InOrderOf(w) = InOrder + 1
<1> DEFINE a == InOrder
           w == win_add(rwin, pelem)
<1>1. /\ rwin.next_seq <= LastSeg
      /\ pelem = Segment(rwin.next_seq)
      /\ GoodRing(w) /\ w.next_seq = rwin.next_seq + 1 /\ w.count = rwin.count + 1
  BY AddNextRing DEF RingOK
<1>2. /\ a \in Nat /\ rwin.next_seq = a + 1 /\ rwin.count \in Nat
      /\ LastSeg \in Nat
  BY RingNumbers, Constants DEF RingOK, InOrder
<1>3. InOrderOf(w) = a + 1 /\ ConsumedOf(w) = Consumed
  BY <1>1, <1>2 DEF InOrderOf, ConsumedOf, Consumed, InOrder
<1> HIDE DEF a, w
<1>4. /\ dlen(Segment(a + 1)) \in 0 .. MaxData
      /\ Bytes(a + 1) = Bytes(a) + dlen(Segment(a + 1))
  BY <1>1, <1>2, BytesStep
<1> QED BY <1>1, <1>2, <1>3, <1>4 DEF a, w

\* The invariant holds initially.
LEMMA CInvInit ==
  ASSUME NoWrap, CInit
  PROVE  CInv
<1>1. /\ ClientWin \in Nat \ {0} /\ LastSeg \in Nat /\ LastSeg = NChunks + 1
      /\ NChunks \in Nat /\ MaxData \in Nat \ {0} /\ SeqMod \in Nat
      /\ LastSeg + 2 * ClientWin + 1 < SeqMod
  BY Constants, WindowAssumption
<1>2. NoPkt \in Packet
  BY <1>1 DEF NoPkt, build_pkt, Packet, Flags, U16
<1>3. 1 % SeqMod \in 0 .. SeqMod - 1
  <2>1. SeqMod \in Nat \ {0} /\ 1 \in Nat  BY <1>1
  <2> QED BY <2>1, ModRange
<1>4. /\ rwin \in RecvWindow /\ rwin.next_seq = 1 /\ rwin.count = 0
      /\ rwin.start = 0 /\ rwin.end = 0
      /\ \A i \in 0 .. ClientWin - 1 : ~rwin.buf[i].valid
  <2>1. rwin = [buf |-> [i \in 0 .. ClientWin - 1 |-> [valid |-> FALSE, pkt |-> NoPkt]],
                size |-> ClientWin, count |-> 0, end |-> 0, start |-> 0,
                next_seq |-> 1, next_ack |-> (0 + 1) % SeqMod,
                in_flight |-> 0, rwin_adv |-> 0, cwnd |-> 1,
                ssthresh |-> U16 - 1, dup_ack |-> 0]
    BY DEF CInit, win_init
  <2>2. 0 + 1 = 1  OBVIOUS
  <2> QED BY <1>1, <1>2, <1>3, <2>1, <2>2 DEF RecvWindow, Slot, U16
<1>5. InOrderOf(rwin) = 0 /\ ConsumedOf(rwin) = 0  BY <1>4 DEF InOrderOf, ConsumedOf
<1>6. 0 % ClientWin = 0
  <2>1. 0 \in 0 .. ClientWin - 1  BY <1>1
  <2>2. ClientWin \in Nat \ {0}  BY <1>1
  <2> QED BY <2>1, <2>2, SmallMod
<1>7. RingOK  BY <1>1, <1>4, <1>5, <1>6 DEF RingOK, GoodRing, Ring
<1>8. CTypeOK
  <2>1. <<>> \in Seq(1 .. NChunks)  OBVIOUS
  <2> QED BY <1>2, <1>4, <2>1 DEF CInit, CTypeOK
<1>9. PrintedOK
  BY <1>1, <1>5 DEF CInit, PrintedOK, DeliveredInOrder, Consumed, Least
<1>10. Bytes(0) = 0  BY <1>1 DEF Bytes, FileSize
<1>11. BytesCounted
  BY <1>5, <1>10 DEF CInit, BytesCounted, InOrder, Consumed
<1> QED
  BY <1>7, <1>8, <1>9, <1>11
     DEF CInv, CInit, InHand, FitsOK, EndsOK, MutexOwned

LEMMA FromServerPackets ==
  ASSUME NoWrap
  PROVE  FromServer \subseteq Packet
<1>1. SynAck \in Packet
  BY Constants DEF SynAck, build_pkt, Packet, Flags, U16
<1> QED BY <1>1, SegmentFacts DEF FromServer

\* Steps of the producer that leave the window alone.
LEMMA ProducerKeepsWindow ==
  ASSUME NoWrap, CInv,
         \/ \E pkt \in FromServer : PRecv(pkt)
         \/ PRecvFails
         \/ PDrop
         \/ PAdvanced
         \/ \E sent \in BOOLEAN : PReply(sent)
         \/ PJoin
  PROVE  CInv'
<1>1. CASE \E pkt \in FromServer : PRecv(pkt)
  BY <1>1, FromServerPackets
     DEF CInv, PRecv, Up, cvars, CTypeOK, RingOK, InHand, PrintedOK, FitsOK, EndsOK,
         MutexOwned, BytesCounted, DeliveredInOrder, Consumed, InOrder
<1>2. CASE PRecvFails
  BY <1>2
     DEF CInv, PRecvFails, ProducerFails, Up, cvars, CTypeOK, RingOK, InHand, PrintedOK,
         FitsOK, EndsOK, MutexOwned, BytesCounted, DeliveredInOrder, Consumed, InOrder
<1>3. CASE PDrop
  BY <1>3
     DEF CInv, PDrop, PLock, Up, cvars, CTypeOK, RingOK, InHand, PrintedOK,
         FitsOK, EndsOK, MutexOwned, BytesCounted, DeliveredInOrder, Consumed, InOrder
<1>4. CASE PAdvanced
  BY <1>4
     DEF CInv, PAdvanced, Up, cvars, CTypeOK, RingOK, InHand, PrintedOK,
         FitsOK, EndsOK, MutexOwned, BytesCounted, DeliveredInOrder, Consumed, InOrder
<1>5. CASE \E sent \in BOOLEAN : PReply(sent)
  BY <1>5
     DEF CInv, PReply, ProducerFails, Up, cvars, CTypeOK, RingOK, InHand, PrintedOK,
         FitsOK, EndsOK, MutexOwned, BytesCounted, DeliveredInOrder, Consumed, InOrder
<1>6. CASE PJoin
  BY <1>6
     DEF CInv, PJoin, Up, pvars, cvars, CTypeOK, RingOK, InHand, PrintedOK,
         FitsOK, EndsOK, MutexOwned, BytesCounted, DeliveredInOrder, Consumed, InOrder
<1> QED BY <1>1, <1>2, <1>3, <1>4, <1>5, <1>6

\* Steps of the consumer that leave the window alone.
LEMMA ConsumerKeepsWindow ==
  ASSUME NoWrap, CInv, CWake \/ CLock \/ CUnlock \/ CCancel
  PROVE  CInv'
<1>1. CASE CWake
  BY <1>1
     DEF CInv, CWake, Up, pvars, CTypeOK, RingOK, InHand, PrintedOK, FitsOK, EndsOK,
         MutexOwned, BytesCounted, DeliveredInOrder, Consumed, InOrder
<1>2. CASE CLock
  <2>1. rwin.count \in 0 .. ClientWin /\ ClientWin \in Nat /\ MaxData \in Nat
    BY RingNumbers, Constants, WindowAssumption DEF CInv, RingOK
  <2>2. MaxData * rwin.count <= MaxData * ClientWin
    <3> DEFINE n == rwin.count
    <3> HIDE DEF n
    <3>1. n \in 0 .. ClientWin => MaxData * n <= MaxData * ClientWin  BY <2>1
    <3> QED BY <2>1, <3>1 DEF n
  <2>3. MaxData * rwin.count \in Int /\ ReadBuf = MaxData * ClientWin
    BY <2>1 DEF ReadBuf
  <2>4. FitsOK'  BY <1>2, <2>2, <2>3 DEF FitsOK, CLock
  <2>5. BytesCounted'
    BY <1>2 DEF CInv, CTypeOK, CLock, Up, pvars, BytesCounted, Consumed, InOrder
  <2> QED BY <1>2, <2>4, <2>5
     DEF CInv, CLock, Up, pvars, CTypeOK, RingOK, InHand, PrintedOK, EndsOK,
         MutexOwned, DeliveredInOrder, Consumed
<1>3. CASE CUnlock
  BY <1>3
     DEF CInv, CUnlock, Up, pvars, CTypeOK, RingOK, InHand, PrintedOK, FitsOK, EndsOK,
         MutexOwned, BytesCounted, DeliveredInOrder, Consumed, InOrder
<1>4. CASE CCancel
  BY <1>4
     DEF CInv, CCancel, Up, pvars, CTypeOK, RingOK, InHand, PrintedOK, FitsOK, EndsOK,
         MutexOwned, BytesCounted, DeliveredInOrder, Consumed, InOrder
<1> QED BY <1>1, <1>2, <1>3, <1>4

\* The expected segment arrives.
LEMMA PAddNextInv ==
  ASSUME NoWrap, CInv, PAddNext
  PROVE  CInv'
<1>1. /\ RingOK /\ ~win_full(rwin) /\ pelem \in FromServer
      /\ win_valid_seq(rwin, pelem.seq) /\ fwdoff(rwin, pelem.seq) = 0
  BY DEF CInv, InHand, PAddNext, PLock
<1>2. /\ dlen(pelem) \in 0 .. MaxData
      /\ Bytes(InOrder + 1) = Bytes(InOrder) + dlen(pelem)
      /\ GoodRing(rwin') /\ rwin'.count = rwin.count + 1
      /\ Consumed' = Consumed /\ InOrder' = InOrder + 1
  BY <1>1, AddNextFacts DEF PAddNext, Consumed, InOrder
<1>3. cpc # "read" /\ UNCHANGED <<cpc, nread, eof, ctot, exit_status, printed, client>>
  BY DEF PAddNext, PLock, cvars, CInv, MutexOwned
<1>4. CTypeOK'
  BY <1>2 DEF CInv, CTypeOK, PAddNext, PLock, cvars, GoodRing, IsFin
<1>5. BytesCounted'
  BY <1>2, <1>3 DEF CInv, CTypeOK, BytesCounted, PAddNext, PLock, Up
<1>6. RingOK' /\ InHand' /\ FitsOK'
  BY <1>2, <1>3 DEF PAddNext, RingOK, InHand, FitsOK
<1>7. PrintedOK' /\ EndsOK'
  BY <1>2, <1>3 DEF CInv, PrintedOK, DeliveredInOrder, EndsOK, PAddNext, PLock
<1>8. MutexOwned'
  BY <1>3 DEF CInv, CTypeOK, MutexOwned, PAddNext, PLock, Up
<1> QED BY <1>4, <1>5, <1>6, <1>7, <1>8 DEF CInv

\* The loop of win_add_oor turns.
LEMMA PAdvanceInv ==
  ASSUME NoWrap, CInv, PAdvance
  PROVE  CInv'
<1>1. RingOK /\ win_end_is_next(rwin)
  BY DEF CInv, PAdvance
<1>2. /\ dlen(win_end(rwin).pkt) \in 0 .. MaxData
      /\ Bytes(InOrder + 1) = Bytes(InOrder) + dlen(win_end(rwin).pkt)
      /\ GoodRing(rwin') /\ rwin'.count = rwin.count + 1
      /\ Consumed' = Consumed /\ InOrder' = InOrder + 1
  BY <1>1, AdvanceFacts DEF PAdvance, Consumed, InOrder
<1>3. cpc # "read" /\ UNCHANGED <<cpc, nread, eof, ctot, exit_status, printed, client>>
  BY DEF PAdvance, Up, cvars, CInv, CTypeOK, MutexOwned
<1>4. CTypeOK'
  BY <1>2 DEF CInv, CTypeOK, PAdvance, cvars, GoodRing, IsFin
<1>5. BytesCounted'
  BY <1>2, <1>3 DEF CInv, CTypeOK, BytesCounted, PAdvance, Up
<1>6. RingOK' /\ InHand' /\ FitsOK'
  BY <1>2, <1>3 DEF PAdvance, RingOK, InHand, FitsOK
<1>7. PrintedOK' /\ EndsOK'
  BY <1>2, <1>3 DEF CInv, PrintedOK, DeliveredInOrder, EndsOK, PAdvance
<1>8. MutexOwned'
  BY <1>3 DEF CInv, CTypeOK, MutexOwned, PAdvance, Up
<1> QED BY <1>4, <1>5, <1>6, <1>7, <1>8 DEF CInv

\* A later segment arrives.
LEMMA PAddAheadInv ==
  ASSUME NoWrap, CInv, PAddAhead
  PROVE  CInv'
<1>1. /\ RingOK /\ ~win_full(rwin) /\ pelem \in FromServer
      /\ win_valid_seq(rwin, pelem.seq)
  BY DEF CInv, InHand, PAddAhead, PLock
<1>2. /\ win_can_get(rwin, fwdoff(rwin, pelem.seq))
      /\ GoodRing(win_add_ahead(rwin, pelem))
      /\ win_add_ahead(rwin, pelem).next_seq = rwin.next_seq
      /\ win_add_ahead(rwin, pelem).count = rwin.count
  BY <1>1, AddAheadRing DEF RingOK
<1>3. /\ GoodRing(rwin') /\ rwin'.count = rwin.count
      /\ mutex' = "producer" /\ ppc' = "reply" /\ pfin' = FALSE
      /\ UNCHANGED <<ptot, client, pelem, err, canceled, cvars>>
      /\ Consumed' = Consumed /\ InOrder' = InOrder
  BY <1>2 DEF PAddAhead, PLock, Consumed, InOrder, ConsumedOf, InOrderOf
<1>4. CTypeOK'
  BY <1>3 DEF CInv, CTypeOK, cvars, GoodRing
<1>5. BytesCounted'
  BY <1>3 DEF CInv, CTypeOK, BytesCounted, cvars, Up
<1>6. RingOK' /\ InHand' /\ FitsOK'
  BY <1>3 DEF CInv, RingOK, InHand, FitsOK, cvars
<1>7. PrintedOK' /\ EndsOK'
  BY <1>3 DEF CInv, PrintedOK, DeliveredInOrder, EndsOK, cvars
<1>8. MutexOwned'
  BY <1>3 DEF CInv, CTypeOK, MutexOwned, PAddAhead, PLock, Up, cvars
<1> QED BY <1>4, <1>5, <1>6, <1>7, <1>8 DEF CInv

\* The consumer reads an element.
LEMMA CReadInv ==
  ASSUME NoWrap, CInv, CRead
  PROVE  CInv'
<1> DEFINE pkt == win_oldest(rwin)
           n   == Consumed
<1>1. RingOK /\ ~win_empty(rwin)  BY DEF CInv, CRead
<1>2. /\ n \in 0 .. NChunks /\ dlen(pkt) \in 0 .. MaxData
      /\ Bytes(n + 1) = Bytes(n) + dlen(pkt)
      /\ pkt.data = IF n < NChunks THEN n + 1 ELSE 0
      /\ IsFin(pkt) <=> n = NChunks
      /\ GoodRing(rwin') /\ rwin'.count = rwin.count - 1
      /\ Consumed' = n + 1 /\ InOrder' = InOrder
  BY <1>1, ReadFacts DEF CRead, Consumed, InOrder
<1>3. /\ client = "up" /\ client' = "up" /\ cpc = "read" /\ cpc' = "read"
      /\ nread' = nread + dlen(pkt) /\ eof' = (eof \/ IsFin(pkt))
      /\ printed' = IF pkt.data = 0 THEN printed ELSE Append(printed, pkt.data)
      /\ UNCHANGED <<mutex, pvars, ctot, exit_status>>
  BY DEF CRead, Up
<1> HIDE DEF pkt, n
<1>4. NChunks \in Nat /\ LastSeg = NChunks + 1 /\ MaxData \in Nat
  BY Constants, WindowAssumption
<1>5. printed \in Seq(1 .. NChunks) /\ Len(printed) = Least(n, NChunks)
      /\ \A i \in 1 .. Len(printed) : printed[i] = i
  BY DEF CInv, CTypeOK, PrintedOK, DeliveredInOrder, n
<1>6. printed' \in Seq(1 .. NChunks) /\ PrintedOK'
  <2>1. CASE n < NChunks
    <3>1. printed' = Append(printed, n + 1) /\ n + 1 \in 1 .. NChunks
          /\ Len(printed) = n
      BY <1>2, <1>3, <1>4, <1>5, <2>1 DEF Least
    <3>2. /\ printed' \in Seq(1 .. NChunks) /\ Len(printed') = n + 1
          /\ \A i \in 1 .. n + 1 : printed'[i] = i
      BY <1>5, <3>1
    <3> QED BY <1>2, <1>4, <3>2, <2>1 DEF PrintedOK, DeliveredInOrder, Least
  <2>2. CASE n = NChunks
    <3>1. printed' = printed /\ Len(printed) = NChunks
      BY <1>2, <1>3, <1>4, <1>5, <2>2 DEF Least
    <3> QED BY <1>2, <1>4, <1>5, <3>1, <2>2 DEF PrintedOK, DeliveredInOrder, Least
  <2> QED BY <1>2, <1>4, <2>1, <2>2
<1>7. CTypeOK'
  BY <1>2, <1>3, <1>6 DEF CInv, CTypeOK, pvars, GoodRing, IsFin
<1>8. BytesCounted'
  BY <1>2, <1>3 DEF CInv, CTypeOK, BytesCounted, pvars, Up, n
<1>9. FitsOK'
  <2>1. rwin.count \in Nat /\ rwin.count # 0
    BY <1>1, RingNumbers DEF RingOK, win_empty
  <2>2. MaxData * (rwin.count - 1) = MaxData * rwin.count - MaxData
        /\ MaxData * rwin.count \in Int
    BY <1>4, <2>1
  <2>3. nread \in Nat /\ nread + MaxData * rwin.count <= ReadBuf /\ ReadBuf \in Int
    BY <1>3, <1>4, Constants DEF CInv, CTypeOK, FitsOK, ReadBuf
  <2>4. nread + dlen(pkt) + MaxData * (rwin.count - 1) <= ReadBuf
    BY <1>2, <1>4, <2>2, <2>3
  <2> QED BY <1>2, <1>3, <2>4 DEF FitsOK, ReadBuf
<1>10. EndsOK'
  <2>1. exit_status = "running" /\ ~eof
    BY <1>2, <1>3, <1>4 DEF CInv, EndsOK, n
  <2>2. eof' => Consumed' = LastSeg  BY <1>2, <1>3, <1>4, <2>1
  <2> QED BY <1>3, <2>1, <2>2 DEF CInv, EndsOK, pvars
<1>11. RingOK' /\ InHand' /\ MutexOwned'
  BY <1>2, <1>3 DEF CInv, RingOK, InHand, MutexOwned, pvars, Up
<1> QED BY <1>6, <1>7, <1>8, <1>9, <1>10, <1>11 DEF CInv

\* Every step preserves the invariant.
LEMMA CInvNext ==
  ASSUME NoWrap, CInv, [CNext]_clientVars
  PROVE  CInv'
<1>1. CASE \E pkt \in FromServer : PRecv(pkt)      BY <1>1, ProducerKeepsWindow
<1>2. CASE PRecvFails                               BY <1>2, ProducerKeepsWindow
<1>3. CASE ProducerLocal
  BY <1>3, ProducerKeepsWindow, PAddNextInv, PAddAheadInv, PAdvanceInv
     DEF ProducerLocal
<1>4. CASE \E sent \in BOOLEAN : PReply(sent)      BY <1>4, ProducerKeepsWindow
<1>5. CASE Consumer  BY <1>5, ConsumerKeepsWindow, CReadInv DEF Consumer
<1>6. CASE UNCHANGED clientVars
  BY <1>6
     DEF CInv, clientVars, pvars, cvars, CTypeOK, RingOK, InHand, PrintedOK, FitsOK,
         EndsOK, MutexOwned, BytesCounted, DeliveredInOrder, Consumed, InOrder, Up
<1> QED BY <1>1, <1>2, <1>3, <1>4, <1>5, <1>6 DEF CNext

-----------------------------------------------------------------------------
(* The theorems. *)

\* The invariant holds in every reachable state of the client.
THEOREM ClientInvariant ==
  ASSUME NoWrap
  PROVE  CSpec => []CInv
<1>1. CInit => CInv  BY CInvInit
<1>2. CInv /\ [CNext]_clientVars => CInv'  BY CInvNext
<1> QED BY <1>1, <1>2, PTL DEF CSpec

\* The variables of the client keep their types: the fields of the window stay
\* in the ranges that the C code relies on.
THEOREM ClientTypes ==
  ASSUME NoWrap
  PROVE  CSpec => []CTypeOK
<1>1. CInv => CTypeOK  BY DEF CInv
<1> QED BY <1>1, ClientInvariant, PTL

\* Whatever order win_add_oor gets the segments in, and however often, every
\* slot of the ring holds the segment that belongs there.
THEOREM ClientRing ==
  ASSUME NoWrap
  PROVE  CSpec => []WindowShape
<1>1. CInv => WindowShape  BY DEF CInv, RingOK, GoodRing, WindowShape
<1> QED BY <1>1, ClientInvariant, PTL

\* The consumer prints the chunks of the file in order, with no gap and no
\* repetition (stcp_client_read, runConsumer).
THEOREM ClientDelivers ==
  ASSUME NoWrap
  PROVE  CSpec => []DeliveredInOrder
<1>1. CInv => DeliveredInOrder  BY DEF CInv, PrintedOK
<1> QED BY <1>1, ClientInvariant, PTL

\* The client exits with success only after it printed the whole file (main's
\* exit status, with the consumer's and the producer's).
THEOREM ClientSuccess ==
  ASSUME NoWrap
  PROVE  CSpec => []SuccessMeansWholeFile
<1>1. CInv => SuccessMeansWholeFile
  <2> SUFFICES ASSUME CInv, client = "success"
               PROVE  Len(printed) = NChunks
    BY DEF SuccessMeansWholeFile
  <2>1. Consumed = LastSeg  BY DEF CInv, EndsOK
  <2>2. NChunks \in Nat /\ LastSeg = NChunks + 1  BY Constants
  <2> QED BY <2>1, <2>2 DEF CInv, PrintedOK, Least
<1> QED BY <1>1, ClientInvariant, PTL

\* The offset that win_add_oor gives win_get is always in range, so that the
\* NULL it may return is never dereferenced.
THEOREM ClientNoCrash ==
  ASSUME NoWrap
  PROVE  CSpec => []NoCrash
<1>1. CInv => NoCrash  BY DEF CInv, EndsOK, NoCrash
<1> QED BY <1>1, ClientInvariant, PTL

\* The two threads exclude each other, and a consumer that was canceled does
\* not leave the mutex locked.
THEOREM ClientMutex ==
  ASSUME NoWrap
  PROVE  CSpec => []MutexOwned
<1>1. CInv => MutexOwned  BY DEF CInv
<1> QED BY <1>1, ClientInvariant, PTL

\* The bytes that the producer and the consumer count agree with what is in
\* the window, in every step of either.
THEOREM ClientBytes ==
  ASSUME NoWrap
  PROVE  CSpec => []BytesCounted
<1>1. CInv => BytesCounted  BY DEF CInv
<1> QED BY <1>1, ClientInvariant, PTL

\* read_buf always has room for the oldest element, so that stcp_client_read
\* never spins with the mutex locked.
THEOREM ClientReadFits ==
  ASSUME NoWrap
  PROVE  CSpec => []ReadFits
<1>1. CInv => ReadFits
  <2> SUFFICES ASSUME CInv, cpc = "read", ~win_empty(rwin)
               PROVE  nread + dlen(win_oldest(rwin)) <= ReadBuf
    BY DEF ReadFits
  <2>1. /\ rwin.count \in Nat /\ rwin.count # 0 /\ MaxData \in Nat
        /\ ClientWin \in Nat
    BY RingNumbers, Constants, WindowAssumption DEF CInv, RingOK, win_empty
  <2>2. dlen(win_oldest(rwin)) \in 0 .. MaxData  BY ReadFacts DEF CInv
  <2>3. MaxData <= MaxData * rwin.count /\ MaxData * rwin.count \in Int
    <3> DEFINE n == rwin.count
    <3> HIDE DEF n
    <3>1. n \in Nat /\ n # 0 => MaxData <= MaxData * n  BY <2>1
    <3>2. n \in Nat => MaxData * n \in Int  BY <2>1
    <3> QED BY <2>1, <3>1, <3>2 DEF n
  <2>4. nread \in Nat /\ nread + MaxData * rwin.count <= ReadBuf /\ ReadBuf \in Int
    BY <2>1 DEF CInv, CTypeOK, FitsOK, ReadBuf
  <2> QED BY <2>1, <2>2, <2>3, <2>4
<1> QED BY <1>1, ClientInvariant, PTL

\* No step moves the right edge of the advertised window to the left, nor takes
\* back an acknowledgment.
THEOREM ClientEdge ==
  ASSUME NoWrap
  PROVE  CSpec => EdgeNeverShrinks
<1> DEFINE Edge == /\ rwin'.next_seq >= rwin.next_seq
                   /\ rwin'.next_seq + win_available(rwin')
                        >= rwin.next_seq + win_available(rwin)
<1>1. CInv /\ CInv' /\ [CNext]_clientVars => [Edge]_clientVars
  <2> SUFFICES ASSUME CInv, CInv', CNext
               PROVE  Edge \/ UNCHANGED clientVars
    OBVIOUS
  <2>1. /\ rwin.next_seq \in Nat /\ rwin.count \in Nat /\ rwin.size = ClientWin
        /\ ClientWin \in Nat /\ rwin'.size = ClientWin
    BY Constants, RingNumbers DEF CInv, RingOK
  <2>2. CASE rwin' = rwin
    BY <2>1, <2>2 DEF win_available
  <2>3. CASE PAddNext
    BY <2>1, <2>3, AddNextFacts DEF CInv, InHand, PAddNext, PLock, win_available
  <2>4. CASE PAdvance
    BY <2>1, <2>4, AdvanceFacts DEF CInv, PAdvance, win_available
  <2>5. CASE PAddAhead
    <3>1. CASE rwin' = rwin  BY <2>2, <3>1
    <3>2. CASE rwin' # rwin
      <4>1. /\ rwin'.next_seq = rwin.next_seq /\ rwin'.count = rwin.count
        BY <2>5, <3>2, AddAheadRing DEF CInv, InHand, PAddAhead, PLock, RingOK
      <4> QED BY <2>1, <4>1 DEF win_available
    <3> QED BY <3>1, <3>2
  <2>6. CASE CRead
    BY <2>1, <2>6, ReadFacts DEF CInv, CRead, win_available
  <2> QED
    BY <2>2, <2>3, <2>4, <2>5, <2>6
       DEF CNext, PRecv, PRecvFails, ProducerLocal, PReply, Consumer, PDrop, PLock,
           PAdvanced, PJoin, CWake, CLock, CUnlock, CCancel, clientVars
<1>2. EdgeNeverShrinks <=> [][Edge]_clientVars  BY DEF EdgeNeverShrinks
<1> QED BY <1>1, <1>2, ClientInvariant, PTL DEF CSpec

-----------------------------------------------------------------------------
(* The client alone implements FileDelivery's receiver. *)

\* Its steps: a segment becomes the next in order, a chunk is printed, the
\* process ends, or nothing that FileDelivery speaks of.
LEMMA ClientReceives ==
  ASSUME NoWrap, CInv, CInv', CNext
  PROVE  [Reception!Next]_(Reception!vars)
<1>0. /\ RingOK /\ InOrder \in 0 .. LastSeg /\ InOrder' \in 0 .. LastSeg
      /\ LastSeg = NChunks + 1 /\ NChunks \in Nat
  <2>1. GoodRing(rwin) /\ GoodRing(rwin')  BY DEF CInv, RingOK
  <2>2. InOrderOf(rwin) \in 0 .. LastSeg /\ InOrderOf(rwin') \in 0 .. LastSeg
    BY <2>1, RingNumbers
  <2> QED BY <2>1, <2>2, Constants DEF InOrder, RingOK
<1>1. CASE PAddNext \/ PAdvance
  <2>1. InOrder' = InOrder + 1
    <3>1. CASE PAddNext
      BY <1>0, <3>1, AddNextFacts DEF PAddNext, PLock, CInv, InHand, InOrder
    <3>2. CASE PAdvance
      BY <1>0, <3>2, AdvanceFacts DEF PAdvance, InOrder
    <3> QED BY <1>1, <3>1, <3>2
  <2>2. client = "up" /\ client' = client /\ printed' = printed
    BY <1>1 DEF PAddNext, PLock, PAdvance, Up, cvars
  <2>3. Reception!Accept  BY <1>0, <2>1, <2>2 DEF Reception!Accept
  <2> QED BY <2>3 DEF Reception!Next
<1>2. CASE CRead
  <2>1. client = "up" /\ client' = client /\ ~win_empty(rwin) /\ rwin' = win_remove(rwin)
        /\ printed' = IF win_oldest(rwin).data = 0 THEN printed
                      ELSE Append(printed, win_oldest(rwin).data)
    BY <1>2 DEF CRead, Up
  <2>2. /\ Consumed \in 0 .. NChunks
        /\ win_oldest(rwin).data = IF Consumed < NChunks THEN Consumed + 1 ELSE 0
        /\ InOrder' = InOrder
    BY <1>0, <2>1, ReadFacts DEF InOrder
  <2>3. CASE Consumed < NChunks
    <3>1. Len(printed) = Consumed  BY <1>0, <2>2, <2>3 DEF CInv, PrintedOK, Least
    <3>2. Consumed < InOrder
      <4>1. InOrder = Consumed + rwin.count /\ rwin.count \in Nat
        BY <1>0, RingNumbers DEF RingOK, InOrder, Consumed
      <4>2. rwin.count # 0  BY <2>1 DEF win_empty
      <4> QED BY <2>2, <4>1, <4>2
    <3>3. printed' = Append(printed, Len(printed) + 1)
      BY <2>1, <2>2, <2>3, <3>1
    <3>4. Reception!Consume
      BY <2>1, <2>2, <2>3, <3>1, <3>2, <3>3 DEF Reception!Consume
    <3> QED BY <3>4 DEF Reception!Next
  <2>4. CASE ~(Consumed < NChunks)
    BY <2>1, <2>2, <2>4 DEF Reception!vars
  <2> QED BY <2>3, <2>4
<1>3. CASE PJoin
  <2>1. /\ client = "up" /\ client' \in {"success", "failure"}
        /\ UNCHANGED <<rwin, printed>>
    BY <1>3 DEF PJoin, Up, cvars
  <2>2. InOrder' = InOrder  BY <2>1 DEF InOrder
  <2>3. client' = "success" => InOrder = NChunks + 1 /\ Len(printed) = NChunks
    <3> SUFFICES ASSUME client' = "success"
                 PROVE  InOrder = NChunks + 1 /\ Len(printed) = NChunks
      OBVIOUS
    <3>1. Consumed' = LastSeg  BY DEF CInv, EndsOK
    <3>2. Consumed = LastSeg  BY <2>1, <3>1 DEF Consumed
    <3>3. InOrder = Consumed + rwin.count /\ rwin.count \in Nat
      BY <1>0, RingNumbers DEF RingOK, InOrder, Consumed
    <3> QED BY <1>0, <3>2, <3>3 DEF CInv, PrintedOK, Least
  <2>4. Reception!ReceiverEnds(client')
    BY <2>1, <2>2, <2>3 DEF Reception!ReceiverEnds
  <2> QED BY <2>1, <2>4 DEF Reception!Next
<1>4. CASE PAddAhead
  <2>1. /\ ~win_full(rwin) /\ pelem \in FromServer /\ win_valid_seq(rwin, pelem.seq)
    BY <1>4 DEF CInv, InHand, PAddAhead, PLock
  <2>2. rwin' = win_add_ahead(rwin, pelem) /\ client' = client /\ printed' = printed
    BY <1>0, <1>4, <2>1, AddAheadRing DEF PAddAhead, PLock, cvars, RingOK
  <2>3. InOrder' = InOrder
    BY <1>0, <2>1, <2>2, AddAheadRing DEF InOrder, InOrderOf, RingOK
  <2> QED BY <2>2, <2>3 DEF Reception!vars
<1>5. CASE \/ \E pkt \in FromServer : PRecv(pkt)
           \/ PRecvFails
           \/ \E sent \in BOOLEAN : PReply(sent)
           \/ PDrop \/ PAdvanced \/ CWake \/ CLock \/ CUnlock \/ CCancel
           \/ UNCHANGED clientVars
  <2>1. UNCHANGED <<rwin, client, printed>>
    BY <1>5 DEF PRecv, PRecvFails, PReply, ProducerFails, PDrop, PLock, PAdvanced, CWake,
                CLock, CUnlock, CCancel, clientVars, cvars
  <2>2. InOrder' = InOrder  BY <2>1 DEF InOrder
  <2> QED BY <2>1, <2>2 DEF Reception!vars
<1> QED BY <1>1, <1>2, <1>3, <1>4, <1>5 DEF CNext, ProducerLocal, Consumer

\* The client implements the receiver of FileDelivery against any environment:
\* with segments reordered, repeated or lost, it accepts each segment of the
\* file once and in order, its consumer prints them once and in order, and it
\* succeeds only when all is accepted and printed.
THEOREM ClientImplements ==
  ASSUME NoWrap
  PROVE  CSpec => ImplementsReception
<1>1. CInit => Reception!Init
  <2> SUFFICES ASSUME CInit PROVE Reception!Init
    OBVIOUS
  <2>1. InOrder = 0  BY DEF CInit, win_init, InOrder, InOrderOf
  <2> QED BY <2>1 DEF CInit, Reception!Init
<1>2. CInv /\ CInv' /\ [CNext]_clientVars => [Reception!Next]_(Reception!vars)
  <2>1. CASE UNCHANGED clientVars
    BY <2>1 DEF clientVars, cvars, InOrder, Reception!vars
  <2> QED BY <2>1, ClientReceives
<1> QED
  BY <1>1, <1>2, ClientInvariant, PTL DEF CSpec, ImplementsReception, Reception!Spec
=============================================================================
