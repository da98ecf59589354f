# STCP: a TLA+ model of a reliable file transfer over UDP

`src/hw2` is a small TCP-like protocol, STCP, on UDP sockets: a concurrent
server sends a file to a client with a sliding window, cumulative
acknowledgments, flow control, slow start, congestion avoidance, fast
retransmit, retransmission timeouts and zero-window probes. The client is two
threads that share the receiving window: a producer that puts segments in order
and a consumer that reads them and sleeps in between. Both ends drop packets on
purpose, with a configured probability, in `send_pkt` and `recv_pkt`.

This directory holds a model of it, the TLC configurations that check the model
on small instances, and theorems, proved with TLAPS, about the client, the
server, the two together, the handshake, the list of processes, the timer and the
choice of addresses for instances of every size. The model
covers a connection from the choice of addresses and the client's first SYN to the
end of both processes: the handshake with the server's main loop and its children,
and the transfer.

## 1. Inventory

| Component | State | Operations | What makes it correct |
|---|---|---|---|
| Window (`stcp.c`, `stcp.h`) | `Window`: the ring `buf`, `start`, `end`, `count`, `next_seq`, `next_ack`, `in_flight`, `cwnd`, `ssthresh`, `rwin_adv`, `dup_ack` | `win_init`, `win_add`, `win_add_oor`, `win_remove`, `win_remove_ack`, `win_buffer_elem`, `win_valid_seq`, `win_valid_ack`, `win_dup_ack`, `win_send_limit`, `win_get`, `win_get_index` | Every slot holds the segment that belongs there; no NULL is dereferenced |
| Client transfer (`client.c`, `stcp.c`) | the receiving window, `stcp->mutex`, the locals of the two threads, cancellation, exit status | `main`, `runProducer`, `stcp_client_recv`, `runConsumer`, `stcp_client_read` | The file is printed in order and whole; the mutex is never left locked; success means the file was printed |
| Server transfer (`server.c`, `stcp.c`) | the sending window, `eof`, `deadlock`, `cwnd_inc`, the interval timer, `rtt_info`, the `sigjmp_buf` | `transfer_file`, `set_timeout`, `clear_timeout`, `sigalrm_timeout` | The window is always a run of consecutive segments; it never waits without a timer; success means everything was acknowledged |
| Packets (`stcp.c`) | none | `build_pkt`, `send_pkt`, `recv_pkt`, `hton_hdr`, `ntoh_hdr`, `valid_pkt` | Only well-formed packets reach the callers |
| RTT estimator (`unprtt.c`) | `rtt_info` | `rtt_init`, `rtt_newpack`, `rtt_stop`, `rtt_timeout` | RTO within its limits; what fits an int overflows nothing; the RTO covers what was measured; a bounded time until it gives up |
| Handshake (`stcp_connect`, `childprocess`) | retries, timeouts, the two sockets of the child | SYN, SYN-ACK on two sockets, ACK | Both ends agree on port, numbers and window, or both give up |
| Server main loop (`server.c`, `child_process.c`) | the list of processes | `run`, `spawnchild`, `sigchld_handler`, `add_process`, `remove_process`, `get_process` | One child per client; a child that ended leaves the list |
| Address selection (`client.c`, `interfaces.c`, `utility.c`) | the list of interfaces, the sockets | `discoverInterfaces`, `chooseIPs`, `isSameSubnet`, `createServer`, `createClientSocket` | Longest matching prefix, loopback first; routing is bypassed only to a peer reached directly |
| Configuration, interface enumeration, display, `src/hw3` | | | not modelled, see section 7 |

**How they interact.** The server's main loop forks a child per SYN; the child
and the client do the handshake, and then exchange only data segments and ACKs
over a pair of connected UDP sockets. The client's two threads share the window
and nothing else, under one mutex; `main` cancels the consumer when the producer
fails and always joins it. In the child, SIGALRM interrupts `transfer_file`
anywhere the timer is armed and `siglongjmp`s to the retransmission code. When
one process has ended, packets to its port come back as ICMP errors, which the
next call on the peer's socket returns.

**What is hard here.** Loss, duplication by retransmission and late ACKs; ring
indices that wrap while segments arrive out of order; a consumer that frees room
between the producer's looking and locking; asynchronous cancellation next to a
mutex; a signal that jumps out of the middle of any statement; a window closed
by the consumer and reopened only by probes; the end of the connection, where
one side is gone while the other still needs an answer. `PROJECT.json` lists
these hazards line by line with the properties that cover them.

## 2. Modules

| Module | Models | Lines |
|---|---|---|
| `StcpWindow` | packets and `Window`: pure operators on a record that is the C structure | `stcp.h:22-76`, `stcp.c:5-19`, `stcp.c:501-797` |
| `StcpClient` | producer, consumer, mutex, cancellation and exit of the client | `client.c:60-121`, `client.c:200-312`, `stcp.c:246-371` |
| `StcpServer` | `transfer_file` with its alarm | `server.c:358-589` |
| `StcpTransfer` | both, with two UDP channels, loss and ICMP errors | |
| `FileDelivery` | what the two ends promise each other; `StcpTransfer` implements it, and `StcpClient` alone its receiver | |
| `Endpoints` | clients, children, their ports | |
| `ServerMain` | `run`, `spawnchild`, `sigchld_handler`, the list of processes, `childprocess` up to `transfer_file` | `server.c:57-356`, `server.c:539-561`, `child_process.c` |
| `StcpConnect` | `stcp_connect` for a set of clients | `stcp.c:58-76`, `stcp.c:144-237` |
| `Handshake` | both, with the network and the sockets between them | |
| `Association` | what the handshake promises: who is paired with whom; `Handshake` implements it | |
| `Rtt` | the estimator and its calls in `transfer_file` | `unprtt.c:10-101`, `server.c:401-415`, `server.c:454-492` |
| `Addresses` | `discoverInterfaces`, `chooseIPs`, `createClientSocket` and the server's sockets | `interfaces.c:66-183`, `client.c:123-187`, `utility.c:104-193`, `server.c:225-248` |
| `RingArithmetic` | proved lemmas on remainders | |
| `StcpClientProofs`, `StcpServerProofs`, `StcpTransferProofs`, `HandshakeProofs`, `ProcessListProofs`, `RttProofs`, `AddressesProofs` | proved theorems about these modules | |

**Data.** The file is `NChunks` chunks, the results of successive `read()`
calls; a packet carries the number of its chunk, and `dlen` gives its bytes:
`MaxData`, or `LastLen` for the last chunk. That is exactly what byte counts,
the size of `read_buf` and the order of the output depend on. The end of file is
one more segment, the FIN. The `s`-th segment has sequence number `s`: the SYN
took number 0, and `stcp_connect` and `childprocess` hand 1 to the transfer.
Sequence numbers are taken modulo `SeqMod` and 16-bit fields keep their width.

**Client.** `ppc` and `cpc` say where each thread is. One action covers what a
thread does between two points at which the other thread, or the network, can
act. The critical section of `stcp_client_recv` is a lock with the handling of
the packet (`PDrop`, `PAddNext`, `PAddAhead`), one step per turn of
`win_add_oor`'s loop (`PAdvance`), and the reply with the unlock (`PReply`). The
consumer locks (`CLock`), reads one element per step (`CRead`) and unlocks
(`CUnlock`). Where the code would dereference `win_get`'s NULL the model sets
`client = "crashed"`. `CRead` has no step for an element that does not fit in
`read_buf`: the code spins there with the mutex held (`ReadFits` says that it
never happens).

**Server.** `spc` names the place in `transfer_file`: filling the window,
`send_payload`, the receive loop, the ACK, the code after `sigsetjmp`. SIGALRM
(`SAlarm`) can strike while the timer is armed: in the receive loop and between
a good ACK and `clear_timeout`. After a timeout the interval timer is still
armed, since only `set_timeout` and `clear_timeout` change it; it strikes the
retransmission code only if that takes longer than a period of 1 to 3 seconds.
`AlarmDuringStall` allows this; it is FALSE except in the run about it. The
probe's `win_buffer_elem` is split at the points where the signal matters.
Locals that are changed after `sigsetjmp` keep their values through the jump:
the Makefile compiles without optimization. `cwnd_inc` starts with any value of
`Garbage`, because the code never initializes it.

**Network.** Two queues of at most `ChanCap` packets. Sending, or receiving, may
lose a packet, in the network or by the program's own artificial loss; nothing
is assumed about how often. Order is kept unless `NetReorders`. A queue that is
full drops. `ClosedPort` turns a packet to an ended peer into an ICMP error,
which the next send or receive of the sender's socket returns; the packet may be
lost instead. The transfer begins with the handshake's ACK consumed and perhaps a
repeated SYN-ACK still on its way to the client (`childprocess` repeats it on the
new port): a copy is enough, each one is dropped by `win_valid_seq` and answered
by an ACK, and retransmitted segments give any number of such answers.

**Handshake.** A client is an address and a port; `InterfaceIp` is the server's
address, and a client with that address runs on the server's host. `mpc` says
where `run` is: each place at which SIGCHLD could strike is a step, so that the
blocking of the signal (`RunSyn` to `RunUnblock`) matters. SIGCHLD is one bit,
`pending`, as signals are not queued. The handler interrupts `run` (`Sigchld`), calls
`waitpid` again and again (`SigchldReap`) and returns when no other child has ended
(`SigchldReturn`); `run` stands still meanwhile, but children go on, and one that
ends makes the signal pending again. `RunLookup` is the code's call of `get_process`,
with the interface's address. When `fork` fails the parent exits (`RunForkFails`) and its children go
on. A child (`kpc`) opens the file, sends its SYN-ACK from the server's port and,
from the second attempt on, from its own socket, and waits. A timeout and an
ECONNREFUSED are counted and are the same step, `KRetry`. A failed `select`, a packet
that `recv_pkt` discards (its artificial loss) and one without the ACK flag are not
counted: the SYN-ACK is sent again (`KAgain`). Any other error of `recv` ends the child
(`KRecvFails`). A client is `stcp_connect`'s loop,
`Connect` (the socket is connected to the child's port and the ACK sent), and
what the producer does with a repeated SYN-ACK, `ClientReply`; the transfer is
one state on both sides, as it is the other modules' subject. `NoSocket` is what
happens to a packet from a port to which the receiver's socket is not connected,
or to a closed port. A late SYN is a SYN: the server cannot tell, and forks. The
server reads one interface; several are read one after the other with the same
list. Data of packets is the child's port; every SYN-ACK under way is valid for
`valid_synack`, which accepts whatever has a SYN or ACK flag, the right
acknowledgment and two bytes of data.

**Timer.** `Rtt` has the events of `transfer_file` that call the estimator or set the
timer: an ACK that is measured, one that is not, a duplicate or an ACK that is not
valid, the fast retransmit, which sets the timer again without counting, and a
timeout. Which ACKs come is left open, so that its results hold for every behaviour
of `StcpServer`, whose `nrexmt` is the same count. A measured ACK takes the age of
`rtt_base`, which may be any: as `rtt_base_stale` shows it can be the send time of an
element long gone. So the ints wrap (`ToInt`), in the cast of `rtt_ts` and in every
result of `rtt_stop`, as the build without optimization has it. `x >> k` rounds down
as `\div` does, for negative `x` too. `left` is what the interval timer has still to
run, and passes in jumps. Two history variables measure time: `waited` adds the
timeouts that went off since the last good ACK, which is at least the time that has
passed, and `silent` is the exact time since an ACK of any kind came in, at the
moments when the timer is set or goes off.

**Addresses.** An address is a sequence of bits and a netmask a number of leading
ones, so that `&` and the comparison of masks after `ntohl` are what they are in
the code. The kernel's answer, any sequence of interfaces, is the initial state;
both programs run `discoverInterfaces`, the server with a socket per interface
that may fail to bind. The two loops of `chooseIPs` take one step per interface.
A netmask that is not contiguous is left out: the kernel does not configure one.

## 3. Runs

| Run | Instance | States | Shows |
|---|---|---|---|
| `client` | 4 chunks, window of 3 | 4 thousand | Against packets in any order and any number of times: `WindowShape` (the ring), `DeliveredInOrder`, `BytesCounted` (nothing lost between the threads), `MutexOwned`, `ReadFits`, `SuccessMeansWholeFile`, `EdgeNeverShrinks`, and `ImplementsReception` |
| `server` | 5 chunks, window of 4, client window 2, 2 retries, `cwnd_inc` starting with 0 or 3 | 109 thousand | Against any ACK that a client could send: `WindowIsFilePart` (nothing read is lost or repeated), `InFlightBounded`, `NeverSendsNull`, `WaitIsGuarded`, `SuccessMeansAllAcked`, `CwndEarned` (cwnd opens only by acknowledged elements) |
| `transfer_safety` | 4 chunks, windows of 3 and 6, 3 packets per direction, 1 retry | 1 million | Both ends together: `AckedIsBuffered`, `ServerSuccessMeansFinBuffered`, `FlowControl`, `NoSplitOutcome`, and `ImplementsFileDelivery` |
| `transfer_live` | 3 chunks, windows of 2 and 4, 2 packets per direction, 1 retry | 120 thousand | `Terminates`, `SuccessIsShared` |
| `handshake` | 2 clients, one of them local, 2 SYNs each, 2 children, 2 attempts | 1.9 million | `ListMatchesChildren` (the list of processes), `NoZombieForgotten` (one SIGCHLD for several children), `OneChildPerLocalClient`, `EndsAgree` (which child serves, and with which numbers), and `ImplementsAssociation` |
| `rtt` | limits 1 and 3, 2 retries, `INT_MAX` 31, ages of `rtt_base` to 39 | 231 thousand | `NoOverflow` and `EstimatorsRecover` (a sample that fits overflows nothing and mends what a stale one has done), `RtoCoversSample`, `GivesUpInTime` |
| `addresses` | addresses of 2 bits, up to 3 interfaces, client and server | 54 thousand | `ChoosesAsPromised` (the longest match), `DontRouteIsDirect`, `CrashNeedsZeroMask` |
| `reordered_ack`, `dup_ack_validity`, `alarm_in_probe`, `rtt_base_stale`, `second_child` | small | | One counterexample each: see section 5 |

**Why the bounds are enough.** In `client` the file, with its FIN, is longer than
the window, so that the ring wraps, a slot is reused and the window closes; every
distance between an arriving segment and the next one occurs, before, in and past
the window. The last chunk is short, so that a wrong count of bytes shows. In
`server` the window can close (a client may advertise 0), cwnd passes
ssthresh in both ways, and the retry limit is reached; ACKs acknowledge one
or several elements, in time or late. In `transfer_safety` the sender's limit
is reached by cwnd and by the client's window; the server's ring is twice the
client's because `win_send_limit` compares the number of elements held with the
room left, so that a window is never filled past its half (see 5). The retry
limit is 1 instead of 12 in the composition: one timeout already brings every
segment twice, and a higher limit multiplies the states without new kinds of
steps; `server` has 2. Three packets per direction let a delayed ACK meet two
newer ones. Byte counts (`ptot`, `ctot`) and `sent` need no bound:
they are determined by the segments.

In `handshake` two children are of one client or of two, end together or while the
parent forks, and a third SYN finds `fork` failing; two attempts are the least with
which a SYN-ACK is repeated on the child's own socket, and the retry limits are
reached on both sides. At most one copy of each SYN-ACK and ACK is on its way at
a time. No liveness property is stated: a child's loop has turns that are not counted,
and one whose packets are discarded each time, or whose `select` always fails, sends
SYN-ACKs for ever. That is the code's; nothing else in the handshake can go on for ever,
and TLC checks that it does not deadlock. An ICMP error that reaches a child in its
transfer is `StcpTransfer`'s subject.

In `rtt` a unit is a second: the limits and the initial deviation are the code's. The
longest RTT that `rtt_srtt` holds, 268 s in the code, is the longest RTO, 3 s, which
makes an int 6 bits wide: samples overflow it in every way, `srtt` and `rttvar` take
all 64 values each, and ages from 32 on wrap in the cast and become negative samples,
as a clock that is set back gives them. Two retries are the least with
which the RTO has doubled, stays at its limit and the server gives up. In `addresses` two bits give netmasks of length 0, 1 and 2, so that an
address can match at any of them, and three interfaces put the longest match first,
in the middle and last.

**Fairness** (`StcpTransfer!Fairness`), only for `transfer_live`:
- weak fairness of `ServerStep` and `ServerAlarm`: the process is scheduled, and
  an armed interval timer goes off unless it is disarmed first;
- strong fairness of `ClientStep` and `ConsumerStep`: a thread that wants the
  mutex finds it free again and again, because the other one sleeps (`usleep`)
  or waits in `select` between two critical sections, and gets it;
- strong fairness of `CCancel`: a pending cancellation acts when the consumer
  enables it in its loop and sleeps, which is a cancellation point;
- none for the network: every packet may be lost. What ends a transfer over a
  dead network is the retry limit of the server and the client's 75 seconds.

`ClientTimeout` needs the server to have ended and no packet to be under way. The
client acknowledges only what it receives, so during 75 s without a packet it
sends nothing, the server's retry count is not reset, and with an RTO of 3 s at
most the server gives up after 12 timeouts, long before the client
(`client.c:240-247` makes the same argument). `GivesUpInTime` is the half of this
that concerns the server, checked and proved: when the last ACK has come in, the last
packet is sent within 36 seconds (`silent`), whatever timeouts were counted before and
however often fast retransmit has set the timer again. That no packet is
under way for 75 seconds remains an assumption about the network.

**Refinement.** `FileDelivery` is the promise of the transfer: the receiver accepts the
segments in order, its user consumes the accepted chunks in order, a sender
reports success only if everything was accepted, a receiver only if everything
was consumed; either may fail at any time. `ImplementsFileDelivery` maps
`accepted` to the client's `next_seq - 1`, `consumed` to what was printed, and
the two results to the results of the processes. `ImplementsReception` is the same
map for the client alone, with a sender that never ends: whatever the other end and
the network do, its two threads only ever extend what was accepted and printed, and
end as a receiver may. A receiver of `FileDelivery` has no way to crash, so that
this includes `NoCrash`.

`Association` is the promise of the handshake: a server is made for one client, a
client chooses one of the servers made for it and never another, and a server serves
only the client that has chosen it, both with the numbers with which the transfer
begins. It knows no packets, retries, signals or list. `ImplementsAssociation` maps a
child's place in `childprocess` to its stage (`Phase`: `made` up to the ACK, `serving`
in `transfer_file`, `done` as a zombie and after), `choice` to the client's `peer`, and
the terms to `next_seq` of the client and `rwin_adv` of the child. A child may have
ended when the client chooses it: its SYN-ACK may be late.

## 4. Proofs

Seven modules prove, for every value of the constants under the assumptions named:

| Module | Theorem | Statement |
|---|---|---|
| `StcpClientProofs` | `ClientInvariant` | `CSpec => []CInv`, the inductive invariant |
| | `ClientTypes`, `ClientRing`, `ClientDelivers`, `ClientSuccess`, `ClientNoCrash`, `ClientMutex`, `ClientBytes`, `ClientReadFits` | `[]CTypeOK`, `[]WindowShape`, `[]DeliveredInOrder`, `[]SuccessMeansWholeFile`, `[]NoCrash`, `[]MutexOwned`, `[]BytesCounted`, `[]ReadFits` |
| | `ClientEdge` | `EdgeNeverShrinks`, an action property |
| | `ClientImplements` | `ImplementsReception`: the refinement |
| `StcpServerProofs` | `ServerSafe` | `SSpec => []SafeInv` |
| | `ServerTypes`, `ServerSendsElements` | `[]STypeOK`, `[]NeverSendsNull` |
| | `ServerInvariant` | `SSpec => []SInv` |
| | `ServerWindow`, `ServerSuccess` | `[]WindowIsFilePart`, `[]SuccessMeansAllAcked` |
| | `ServerForward` | `OnlyForward`, an action property: what is acknowledged never goes back, and `nrexmt` is reset only when it grows |
| | `ServerCwndInvariant` | `SSpec => []CwndInv` |
| | `ServerInFlight`, `ServerWaits`, `ServerCwnd` | `[]InFlightBounded`, `[]WaitIsGuarded`, `[]CwndEarned` |
| | `ServerAckedWasSent` | `[]AckedWasSent`: nothing is taken for acknowledged, or counted as in flight, that was not sent |
| `StcpTransferProofs` | `TransferInvariant` | `Spec => []TInv` |
| | `TransferTypes`, `TransferAcked`, `TransferSuccess`, `TransferAgrees` | `[]TypeOK`, `[]AckedIsBuffered`, `[]ServerSuccessMeansFinBuffered`, `[]NoSplitOutcome` |
| | `TransferFlowControl` | `FlowControl`, an action property |
| | `TransferImplements` | `ImplementsFileDelivery`: the refinement |
| `HandshakeProofs` | `HandshakeInvariant` | `Spec => []HInv` |
| | `HandshakeAgrees`, `HandshakeServesOnce`, `HandshakeReaps` | `[]EndsAgree`, `[]OneServer`, `[]NoZombieForgotten` |
| | `HandshakeImplements` | `ImplementsAssociation`: the refinement |
| | `HandshakePeerForLife` | `PeerForLife`, an action property: a client never changes the child it has chosen |
| | `HandshakeServesOnceForAll` | when a child has served a client, no other ever does |
| `ProcessListProofs` | `ProcessListInvariant` | `Spec => [](HInv /\ LInv /\ CountsInv)` |
| | `HandshakeTypes`, `ListOfTheLiving`, `LocalClientsOnce` | `[]HTypeOK`, `[]ListMatchesChildren`, `[]OneChildPerLocalClient` |
| `RttProofs` | `RttInvariant` | `RSpec => []RInv` |
| | `RttTypes`, `RttNoOverflow`, `RttGivesUp` | `[]RTypeOK`, `[]NoOverflow`, `[]GivesUpInTime` |
| | `RttRecovers`, `RttCovers`, `RttKarn` | `EstimatorsRecover`, `RtoCoversSample`, `KarnsRule`, action properties |
| `AddressesProofs` | `AddressesInvariant` | `ASpec => []AInv` |
| | `AddressesTypes`, `AddressesChosen`, `AddressesDirect`, `AddressesCrash` | `[]ATypeOK`, `[]ChoosesAsPromised`, `[]DontRouteIsDirect`, `[]CrashNeedsZeroMask` |

**Assumptions**, beside those of the constants:
- the client: `NoWrap`, that the file has fewer segments than there are sequence
  numbers, with two windows to spare. It is necessary: see 5;
- the server, layer by layer: its types and `NeverSendsNull` need nothing; what its
  window holds of the file needs `SeqFits`, that the sequence numbers do not wrap, and
  `~AlarmDuringStall`, without which `alarm_in_probe` shows a counterexample; what
  cwnd decides needs `CwndFits` too, that its 16 bits do not wrap (a file of at most
  2^16 - 5 segments: cwnd may grow by one with each);
- the composition: `NoWrap`, `SeqFits`, `~AlarmDuringStall`, and `~NetReorders`, without
  which `reordered_ack` shows a counterexample. It does not need `CwndFits`.
  `TransferAgrees` also assumes that the file is not empty: an empty one ends with a
  failure of the client, see 5;
- the handshake, the list, the timer and the addresses: nothing else; in particular
  nothing about how old `rtt_base` is. Three of the timer's properties speak of samples
  that fit, up to 268 s, as their guards say.

**The client.** The core is `GoodRing`: with `a` segments in order and `c`
consumed, `end = a % n`, `start = c % n`, a valid slot `i` holds the one segment
of `c+1 .. c+n` whose slot is `i`, and all of `c+1 .. a` are there. It
is needed because `win_add_oor` decides by slots and sequence numbers only, and
none of the properties is inductive without it. One lemma per operation shows
that it preserves `GoodRing` and says what it does to `next_seq` and `count`:
`PutRing` (store a segment), `AdvanceRing` (one turn of the loop),
`RemoveRing`, and from these `AddNextRing` and `AddAheadRing`. Two facts of
arithmetic carry them, in `RingArithmetic`: `ModInj` (segments of one
window have different slots) and `ModAdd` (moving `k` places from the slot of `a`
leads to the slot of `a + k`). `CInv` adds the type invariant, what has been
printed (`PrintedOK`), room in `read_buf` (`FitsOK`: bytes read plus a full
segment per element left fit), how consumer and process end (`EndsOK`),
`MutexOwned` and `BytesCounted`. The mutex enters where it must: `FitsOK` and
the consumer's half of `BytesCounted` survive the producer's steps because
`MutexOwned` says that there are none while the consumer reads.

**The server.** `FilePart(win)` says of a window what `WindowIsFilePart` says, with
the ring that makes it inductive: `end` is `start + count` around the ring, and its
elements, `next_ack` and `next_seq` are the segments from the oldest one on.
`AddPart` and `RemovePart` show that `win_add` and `win_remove`
keep it, `AckFacts` what a whole good ACK does. The proof has three layers, because
the guarantees do not all rest on the same assumptions. `SafeInv` is the types, that
`in_flight` does not exceed what the window holds, and when a probe may be sent
(`ProbeOK`). `SInv` adds `FilePart`, how far the file has been read, with the element
that a probe has read and not yet added (`FileOK`), and that the ACK being handled is
not for the oldest element (`GoodAckOK`). `CwndInv` adds what depends on cwnd:
`InFlightBounded`, `CwndEarned`, which is what keeps cwnd below 2^16, and
`SomethingOK`, from which `WaitIsGuarded` follows: a cwnd of zero would send nothing
and wait for nothing. `AckedWasSent` is inductive with what is known of a good ACK
(`SentInv`, `GoodAckSent`): something is in flight, and the ACK asks for a segment past
the acknowledged ones and at most one past the last sent, so that it removes only what
comes before that (`RemovedBefore`); or it may be any old ACK, and then the window holds
one element, which is the one in flight. The first fact comes from `WaitIsGuarded` and
is why the theorem assumes `CwndFits`. `OtherSteps` says what all other steps do to
these numbers, which is also `OnlyForward`'s proof.

**The two ends.** `TInv` joins `CInv` and `SInv`, which hold in any environment, with
what relates the two: an ACK on its way asks for no more than the client has in
order and no less than the server knows, its window reaches no further than the
client's room (`AckOK`), and ACKs are in the order of their numbers (`AcksOK`,
which fails when packets overtake each other: this is what `reordered_ack` breaks);
segments on their way or at the client were sent (`SegmentsOK`, `ReceivedOK`);
what the server has acknowledged, and how far it may fill its window
(`ServerOK`); when the producer has noticed the FIN (`ProducerOK`). The order of the ACKs is
the heart of it: with one element outstanding the server takes any number, and it is
right to do so only because no ACK under way is older than its last one. A step of
one end leaves the other's invariant alone (`ClientFrame`, `ServerFrame`), so that each action
needs only the parts that it touches. `TransferImplements` maps each step to a step of
`FileDelivery` or a stutter: `ClientDelivery` for the client's, `ServerEnds` for the
end of the server. `ClientDelivery` is `ClientReceives`, the lemma of the client's own
refinement, seen from the composition: only the success of the server, which
`FileDelivery` allows when everything was accepted, needs both ends.

**The timer.** The estimators are any ints: `Smooth` and `Deviate` are what one sample
that fits does to them, and `Stop` that `rtt_stop` computes the same as without a
limit to its ints (`Cast`: an int is its own cast). The fading makes it so: `srtt` loses
an eighth and `rttvar` a quarter of itself before the sample is added, so that even the
largest int has room for it. `RInv` relates `silent` and `waited` to the number of
timeouts, in each of which the RTO was between its limits and `left` no more than it;
after two doublings it is at its maximum, which gives the lower bound of
`GivesUpInTime`.

**The handshake.** `HInv` follows the numbers that decide who serves a client.
Children are numbered as they are forked, so that a SYN-ACK under way is from a child
with a client (`ForksOK`, `SendersOK`); a client connects once, to the child whose
SYN-ACK it takes first, and `peer` never changes again; therefore an ACK under way, and a
child in its transfer, mean that the child's client has connected to it (`AckedOK`,
with `Served`). `OneServer`, that no two children transfer to one client, follows, with
`EndsAgree`, and holds in spite of `second_child`. `ChoosingOK` says that a client
that still sends SYNs or waits has chosen nobody. `ZombiesOK` adds to
`NoZombieForgotten` that a server that has exited leaves no zombie.

The refinement follows from `HInv` step by step. `Stutter` covers all steps of the
network, the signal and the main loop that move no child to another stage and no
client to a peer; `ForkMakes`, `AckServes`, `ExitFinishes` and `ConnectChooses` are the
others: a fork is a `Make` (`ForksOK`: the child's number is new), an ACK a `Serve`
(`AckedOK`: its sender has chosen this child), an exit a `Finish`, `Connect` a `Choose`
(`SendersOK`: the SYN-ACK is from a child of this client; `ChoosingOK`: it is the
first). Two properties of `Association` are then properties of the program:
`PeerForLife`, as only `Choose` changes a choice, and `PairedStays`, that once a client
has chosen a child and been served nothing undoes the pair, from which
`HandshakeServesOnceForAll` follows.

**The list of processes.** `LInv` speaks of the entries by their places: no pid twice
(`PidsDistinct`), an entry is a living child's or the one that `run` is adding
(`EntriesOK`), every child whose pid is stored has one (`ListComplete`), a client with
the interface's address has one entry (`LocalOnce`). It is inductive because of
`Masked`: from the lookup to the unblocking SIGCHLD is blocked and no handler runs, so
that what `SigchldReap` removes is always in the list (`RemoveAtFacts` says what is
left). `CountsInv` bounds the attempts, the retries and the SYNs of each client on
their way, at most one more than its retries.

**The addresses.** `AInv` says of the second loop of `chooseIPs` what has been found
among the interfaces already visited (`Best(todo)`, with those still to come): the
longest match, and its address; nothing only when all that matched had a netmask of
zero. The first loop leaves the interfaces that were not the server's (`ExactOK`).

The inductive invariants of the client, the server and the transfer were
checked by TLC on the instances of the runs before they were proved.

**Only model-checked:** liveness (`Terminates`, `SuccessIsShared`), which is out of the
prover's reach, and what the runs of section 5 refute. Every safety property of the
passing runs is proved. `NoCrash`, `KarnsRule`, `OneServer`, `PeerForLife`, `OnlyForward`
and `AckedWasSent` are proved and are no run's property.

## 5. Findings

| Run | What the code does |
|---|---|
| `reordered_ack` | With one element outstanding `win_valid_ack` accepts every number and `win_remove_ack` then removes the element. A stale ACK that was overtaken acknowledges the FIN, and the server reports a success that is none |
| `dup_ack_validity` | With two or more elements outstanding a duplicate ACK is not valid, so that fast retransmit works only with one element in the window |
| `alarm_in_probe` | If reading a probe stalls longer than the timer's period, the handler's jump loses the chunk just read |
| `rtt_base_stale` | An RTT sample can be measured from the send time of an earlier element: `rtt_base` is the `sent_ts` of the element last sent at index 0, and no other `sent_ts` is used |
| `second_child` | `run` looks the sender of a SYN up by its own interface's address; unless the client is on the server's host it finds nothing, and every repeated SYN gets a child of its own. `EndsAgree` shows that the client is served once all the same: the other children find their packets refused and give up |

Noticed while modelling, without a run:
- while something is always in flight nothing is sent at index 0, and the samples
  measured from `rtt_base` grow with the transfer: the RTO goes to its limit of 3 s, and
  past 268 s `rtt_srtt` overflows at `unprtt.c:81`. The RTO stays within its limits
  (`RTypeOK`), and once samples are RTTs again the estimators recover
  (`EstimatorsRecover`);
- `unprtt.c:68` calls the retransmission ambiguity "solved"; it is after a timeout
  (`KarnsRule`), but a fast retransmit does not count in `rtt_nrexmt`, so that an ACK
  after it is measured though it may be of the first transmission;
- a fast retransmit sets the timer again without counting: as long as duplicates that
  cause it keep coming the server does not time out;
- `client.h:34` promises "any address from the client's interface list" when no subnet
  matches; `chooseIPs` takes `INADDR_ANY`, which leaves the choice to the kernel;
- the loop of `childprocess` does not count turns in which `select` fails: if it keeps
  failing the child sends SYN-ACKs without a pause;
- past the wrap of the sequence numbers `fwdoff` is wrong and the client
  dereferences NULL (take `SeqMod` smaller than the file in `StcpClient.cfg`);
- `server.c:388` compares the elements held with `win_send_limit`, which is at most
  the slots left: the server never fills more than half of its window;
- duplicate ACKs that answer zero-window probes do not reset the retry count: a
  consumer that sleeps longer than 36 seconds (`GivesUpInTime`) makes the server give
  up on a live client;
- the transfer of an empty file ends with `EXIT_FAILURE`: the consumer's 0 bytes are
  main's NULL (`client.c:98`);
- congestion avoidance can begin with a `cwnd_inc` that was never assigned, after a
  fast retransmit or a timeout before slow start has reached ssthresh: cwnd grows at
  the first ACK or hardly ever. `CwndEarned` says that it never grows by more than
  was acknowledged all the same;
- cwnd is a `uint16_t` and has no limit: after 65535 increments it is 0 and stops
  the sender (with a small `U16` in the model `CwndEarned` and `WaitIsGuarded` fail). It
  stays a matter of progress: everything else the server and the transfer promise is
  proved without `CwndFits`, but for `InFlightBounded` and `AckedWasSent`;
- a signal between `hton_hdr` and `ntoh_hdr` of `send_pkt` leaves the header of the
  element in network order; as in `alarm_in_probe` it needs a stall of a whole period;
- `createServer` does not close a socket that it could not bind;
- the -1 of `transfer_file` for a failed `win_init` is a success to its caller;
- for the same reason as in `second_child`, the SYN of a remote client whose port
  number is that of a local client with a child is not answered (`RunFound`);
- one failed `fork` ends the server for all clients to come;
- `chooseIPs` dereferences a NULL interface when the only matches have a netmask of
  zero; `CrashNeedsZeroMask` shows that this is the only case.

## 6. Plan

Done: all modules of section 2 with their runs, and the proofs of section 4.

What is left:
1. proved progress without fairness, which the prover can reach: a measure that each
   timeout of the server and each attempt of a child lowers unless something new was
   acknowledged (`ServerForward` is the first half of it);
2. facts that join the layers: the bytes printed at the end of a successful transfer
   are the bytes that the server read;
3. a bounded FIFO of segments between producer and consumer as a second abstract
   specification, which `StcpClient` implements (`DeliveredInOrder` and
   `BytesCounted` say most of it);
4. one instance that joins the handshake and the transfer: the two meet in the state
   `EndsAgree` describes, and the product of their states is out of TLC's reach.

## 7. Not modelled

Parsing of `client.in` and `server.in` (sequential input without later state, whose
results are the constants); what the system calls behind the interface list do, in
`get_ifi_info_plus.c` (third-party); `hton_hdr`/`ntoh_hdr` and `valid_pkt`'s
length checks (the peers exchange only well-formed packets); display and log
macros; failures of `pthread_*`, `calloc` and `gettimeofday`; `src/hw3`, stubs of
a later assignment. A SIGALRM between a `recv` that failed and `clear_timeout` at
`clean_up` would start the retransmission code instead of the end; the model takes the
failure and the end in one step (the jump is as if the error had not come). A pause of the whole client machine is not modelled either:
scheduling is fair.
