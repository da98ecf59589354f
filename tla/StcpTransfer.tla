---------------------------- MODULE StcpTransfer ----------------------------
(***************************************************************************)
(* One file transfer: the child server and the client, connected by two    *)
(* UDP sockets, from the end of the handshake until both have ended.       *)
(*                                                                         *)
(* The network, and the artificial loss of send_pkt and recv_pkt, may drop *)
(* any packet.  It keeps the order of the packets, as the local networks   *)
(* the program was written for do, unless NetReorders.  A packet to a port *)
(* that was closed may be answered by an ICMP error, which the next call   *)
(* on the sender's socket returns.                                         *)
(***************************************************************************)
EXTENDS StcpClient, StcpServer

CONSTANTS
  ChanCap,      \* bound: packets in one direction at a time, more are dropped
  NetReorders   \* may a packet overtake others?

ASSUME NetAssumption ==
  /\ ChanCap \in Nat \ {0}
  /\ NetReorders \in BOOLEAN
  /\ ClientAdv = ClientWin

VARIABLES
  toClient, toServer,  \* packets on their way, oldest first
  clientIcmp,          \* an ICMP error waits at the client's socket
  serverIcmp           \* and at the server's

netVars == <<toClient, toServer, clientIcmp, serverIcmp>>
vars == <<clientVars, serverVars, netVars>>

NTypeOK ==
  /\ toClient \in Seq(Packet) /\ Len(toClient) <= ChanCap
  /\ toServer \in Seq(Packet) /\ Len(toServer) <= ChanCap
  /\ clientIcmp \in BOOLEAN /\ serverIcmp \in BOOLEAN

\* The SYN-ACK may still be on its way when the server has sent it again.
Init ==
  /\ CInit /\ SInit
  /\ toClient \in {<<>>, <<SynAck>>}
  /\ toServer = <<>>
  /\ clientIcmp = FALSE /\ serverIcmp = FALSE

\* The queue with pkt put at position i.
Inserted(chan, i, pkt) == SubSeq(chan, 1, i - 1) \o <<pkt>> \o SubSeq(chan, i, Len(chan))

\* What may become of the queue when pkt is sent.
Transmit(chan, pkt) ==
  {chan} \cup (IF Len(chan) = ChanCap THEN {}
               ELSE {Inserted(chan, i, pkt) :
                       i \in IF NetReorders THEN 1 .. Len(chan) + 1
                                            ELSE {Len(chan) + 1}})

ServerUp == server = "up"

-----------------------------------------------------------------------------
(* The client's calls. *)

ClientRecv ==
  /\ toClient # <<>> /\ ~clientIcmp
  /\ PRecv(Head(toClient))
  /\ toClient' = Tail(toClient)
  /\ UNCHANGED <<toServer, clientIcmp, serverIcmp>>

ClientRecvError ==
  /\ clientIcmp
  /\ PRecvFails
  /\ clientIcmp' = FALSE
  /\ UNCHANGED <<toClient, toServer, serverIcmp>>

\* 75 seconds without a packet.  A server that is up sends every 3 seconds at
\* least and gives up after 12 timeouts, so it has ended by then.
ClientTimeout ==
  /\ toClient = <<>> /\ ~clientIcmp /\ ~ServerUp
  /\ PRecvFails
  /\ UNCHANGED netVars

ClientReply ==
  /\ PReply(~clientIcmp)
  /\ clientIcmp' = FALSE
  /\ toServer' \in IF clientIcmp THEN {toServer} ELSE Transmit(toServer, Ack)
  /\ UNCHANGED <<toClient, serverIcmp>>

ClientStep ==
  \/ /\ ClientRecv \/ ClientRecvError \/ ClientTimeout \/ ClientReply
     /\ UNCHANGED serverVars
  \/ ProducerLocal /\ UNCHANGED <<serverVars, netVars>>
ConsumerStep == Consumer /\ UNCHANGED <<serverVars, netVars>>

-----------------------------------------------------------------------------
(* The server's calls. *)

ServerSend ==
  /\ SSend(~serverIcmp)
  /\ serverIcmp' = FALSE
  /\ toClient' \in IF serverIcmp THEN {toClient} ELSE Transmit(toClient, ToSend)
  /\ UNCHANGED <<toServer, clientIcmp>>

ServerRecv ==
  /\ toServer # <<>> /\ ~serverIcmp
  /\ SRecv(Head(toServer))
  /\ toServer' = Tail(toServer)
  /\ UNCHANGED <<toClient, clientIcmp, serverIcmp>>

ServerRecvError ==
  /\ serverIcmp
  /\ SRecvFails
  /\ serverIcmp' = FALSE
  /\ UNCHANGED <<toClient, toServer, clientIcmp>>

ServerStep ==
  \/ (ServerSend \/ ServerRecv \/ ServerRecvError) /\ UNCHANGED clientVars
  \/ SLocal /\ UNCHANGED <<clientVars, netVars>>
ServerAlarm == SAlarm /\ UNCHANGED <<clientVars, netVars>>
ServerFileError == (SFillFails \/ SProbeFails) /\ UNCHANGED <<clientVars, netVars>>

\* A packet arrives at a port that was closed.
ClosedPort ==
  \/ /\ ~Up /\ ServerUp /\ toClient # <<>>
     /\ toClient' = Tail(toClient) /\ serverIcmp' = TRUE
     /\ UNCHANGED <<clientVars, serverVars, toServer, clientIcmp>>
  \/ /\ ~ServerUp /\ Up /\ toServer # <<>>
     /\ toServer' = Tail(toServer) /\ clientIcmp' = TRUE
     /\ UNCHANGED <<clientVars, serverVars, toClient, serverIcmp>>

-----------------------------------------------------------------------------
Ended == ~Up /\ ~ServerUp

Next ==
  \/ ClientStep
  \/ ConsumerStep
  \/ ServerStep
  \/ ServerAlarm
  \/ ServerFileError
  \/ ClosedPort
  \/ Ended /\ UNCHANGED vars

\* Each thread is scheduled, the consumer's sleeps end, and an armed timer
\* goes off if no packet comes.  A thread that waits for the mutex gets it
\* between two turns of the other, which sleeps or calls select() between
\* them, hence strong fairness of the client's two threads.  A pending cancellation acts, at the latest,
\* when the consumer enables it again, so it cannot be passed by for ever.
\* Nothing is assumed of the network.
Fairness ==
  /\ SF_vars(ClientStep)
  /\ SF_vars(ConsumerStep)
  /\ SF_vars(CCancel /\ UNCHANGED <<serverVars, netVars>>)
  /\ WF_vars(ServerStep)
  /\ WF_vars(ServerAlarm)

Spec == Init /\ [][Next]_vars /\ Fairness

-----------------------------------------------------------------------------
(* Properties. *)

TypeOK == CTypeOK /\ STypeOK /\ NTypeOK

\* What the server removed from its window, and so can never send again, the
\* client has in order.
AckedIsBuffered == Acked <= InOrder

\* README.md:28: the server ends successfully only when the client has the
\* FIN, and so the whole file, in order.
ServerSuccessMeansFinBuffered == server = "success" => InOrder = LastSeg

\* The server never sends past the right edge of the client's window, except for
\* one segment, alone in its window, that probes a closed one.
RightEdge == InOrder + win_available(rwin)
FlowControl ==
  [][Up /\ sent' > RightEdge =>
       sent' = RightEdge + 1 /\ swin.rwin_adv = 0 /\ swin.count = 1]_vars

\* The client never fails when the server reports success.
NoSplitOutcome == server = "success" => client # "failure"

\* The transfer ends on both sides, whatever the network loses.
Terminates == <>Ended

\* When the server has reported success the client too ends with success: the
\* consumer gets to print what is left in the window.
SuccessIsShared == server = "success" ~> client = "success"

\* Client and server together implement FileDelivery: the segments the client
\* has in order are those accepted, the printed chunks those consumed.
Delivery == INSTANCE FileDelivery WITH
  N        <- NChunks,
  accepted <- InOrder,
  consumed <- printed,
  sender   <- server,
  receiver <- client
ImplementsFileDelivery == Delivery!Spec
=============================================================================
