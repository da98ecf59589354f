------------------------------ MODULE Handshake ------------------------------
(***************************************************************************)
(* The three-way handshake between the server, which forks a child per     *)
(* SYN, and its clients, over a network that loses and delays packets.     *)
(*                                                                         *)
(* A child sends its SYN-ACK from the server's port, to which a client     *)
(* that has no answer yet is connected, and when it repeats it also from   *)
(* its own socket, which is connected to the client.  A socket gets only   *)
(* packets from the port it is connected to.                               *)
(***************************************************************************)
EXTENDS ServerMain, StcpConnect

VARIABLES
  syns,     \* SYNs of each client on their way to the server's port
  synacks,  \* children whose SYN-ACK from the server's port is on its way
  repeats,  \* children whose SYN-ACK from their own socket is on its way
  acks,     \* children to which an ACK is on its way
  kicmp,    \* children with an ICMP error at their socket
  cicmp     \* clients with one

netVars == <<syns, synacks, repeats, acks, kicmp, cicmp>>
vars == <<smVars, connectVars, netVars>>

HTypeOK ==
  /\ MTypeOK /\ KTypeOK
  /\ syns \in [Client -> 0 .. MaxRetries + 1]
  /\ synacks \subseteq Kids /\ repeats \subseteq Kids /\ acks \subseteq Kids
  /\ kicmp \subseteq Kids /\ cicmp \subseteq Client

Init ==
  /\ MInit /\ KInit
  /\ syns = [c \in Client |-> 0]
  /\ synacks = {} /\ repeats = {} /\ acks = {}
  /\ kicmp = {} /\ cicmp = {}

\* What may become of the packets on their way when one is sent: it is lost or
\* it joins them.  Bound: two equal packets on their way at once count as one.
Sent(packets, k) == {packets, packets \cup {k}}

-----------------------------------------------------------------------------
(* The server. *)

ServerRecvSyn(c) ==
  /\ syns[c] > 0
  /\ RunSyn(c)
  /\ syns' = [syns EXCEPT ![c] = @ - 1]
  /\ UNCHANGED <<connectVars, synacks, repeats, acks, kicmp, cicmp>>

MainStep ==
  /\ ~reaping
  /\ \/ \E c \in Client : ServerRecvSyn(c)
     \/ RunLocal /\ UNCHANGED <<connectVars, netVars>>
Handler ==
  /\ Sigchld \/ SigchldReturn \/ \E k \in Kids : SigchldReap(k)
  /\ UNCHANGED <<connectVars, netVars>>

\* Of the two sends only the one on the connected socket can meet an ICMP error.
ChildSend(k) ==
  /\ KSend(k)
  /\ synacks' \in Sent(synacks, k)
  /\ repeats' \in IF SendsOnBoth(k) /\ k \notin kicmp THEN Sent(repeats, k) ELSE {repeats}
  /\ kicmp' = IF SendsOnBoth(k) THEN kicmp \ {k} ELSE kicmp
  /\ UNCHANGED <<connectVars, syns, acks, cicmp>>

ChildTimeout(k) ==
  /\ k \notin kicmp
  /\ KRetry(k) /\ UNCHANGED <<connectVars, netVars>>

ChildRefused(k) ==
  /\ k \in kicmp
  /\ KRetry(k)
  /\ kicmp' = kicmp \ {k}
  /\ UNCHANGED <<connectVars, syns, synacks, repeats, acks, cicmp>>

\* select() fails, or an ACK is read and discarded.
ChildAgain(k) ==
  /\ KAgain(k)
  /\ \/ UNCHANGED acks
     \/ k \in acks /\ k \notin kicmp /\ acks' = acks \ {k}
  /\ UNCHANGED <<connectVars, syns, synacks, repeats, kicmp, cicmp>>

ChildRecvFails(k) ==
  /\ k \notin kicmp
  /\ KRecvFails(k) /\ UNCHANGED <<connectVars, netVars>>

ChildRecvAck(k) ==
  /\ k \in acks /\ k \notin kicmp
  /\ KRecvAck(k, ClientWin)
  /\ acks' = acks \ {k}
  /\ UNCHANGED <<connectVars, syns, synacks, repeats, kicmp, cicmp>>

ChildStep(k) ==
  \/ ChildSend(k) \/ ChildTimeout(k) \/ ChildRefused(k) \/ ChildRecvAck(k)
  \/ ChildAgain(k) \/ ChildRecvFails(k)
  \/ (KOpen(k) \/ KOpenFails(k) \/ KTransferred(k)) /\ UNCHANGED <<connectVars, netVars>>

-----------------------------------------------------------------------------
(* The clients. *)

ClientSendSyn(c) ==
  /\ SendSyn(c, c \notin cicmp)
  /\ \E n \in IF c \in cicmp THEN {0} ELSE {0, 1} : syns' = [syns EXCEPT ![c] = @ + n]
  /\ cicmp' = cicmp \ {c}
  /\ UNCHANGED <<smVars, synacks, repeats, acks, kicmp>>

ClientTimeout(c) ==
  /\ c \notin cicmp
  /\ SynTimeout(c) /\ UNCHANGED <<smVars, netVars>>

ClientRefused(c) ==
  /\ c \in cicmp
  /\ RecvFails(c) \/ ClientEnds(c)
  /\ cicmp' = cicmp \ {c}
  /\ UNCHANGED <<smVars, syns, synacks, repeats, acks, kicmp>>

\* A SYN-ACK that names the port of child k.
ClientConnect(c) ==
  \E k \in synacks :
    /\ client[k] = c /\ c \notin cicmp
    /\ synacks' = synacks \ {k}
    /\ \/ Connect(c, k, init_seq) /\ acks' \in Sent(acks, k)
       \/ ConnectFails(c) /\ UNCHANGED acks
    /\ UNCHANGED <<smVars, syns, repeats, kicmp, cicmp>>

\* The producer answers a repeated SYN-ACK; one from the server's port was in
\* the socket's queue already when the client connected to the new port.
ClientReply(c) ==
  /\ cpc[c] = "connected" /\ c \notin cicmp
  /\ \/ /\ peer[c] \in repeats
        /\ repeats' = repeats \ {peer[c]} /\ UNCHANGED synacks
     \/ \E k \in synacks :
          /\ client[k] = c
          /\ synacks' = synacks \ {k} /\ UNCHANGED repeats
  /\ acks' \in Sent(acks, peer[c])
  /\ UNCHANGED <<smVars, connectVars, syns, kicmp, cicmp>>

\* The client's transfer, successful or not, is StcpClient's.
ClientTransferred(c) ==
  /\ ClientEnds(c) /\ cicmp' = cicmp \ {c}
  /\ UNCHANGED <<smVars, syns, synacks, repeats, acks, kicmp>>

ClientStep(c) ==
  \/ ClientSendSyn(c) \/ ClientTimeout(c) \/ ClientRefused(c)
  \/ ClientConnect(c) \/ ClientReply(c) \/ ClientTransferred(c)

-----------------------------------------------------------------------------
(* The network: packets that no socket takes.  The error they cause may be *)
(* lost; the server's port has no connected socket to report one to.       *)

NoSocket ==
  \/ \E c \in Client :
       /\ syns[c] > 0 /\ ~InterfaceOpen
       /\ syns' = [syns EXCEPT ![c] = @ - 1]
       /\ cicmp' \in IF ClientUp(c) /\ peer[c] = 0 THEN Sent(cicmp, c) ELSE {cicmp}
       /\ UNCHANGED <<synacks, repeats, acks, kicmp>>
  \/ \E k \in synacks :
       /\ ~(ClientUp(client[k]) /\ peer[client[k]] = 0)
       /\ synacks' = synacks \ {k}
       /\ UNCHANGED <<syns, repeats, acks, kicmp, cicmp>>
  \/ \E k \in repeats :
       /\ ~(ClientUp(client[k]) /\ peer[client[k]] = k)
       /\ repeats' = repeats \ {k}
       /\ kicmp' \in IF kpc[k] \in {"send", "wait"} THEN Sent(kicmp, k) ELSE {kicmp}
       /\ UNCHANGED <<syns, synacks, acks, cicmp>>
  \/ \E k \in acks :
       /\ ~SocketOpen(k)
       /\ acks' = acks \ {k}
       /\ cicmp' \in IF ClientUp(client[k]) THEN Sent(cicmp, client[k]) ELSE {cicmp}
       /\ UNCHANGED <<syns, synacks, repeats, kicmp>>

Ended ==
  /\ \A c \in Client : ~ClientUp(c)
  /\ \A k \in Kids : kpc[k] \in {"none", "reaped"}
  /\ mpc \in {"select", "exited"} /\ ~reaping

Next ==
  \/ MainStep
  \/ Handler
  \/ \E k \in Kids : ChildStep(k)
  \/ \E c \in Client : ClientStep(c)
  \/ NoSocket /\ UNCHANGED <<smVars, connectVars>>
  \/ Ended /\ UNCHANGED vars

Spec == Init /\ [][Next]_vars

-----------------------------------------------------------------------------
(* Properties. *)

\* A child transfers only to a client that has connected to this child and to
\* no other, and both have the sequence number and the window with which
\* StcpClient and StcpServer begin.
EndsAgree ==
  \A k \in Kids : kpc[k] = "transfer" =>
    LET c == client[k]
    IN /\ cpc[c] \in {"connected", "ended"}
       /\ peer[c] = k
       /\ next_seq[c] = init_seq + 1
       /\ rwin_adv[k] = ClientWin

\* The handshake implements Association: however SYNs, SYN-ACKs and ACKs are
\* lost, late or repeated, and however many children answer one client, the
\* client is paired with one child for good, and no other ever serves it.
Phase(at) ==
  CASE at = "none"                        -> "none"
    [] at \in {"open", "send", "wait"}    -> "made"
    [] at = "transfer"                    -> "serving"
    [] at \in {"zombie", "reaped"}        -> "done"
Stage == [k \in Kids |-> Phase(kpc[k])]
Pairing == INSTANCE Association WITH
  Clients <- Client, Servers <- Kids, NoServer <- 0,
  FirstSeq <- init_seq + 1, Window <- ClientWin,
  stage <- Stage, client <- client, choice <- peer,
  expects <- next_seq, allowed <- rwin_adv
ImplementsAssociation == Pairing!Spec
=============================================================================
