--------------------------- MODULE HandshakeProofs ---------------------------
(***************************************************************************)
(* Proofs about Handshake, for any clients, any number of children and     *)
(* every limit of attempts and retries, over a network that loses and      *)
(* delays packets: which child serves a client, and that no child that     *)
(* has ended is forgotten.  They need nothing of the list of processes.    *)
(***************************************************************************)
EXTENDS Handshake, TLAPS

-----------------------------------------------------------------------------
(* The inductive invariant. *)

KidState    == {"none", "open", "send", "wait", "transfer", "zombie", "reaped"}
ClientState == {"syn", "wait", "connected", "failed", "ended"}

KidTypes ==
  /\ forks \in 0 .. MaxForks /\ syn \in Client
  /\ kpc \in [Kids -> KidState] /\ client \in [Kids -> Client]
  /\ rwin_adv \in [Kids -> Nat]
ClientTypes ==
  /\ cpc \in [Client -> ClientState]
  /\ peer \in [Client -> {0} \cup Kids] /\ next_seq \in [Client -> {0, 1}]
PacketTypes ==
  /\ synacks \subseteq Kids /\ repeats \subseteq Kids /\ acks \subseteq Kids

\* The children are numbered in the order in which they are forked.
Forked(k) == kpc[k] # "none"
ForksOK == \A k \in Kids : Forked(k) <=> k <= forks

\* Only a child that was forked has sent anything or has a client.
SendersOK ==
  /\ \A k \in synacks : Forked(k)
  /\ \A c \in Client : cpc[c] = "connected" =>
       /\ peer[c] \in Kids /\ Forked(peer[c]) /\ client[peer[c]] = c
       /\ next_seq[c] = init_seq + 1

\* An ACK is for a child whose client has connected to it, for good.
Served(k) ==
  /\ Forked(k)
  /\ cpc[client[k]] \in {"connected", "ended"}
  /\ peer[client[k]] = k /\ next_seq[client[k]] = init_seq + 1
AckedOK ==
  /\ \A k \in acks : Served(k)
  /\ \A k \in Kids : kpc[k] = "transfer" => Served(k) /\ rwin_adv[k] = ClientWin

\* A client that has no answer yet is connected to the server's own port.
ChoosingOK == \A c \in Client : cpc[c] \in {"syn", "wait"} => peer[c] = 0

\* A server that has exited has left no zombies: they are init's.
ZombiesOK == NoZombieForgotten /\ (~MainUp => Zombies = {} /\ ~reaping)

HInv ==
  /\ KidTypes /\ ClientTypes /\ PacketTypes
  /\ ForksOK /\ SendersOK /\ AckedOK /\ ChoosingOK /\ ZombiesOK

-----------------------------------------------------------------------------
(* The initial state. *)

\* There is a client.
LEMMA SomeClient == NoClient \in Client
<1>1. PICK a \in Addresses, p \in Ports : TRUE
  BY EndpointsAssumption DEF EndpointsAssumption
<1>2. [ip_address |-> a, port |-> p] \in Client  BY <1>1 DEF Client
<1> QED BY <1>2 DEF NoClient

\* No child has been forked and no packet sent.
LEMMA HInit == Init => HInv
<1> SUFFICES ASSUME Init PROVE HInv
  OBVIOUS
<1>1. NoClient \in Client  BY SomeClient
<1>2. KidTypes /\ ClientTypes /\ PacketTypes
  BY <1>1, EndpointsAssumption, ConnectAssumption
  DEF EndpointsAssumption, Init, MInit, KInit, KidTypes, ClientTypes, PacketTypes,
      KidState, ClientState
<1>3. ForksOK
  BY EndpointsAssumption DEF EndpointsAssumption, Init, MInit, ForksOK, Forked, Kids
<1>4. SendersOK /\ AckedOK /\ ChoosingOK
  BY DEF Init, MInit, KInit, SendersOK, AckedOK, ChoosingOK
<1>5. ZombiesOK
  BY DEF Init, MInit, ZombiesOK, NoZombieForgotten, Zombies, MainUp
<1> QED BY <1>2, <1>3, <1>4, <1>5 DEF HInv

-----------------------------------------------------------------------------
(* Steps that leave a part of the state alone. *)

\* What the numbers, the clients and the packets of a step must satisfy when
\* the children only move between their states.
LEMMA KidsMove ==
  ASSUME HInv, UNCHANGED <<forks, client, rwin_adv, connectVars>>,
         syn' \in Client, kpc' \in [Kids -> KidState],
         \A k \in Kids : kpc'[k] = "none" <=> kpc[k] = "none",
         \A k \in Kids : kpc'[k] = "transfer" => kpc[k] = "transfer",
         PacketTypes', \A k \in synacks' : Forked(k),
         \A k \in acks' : k \in acks,
         ZombiesOK'
  PROVE  HInv'
<1>1. KidTypes' /\ ClientTypes'
  BY DEF HInv, KidTypes, ClientTypes, connectVars
<1>2. \A k \in Kids : Forked(k)' <=> Forked(k)
  BY DEF Forked
<1>3. \A k \in Kids : Served(k) => Served(k)'
  BY <1>2 DEF Served, connectVars
<1>4. ForksOK'  BY <1>2 DEF HInv, ForksOK
<1>5. SendersOK'  BY <1>2 DEF HInv, SendersOK, connectVars, PacketTypes
<1>6. AckedOK'
  BY <1>3 DEF HInv, AckedOK, PacketTypes
<1>7. ChoosingOK'  BY DEF HInv, ChoosingOK, connectVars
<1> QED BY <1>1, <1>4, <1>5, <1>6, <1>7 DEF HInv

\* When the children stay where they are.
LEMMA KidsSame ==
  ASSUME HInv, UNCHANGED <<forks, syn, kpc, client, rwin_adv, pending, reaping, mpc>>
  PROVE  /\ KidTypes' /\ ForksOK' /\ ZombiesOK'
         /\ \A k \in Kids : Forked(k)' <=> Forked(k)
  BY DEF HInv, KidTypes, ForksOK, Forked, ZombiesOK, NoZombieForgotten, Zombies, MainUp

-----------------------------------------------------------------------------
(* The server's steps. *)

\* A step of run() that leaves the children alone.
LEMMA ServerQuiet ==
  ASSUME HInv, UNCHANGED <<forks, kidVars, sigVars, connectVars, synacks, repeats, acks>>,
         MainUp, MainUp', syn' \in Client
  PROVE  HInv'
<1>1. ZombiesOK'
  BY DEF HInv, ZombiesOK, NoZombieForgotten, Zombies, MainUp, kidVars, sigVars
<1>2. PacketTypes'  BY DEF HInv, PacketTypes
<1> QED BY <1>1, <1>2, KidsMove DEF HInv, kidVars, KidTypes, SendersOK

\* A new child: no packet and no client names it yet.
LEMMA ForkInv ==
  ASSUME HInv, RunFork, UNCHANGED <<connectVars, netVars>>
  PROVE  HInv'
<1> DEFINE new == forks + 1
<1>1. new \in Kids /\ new = forks' /\ ~Forked(new)
  BY EndpointsAssumption
  DEF EndpointsAssumption, RunFork, HInv, KidTypes, ForksOK, Kids
<1>2. /\ kpc' = [kpc EXCEPT ![new] = "open"] /\ client' = [client EXCEPT ![new] = syn]
      /\ UNCHANGED <<rwin_adv, pending, reaping, connectVars, synacks, repeats, acks>>
      /\ MainUp /\ MainUp'
  BY <1>1 DEF RunFork, netVars, sigVars, MainUp
<1>3. KidTypes'
  BY <1>1, <1>2 DEF HInv, KidTypes, KidState, RunFork, Kids
<1>4. ClientTypes' /\ PacketTypes'
  BY <1>2 DEF HInv, ClientTypes, PacketTypes, connectVars
<1>5. \A k \in Kids : /\ Forked(k)' <=> Forked(k) \/ k = new
                      /\ k # new => kpc'[k] = kpc[k] /\ client'[k] = client[k]
  BY <1>1, <1>2 DEF HInv, KidTypes, Forked
<1>6. ForksOK'
  BY <1>1, <1>5, EndpointsAssumption DEF HInv, KidTypes, ForksOK, Kids
<1>7. \A k \in Kids : Served(k) => Served(k)'
  BY <1>1, <1>2, <1>5 DEF Served, connectVars
<1>8. SendersOK'
  BY <1>1, <1>2, <1>5 DEF HInv, SendersOK, connectVars, PacketTypes
<1>9. AckedOK'
  <2>1. kpc'[new] = "open"  BY <1>1, <1>2 DEF HInv, KidTypes
  <2> QED BY <1>1, <1>2, <1>5, <1>7, <2>1 DEF HInv, AckedOK, PacketTypes
<1>10. ZombiesOK'
  BY <1>1, <1>2, <1>5, Zenon DEF HInv, ZombiesOK, NoZombieForgotten, Zombies, KidTypes
<1>11. ChoosingOK'  BY <1>2 DEF HInv, ChoosingOK, connectVars
<1> QED BY <1>3, <1>4, <1>6, <1>8, <1>9, <1>10, <1>11 DEF HInv

\* The parent exits, and init takes its zombies.
LEMMA ForkFailsInv ==
  ASSUME HInv, RunForkFails, ~reaping, UNCHANGED <<connectVars, netVars>>
  PROVE  HInv'
<1>1. \A k \in Kids : kpc'[k] = IF kpc[k] = "zombie" THEN "reaped" ELSE kpc[k]
  BY DEF RunForkFails
<1>2. kpc' \in [Kids -> KidState]
  BY DEF RunForkFails, HInv, KidTypes, KidState
<1>3. ZombiesOK'
  BY <1>1 DEF RunForkFails, ZombiesOK, NoZombieForgotten, Zombies
<1>4. PacketTypes' /\ acks' = acks /\ synacks' = synacks
  BY DEF HInv, PacketTypes, netVars
<1> QED
  BY <1>1, <1>2, <1>3, <1>4, KidsMove DEF RunForkFails, HInv, KidTypes, SendersOK

\* The handler starts, and ends when there are no zombies.
LEMMA SigchldInv ==
  ASSUME HInv, Sigchld \/ SigchldReturn, UNCHANGED <<connectVars, netVars>>
  PROVE  HInv'
<1>1. UNCHANGED <<forks, syn, mpc, kidVars>> /\ MainUp
  BY DEF Sigchld, SigchldReturn, HInv, ZombiesOK
<1>2. ZombiesOK'
  BY <1>1 DEF Sigchld, SigchldReturn, ZombiesOK, NoZombieForgotten, Zombies, MainUp, kidVars
<1>3. PacketTypes'  BY DEF HInv, PacketTypes, netVars
<1> QED BY <1>1, <1>2, <1>3, KidsMove DEF kidVars, netVars, HInv, KidTypes, SendersOK

\* The handler reaps one of them.
LEMMA SigchldReapInv ==
  ASSUME HInv, NEW k \in Kids, SigchldReap(k), UNCHANGED <<connectVars, netVars>>
  PROVE  HInv'
<1>1. /\ kpc' \in [Kids -> KidState] /\ kpc[k] = "zombie"
      /\ \A j \in Kids : kpc'[j] = IF j = k THEN "reaped" ELSE kpc[j]
  BY DEF SigchldReap, Zombies, HInv, KidTypes, KidState
<1>2. Zombies' \subseteq Zombies /\ (MainUp' <=> MainUp)
  BY <1>1 DEF Zombies, SigchldReap, MainUp
<1>3. ZombiesOK'
  BY <1>2 DEF SigchldReap, sigVars, HInv, ZombiesOK, NoZombieForgotten
<1>4. PacketTypes' /\ acks' = acks /\ synacks' = synacks
  BY DEF HInv, PacketTypes, netVars
<1> QED
  BY <1>1, <1>3, <1>4, KidsMove DEF SigchldReap, HInv, KidTypes, SendersOK

-----------------------------------------------------------------------------
(* The children's steps. *)

\* A child that exits leaves a signal for its parent.
LEMMA ExitFacts ==
  ASSUME HInv, NEW k \in Kids, Forked(k), KExit(k), UNCHANGED mainVars
  PROVE  /\ kpc' \in [Kids -> KidState]
         /\ \A j \in Kids : j # k => kpc'[j] = kpc[j]
         /\ kpc'[k] \in {"zombie", "reaped"}
         /\ ZombiesOK'
<1>1. kpc' = [kpc EXCEPT ![k] = IF MainUp THEN "zombie" ELSE "reaped"] /\ (pending' <=> MainUp)
  BY DEF KExit
<1>2. kpc' \in [Kids -> KidState]
      /\ \A j \in Kids : j # k => kpc'[j] = kpc[j]
  BY <1>1 DEF HInv, KidTypes, KidState
<1>3. kpc'[k] = IF MainUp THEN "zombie" ELSE "reaped"
  BY <1>1 DEF HInv, KidTypes
<1>4. MainUp' <=> MainUp  BY DEF mainVars, MainUp
<1>5. MainUp => ZombiesOK'
  BY <1>1, <1>4 DEF ZombiesOK, NoZombieForgotten
<1>6. ASSUME ~MainUp PROVE ZombiesOK'
  <2>1. Zombies' = {}
    BY <1>2, <1>3, <1>6 DEF HInv, ZombiesOK, Zombies
  <2> QED BY <1>6, <2>1 DEF HInv, ZombiesOK, NoZombieForgotten, mainVars
<1> QED BY <1>2, <1>3, <1>5, <1>6

\* A child that exits.
LEMMA ExitInv ==
  ASSUME HInv, NEW k \in Kids, Forked(k), KExit(k),
         UNCHANGED <<mainVars, client, rwin_adv, connectVars, synacks, repeats, acks>>
  PROVE  HInv'
<1>1. PacketTypes'  BY DEF HInv, PacketTypes
<1> QED BY <1>1, ExitFacts, KidsMove DEF HInv, KidTypes, SendersOK, mainVars, Forked

\* A child that only goes on to its next state, other than the transfer.
LEMMA MoveInv ==
  ASSUME HInv, NEW k \in Kids, Forked(k),
         NEW to \in {"send", "wait"}, kpc' = [kpc EXCEPT ![k] = to],
         UNCHANGED <<mainVars, client, rwin_adv, pending, connectVars>>, acks' \subseteq acks,
         synacks' \subseteq synacks \cup {k}, repeats' \subseteq repeats \cup {k}
  PROVE  HInv'
<1>1. kpc' \in [Kids -> KidState]
      /\ \A j \in Kids : kpc'[j] = IF j = k THEN to ELSE kpc[j]
  BY DEF HInv, KidTypes, KidState
<1>2. PacketTypes'  BY DEF HInv, PacketTypes
<1>3. Zombies' \subseteq Zombies /\ (MainUp' <=> MainUp)
  BY <1>1 DEF Zombies, MainUp, mainVars
<1>4. ZombiesOK'
  BY <1>3 DEF HInv, ZombiesOK, NoZombieForgotten, mainVars
<1>5. \A j \in synacks' : Forked(j)  BY DEF HInv, SendersOK
<1> QED BY <1>1, <1>2, <1>4, <1>5, KidsMove DEF HInv, KidTypes, Forked, mainVars

\* A child that was not answered tries again or exits.
LEMMA RetryInv ==
  ASSUME HInv, NEW k \in Kids, KRetry(k),
         UNCHANGED <<connectVars, synacks, repeats, acks>>
  PROVE  HInv'
<1>1. Forked(k) /\ UNCHANGED <<mainVars, client, rwin_adv>>
  BY DEF KRetry, Forked
<1>2. CASE KExit(k)  BY <1>1, <1>2, ExitInv
<1>3. CASE kpc' = [kpc EXCEPT ![k] = "send"] /\ UNCHANGED pending
  BY <1>1, <1>3, MoveInv
<1> QED BY <1>2, <1>3 DEF KRetry

\* The ACK: its sender has connected to this child.
LEMMA RecvAckInv ==
  ASSUME HInv, NEW k \in Kids, ChildRecvAck(k)
  PROVE  HInv'
<1>1. /\ k \in acks /\ kpc[k] = "wait" /\ acks' = acks \ {k}
      /\ kpc' = [kpc EXCEPT ![k] = "transfer"]
      /\ rwin_adv' = [rwin_adv EXCEPT ![k] = ClientWin]
      /\ UNCHANGED <<mainVars, client, pending, connectVars, synacks, repeats>>
  BY DEF ChildRecvAck, KRecvAck
<1>2. /\ kpc' \in [Kids -> KidState]
      /\ \A j \in Kids : kpc'[j] = IF j = k THEN "transfer" ELSE kpc[j]
      /\ rwin_adv' \in [Kids -> Nat]
      /\ \A j \in Kids : rwin_adv'[j] = IF j = k THEN ClientWin ELSE rwin_adv[j]
  BY <1>1, ConnectAssumption DEF ConnectAssumption, HInv, KidTypes, KidState
<1>3. KidTypes' /\ ClientTypes' /\ PacketTypes'
  BY <1>1, <1>2 DEF HInv, KidTypes, ClientTypes, PacketTypes, mainVars, connectVars
<1>4. \A j \in Kids : Forked(j)' <=> Forked(j)  BY <1>1, <1>2 DEF Forked
<1>5. ForksOK' /\ SendersOK'
  BY <1>1, <1>4 DEF HInv, ForksOK, SendersOK, mainVars, connectVars, PacketTypes
<1>6. \A j \in Kids : Served(j) => Served(j)'
  BY <1>1, <1>4 DEF Served, connectVars
<1>7. AckedOK'
  BY <1>1, <1>2, <1>6 DEF HInv, AckedOK, PacketTypes
<1>8. Zombies' \subseteq Zombies /\ (MainUp' <=> MainUp)
  BY <1>1, <1>2 DEF Zombies, MainUp, mainVars
<1>9. ZombiesOK'
  BY <1>1, <1>8 DEF HInv, ZombiesOK, NoZombieForgotten, mainVars
<1>10. ChoosingOK'  BY <1>1 DEF HInv, ChoosingOK, connectVars
<1> QED BY <1>3, <1>5, <1>7, <1>9, <1>10 DEF HInv

\* Every step of a child.
LEMMA ChildInv ==
  ASSUME HInv, NEW k \in Kids, ChildStep(k)
  PROVE  HInv'
<1>1. CASE ChildSend(k)
  <2>1. Forked(k) /\ kpc' = [kpc EXCEPT ![k] = "wait"]
        /\ UNCHANGED <<mainVars, client, rwin_adv, pending, connectVars, acks>>
    BY <1>1 DEF ChildSend, KSend, Forked
  <2>2. synacks' \subseteq synacks \cup {k} /\ repeats' \subseteq repeats \cup {k}
    BY <1>1 DEF ChildSend, Sent
  <2> QED BY <2>1, <2>2, MoveInv
<1>2. CASE ChildTimeout(k)
  BY <1>2, RetryInv DEF ChildTimeout, netVars
<1>3. CASE ChildRefused(k)
  BY <1>3, RetryInv DEF ChildRefused
<1>4. CASE ChildRecvAck(k)  BY <1>4, RecvAckInv
<1>5. CASE KOpen(k) /\ UNCHANGED <<connectVars, netVars>>
  BY <1>5, MoveInv DEF KOpen, Forked, netVars
<1>6. CASE (KOpenFails(k) \/ KTransferred(k)) /\ UNCHANGED <<connectVars, netVars>>
  BY <1>6, ExitInv DEF KOpenFails, KTransferred, Forked, netVars
<1>7. CASE ChildAgain(k)
  BY <1>7, MoveInv DEF ChildAgain, KAgain, Forked
<1>8. CASE ChildRecvFails(k)
  BY <1>8, ExitInv DEF ChildRecvFails, KRecvFails, Forked, netVars
<1> QED BY <1>1, <1>2, <1>3, <1>4, <1>5, <1>6, <1>7, <1>8 DEF ChildStep

-----------------------------------------------------------------------------
(* The clients' steps, which leave the server alone. *)

\* A client that has not connected may fail, and one that has, end.
LEMMA ClientMoves ==
  ASSUME HInv, NEW c \in Client, UNCHANGED <<smVars, peer, next_seq>>,
         NEW to \in ClientState, cpc' = [cpc EXCEPT ![c] = to],
         \/ cpc[c] \in {"syn", "wait"} /\ to \in {"syn", "wait", "failed"}
         \/ cpc[c] = "connected" /\ to = "ended",
         synacks' \subseteq synacks, repeats' \subseteq repeats, acks' \subseteq acks
  PROVE  HInv'
<1>1. \A d \in Client : cpc'[d] = IF d = c THEN to ELSE cpc[d]
  BY DEF HInv, ClientTypes
<1>2. cpc' \in [Client -> ClientState]  BY DEF HInv, ClientTypes
<1>3. ClientTypes' /\ PacketTypes'
  BY <1>2 DEF HInv, ClientTypes, PacketTypes
<1>4. /\ KidTypes' /\ ForksOK' /\ ZombiesOK'
      /\ \A k \in Kids : Forked(k)' <=> Forked(k)
  BY KidsSame DEF smVars, mainVars, kidVars
<1>5. client' = client /\ rwin_adv' = rwin_adv /\ kpc' = kpc
  BY DEF smVars, kidVars
<1>6. SendersOK'
  BY <1>1, <1>4, <1>5 DEF HInv, SendersOK, PacketTypes
<1>7. \A k \in Kids : Served(k) => Served(k)'
  <2> SUFFICES ASSUME NEW k \in Kids, Served(k) PROVE Served(k)'
    OBVIOUS
  <2>1. client[k] \in Client  BY DEF HInv, KidTypes
  <2> QED BY <1>1, <1>4, <1>5, <2>1 DEF Served
<1>8. AckedOK'
  BY <1>5, <1>7 DEF HInv, AckedOK, PacketTypes
<1>9. ChoosingOK'  BY <1>1 DEF HInv, ChoosingOK
<1> QED BY <1>3, <1>4, <1>6, <1>8, <1>9 DEF HInv

\* SYNs, ICMP errors and the counts of retries do not matter.
LEMMA ClientQuiet ==
  ASSUME HInv, UNCHANGED <<smVars, cpc, peer, next_seq>>, PacketTypes',
         synacks' \subseteq synacks,
         \A k \in acks' : k \in acks \/ Served(k)
  PROVE  HInv'
<1>1. ClientTypes'  BY DEF HInv, ClientTypes
<1>2. /\ KidTypes' /\ ForksOK' /\ ZombiesOK'
      /\ \A k \in Kids : Forked(k)' <=> Forked(k)
  BY KidsSame DEF smVars, mainVars, kidVars
<1>3. client' = client /\ rwin_adv' = rwin_adv /\ kpc' = kpc
  BY DEF smVars, kidVars
<1>4. SendersOK'
  BY <1>2, <1>3 DEF HInv, SendersOK, PacketTypes
<1>5. \A k \in Kids : Served(k) => Served(k)'
  BY <1>2, <1>3 DEF Served
<1>6. AckedOK'
  BY <1>3, <1>5 DEF HInv, AckedOK, PacketTypes
<1>7. ChoosingOK'  BY DEF HInv, ChoosingOK
<1> QED BY <1>1, <1>2, <1>4, <1>6, <1>7 DEF HInv

\* The client connects to the child whose SYN-ACK it has got, once.
LEMMA ConnectInv ==
  ASSUME HInv, NEW c \in Client, NEW k \in synacks, client[k] = c,
         Connect(c, k, init_seq), UNCHANGED <<smVars, repeats>>,
         synacks' \subseteq synacks, acks' \subseteq acks \cup {k}
  PROVE  HInv'
<1>1. k \in Kids /\ Forked(k) /\ cpc[c] = "wait"
  BY DEF HInv, PacketTypes, SendersOK, Connect
<1>2. \A d \in Client : /\ cpc'[d] = IF d = c THEN "connected" ELSE cpc[d]
                        /\ peer'[d] = IF d = c THEN k ELSE peer[d]
                        /\ next_seq'[d] = IF d = c THEN 1 ELSE next_seq[d]
  BY DEF HInv, ClientTypes, Connect, init_seq
<1>3. ClientTypes'
  BY <1>1 DEF HInv, ClientTypes, ClientState, Connect, init_seq
<1>4. PacketTypes'  BY <1>1 DEF HInv, PacketTypes
<1>5. /\ KidTypes' /\ ForksOK' /\ ZombiesOK'
      /\ \A j \in Kids : Forked(j)' <=> Forked(j)
  BY KidsSame DEF smVars, mainVars, kidVars
<1>6. client' = client /\ rwin_adv' = rwin_adv /\ kpc' = kpc
  BY DEF smVars, kidVars
<1>7. SendersOK'
  BY <1>1, <1>2, <1>5, <1>6 DEF HInv, SendersOK, PacketTypes, init_seq
<1>8. \A j \in Kids : Served(j) => Served(j)'
  <2> SUFFICES ASSUME NEW j \in Kids, Served(j) PROVE Served(j)'
    OBVIOUS
  <2>1. client[j] \in Client /\ client[j] # c
    BY <1>1 DEF HInv, KidTypes, Served
  <2> QED BY <1>2, <1>5, <1>6, <2>1 DEF Served
<1>9. Served(k)'
  BY <1>1, <1>2, <1>5, <1>6 DEF Served, init_seq
<1>10. AckedOK'
  BY <1>6, <1>8, <1>9 DEF HInv, AckedOK, PacketTypes
<1>11. ChoosingOK'  BY <1>2 DEF HInv, ChoosingOK
<1> QED BY <1>3, <1>4, <1>5, <1>7, <1>10, <1>11 DEF HInv

\* The ACK of a repeated SYN-ACK goes to the port the client is connected to.
LEMMA ReplyInv ==
  ASSUME HInv, NEW c \in Client, ClientReply(c)
  PROVE  HInv'
<1>1. cpc[c] = "connected" /\ UNCHANGED <<smVars, connectVars>>
      /\ synacks' \subseteq synacks /\ repeats' \subseteq repeats
      /\ acks' \subseteq acks \cup {peer[c]}
  BY DEF ClientReply, Sent
<1>2. peer[c] \in Kids /\ Served(peer[c])
  BY <1>1 DEF HInv, SendersOK, Served
<1>3. PacketTypes'  BY <1>1, <1>2 DEF HInv, PacketTypes
<1> QED BY <1>1, <1>2, <1>3, ClientQuiet DEF connectVars

\* Every step of a client.
LEMMA ClientInv ==
  ASSUME HInv, NEW c \in Client, ClientStep(c)
  PROVE  HInv'
<1>0. {"failed", "ended", "wait", "syn"} \subseteq ClientState  BY DEF ClientState
<1>1. CASE ClientSendSyn(c)
  BY <1>0, <1>1, ClientMoves DEF ClientSendSyn, SendSyn, Leave
<1>2. CASE ClientTimeout(c)
  BY <1>0, <1>2, ClientMoves DEF ClientTimeout, SynTimeout, Leave, netVars
<1>3. CASE ClientRefused(c)
  BY <1>0, <1>3, ClientMoves DEF ClientRefused, RecvFails, ClientEnds, Leave
<1>4. CASE ClientConnect(c)
  <2>1. PICK k \in synacks :
          /\ client[k] = c /\ synacks' = synacks \ {k}
          /\ \/ Connect(c, k, init_seq) /\ acks' \in Sent(acks, k)
             \/ ConnectFails(c) /\ UNCHANGED acks
          /\ UNCHANGED <<smVars, syns, repeats, kicmp, cicmp>>
    BY <1>4 DEF ClientConnect
  <2>2. CASE Connect(c, k, init_seq) /\ acks' \in Sent(acks, k)
    BY <2>1, <2>2, ConnectInv DEF Sent
  <2>3. CASE ConnectFails(c) /\ UNCHANGED acks
    BY <1>0, <2>1, <2>3, ClientMoves DEF ConnectFails, Leave
  <2> QED BY <2>1, <2>2, <2>3
<1>5. CASE ClientReply(c)  BY <1>5, ReplyInv
<1>6. CASE ClientTransferred(c)
  BY <1>0, <1>6, ClientMoves DEF ClientTransferred, ClientEnds, Leave, netVars
<1> QED BY <1>1, <1>2, <1>3, <1>4, <1>5, <1>6 DEF ClientStep

\* The network only takes packets away.
LEMMA NoSocketInv ==
  ASSUME HInv, NoSocket, UNCHANGED <<smVars, connectVars>>
  PROVE  HInv'
<1>1. synacks' \subseteq synacks /\ repeats' \subseteq repeats /\ acks' \subseteq acks
  BY DEF NoSocket
<1>2. PacketTypes'  BY <1>1 DEF HInv, PacketTypes
<1> QED BY <1>1, <1>2, ClientQuiet DEF connectVars

-----------------------------------------------------------------------------
(* All steps. *)

\* Every step of run().
LEMMA MainInv ==
  ASSUME HInv, MainStep
  PROVE  HInv'
<1>0. syn \in Client  BY DEF HInv, KidTypes
<1>n. NoClient \in Client  BY SomeClient
<1>1. CASE \E c \in Client : ServerRecvSyn(c)
  BY <1>1, ServerQuiet DEF ServerRecvSyn, RunSyn, MainUp
<1>2. CASE RunFork /\ UNCHANGED <<connectVars, netVars>>
  BY <1>2, ForkInv
<1>3. CASE RunForkFails /\ UNCHANGED <<connectVars, netVars>>
  BY <1>3, ForkFailsInv DEF MainStep
<1>4. CASE (RunFound \/ RunAdd \/ RunParent) /\ UNCHANGED <<connectVars, netVars>>
  BY <1>0, <1>4, ServerQuiet DEF RunFound, RunAdd, RunParent, MainUp, netVars
<1>5. CASE RunUnblock /\ UNCHANGED <<connectVars, netVars>>
  BY <1>5, <1>n, ServerQuiet DEF RunUnblock, MainUp, netVars
<1> QED BY <1>1, <1>2, <1>3, <1>4, <1>5 DEF MainStep, RunLocal

\* Every step keeps the invariant.
LEMMA HNext == HInv /\ [Next]_vars => HInv'
<1> SUFFICES ASSUME HInv, [Next]_vars PROVE HInv'
  OBVIOUS
<1>1. CASE MainStep  BY <1>1, MainInv
<1>2. CASE Handler  BY <1>2, SigchldInv, SigchldReapInv DEF Handler
<1>3. CASE \E k \in Kids : ChildStep(k)  BY <1>3, ChildInv
<1>4. CASE \E c \in Client : ClientStep(c)  BY <1>4, ClientInv
<1>5. CASE NoSocket /\ UNCHANGED <<smVars, connectVars>>
  BY <1>5, NoSocketInv
<1>6. CASE UNCHANGED vars
  BY <1>6, ClientQuiet DEF vars, connectVars, netVars, HInv, PacketTypes
<1> QED BY <1>1, <1>2, <1>3, <1>4, <1>5, <1>6 DEF Next

-----------------------------------------------------------------------------
(* The theorems. *)

\* Two children never serve one client at the same time.
OneServer ==
  \A j, k \in Kids :
    kpc[j] = "transfer" /\ kpc[k] = "transfer" /\ client[j] = client[k] => j = k

\* The inductive invariant holds.
THEOREM HandshakeInvariant == Spec => []HInv
<1> QED BY HInit, HNext, PTL DEF Spec

\* A child transfers only to the client that has connected to it, and with the
\* numbers with which the transfer begins, however often SYNs, SYN-ACKs and
\* ACKs are lost, late or repeated and however many children answer a client.
THEOREM HandshakeAgrees == Spec => []EndsAgree
<1>1. HInv => EndsAgree
  BY DEF HInv, AckedOK, Served, EndsAgree
<1> QED BY <1>1, HandshakeInvariant, PTL

\* A client is never served by two children.
THEOREM HandshakeServesOnce == Spec => []OneServer
<1>1. HInv => OneServer
  BY DEF HInv, AckedOK, Served, OneServer
<1> QED BY <1>1, HandshakeInvariant, PTL

\* A child that has ended is reaped, or the SIGCHLD that will reap it is pending.
THEOREM HandshakeReaps == Spec => []NoZombieForgotten
<1>1. HInv => NoZombieForgotten  BY DEF HInv, ZombiesOK
<1> QED BY <1>1, HandshakeInvariant, PTL

-----------------------------------------------------------------------------
(* The handshake implements Association.  Its variables are those of the   *)
(* handshake, but for the state of a server, of which Stage shows less.    *)

\* A step that shows nothing of what Association promises.
LEMMA Stutter ==
  ASSUME UNCHANGED <<client, peer, next_seq, rwin_adv>>,
         \A k \in Kids : Phase(kpc'[k]) = Phase(kpc[k])
  PROVE  [Pairing!Next]_(Pairing!vars)
<1>1. Stage' = Stage  BY DEF Stage
<1> QED BY <1>1 DEF Pairing!vars

\* One child that goes on to another state.
LEMMA StageMoves ==
  ASSUME KidTypes, NEW k \in Kids, NEW to, kpc' = [kpc EXCEPT ![k] = to]
  PROVE  Stage' = [Stage EXCEPT ![k] = Phase(to)]
  BY DEF KidTypes, Stage

\* Only the reaping of zombies changes the state of several children, and
\* Association does not tell a reaped one from a zombie.
LEMMA ReapedIsDone == Phase("zombie") = "done" /\ Phase("reaped") = "done"
  BY DEF Phase

\* fork() is the making of a server, for the sender of the SYN.
LEMMA ForkMakes ==
  ASSUME HInv, RunFork, UNCHANGED connectVars
  PROVE  Pairing!Make(forks + 1) /\ forks + 1 \in Kids
<1>1. forks + 1 \in Kids /\ forks' = forks + 1 /\ kpc[forks + 1] = "none"
  BY EndpointsAssumption
  DEF EndpointsAssumption, RunFork, HInv, KidTypes, ForksOK, Forked, Kids
<1>2. Stage[forks + 1] = "none"  BY <1>1 DEF Stage, Phase
<1>3. Stage' = [Stage EXCEPT ![forks + 1] = "made"]
  <2>1. Phase("open") = "made"  BY DEF Phase
  <2> QED BY <1>1, <2>1, StageMoves DEF RunFork, HInv
<1>4. syn \in Client  BY DEF HInv, KidTypes
<1> QED BY <1>1, <1>2, <1>3, <1>4 DEF RunFork, connectVars, Pairing!Make

\* Every step of the server.
LEMMA MainMaps ==
  ASSUME HInv, MainStep
  PROVE  [Pairing!Next]_(Pairing!vars)
<1>1. CASE \E c \in Client : ServerRecvSyn(c)
  BY <1>1, Stutter DEF ServerRecvSyn, RunSyn, kidVars, connectVars
<1>2. CASE RunFork /\ UNCHANGED <<connectVars, netVars>>
  BY <1>2, ForkMakes DEF Pairing!Next
<1>3. CASE RunForkFails /\ UNCHANGED <<connectVars, netVars>>
  <2>1. \A k \in Kids : Phase(kpc'[k]) = Phase(kpc[k])
    BY <1>3, ReapedIsDone DEF RunForkFails
  <2> QED BY <1>3, <2>1, Stutter DEF RunForkFails, connectVars
<1>4. CASE (RunFound \/ RunAdd \/ RunParent \/ RunUnblock) /\ UNCHANGED <<connectVars, netVars>>
  BY <1>4, Stutter DEF RunFound, RunAdd, RunParent, RunUnblock, kidVars, connectVars
<1> QED BY <1>1, <1>2, <1>3, <1>4 DEF MainStep, RunLocal

\* Every step of the handler.
LEMMA HandlerMaps ==
  ASSUME HInv, Handler
  PROVE  [Pairing!Next]_(Pairing!vars)
<1>1. CASE Sigchld \/ SigchldReturn
  BY <1>1, Stutter DEF Handler, Sigchld, SigchldReturn, kidVars, connectVars
<1>2. ASSUME NEW k \in Kids, SigchldReap(k) PROVE [Pairing!Next]_(Pairing!vars)
  <2>1. \A j \in Kids : Phase(kpc'[j]) = Phase(kpc[j])
    BY <1>2, ReapedIsDone DEF SigchldReap, Zombies, HInv, KidTypes
  <2>2. UNCHANGED <<client, rwin_adv, peer, next_seq>>
    BY <1>2 DEF SigchldReap, Handler, connectVars
  <2> QED BY <2>1, <2>2, Stutter
<1> QED BY <1>1, <1>2 DEF Handler

\* A child that exits has finished, whether or not it has a parent.
LEMMA ExitFinishes ==
  ASSUME HInv, NEW k \in Kids, KExit(k), kpc[k] \in {"open", "wait", "transfer"},
         UNCHANGED <<client, rwin_adv, peer, next_seq>>
  PROVE  [Pairing!Next]_(Pairing!vars)
<1>1. Stage[k] \in {"made", "serving"}  BY DEF Stage, Phase
<1>2. Stage' = [Stage EXCEPT ![k] = "done"]
  BY StageMoves, ReapedIsDone DEF KExit, HInv
<1>3. Pairing!Finish(k)  BY <1>1, <1>2 DEF Pairing!Finish
<1> QED BY <1>3 DEF Pairing!Next

\* A child that goes on with its side of the handshake.
LEMMA MadeStays ==
  ASSUME HInv, NEW k \in Kids, kpc[k] \in {"open", "send", "wait"},
         NEW to \in {"open", "send", "wait"}, kpc' = [kpc EXCEPT ![k] = to],
         UNCHANGED <<client, rwin_adv, peer, next_seq>>
  PROVE  [Pairing!Next]_(Pairing!vars)
<1>1. Phase(kpc[k]) = "made" /\ Phase(to) = "made"  BY DEF Phase
<1>2. \A j \in Kids : Phase(kpc'[j]) = Phase(kpc[j])
  BY <1>1 DEF HInv, KidTypes
<1> QED BY <1>2, Stutter

\* An ACK is from the client that has chosen this child: it begins to serve.
LEMMA AckServes ==
  ASSUME HInv, NEW k \in Kids, ChildRecvAck(k)
  PROVE  Pairing!Serve(k)
<1>1. /\ k \in acks /\ kpc[k] = "wait" /\ kpc' = [kpc EXCEPT ![k] = "transfer"]
      /\ rwin_adv' = [rwin_adv EXCEPT ![k] = ClientWin]
      /\ UNCHANGED <<client, peer, next_seq>>
  BY DEF ChildRecvAck, KRecvAck, connectVars
<1>2. peer[client[k]] = k  BY <1>1 DEF HInv, AckedOK, Served
<1>3. Stage[k] = "made" /\ Phase("transfer") = "serving"  BY <1>1 DEF Stage, Phase
<1>4. Stage' = [Stage EXCEPT ![k] = "serving"]  BY <1>1, <1>3, StageMoves DEF HInv
<1> QED BY <1>1, <1>2, <1>3, <1>4 DEF Pairing!Serve

\* A child that was not answered.
LEMMA RetryMaps ==
  ASSUME HInv, NEW k \in Kids, KRetry(k), UNCHANGED connectVars
  PROVE  [Pairing!Next]_(Pairing!vars)
<1>1. kpc[k] = "wait" /\ UNCHANGED <<client, rwin_adv, peer, next_seq>>
  BY DEF KRetry, connectVars
<1>2. CASE KExit(k)  BY <1>1, <1>2, ExitFinishes
<1>3. CASE kpc' = [kpc EXCEPT ![k] = "send"]  BY <1>1, <1>3, MadeStays
<1> QED BY <1>2, <1>3 DEF KRetry

\* Every step of a child.
LEMMA ChildMaps ==
  ASSUME HInv, NEW k \in Kids, ChildStep(k)
  PROVE  [Pairing!Next]_(Pairing!vars)
<1>1. CASE ChildSend(k)
  BY <1>1, MadeStays DEF ChildSend, KSend, connectVars
<1>2. CASE ChildTimeout(k)  BY <1>2, RetryMaps DEF ChildTimeout
<1>3. CASE ChildRefused(k)  BY <1>3, RetryMaps DEF ChildRefused
<1>4. CASE ChildRecvAck(k)  BY <1>4, AckServes DEF Pairing!Next
<1>5. CASE KOpen(k) /\ UNCHANGED <<connectVars, netVars>>
  BY <1>5, MadeStays DEF KOpen, connectVars
<1>6. CASE (KOpenFails(k) \/ KTransferred(k)) /\ UNCHANGED <<connectVars, netVars>>
  BY <1>6, ExitFinishes DEF KOpenFails, KTransferred, connectVars
<1>7. CASE ChildAgain(k)
  BY <1>7, MadeStays DEF ChildAgain, KAgain, connectVars
<1>8. CASE ChildRecvFails(k)
  BY <1>8, ExitFinishes DEF ChildRecvFails, KRecvFails, connectVars
<1> QED BY <1>1, <1>2, <1>3, <1>4, <1>5, <1>6, <1>7, <1>8 DEF ChildStep

\* A client connects to the port of a child that was made for it, and only
\* while it has not connected before.
LEMMA ConnectChooses ==
  ASSUME HInv, NEW c \in Client, NEW k \in synacks, client[k] = c,
         Connect(c, k, init_seq), UNCHANGED smVars
  PROVE  k \in Kids /\ Pairing!Choose(c, k)
<1>1. k \in Kids /\ kpc[k] \in KidState /\ kpc[k] # "none"
  BY DEF HInv, PacketTypes, SendersOK, Forked, KidTypes
<1>2. Stage[k] # "none"  BY <1>1 DEF Stage, Phase, KidState
<1>3. peer[c] = 0  BY DEF HInv, ChoosingOK, Connect
<1>4. Stage' = Stage /\ UNCHANGED <<client, rwin_adv>>  BY DEF smVars, kidVars, Stage
<1> QED BY <1>1, <1>2, <1>3, <1>4 DEF Connect, Pairing!Choose

\* Every step of a client.
LEMMA ClientMaps ==
  ASSUME HInv, NEW c \in Client, ClientStep(c)
  PROVE  [Pairing!Next]_(Pairing!vars)
<1>1. CASE ClientConnect(c)
  <2>1. PICK k \in synacks :
          /\ client[k] = c /\ UNCHANGED smVars
          /\ Connect(c, k, init_seq) \/ ConnectFails(c)
    BY <1>1 DEF ClientConnect
  <2>2. CASE Connect(c, k, init_seq)
    BY <2>1, <2>2, ConnectChooses DEF Pairing!Next
  <2>3. CASE ConnectFails(c)
    BY <2>1, <2>3, Stutter DEF ConnectFails, Leave, smVars, kidVars
  <2> QED BY <2>1, <2>2, <2>3
<1>2. CASE ~ClientConnect(c)
  <2>1. UNCHANGED <<smVars, peer, next_seq>>
    BY <1>2 DEF ClientStep, ClientSendSyn, SendSyn, ClientTimeout, SynTimeout, ClientRefused,
                RecvFails, ClientEnds, ClientReply, ClientTransferred, Leave, connectVars
  <2> QED BY <2>1, Stutter DEF smVars, kidVars
<1> QED BY <1>1, <1>2

\* Every step is one of Association, or none.
LEMMA NextMaps == HInv /\ [Next]_vars => [Pairing!Next]_(Pairing!vars)
<1> SUFFICES ASSUME HInv, [Next]_vars PROVE [Pairing!Next]_(Pairing!vars)
  OBVIOUS
<1>1. CASE MainStep  BY <1>1, MainMaps
<1>2. CASE Handler  BY <1>2, HandlerMaps
<1>3. CASE \E k \in Kids : ChildStep(k)  BY <1>3, ChildMaps
<1>4. CASE \E c \in Client : ClientStep(c)  BY <1>4, ClientMaps
<1>5. CASE UNCHANGED <<smVars, connectVars>>
  BY <1>5, Stutter DEF smVars, kidVars, connectVars
<1> QED BY <1>1, <1>2, <1>3, <1>4, <1>5 DEF Next, vars

\* The handshake implements Association: over a network that loses, delays and
\* repeats SYNs, SYN-ACKs and ACKs, and with any number of children that answer
\* the same client, each client is paired with one child for good, and only
\* that child ever serves it.
THEOREM HandshakeImplements == Spec => ImplementsAssociation
<1>1. Init => Pairing!Init
  <2> SUFFICES ASSUME Init PROVE Pairing!Init
    OBVIOUS
  <2>1. Stage = [k \in Kids |-> "none"]  BY DEF Init, MInit, Stage, Phase
  <2>2. client \in [Kids -> Client]  BY SomeClient DEF Init, MInit
  <2> QED BY <2>1, <2>2 DEF Init, MInit, KInit, Pairing!Init
<1> QED
  BY <1>1, NextMaps, HandshakeInvariant, PTL DEF Spec, ImplementsAssociation, Pairing!Spec

-----------------------------------------------------------------------------
(* What Association says of one pair, proved of its steps.                 *)

\* Client c has chosen child k, which was made for it.
Paired(c, k) == Stage[k] # "none" /\ client[k] = c /\ peer[c] = k

\* No step parts a pair.
LEMMA PairedStays ==
  ASSUME KidTypes, ClientTypes, NEW c \in Client, NEW k \in Kids, Paired(c, k),
         [Pairing!Next]_(Pairing!vars)
  PROVE  Paired(c, k)'
<1>0. k # 0  BY EndpointsAssumption DEF EndpointsAssumption, Kids
<1>1. /\ client \in [Kids -> Client] /\ Stage[k] # "none" /\ client[k] = c
      /\ peer \in [Client -> {0} \cup Kids] /\ peer[c] = k
      /\ DOMAIN Stage = Kids
  BY DEF KidTypes, ClientTypes, Paired, Stage
<1>2. ASSUME NEW j \in Kids, Pairing!Make(j) PROVE Paired(c, k)'
  <2>1. PICK d \in Client : client' = [client EXCEPT ![j] = d]
    BY <1>2 DEF Pairing!Make
  <2> QED BY <1>1, <1>2, <2>1 DEF Pairing!Make, Paired
<1>3. ASSUME NEW j \in Kids, NEW d \in Client, Pairing!Choose(d, j) PROVE Paired(c, k)'
  BY <1>0, <1>1, <1>3 DEF Pairing!Choose, Paired
<1>4. ASSUME NEW j \in Kids, Pairing!Serve(j) \/ Pairing!Finish(j) PROVE Paired(c, k)'
  BY <1>1, <1>4 DEF Pairing!Serve, Pairing!Finish, Paired
<1>5. CASE UNCHANGED Pairing!vars  BY <1>1, <1>5 DEF Pairing!vars, Paired
<1> QED BY <1>2, <1>3, <1>4, <1>5 DEF Pairing!Next

\* A client that has connected to a child stays connected to it: no SYN-ACK of
\* another child, however late, makes it change its peer.
PeerForLife == [][\A c \in Client : peer[c] # 0 => peer'[c] = peer[c]]_vars
THEOREM HandshakePeerForLife == Spec => PeerForLife
<1>1. HInv /\ [Next]_vars => [\A c \in Client : peer[c] # 0 => peer'[c] = peer[c]]_vars
  <2> SUFFICES ASSUME HInv, [Next]_vars, NEW c \in Client, peer[c] # 0
               PROVE peer'[c] = peer[c]
    OBVIOUS
  <2>1. [Pairing!Next]_(Pairing!vars)  BY NextMaps
  <2>2. peer \in [Client -> {0} \cup Kids]  BY DEF HInv, ClientTypes
  <2>3. ASSUME NEW d \in Client, NEW k \in Kids, Pairing!Choose(d, k)
        PROVE  peer'[c] = peer[c]
    BY <2>2, <2>3 DEF Pairing!Choose
  <2>4. CASE UNCHANGED peer  BY <2>4
  <2> QED
    BY <2>1, <2>3, <2>4
    DEF Pairing!Next, Pairing!vars, Pairing!Make, Pairing!Serve, Pairing!Finish
<1> QED BY <1>1, HandshakeInvariant, PTL DEF Spec, PeerForLife

\* Once a child has served a client no other child ever does, not even after
\* the first has ended: a second child that a repeated SYN has started never
\* gets the file under way.
THEOREM HandshakeServesOnceForAll ==
  ASSUME NEW c \in Client, NEW j \in Kids, NEW k \in Kids, j # k
  PROVE  Spec => [](kpc[j] = "transfer" /\ client[j] = c
                      => [](client[k] = c => kpc[k] # "transfer"))
<1>1. HInv /\ (kpc[j] = "transfer" /\ client[j] = c) => Paired(c, j)
  BY DEF HInv, AckedOK, Served, Paired, Stage, Phase
<1>2. HInv /\ Paired(c, j) /\ [Next]_vars => Paired(c, j)'
  BY NextMaps, PairedStays DEF HInv
<1>3. HInv /\ Paired(c, j) => (client[k] = c => kpc[k] # "transfer")
  BY DEF HInv, AckedOK, Served, Paired
<1> QED BY <1>1, <1>2, <1>3, HandshakeInvariant, PTL DEF Spec
=============================================================================
