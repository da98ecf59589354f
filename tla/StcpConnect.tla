---------------------------- MODULE StcpConnect ----------------------------
(***************************************************************************)
(* stcp_connect(), the client's side of the handshake, for a set of        *)
(* clients.  What the network does to a packet is in Handshake.            *)
(***************************************************************************)
EXTENDS Endpoints

CONSTANTS
  ClientWin,   \* slots of a client's receiving window, all free here
  MaxRetries   \* max_retries, 5 in the code

ASSUME ConnectAssumption == ClientWin \in Nat \ {0} /\ MaxRetries \in Nat

VARIABLES
  cpc,       \* where each client is
  retries,   \* timeouts so far
  peer,      \* the port its socket is connected to, 0 for the server's own
  next_seq   \* stcp->win.next_seq

connectVars == <<cpc, retries, peer, next_seq>>

KTypeOK ==
  /\ cpc \in [Client -> {"syn", "wait", "connected", "failed", "ended"}]
  /\ retries \in [Client -> 0 .. MaxRetries]
  /\ peer \in [Client -> {0} \cup Kids]
  /\ next_seq \in [Client -> {0, 1}]

KInit ==
  /\ cpc = [c \in Client |-> "syn"]
  /\ retries = [c \in Client |-> 0]
  /\ peer = [c \in Client |-> 0]
  /\ next_seq = [c \in Client |-> 0]

ClientUp(c) == cpc[c] \in {"syn", "wait", "connected"}

\* The client is done with stcp_connect and its socket is closed.
Leave(c, how) ==
  /\ cpc' = [cpc EXCEPT ![c] = how]
  /\ retries' = [retries EXCEPT ![c] = 0]
  /\ UNCHANGED <<peer, next_seq>>

SendSyn(c, ok) ==
  /\ cpc[c] = "syn"
  /\ IF ok THEN cpc' = [cpc EXCEPT ![c] = "wait"] /\ UNCHANGED <<retries, peer, next_seq>>
     ELSE Leave(c, "failed")

\* select() timed out: send the SYN again, max_retries times.
SynTimeout(c) ==
  /\ cpc[c] = "wait"
  /\ IF retries[c] + 1 > MaxRetries THEN Leave(c, "failed")
     ELSE /\ retries' = [retries EXCEPT ![c] = @ + 1]
          /\ cpc' = [cpc EXCEPT ![c] = "syn"]
          /\ UNCHANGED <<peer, next_seq>>

RecvFails(c) == cpc[c] = "wait" /\ Leave(c, "failed")

\* Variant: the loop is not left.
Connect_again(c, port, seq) ==
  /\ cpc[c] = "wait"
  /\ next_seq' = [next_seq EXCEPT ![c] = seq + 1]
  /\ peer' = [peer EXCEPT ![c] = port]
  /\ UNCHANGED <<cpc, retries>>

\* A valid SYN-ACK with the new port: connect to it; the ACK follows.
Connect(c, port, seq) ==
  /\ cpc[c] = "wait"
  /\ next_seq' = [next_seq EXCEPT ![c] = seq + 1]
  /\ peer' = [peer EXCEPT ![c] = port]
  /\ retries' = [retries EXCEPT ![c] = 0]
  /\ cpc' = [cpc EXCEPT ![c] = "connected"]

\* udpConnect() or the sending of the ACK fails.
ConnectFails(c) == cpc[c] = "wait" /\ Leave(c, "failed")

\* The client after the handshake, which is StcpClient's, ends.
ClientEnds(c) == cpc[c] = "connected" /\ Leave(c, "ended")
=============================================================================
