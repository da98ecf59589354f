---------------------------- MODULE Association ----------------------------
(***************************************************************************)
(* What the handshake promises: it pairs clients with servers.  A server   *)
(* is made for one client, a client chooses one of the servers made for it *)
(* and never another, and a server begins to serve only the client that    *)
(* has chosen it, both with the sequence number and the window with which  *)
(* the transfer begins.  A server may end at any time, having served or    *)
(* not, and never comes back.                                              *)
(***************************************************************************)
EXTENDS Naturals

CONSTANTS
  Clients, Servers,
  NoServer,           \* the choice of a client that has not chosen
  FirstSeq, Window    \* the terms

VARIABLES
  stage,     \* of each server: "none", "made", "serving" or "done"
  client,    \* the client each server is made for
  choice,    \* the server each client has chosen
  expects,   \* the first sequence number each client expects
  allowed    \* the window each server may send

vars == <<stage, client, choice, expects, allowed>>

Init ==
  /\ stage = [s \in Servers |-> "none"]
  /\ client \in [Servers -> Clients]
  /\ choice = [c \in Clients |-> NoServer]
  /\ expects = [c \in Clients |-> 0]
  /\ allowed = [s \in Servers |-> 0]

Make(s) ==
  /\ stage[s] = "none"
  /\ stage' = [stage EXCEPT ![s] = "made"]
  /\ \E c \in Clients : client' = [client EXCEPT ![s] = c]
  /\ UNCHANGED <<choice, expects, allowed>>

\* The server may have ended, without the client knowing.
Choose(c, s) ==
  /\ choice[c] = NoServer
  /\ choice' = [choice EXCEPT ![c] = s]
  /\ stage[s] # "none" /\ client[s] = c
  /\ expects' = [expects EXCEPT ![c] = FirstSeq]
  /\ UNCHANGED <<stage, client, allowed>>

Serve(s) ==
  /\ stage[s] = "made" /\ choice[client[s]] = s
  /\ stage' = [stage EXCEPT ![s] = "serving"]
  /\ allowed' = [allowed EXCEPT ![s] = Window]
  /\ UNCHANGED <<client, choice, expects>>

Finish(s) ==
  /\ stage[s] \in {"made", "serving"}
  /\ stage' = [stage EXCEPT ![s] = "done"]
  /\ UNCHANGED <<client, choice, expects, allowed>>

Next ==
  \E s \in Servers :
    \/ Make(s) \/ Serve(s) \/ Finish(s)
    \/ \E c \in Clients : Choose(c, s)

Spec == Init /\ [][Next]_vars
=============================================================================
