----------------------------- MODULE Endpoints -----------------------------
(***************************************************************************)
(* Who takes part in the handshakes: clients, and the server's children.   *)
(* A client is the address and port of its socket.  The k-th child forked  *)
(* is the process with pid k; k also stands for the port of its socket.    *)
(***************************************************************************)
EXTENDS Integers

CONSTANTS
  Addresses, Ports,  \* what clients are made of
  InterfaceIp,       \* the address the server listens on
  MaxForks           \* bound: children forked in one behaviour, then fork() fails

ASSUME EndpointsAssumption ==
  /\ Addresses # {} /\ Ports # {}
  /\ MaxForks \in Nat

Client == [ip_address : Addresses, port : Ports]
Kids   == 1 .. MaxForks
=============================================================================
