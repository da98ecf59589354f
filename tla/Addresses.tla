------------------------------ MODULE Addresses ------------------------------
(***************************************************************************)
(* How the two programs find their addresses: discoverInterfaces() in      *)
(* both, with the server's sockets, chooseIPs() in the client, a longest-  *)
(* prefix match, and createClientSocket() in the client and in a child of  *)
(* the server.                                                             *)
(*                                                                         *)
(* An address is a sequence of Width bits, most significant first, and a   *)
(* netmask, which is contiguous, the number of its ones: (a & mask) is     *)
(* the first bits of a, and comparing two masks after ntohl() compares     *)
(* these numbers.  What the kernel reports is chosen in AInit.             *)
(***************************************************************************)
EXTENDS Integers, Sequences, SequencesExt

CONSTANTS
  Width,         \* bits of an address, 32 in the code
  MaxInterfaces  \* bound: interfaces of a host

ASSUME AddressAssumption ==
  /\ Width \in Nat \ {0}
  /\ MaxInterfaces \in Nat \ {0}

Address         == [1 .. Width -> {0, 1}]
INADDR_ANY      == [b \in 1 .. Width |-> 0]
INADDR_LOOPBACK == [b \in 1 .. Width |-> 1]   \* some address that is not ANY
HostAddress     == Address \ {INADDR_ANY}

Interface == [ip_address : HostAddress, network_mask : 0 .. Width]
NoIf      == [ip_address |-> INADDR_ANY, network_mask |-> 0]   \* NULL

isSameIP(a, b) == a = b

\* chooseIPs() has the same comparison in its second loop.
isSameSubnet(a, b, mask) == \A i \in 1 .. mask : a[i] = b[i]

VARIABLES
  found,       \* interfaces of the host not yet looked at, in kernel order
  shouldBind,  \* DONT_BIND_INTERFACE: the client; BIND_INTERFACE: the server
  serv_addr,   \* config->serv_addr
  pc,          \* where the program is
  list,        \* the list of interfaces
  rest,        \* the part of list the current loop has still to visit
  long_if, local, client_ip, server_ip,
  sock         \* the client's socket

chooseVars == <<rest, long_if, local, client_ip, server_ip>>
hostVars   == <<found, shouldBind, serv_addr, list>>
addrVars   == <<hostVars, pc, chooseVars, sock>>

NoSock == [bind |-> INADDR_ANY, peer |-> INADDR_ANY, dontroute |-> FALSE]

ATypeOK ==
  /\ found \in Seq(Interface) /\ list \in Seq(Interface) /\ rest \in Seq(Interface)
  /\ shouldBind \in BOOLEAN /\ local \in BOOLEAN
  /\ serv_addr \in HostAddress
  /\ client_ip \in Address /\ server_ip \in Address
  /\ long_if \in Interface \cup {NoIf}
  /\ sock \in [bind : Address, peer : Address, dontroute : BOOLEAN]
  /\ pc \in {"discover", "exact", "prefix", "socket", "run", "child", "exit",
            "crashed"}
  /\ pc \notin {"discover", "exit"} => list # <<>>

\* get_ifi_info_plus() ends the program when there is no interface.
AInit ==
  /\ found \in BoundedSeq(Interface, MaxInterfaces) \ {<<>>}
  /\ shouldBind \in BOOLEAN /\ serv_addr \in HostAddress
  /\ pc = "discover" /\ list = <<>> /\ rest = <<>>
  /\ long_if = NoIf /\ local = FALSE
  /\ client_ip = INADDR_ANY /\ server_ip = INADDR_ANY /\ sock = NoSock

-----------------------------------------------------------------------------
(* discoverInterfaces(). *)

\* The node goes to the front of the list: the reverse of the kernel's order.
DInsert ==
  /\ pc = "discover" /\ found # <<>>
  /\ list' = <<Head(found)>> \o list
  /\ found' = Tail(found)
  /\ UNCHANGED <<shouldBind, serv_addr, pc, chooseVars, sock>>

\* createServer() failed: the server goes on without this interface.
DBindFails ==
  /\ pc = "discover" /\ found # <<>> /\ shouldBind
  /\ found' = Tail(found)
  /\ UNCHANGED <<shouldBind, serv_addr, list, pc, chooseVars, sock>>

\* Variant: the size of the list is not looked at.
DDone_unchecked ==
  /\ pc = "discover" /\ found = <<>>
  /\ pc' = IF shouldBind THEN "run" ELSE "exact"
  /\ rest' = list
  /\ UNCHANGED <<hostVars, long_if, local, client_ip, server_ip, sock>>

\* main() of the server and chooseIPs() give up without an interface.
DDone ==
  /\ pc = "discover" /\ found = <<>>
  /\ pc' = IF list = <<>> THEN "exit" ELSE IF shouldBind THEN "run" ELSE "exact"
  /\ rest' = list
  /\ UNCHANGED <<hostVars, long_if, local, client_ip, server_ip, sock>>

-----------------------------------------------------------------------------
(* chooseIPs(). *)

\* One turn of the first loop: is the server on this host?
CExact ==
  /\ pc = "exact" /\ rest # <<>>
  /\ IF isSameIP(serv_addr, Head(rest).ip_address)
     THEN /\ pc' = "socket" /\ local' = TRUE
          /\ client_ip' = INADDR_LOOPBACK /\ server_ip' = INADDR_LOOPBACK
          /\ UNCHANGED rest
     ELSE rest' = Tail(rest) /\ UNCHANGED <<pc, local, client_ip, server_ip>>
  /\ UNCHANGED <<hostVars, long_if, sock>>

CNotHere ==
  /\ pc = "exact" /\ rest = <<>>
  /\ pc' = "prefix" /\ rest' = list /\ server_ip' = serv_addr
  /\ UNCHANGED <<hostVars, long_if, local, client_ip, sock>>

\* Variant: every match is taken, and the last one stays.
Longer_always(mask, longest) == TRUE

\* Variant: the masks are compared the wrong way round.
Longer_reversed(mask, longest) == mask < longest

\* ntohl(net_mask) > ntohl(longest); longest is zero as long as long_if is NULL.
Longer(mask, longest) == mask > longest

\* One turn of the second loop.
CPrefix ==
  /\ pc = "prefix" /\ rest # <<>>
  /\ rest' = Tail(rest)
  /\ LET temp == Head(rest)
     IN IF isSameSubnet(temp.ip_address, server_ip, temp.network_mask)
        THEN /\ local' = TRUE
             /\ IF Longer(temp.network_mask, long_if.network_mask)
                THEN long_if' = temp /\ client_ip' = temp.ip_address
                ELSE UNCHANGED <<long_if, client_ip>>
        ELSE UNCHANGED <<local, long_if, client_ip>>
  /\ UNCHANGED <<hostVars, pc, server_ip, sock>>

\* Variant: a socket that is not local is bound to the last address tried.
CChosen_always_local ==
  /\ pc = "prefix" /\ rest = <<>>
  /\ pc' = "socket" /\ local' = TRUE
  /\ UNCHANGED <<hostVars, rest, long_if, client_ip, server_ip, sock>>

\* After the loop.  For a local server long_if is dereferenced.
CChosen ==
  /\ pc = "prefix" /\ rest = <<>>
  /\ IF ~local THEN pc' = "socket" /\ client_ip' = INADDR_ANY
     ELSE /\ pc' = IF long_if = NoIf THEN "crashed" ELSE "socket"
          /\ UNCHANGED client_ip
  /\ UNCHANGED <<hostVars, rest, long_if, local, server_ip, sock>>

-----------------------------------------------------------------------------
(* createClientSocket(): socket(), SO_DONTROUTE, bind() and connect(). *)

CSocket ==
  /\ pc = "socket"
  /\ sock' = [bind |-> client_ip, peer |-> server_ip, dontroute |-> local]
  /\ pc' = "run"
  /\ UNCHANGED <<hostVars, chooseVars>>

\* One of them fails; stcp_socket() refuses the -1 and main() exits.
CSocketFails ==
  /\ pc = "socket"
  /\ pc' = "exit"
  /\ UNCHANGED <<hostVars, chooseVars, sock>>

\* childprocess(), for a client whose SYN came in on an interface: a socket on
\* the interface's address, which bypasses routing to a client of its subnet.
VSocket ==
  /\ pc = "run" /\ shouldBind
  /\ \E i \in ToSet(list), client_addr \in HostAddress :
       sock' = [bind |-> i.ip_address, peer |-> client_addr,
                dontroute |-> isSameSubnet(i.ip_address, client_addr, i.network_mask)]
  /\ pc' = "child"
  /\ UNCHANGED <<hostVars, chooseVars>>

ANext ==
  \/ DInsert \/ DBindFails \/ DDone
  \/ CExact \/ CNotHere \/ CPrefix \/ CChosen
  \/ CSocket \/ CSocketFails \/ VSocket
  \/ pc \in {"run", "child", "exit", "crashed"} /\ UNCHANGED addrVars

ASpec == AInit /\ [][ANext]_addrVars

-----------------------------------------------------------------------------
(* Properties. *)

\* The interfaces on whose subnet an address is, by definition.
Interfaces == ToSet(list)
OnThisHost == \E i \in Interfaces : i.ip_address = serv_addr
Direct(a)  == {i \in Interfaces : isSameSubnet(i.ip_address, a, i.network_mask)}

\* client.h:30: loopback for a server on the same host; otherwise the address
\* of an interface with the longest matching prefix.  When none matches the
\* comment speaks of "any address from the client's interface list"; the code
\* leaves the choice to the kernel, with INADDR_ANY.
Connected == pc = "run" /\ ~shouldBind
ChoosesAsPromised ==
  Connected =>
    IF OnThisHost THEN sock.bind = INADDR_LOOPBACK /\ sock.peer = INADDR_LOOPBACK
    ELSE /\ sock.peer = serv_addr
         /\ IF Direct(serv_addr) = {} THEN sock.bind = INADDR_ANY
            ELSE \E i \in Direct(serv_addr) :
                   /\ sock.bind = i.ip_address
                   /\ \A j \in Direct(serv_addr) : j.network_mask <= i.network_mask

\* utility.c:139: a socket that bypasses routing has a peer which the interface
\* it is bound to reaches directly: the loopback, or a host of its subnet.
DontRouteIsDirect ==
  sock.dontroute =>
    \/ sock.peer = sock.bind
    \/ \E i \in Direct(sock.peer) : i.ip_address = sock.bind

\* long_if is NULL after a match only if all matches have a netmask of zero.
CrashNeedsZeroMask ==
  pc = "crashed" => \A i \in Direct(serv_addr) : i.network_mask = 0
=============================================================================
