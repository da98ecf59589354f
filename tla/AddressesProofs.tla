--------------------------- MODULE AddressesProofs ---------------------------
(***************************************************************************)
(* Proofs about Addresses, for addresses of every width and any number of  *)
(* interfaces, in whatever order the kernel reports them: chooseIPs finds  *)
(* the longest matching prefix, and crashes only without one.              *)
(***************************************************************************)
EXTENDS Addresses, SequenceTheorems, TLAPS

-----------------------------------------------------------------------------
(* The inductive invariant. *)

\* What the second loop of chooseIPs knows with the interfaces of `todo' still
\* to be visited.
Best(todo) ==
  /\ local => Direct(serv_addr) # {}
  /\ \A i \in Direct(serv_addr) :
       i \in todo \/ (local /\ i.network_mask <= long_if.network_mask)
  /\ long_if # NoIf =>
       local /\ long_if \in Direct(serv_addr) /\ client_ip = long_if.ip_address

DiscoverOK ==
  pc = "discover" => sock = NoSock /\ long_if = NoIf /\ ~local
ExactOK ==
  pc = "exact" =>
    /\ long_if = NoIf /\ ~local
    /\ \A i \in Interfaces : i.ip_address = serv_addr => i \in ToSet(rest)
PrefixOK ==
  pc = "prefix" => ~OnThisHost /\ server_ip = serv_addr /\ Best(ToSet(rest))
SocketOK ==
  pc = "socket" =>
    \/ OnThisHost /\ local /\ client_ip = INADDR_LOOPBACK /\ server_ip = INADDR_LOOPBACK
    \/ /\ ~OnThisHost /\ server_ip = serv_addr /\ Best({})
       /\ IF local THEN long_if # NoIf ELSE client_ip = INADDR_ANY

RestOK   == pc \in {"exact", "prefix"} => ToSet(rest) \subseteq Interfaces
ClientOK == pc \in {"exact", "prefix", "socket", "crashed"} => ~shouldBind

AInv ==
  /\ ATypeOK
  /\ DiscoverOK /\ ExactOK /\ PrefixOK /\ SocketOK /\ RestOK /\ ClientOK
  /\ ChoosesAsPromised /\ DontRouteIsDirect /\ CrashNeedsZeroMask

-----------------------------------------------------------------------------
(* Sequences as sets, and the constants. *)

\* The members of a sequence.
LEMMA Members ==
  ASSUME NEW S, NEW s \in Seq(S)
  PROVE  /\ ToSet(s) \subseteq S
         /\ s = << >> => ToSet(s) = {}
         /\ s # << >> => ToSet(s) # {}
<1>1. DOMAIN s = 1 .. Len(s) /\ Len(s) \in Nat /\ \A i \in 1 .. Len(s) : s[i] \in S
  BY LenProperties, ElementOfSeq
<1>2. ToSet(s) = {s[i] : i \in 1 .. Len(s)}  BY <1>1 DEF ToSet
<1>3. s = << >> => Len(s) = 0  BY EmptySeq
<1>4. s # << >> => Len(s) >= 1  BY <1>1, EmptySeq
<1> QED BY <1>1, <1>2, <1>3, <1>4

\* The first element, and the others.
LEMMA HeadMembers ==
  ASSUME NEW S, NEW s \in Seq(S), s # << >>
  PROVE  /\ Head(s) \in S /\ Tail(s) \in Seq(S)
         /\ ToSet(s) = {Head(s)} \cup ToSet(Tail(s))
<1>1. /\ Head(s) \in S /\ Tail(s) \in Seq(S) /\ Len(Tail(s)) = Len(s) - 1
      /\ Head(s) = s[1] /\ Len(s) \in Nat /\ Len(s) >= 1
      /\ \A i \in 1 .. Len(Tail(s)) : Tail(s)[i] = s[i + 1]
  BY HeadTailProperties, LenProperties, EmptySeq
<1>2. ToSet(s) = {s[i] : i \in 1 .. Len(s)}
      /\ ToSet(Tail(s)) = {Tail(s)[i] : i \in 1 .. Len(Tail(s))}
  BY <1>1, LenProperties DEF ToSet
<1>3. ASSUME NEW x \in ToSet(s) PROVE x = Head(s) \/ x \in ToSet(Tail(s))
  <2>1. PICK i \in 1 .. Len(s) : x = s[i]  BY <1>2
  <2>2. CASE i = 1  BY <1>1, <2>1, <2>2
  <2>3. CASE i # 1
    <3>1. i - 1 \in 1 .. Len(Tail(s)) /\ (i - 1) + 1 = i  BY <1>1, <2>3
    <3>2. Tail(s)[i - 1] = s[i]  BY <1>1, <3>1
    <3> QED BY <1>2, <2>1, <3>1, <3>2
  <2> QED BY <2>2, <2>3
<1>4. Head(s) \in ToSet(s)  BY <1>1, <1>2
<1>5. ASSUME NEW x \in ToSet(Tail(s)) PROVE x \in ToSet(s)
  <2>1. PICK i \in 1 .. Len(Tail(s)) : x = Tail(s)[i]  BY <1>2
  <2>2. i + 1 \in 1 .. Len(s) /\ x = s[i + 1]  BY <1>1, <2>1
  <2> QED BY <1>2, <2>2
<1> QED BY <1>1, <1>3, <1>4, <1>5

\* A new node at the front of the list.
LEMMA FrontMembers ==
  ASSUME NEW S, NEW s \in Seq(S), NEW x \in S
  PROVE  /\ <<x>> \o s \in Seq(S) /\ <<x>> \o s # << >>
         /\ ToSet(<<x>> \o s) = {x} \cup ToSet(s)
<1> DEFINE t == <<x>> \o s
<1>1. t \in Seq(S) /\ t # << >> /\ Head(t) = x /\ Tail(t) = s
  BY ConcatProperties, HeadTailProperties
<1> HIDE DEF t
<1>2. ToSet(t) = {x} \cup ToSet(s)  BY <1>1, HeadMembers
<1> QED BY <1>1, <1>2 DEF t

LEMMA SomeAddresses ==
  /\ INADDR_ANY \in Address /\ INADDR_LOOPBACK \in Address
  /\ INADDR_LOOPBACK # INADDR_ANY
  /\ NoIf \notin Interface /\ NoSock \in [bind : Address, peer : Address, dontroute : BOOLEAN]
  /\ \A i \in Interface : i.network_mask \in Nat /\ i.ip_address \in HostAddress
  /\ NoIf.network_mask = 0
<1>1. INADDR_ANY \in Address /\ INADDR_LOOPBACK \in Address
  BY DEF INADDR_ANY, INADDR_LOOPBACK, Address
<1>2. INADDR_LOOPBACK # INADDR_ANY
  <2>1. 1 \in 1 .. Width  BY AddressAssumption DEF AddressAssumption
  <2>2. INADDR_ANY[1] = 0 /\ INADDR_LOOPBACK[1] = 1
    BY <2>1 DEF INADDR_ANY, INADDR_LOOPBACK
  <2> QED BY <2>2
<1>3. NoIf \notin Interface  BY DEF NoIf, Interface, HostAddress
<1>4. NoSock \in [bind : Address, peer : Address, dontroute : BOOLEAN]
  BY <1>1 DEF NoSock
<1>5. \A i \in Interface : i.network_mask \in Nat /\ i.ip_address \in HostAddress
  BY AddressAssumption DEF AddressAssumption, Interface
<1> QED BY <1>1, <1>2, <1>3, <1>4, <1>5 DEF NoIf

-----------------------------------------------------------------------------
(* The initial state and the steps. *)

LEMMA AInitInv == AInit => AInv
<1> SUFFICES ASSUME AInit PROVE AInv
  OBVIOUS
<1>1. found \in Seq(Interface) /\ << >> \in Seq(Interface)
  BY EmptySeq DEF AInit, BoundedSeq, SeqOf
<1>2. ATypeOK
  BY <1>1, SomeAddresses DEF AInit, ATypeOK
<1>3. DontRouteIsDirect
  BY DEF AInit, DontRouteIsDirect, NoSock
<1> QED
  BY <1>2, <1>3
  DEF AInv, AInit, DiscoverOK, ExactOK, PrefixOK, SocketOK, RestOK, ClientOK,
      ChoosesAsPromised, Connected, CrashNeedsZeroMask

\* discoverInterfaces.
LEMMA InsertInv == ASSUME AInv, DInsert PROVE AInv'
<1> DEFINE node == Head(found)
<1>1. /\ node \in Interface /\ Tail(found) \in Seq(Interface)
  BY HeadMembers DEF AInv, ATypeOK, DInsert
<1>2. /\ list' = <<node>> \o list /\ found' = Tail(found)
      /\ UNCHANGED <<shouldBind, serv_addr, pc, chooseVars, sock>> /\ pc = "discover"
  BY DEF DInsert
<1> HIDE DEF node
<1>3. list' \in Seq(Interface) /\ list' # << >>
  BY <1>1, <1>2, FrontMembers DEF AInv, ATypeOK
<1>4. ATypeOK'
  BY <1>1, <1>2, <1>3 DEF AInv, ATypeOK, chooseVars
<1>5. DontRouteIsDirect' /\ DiscoverOK'
  BY <1>2 DEF AInv, DiscoverOK, DontRouteIsDirect, NoSock, chooseVars
<1> QED
  BY <1>2, <1>4, <1>5
  DEF AInv, ExactOK, PrefixOK, SocketOK, RestOK, ClientOK, ChoosesAsPromised,
      Connected, CrashNeedsZeroMask

LEMMA BindFailsInv == ASSUME AInv, DBindFails PROVE AInv'
<1>1. Tail(found) \in Seq(Interface)
  BY HeadMembers DEF AInv, ATypeOK, DBindFails
<1>2. ATypeOK'  BY <1>1 DEF AInv, ATypeOK, DBindFails, chooseVars
<1>3. DontRouteIsDirect' /\ DiscoverOK'
  BY DEF AInv, DontRouteIsDirect, DiscoverOK, NoSock, DBindFails, chooseVars
<1> QED
  BY <1>2, <1>3
  DEF AInv, DBindFails, ExactOK, PrefixOK, SocketOK, RestOK, ClientOK,
      ChoosesAsPromised, Connected, CrashNeedsZeroMask

LEMMA DoneInv == ASSUME AInv, DDone PROVE AInv'
<1>1. /\ pc' = IF list = << >> THEN "exit" ELSE IF shouldBind THEN "run" ELSE "exact"
      /\ rest' = list /\ pc = "discover"
      /\ UNCHANGED <<found, shouldBind, serv_addr, list, long_if, local,
                     client_ip, server_ip, sock>>
  BY DEF DDone, hostVars
<1>2. ATypeOK'  BY <1>1 DEF AInv, ATypeOK
<1>3. Interfaces' = Interfaces /\ ToSet(rest)' = Interfaces
  BY <1>1 DEF Interfaces
<1>4. DontRouteIsDirect'  BY <1>1 DEF AInv, DiscoverOK, DontRouteIsDirect, NoSock
<1>5. ExactOK' /\ RestOK' /\ ClientOK'
  BY <1>1, <1>3 DEF AInv, DiscoverOK, ExactOK, RestOK, ClientOK
<1> QED
  BY <1>1, <1>2, <1>4, <1>5
  DEF AInv, DiscoverOK, PrefixOK, SocketOK, ChoosesAsPromised, Connected,
      CrashNeedsZeroMask

\* The steps of chooseIPs change neither the host nor a socket.
LEMMA ChooseFrame ==
  ASSUME AInv, UNCHANGED <<hostVars, sock>>, pc \in {"exact", "prefix"}
  PROVE  /\ Interfaces' = Interfaces /\ (OnThisHost' <=> OnThisHost)
         /\ Direct(serv_addr)' = Direct(serv_addr)
         /\ DontRouteIsDirect' /\ ~shouldBind /\ ~shouldBind'
<1>1. Interfaces' = Interfaces /\ serv_addr' = serv_addr /\ sock' = sock
      /\ shouldBind' = shouldBind
  BY DEF hostVars, Interfaces
<1>2. ~shouldBind  BY DEF AInv, ClientOK
<1>3. DontRouteIsDirect'  BY <1>1 DEF AInv, DontRouteIsDirect, Direct
<1> QED BY <1>1, <1>2, <1>3 DEF AInv, OnThisHost, Direct

\* The first loop.
LEMMA ExactInv == ASSUME AInv, CExact PROVE AInv'
<1>1. pc = "exact" /\ rest # << >> /\ UNCHANGED <<hostVars, sock, long_if>>
  BY DEF CExact
<1>2. /\ Head(rest) \in Interfaces /\ Tail(rest) \in Seq(Interface)
      /\ ToSet(rest) = {Head(rest)} \cup ToSet(Tail(rest))
  BY <1>1, HeadMembers DEF AInv, ATypeOK, RestOK
<1>3. CASE isSameIP(serv_addr, Head(rest).ip_address)
  <2>1. /\ pc' = "socket" /\ local' = TRUE /\ rest' = rest
        /\ client_ip' = INADDR_LOOPBACK /\ server_ip' = INADDR_LOOPBACK
    BY <1>3 DEF CExact
  <2>2. OnThisHost  BY <1>2, <1>3 DEF OnThisHost, isSameIP
  <2>3. ATypeOK'
    BY <1>1, <2>1, SomeAddresses DEF AInv, ATypeOK, hostVars
  <2> QED
    BY <1>1, <2>1, <2>2, <2>3, ChooseFrame
    DEF AInv, DiscoverOK, ExactOK, PrefixOK, SocketOK, RestOK, ClientOK,
        ChoosesAsPromised, Connected, CrashNeedsZeroMask
<1>4. CASE ~isSameIP(serv_addr, Head(rest).ip_address)
  <2>1. rest' = Tail(rest) /\ UNCHANGED <<pc, local, client_ip, server_ip>>
    BY <1>4 DEF CExact
  <2>2. ATypeOK'
    BY <1>1, <1>2, <2>1 DEF AInv, ATypeOK, hostVars
  <2>3. Interfaces' = Interfaces /\ serv_addr' = serv_addr
    BY <1>1 DEF Interfaces, hostVars
  <2>4. ExactOK' /\ RestOK'
    BY <1>1, <1>2, <1>4, <2>1, <2>3 DEF AInv, ExactOK, RestOK, isSameIP
  <2> QED
    BY <1>1, <2>1, <2>2, <2>4, ChooseFrame
    DEF AInv, DiscoverOK, PrefixOK, SocketOK, ClientOK,
        ChoosesAsPromised, Connected, CrashNeedsZeroMask
<1> QED BY <1>3, <1>4

LEMMA NotHereInv == ASSUME AInv, CNotHere PROVE AInv'
<1>1. /\ pc = "exact" /\ rest = << >> /\ pc' = "prefix" /\ rest' = list
      /\ server_ip' = serv_addr /\ UNCHANGED <<hostVars, sock, long_if, local, client_ip>>
  BY DEF CNotHere
<1>2. ToSet(rest) = {}  BY <1>1, Members DEF AInv, ATypeOK
<1>3. ~OnThisHost  BY <1>1, <1>2 DEF AInv, ExactOK, OnThisHost
<1>4. ATypeOK'
  BY <1>1 DEF AInv, ATypeOK, hostVars, HostAddress
<1>5. ToSet(rest)' = Interfaces /\ serv_addr' = serv_addr  BY <1>1 DEF Interfaces, hostVars
<1>6. Direct(serv_addr) \subseteq Interfaces  BY DEF Direct
<1>7. Best(ToSet(rest))'
  BY <1>1, <1>5, <1>6, ChooseFrame DEF AInv, ExactOK, Best
<1> QED
  BY <1>1, <1>3, <1>4, <1>5, <1>7, ChooseFrame
  DEF AInv, DiscoverOK, ExactOK, PrefixOK, SocketOK, RestOK, ClientOK,
      ChoosesAsPromised, Connected, CrashNeedsZeroMask

\* The second loop keeps the longest match.
LEMMA PrefixInv == ASSUME AInv, CPrefix PROVE AInv'
<1> DEFINE temp == Head(rest)
<1>1. /\ pc = "prefix" /\ rest # << >> /\ rest' = Tail(rest)
      /\ UNCHANGED <<hostVars, sock, pc, server_ip>>
  BY DEF CPrefix
<1>2. /\ temp \in Interfaces /\ temp \in Interface /\ Tail(rest) \in Seq(Interface)
      /\ ToSet(rest) = {temp} \cup ToSet(Tail(rest))
  BY <1>1, HeadMembers DEF AInv, ATypeOK, RestOK
<1>3. /\ server_ip = serv_addr /\ ~OnThisHost /\ Best(ToSet(rest))
  BY <1>1 DEF AInv, PrefixOK
<1>4. temp \in Direct(serv_addr) <=> isSameSubnet(temp.ip_address, server_ip, temp.network_mask)
  BY <1>2, <1>3 DEF Direct
<1>5. \/ /\ temp \in Direct(serv_addr) /\ local' = TRUE
         /\ temp.network_mask > long_if.network_mask
         /\ long_if' = temp /\ client_ip' = temp.ip_address
      \/ /\ temp \in Direct(serv_addr) /\ local' = TRUE
         /\ ~(temp.network_mask > long_if.network_mask)
         /\ UNCHANGED <<long_if, client_ip>>
      \/ temp \notin Direct(serv_addr) /\ UNCHANGED <<local, long_if, client_ip>>
  BY <1>4 DEF CPrefix, Longer
<1>6. serv_addr' = serv_addr /\ Direct(serv_addr)' = Direct(serv_addr)
      /\ ToSet(rest)' = ToSet(Tail(rest))
  BY <1>1, ChooseFrame DEF hostVars
<1>7. /\ long_if \in Interface \cup {NoIf} /\ long_if.network_mask \in Nat
      /\ temp.network_mask \in Nat /\ temp.ip_address \in Address /\ temp # NoIf
  BY <1>2, SomeAddresses DEF AInv, ATypeOK, HostAddress
<1> HIDE DEF temp
<1>8. Direct(serv_addr) \subseteq Interface
  BY Members DEF Direct, Interfaces, AInv, ATypeOK
<1>9. ATypeOK'
  BY <1>1, <1>2, <1>5, <1>7 DEF AInv, ATypeOK, hostVars
<1>10. Best(ToSet(rest))'
  <2>1. \A i \in Direct(serv_addr) : i.network_mask \in Nat
    BY <1>8, SomeAddresses
  <2>2. CASE temp \in Direct(serv_addr) /\ local' = TRUE
             /\ temp.network_mask > long_if.network_mask
             /\ long_if' = temp /\ client_ip' = temp.ip_address
    BY <1>2, <1>3, <1>6, <1>7, <2>1, <2>2 DEF Best
  <2>3. CASE temp \in Direct(serv_addr) /\ local' = TRUE
             /\ ~(temp.network_mask > long_if.network_mask)
             /\ UNCHANGED <<long_if, client_ip>>
    BY <1>2, <1>3, <1>6, <1>7, <2>1, <2>3 DEF Best
  <2>4. CASE temp \notin Direct(serv_addr) /\ UNCHANGED <<local, long_if, client_ip>>
    BY <1>2, <1>3, <1>6, <2>4 DEF Best
  <2> QED BY <1>5, <2>2, <2>3, <2>4
<1>11. RestOK'
  BY <1>1, <1>2, <1>6, ChooseFrame DEF AInv, RestOK
<1> QED
  BY <1>1, <1>3, <1>6, <1>9, <1>10, <1>11, ChooseFrame
  DEF AInv, DiscoverOK, ExactOK, PrefixOK, SocketOK, ClientOK,
      ChoosesAsPromised, Connected, CrashNeedsZeroMask

\* After the loop a longest match is NULL only among netmasks of zero.
LEMMA ChosenInv == ASSUME AInv, CChosen PROVE AInv'
<1>1. /\ pc = "prefix" /\ rest = << >>
      /\ UNCHANGED <<hostVars, sock, rest, long_if, local, server_ip>>
  BY DEF CChosen
<1>2. ToSet(rest) = {}  BY <1>1, Members DEF AInv, ATypeOK
<1>3. ~OnThisHost /\ server_ip = serv_addr /\ Best({})
  BY <1>1, <1>2 DEF AInv, PrefixOK
<1>4. \/ ~local /\ pc' = "socket" /\ client_ip' = INADDR_ANY
      \/ local /\ long_if = NoIf /\ pc' = "crashed" /\ client_ip' = client_ip
      \/ local /\ long_if # NoIf /\ pc' = "socket" /\ client_ip' = client_ip
  BY DEF CChosen
<1>5. ATypeOK'
  BY <1>1, <1>4, SomeAddresses DEF AInv, ATypeOK, hostVars
<1>6. serv_addr' = serv_addr /\ Direct(serv_addr)' = Direct(serv_addr)
  BY <1>1, ChooseFrame DEF hostVars
<1>7. SocketOK'
  BY <1>1, <1>3, <1>4, <1>6, ChooseFrame DEF SocketOK, Best
<1>8. CrashNeedsZeroMask'
  <2>1. \A i \in Direct(serv_addr) : i.network_mask \in Nat
    BY Members, SomeAddresses DEF Direct, Interfaces, AInv, ATypeOK
  <2> QED BY <1>3, <1>4, <1>6, <2>1, SomeAddresses DEF CrashNeedsZeroMask, Best
<1> QED
  BY <1>1, <1>4, <1>5, <1>7, <1>8, ChooseFrame
  DEF AInv, DiscoverOK, ExactOK, PrefixOK, RestOK, ClientOK,
      ChoosesAsPromised, Connected

\* The sockets.
LEMMA SocketInv == ASSUME AInv, CSocket PROVE AInv'
<1>1. /\ pc = "socket" /\ pc' = "run" /\ UNCHANGED <<hostVars, chooseVars>>
      /\ sock' = [bind |-> client_ip, peer |-> server_ip, dontroute |-> local]
  BY DEF CSocket
<1>2. sock'.bind = client_ip /\ sock'.peer = server_ip /\ (sock'.dontroute <=> local)
  BY <1>1
<1>3. ATypeOK'
  <2>1. sock' \in [bind : Address, peer : Address, dontroute : BOOLEAN]
    BY <1>1 DEF AInv, ATypeOK
  <2> QED BY <1>1, <2>1 DEF AInv, ATypeOK, hostVars, chooseVars
<1>4. /\ Interfaces' = Interfaces /\ serv_addr' = serv_addr /\ (OnThisHost' <=> OnThisHost)
      /\ Direct(serv_addr)' = Direct(serv_addr) /\ ~shouldBind /\ shouldBind' = shouldBind
  BY <1>1 DEF AInv, ClientOK, hostVars, Interfaces, OnThisHost, Direct
<1>5. ASSUME OnThisHost, client_ip = INADDR_LOOPBACK, server_ip = INADDR_LOOPBACK
      PROVE  ChoosesAsPromised' /\ DontRouteIsDirect'
  BY <1>2, <1>4, <1>5 DEF ChoosesAsPromised, DontRouteIsDirect
<1>6. ASSUME ~OnThisHost, server_ip = serv_addr, Best({}),
             IF local THEN long_if # NoIf ELSE client_ip = INADDR_ANY
      PROVE  ChoosesAsPromised' /\ DontRouteIsDirect'
  <2> DEFINE D == Direct(serv_addr)
  <2>1. local => /\ long_if \in D /\ client_ip = long_if.ip_address
                 /\ \A j \in D : j.network_mask <= long_if.network_mask
    BY <1>6 DEF Best
  <2>2. D = {} <=> ~local  BY <1>6 DEF Best
  <2>3. sock'.peer = serv_addr /\ Direct(serv_addr)' = D
    BY <1>2, <1>4, <1>6
  <2> HIDE DEF D
  <2>4. IF D = {} THEN sock'.bind = INADDR_ANY
        ELSE \E i \in D : /\ sock'.bind = i.ip_address
                          /\ \A j \in D : j.network_mask <= i.network_mask
    <3>1. CASE local
      <4>1. D # {}  BY <2>2, <3>1
      <4>2. /\ long_if \in D /\ sock'.bind = long_if.ip_address
            /\ \A j \in D : j.network_mask <= long_if.network_mask
        BY <1>2, <2>1, <3>1
      <4> QED BY <4>1, <4>2
    <3>2. CASE ~local
      <4>1. client_ip = INADDR_ANY  BY <1>6, <3>2
      <4> QED BY <1>2, <2>2, <3>2, <4>1
    <3> QED BY <3>1, <3>2
  <2>5. ChoosesAsPromised'
    BY <1>4, <1>6, <2>3, <2>4 DEF ChoosesAsPromised
  <2>6. sock'.dontroute => \E i \in Direct(serv_addr)' : i.ip_address = sock'.bind
    BY <1>2, <2>1, <2>3
  <2>7. Direct(sock.peer)' = Direct(serv_addr)'
    BY <1>4, <2>3 DEF Direct
  <2>8. DontRouteIsDirect'
    BY <2>6, <2>7 DEF DontRouteIsDirect
  <2> QED BY <2>5, <2>8
<1>7. ChoosesAsPromised' /\ DontRouteIsDirect'
  BY <1>1, <1>5, <1>6 DEF AInv, SocketOK
<1> QED
  BY <1>1, <1>3, <1>4, <1>7
  DEF AInv, DiscoverOK, ExactOK, PrefixOK, SocketOK, RestOK, ClientOK,
      CrashNeedsZeroMask

LEMMA SocketFailsInv == ASSUME AInv, CSocketFails PROVE AInv'
<1>1. pc' = "exit" /\ UNCHANGED <<hostVars, chooseVars, sock>>
  BY DEF CSocketFails
<1>2. ATypeOK'  BY <1>1 DEF AInv, ATypeOK, hostVars, chooseVars
<1>3. Interfaces' = Interfaces /\ sock' = sock /\ shouldBind' = shouldBind
  BY <1>1 DEF Interfaces, hostVars
<1>4. DontRouteIsDirect'
  BY <1>3 DEF AInv, DontRouteIsDirect, Direct
<1> QED
  BY <1>1, <1>2, <1>4
  DEF AInv, DiscoverOK, ExactOK, PrefixOK, SocketOK, RestOK, ClientOK,
      ChoosesAsPromised, Connected, CrashNeedsZeroMask

LEMMA ChildSocketInv == ASSUME AInv, VSocket PROVE AInv'
<1>1. PICK i \in Interfaces, client_addr \in HostAddress :
        sock' = [bind |-> i.ip_address, peer |-> client_addr,
                 dontroute |-> isSameSubnet(i.ip_address, client_addr, i.network_mask)]
  BY DEF VSocket, Interfaces
<1>2. shouldBind /\ pc' = "child" /\ UNCHANGED <<hostVars, chooseVars>> /\ pc = "run"
  BY DEF VSocket
<1>3. i.ip_address \in Address /\ client_addr \in Address
      /\ isSameSubnet(i.ip_address, client_addr, i.network_mask) \in BOOLEAN
  BY Members, SomeAddresses DEF AInv, ATypeOK, Interfaces, HostAddress, isSameSubnet
<1>4. ATypeOK'
  <2>1. sock' \in [bind : Address, peer : Address, dontroute : BOOLEAN]
    BY <1>1, <1>3
  <2> QED BY <1>2, <2>1 DEF AInv, ATypeOK, hostVars, chooseVars
<1>5. Interfaces' = Interfaces /\ shouldBind' = shouldBind
  BY <1>2 DEF Interfaces, hostVars
<1>6. DontRouteIsDirect'
  <2>1. sock'.bind = i.ip_address /\ sock'.peer = client_addr
        /\ (sock'.dontroute <=> isSameSubnet(i.ip_address, client_addr, i.network_mask))
    BY <1>1
  <2> QED BY <1>5, <2>1 DEF DontRouteIsDirect, Direct
<1> QED
  BY <1>2, <1>4, <1>5, <1>6
  DEF AInv, DiscoverOK, ExactOK, PrefixOK, SocketOK, RestOK, ClientOK,
      ChoosesAsPromised, Connected, CrashNeedsZeroMask

LEMMA StutterInv == ASSUME AInv, UNCHANGED addrVars PROVE AInv'
  BY DEF addrVars, hostVars, chooseVars, AInv, ATypeOK, DiscoverOK, ExactOK, PrefixOK,
         SocketOK, RestOK, ClientOK, ChoosesAsPromised, Connected, DontRouteIsDirect,
         CrashNeedsZeroMask, Best, Direct, OnThisHost, Interfaces

LEMMA AStepInv == AInv /\ [ANext]_addrVars => AInv'
  BY InsertInv, BindFailsInv, DoneInv, ExactInv, NotHereInv, PrefixInv, ChosenInv,
     SocketInv, SocketFailsInv, ChildSocketInv, StutterInv DEF ANext

-----------------------------------------------------------------------------
(* The theorems. *)

\* The inductive invariant holds.
THEOREM AddressesInvariant == ASpec => []AInv
<1> QED BY AInitInv, AStepInv, PTL DEF ASpec

\* Types; in particular no program goes on without an interface.
THEOREM AddressesTypes == ASpec => []ATypeOK
<1>1. AInv => ATypeOK  BY DEF AInv
<1> QED BY <1>1, AddressesInvariant, PTL

\* chooseIPs returns what client.h promises, or INADDR_ANY when no subnet
\* matches, whatever the order of the interfaces.
THEOREM AddressesChosen == ASpec => []ChoosesAsPromised
<1>1. AInv => ChoosesAsPromised  BY DEF AInv
<1> QED BY <1>1, AddressesInvariant, PTL

\* A socket bypasses routing only to a peer that its interface reaches.
THEOREM AddressesDirect == ASpec => []DontRouteIsDirect
<1>1. AInv => DontRouteIsDirect  BY DEF AInv
<1> QED BY <1>1, AddressesInvariant, PTL

\* chooseIPs dereferences NULL only when every match has a netmask of zero.
THEOREM AddressesCrash == ASpec => []CrashNeedsZeroMask
<1>1. AInv => CrashNeedsZeroMask  BY DEF AInv
<1> QED BY <1>1, AddressesInvariant, PTL
=============================================================================
