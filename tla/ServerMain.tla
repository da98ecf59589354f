----------------------------- MODULE ServerMain -----------------------------
(***************************************************************************)
(* The server's main process and its children up to transfer_file: run(),  *)
(* spawnchild(), the list of processes of child_process.c, the SIGCHLD     *)
(* handler, and childprocess(), the server's side of the handshake.        *)
(***************************************************************************)
EXTENDS Endpoints, Sequences, FiniteSets, SequencesExt

CONSTANT MaxAttempts   \* MAX_TIMEOUT_ATTEMPTS, 12 in the code

ASSUME ServerMainAssumption == MaxAttempts \in Nat \ {0}

Process  == [pid : {0} \cup Kids, client : Client]
NoClient == CHOOSE c \in Client : TRUE

VARIABLES
  processes,  \* the list of processes, newest first
  mpc,        \* where run() is
  syn,        \* connection_addr: who sent the packet just read
  forks,      \* number of children forked
  blocked,    \* SIGCHLD is blocked
  pending,    \* and is pending: a second one changes nothing
  reaping,    \* sigchld_handler has interrupted run() and is in its loop
  kpc,        \* where each child is
  client,     \* the client of each child
  attempts,   \* timeout_attempts of each child
  rwin_adv    \* the window its client advertised

sigVars  == <<pending, reaping>>
mainVars == <<processes, mpc, syn, forks, blocked, reaping>>
kidVars  == <<kpc, client, attempts, rwin_adv>>
smVars   == <<mainVars, kidVars, pending>>

MTypeOK ==
  /\ processes \in Seq(Process)
  /\ mpc \in {"select", "syn", "fork", "parent", "unblock", "exited"}
  /\ syn \in Client
  /\ forks \in 0 .. MaxForks
  /\ blocked \in BOOLEAN /\ pending \in BOOLEAN /\ reaping \in BOOLEAN
  /\ kpc \in [Kids -> {"none", "open", "send", "wait", "transfer", "zombie", "reaped"}]
  /\ client \in [Kids -> Client]
  /\ attempts \in [Kids -> 0 .. MaxAttempts - 1]
  /\ rwin_adv \in [Kids -> Nat]

MInit ==
  /\ processes = <<>> /\ mpc = "select" /\ syn = NoClient
  /\ forks = 0
  /\ blocked = FALSE /\ pending = FALSE /\ reaping = FALSE
  /\ kpc = [k \in Kids |-> "none"]
  /\ client = [k \in Kids |-> NoClient]
  /\ attempts = [k \in Kids |-> 0]
  /\ rwin_adv = [k \in Kids |-> 0]

MainUp == mpc # "exited"

-----------------------------------------------------------------------------
(* child_process.c *)

add_process(list, p) == <<p>> \o list

\* Variant: the result of strcmp() is taken for equality.
get_process_strcmp(list, ip, port) ==
  \E p \in ToSet(list) : p.client.ip_address # ip /\ p.client.port = port

\* Is there a process with this address and port?
get_process(list, ip, port) ==
  \E p \in ToSet(list) : p.client.ip_address = ip /\ p.client.port = port

\* The node that get_process_by_pid() finds, taken out of the list.
Places(list, pid) == {i \in DOMAIN list : list[i].pid = pid}
remove_process(list, pid) ==
  IF Places(list, pid) = {} THEN list
  ELSE RemoveAt(list, CHOOSE i \in Places(list, pid) : TRUE)

-----------------------------------------------------------------------------
(* run() and spawnchild() in the parent. *)

\* Variant: SIGCHLD stays unblocked.
RunSyn_unblocked(c) ==
  /\ mpc = "select"
  /\ mpc' = "syn" /\ syn' = c
  /\ UNCHANGED <<processes, forks, blocked, kidVars, sigVars>>

\* recvfrom() returned a SYN of client c: block SIGCHLD.
RunSyn(c) ==
  /\ mpc = "select"
  /\ mpc' = "syn" /\ syn' = c
  /\ blocked' = TRUE
  /\ UNCHANGED <<processes, forks, kidVars, sigVars>>

\* The address looked up is the interface's, the port the client's.
RunLookup == get_process(processes, InterfaceIp, syn.port)

RunFound ==
  /\ mpc = "syn" /\ RunLookup
  /\ mpc' = "unblock"
  /\ UNCHANGED <<processes, syn, forks, blocked, kidVars, sigVars>>

RunAdd ==
  /\ mpc = "syn" /\ ~RunLookup
  /\ processes' = add_process(processes, [pid |-> 0, client |-> syn])
  /\ mpc' = "fork"
  /\ UNCHANGED <<syn, forks, blocked, kidVars, sigVars>>

RunFork ==
  /\ mpc = "fork" /\ forks < MaxForks
  /\ forks' = forks + 1
  /\ kpc' = [kpc EXCEPT ![forks'] = "open"]
  /\ client' = [client EXCEPT ![forks'] = syn]
  /\ mpc' = "parent"
  /\ UNCHANGED <<processes, syn, blocked, attempts, rwin_adv, sigVars>>

\* fork() failed, as it does when no process is left: run() returns and main()
\* frees the list and exits.  Its children, now init's, go on.
RunForkFails ==
  /\ mpc = "fork" /\ forks = MaxForks
  /\ mpc' = "exited" /\ processes' = <<>> /\ pending' = FALSE
  /\ kpc' = [k \in Kids |-> IF kpc[k] = "zombie" THEN "reaped" ELSE kpc[k]]
  /\ UNCHANGED <<syn, forks, blocked, reaping, client, attempts, rwin_adv>>

\* spawnchild() stores the pid in the process it was given.
RunParent ==
  /\ mpc = "parent"
  /\ processes' = [i \in DOMAIN processes |->
                     IF processes[i].pid = 0 THEN [processes[i] EXCEPT !.pid = forks]
                                             ELSE processes[i]]
  /\ mpc' = "unblock"
  /\ UNCHANGED <<syn, forks, blocked, kidVars, sigVars>>

\* The sender of the SYN is not looked at again.
RunUnblock ==
  /\ mpc = "unblock"
  /\ mpc' = "select" /\ blocked' = FALSE /\ syn' = NoClient
  /\ UNCHANGED <<processes, forks, kidVars, sigVars>>

RunLocal == RunFound \/ RunAdd \/ RunFork \/ RunForkFails \/ RunParent \/ RunUnblock

Zombies == {k \in Kids : kpc[k] = "zombie"}

\* SIGCHLD interrupts run(), unless it is blocked: sigchld_handler, during which
\* the signal may become pending again.
Sigchld ==
  /\ MainUp /\ pending /\ ~blocked /\ ~reaping
  /\ pending' = FALSE /\ reaping' = TRUE
  /\ UNCHANGED <<processes, mpc, syn, forks, blocked, kidVars>>

\* One turn of the handler's loop: waitpid() returns a child that has ended.
SigchldReap(k) ==
  /\ reaping /\ k \in Zombies
  /\ kpc' = [kpc EXCEPT ![k] = "reaped"]
  /\ processes' = remove_process(processes, k)
  /\ UNCHANGED <<mpc, syn, forks, blocked, sigVars, client, attempts, rwin_adv>>

\* Variant: waitpid() is not called until it finds no child.
SigchldReturn_early ==
  /\ reaping
  /\ reaping' = FALSE
  /\ UNCHANGED <<processes, mpc, syn, forks, blocked, kidVars, pending>>

\* No other child has ended: back to run().
SigchldReturn ==
  /\ reaping /\ Zombies = {}
  /\ reaping' = FALSE
  /\ UNCHANGED <<processes, mpc, syn, forks, blocked, kidVars, pending>>

-----------------------------------------------------------------------------
(* childprocess() in child k. *)

init_seq == 0

\* The child exits; its parent, if it is there, gets SIGCHLD.
KExit(k) ==
  /\ kpc' = [kpc EXCEPT ![k] = IF MainUp THEN "zombie" ELSE "reaped"]
  /\ attempts' = [attempts EXCEPT ![k] = 0]
  /\ pending' = MainUp

KOpen(k) ==
  /\ kpc[k] = "open"
  /\ kpc' = [kpc EXCEPT ![k] = "send"]
  /\ UNCHANGED <<mainVars, client, attempts, rwin_adv, pending>>

\* The file cannot be opened, or the socket cannot be created: the child exits
\* without an answer.
KOpenFails(k) ==
  /\ kpc[k] = "open"
  /\ KExit(k)
  /\ UNCHANGED <<mainVars, client, rwin_adv>>

\* From the second attempt on the SYN-ACK goes to both sockets.
SendsOnBoth(k) == attempts[k] > 0

KSend(k) ==
  /\ kpc[k] = "send"
  /\ kpc' = [kpc EXCEPT ![k] = "wait"]
  /\ UNCHANGED <<mainVars, client, attempts, rwin_adv, pending>>

\* Variant: one attempt too many.
KRetry_once_more(k) ==
  /\ kpc[k] = "wait"
  /\ IF attempts[k] + 1 > MaxAttempts THEN KExit(k)
     ELSE /\ attempts' = [attempts EXCEPT ![k] = @ + 1]
          /\ kpc' = [kpc EXCEPT ![k] = "send"]
          /\ UNCHANGED pending
  /\ UNCHANGED <<mainVars, client, rwin_adv>>

\* select() timed out, or recv() returned ECONNREFUSED.
KRetry(k) ==
  /\ kpc[k] = "wait"
  /\ IF attempts[k] + 1 >= MaxAttempts THEN KExit(k)
     ELSE /\ attempts' = [attempts EXCEPT ![k] = @ + 1]
          /\ kpc' = [kpc EXCEPT ![k] = "send"]
          /\ UNCHANGED pending
  /\ UNCHANGED <<mainVars, client, rwin_adv>>

\* A turn that counts nothing: select() failed, or recv_pkt() discarded what
\* came, or that was no ACK.  The SYN-ACK is sent again.
KAgain(k) ==
  /\ kpc[k] = "wait"
  /\ kpc' = [kpc EXCEPT ![k] = "send"]
  /\ UNCHANGED <<mainVars, client, attempts, rwin_adv, pending>>

\* recv() failed with another error: the child exits at once.
KRecvFails(k) ==
  /\ kpc[k] = "wait"
  /\ KExit(k)
  /\ UNCHANGED <<mainVars, client, rwin_adv>>

\* recv() returned an ACK that advertises win.
KRecvAck(k, win) ==
  /\ kpc[k] = "wait"
  /\ kpc' = [kpc EXCEPT ![k] = "transfer"]
  /\ rwin_adv' = [rwin_adv EXCEPT ![k] = win]
  /\ attempts' = [attempts EXCEPT ![k] = 0]
  /\ UNCHANGED <<mainVars, client, pending>>

\* transfer_file returned; the transfer itself is StcpServer's.
KTransferred(k) ==
  /\ kpc[k] = "transfer"
  /\ KExit(k)
  /\ UNCHANGED <<mainVars, client, rwin_adv>>

\* Only the parent reads from the interface's socket, but a child keeps it
\* open until the end of its handshake.
InterfaceOpen == MainUp \/ \E k \in Kids : kpc[k] \in {"open", "send", "wait"}
Alive(k)     == kpc[k] \in {"open", "send", "wait", "transfer", "zombie"}
SocketOpen(k) == kpc[k] \in {"send", "wait", "transfer"}

-----------------------------------------------------------------------------
(* Properties. *)

\* server.c:109: every child that was not reaped is in the list, once, and the
\* list has no other entries, so that the handler always finds what it reaps.
\* Between add_process and the assignment of the pid the newest entry is 0.
Listed == {p.pid : p \in ToSet(processes)}
ListMatchesChildren ==
  MainUp =>
    LET new == IF mpc = "parent" THEN {forks} ELSE {}
    IN /\ Listed \ {0} = {k \in Kids : Alive(k)} \ new
       /\ Len(processes) = Cardinality(Listed)
       /\ 0 \in Listed <=> mpc \in {"fork", "parent"}

\* One SIGCHLD may stand for several children: a child that ended is reaped, or
\* the handler is at it, or a signal that will reap it is pending.
NoZombieForgotten == Zombies # {} => pending \/ reaping

\* A client with the interface's own address, the only kind that get_process
\* finds, never has two children.
ChildrenOf(c) == {k \in Kids : Alive(k) /\ client[k] = c}
OneChildPerLocalClient ==
  \A c \in Client : c.ip_address = InterfaceIp =>
    \A j, k \in ChildrenOf(c) : j = k

\* server.c:114: a child is not created when the client has one already.
OneChildPerClient == \A c \in Client : \A j, k \in ChildrenOf(c) : j = k
=============================================================================
