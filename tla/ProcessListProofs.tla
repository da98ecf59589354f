-------------------------- MODULE ProcessListProofs --------------------------
(***************************************************************************)
(* Proofs about the server's list of processes, as Handshake runs it, for  *)
(* any clients, any number of children and every limit: the list has the   *)
(* children that live, and no client on the interface's own address is     *)
(* served twice.  They build on HInv, and show the types of Handshake too. *)
(***************************************************************************)
EXTENDS HandshakeProofs, SequenceTheorems, FiniteSetTheorems

-----------------------------------------------------------------------------
(* The inductive invariant of the list. *)

Index == 1 .. Len(processes)

ListTypes ==
  /\ processes \in Seq(Process)
  /\ mpc \in {"select", "syn", "fork", "parent", "unblock", "exited"}

\* run() is between add_process and the assignment of the pid.
Adding == mpc \in {"fork", "parent"}

\* A child lives and its parent has stored its pid.
Stored(k) == Alive(k) /\ ~(mpc = "parent" /\ k = forks)

\* No pid is in the list twice; an entry is a child's, or the one being added.
PidsDistinct == \A i, j \in Index : processes[i].pid = processes[j].pid => i = j
EntryOK(p) == IF p.pid = 0 THEN Adding /\ p.client = syn
                           ELSE Stored(p.pid) /\ p.client = client[p.pid]
EntriesOK == \A i \in Index : EntryOK(processes[i])

\* The list is complete.
ListComplete ==
  /\ MainUp => \A k \in Kids : Stored(k) => \E i \in Index : processes[i].pid = k
  /\ Adding => \E i \in Index : processes[i].pid = 0
  /\ mpc = "parent" => forks \in Kids /\ Alive(forks) /\ client[forks] = syn

\* A client with the interface's own address has one entry.
LocalOnce ==
  \A i, j \in Index :
    /\ processes[i].client.ip_address = InterfaceIp
    /\ processes[i].client = processes[j].client
    => i = j

\* The handler runs only where the list and the children agree.
Masked == mpc \in {"syn", "fork", "parent", "unblock"} => blocked /\ ~reaping

LInv ==
  /\ ListTypes /\ PidsDistinct /\ EntriesOK /\ ListComplete /\ LocalOnce /\ Masked
  /\ ~MainUp => processes = << >>
  /\ OneChildPerLocalClient

-----------------------------------------------------------------------------
(* The operations of child_process.c. *)

\* add_process puts the new entry first and moves the others.
LEMMA AddFacts ==
  ASSUME NEW S, NEW list \in Seq(S), NEW p \in S
  PROVE  LET t == add_process(list, p)
         IN /\ t \in Seq(S) /\ Len(t) = Len(list) + 1 /\ t[1] = p
            /\ \A i \in 1 .. Len(list) : t[i + 1] = list[i]
<1>1. <<p>> \in Seq(S) /\ Len(<<p>>) = 1 /\ <<p>>[1] = p  OBVIOUS
<1> DEFINE t == <<p>> \o list
<1>2. /\ t \in Seq(S) /\ Len(t) = 1 + Len(list)
      /\ \A i \in 1 .. 1 + Len(list) : t[i] = IF i <= 1 THEN <<p>>[i] ELSE list[i - 1]
  BY <1>1, ConcatProperties
<1>3. Len(list) \in Nat  OBVIOUS
<1> HIDE DEF t
<1>4. t[1] = p  BY <1>1, <1>2, <1>3
<1>5. \A i \in 1 .. Len(list) : t[i + 1] = list[i]
  <2> TAKE i \in 1 .. Len(list)
  <2>1. i + 1 \in 1 .. 1 + Len(list) /\ ~(i + 1 <= 1) /\ (i + 1) - 1 = i  BY <1>3
  <2> QED BY <1>2, <2>1
<1> QED BY <1>2, <1>3, <1>4, <1>5 DEF add_process, t

\* RemoveAt keeps all entries but one.
Shift(i, j) == IF j < i THEN j ELSE j + 1

LEMMA RemoveAtFacts ==
  ASSUME NEW S, NEW list \in Seq(S), NEW i \in 1 .. Len(list)
  PROVE  LET t == RemoveAt(list, i)
         IN /\ t \in Seq(S) /\ Len(t) = Len(list) - 1
            /\ \A j \in 1 .. Len(t) : t[j] = list[Shift(i, j)]
<1> DEFINE n == Len(list)
           a == SubSeq(list, 1, i - 1)
           b == SubSeq(list, i + 1, n)
           t == a \o b
<1>0. n \in Nat /\ i \in Nat /\ 1 <= i /\ i <= n  OBVIOUS
<1>e. \A j \in 1 .. n : list[j] \in S  OBVIOUS
<1> HIDE DEF n
<1>1. a \in Seq(S) /\ Len(a) = i - 1 /\ \A j \in 1 .. i - 1 : a[j] = list[j]
  <2>1. \A j \in 1 .. i - 1 : list[j] \in S  BY <1>0, <1>e
  <2>2. /\ a \in Seq(S) /\ Len(a) = IF 1 <= i - 1 THEN (i - 1) - 1 + 1 ELSE 0
        /\ \A j \in 1 .. (i - 1) - 1 + 1 : a[j] = list[1 + j - 1]
    BY <1>0, <2>1, SubSeqProperties
  <2> HIDE DEF a
  <2> QED BY <1>0, <2>2
<1>2. b \in Seq(S) /\ Len(b) = n - i /\ \A j \in 1 .. n - i : b[j] = list[i + j]
  <2>1. \A j \in i + 1 .. n : list[j] \in S  BY <1>0, <1>e
  <2>2. /\ b \in Seq(S) /\ Len(b) = IF i + 1 <= n THEN n - (i + 1) + 1 ELSE 0
        /\ \A j \in 1 .. n - (i + 1) + 1 : b[j] = list[i + 1 + j - 1]
    BY <1>0, <2>1, SubSeqProperties
  <2> HIDE DEF b
  <2>3. \A j \in 1 .. n - i : i + 1 + j - 1 = i + j  BY <1>0
  <2> QED BY <1>0, <2>2, <2>3
<1> HIDE DEF a, b
<1>3. /\ t \in Seq(S) /\ Len(t) = Len(a) + Len(b)
      /\ \A j \in 1 .. Len(a) + Len(b) : t[j] = IF j <= Len(a) THEN a[j] ELSE b[j - Len(a)]
  BY <1>1, <1>2, ConcatProperties
<1> HIDE DEF t
<1>4. Len(t) = n - 1  BY <1>0, <1>1, <1>2, <1>3
<1>5. ASSUME NEW j \in 1 .. n - 1 PROVE t[j] = list[Shift(i, j)]
  <2>1. CASE j < i
    <3>1. j \in 1 .. i - 1 /\ j <= Len(a)  BY <1>0, <1>1, <2>1
    <3> QED BY <1>0, <1>1, <1>2, <1>3, <2>1, <3>1 DEF Shift
  <2>2. CASE ~(j < i)
    <3>1. ~(j <= Len(a)) /\ j - Len(a) = j - i + 1 /\ j - i + 1 \in 1 .. n - i
          /\ i + (j - i + 1) = j + 1
      BY <1>0, <1>1, <2>2
    <3>2. t[j] = b[j - i + 1]  BY <1>0, <1>1, <1>2, <1>3, <3>1
    <3> QED BY <1>2, <2>2, <3>1, <3>2 DEF Shift
  <2> QED BY <2>1, <2>2
<1> QED BY <1>3, <1>4, <1>5 DEF RemoveAt, t, a, b, n
-----------------------------------------------------------------------------
(* Steps that leave a part of the state alone. *)

\* What an entry is.
LEMMA EntryTypes ==
  ASSUME ListTypes, NEW i \in Index
  PROVE  processes[i] \in Process /\ processes[i].pid \in {0} \cup Kids
<1>1. processes[i] \in Process  BY DEF ListTypes, Index
<1> QED BY <1>1 DEF Process

\* The list is empty and no child lives.
LEMMA LInit == Init => LInv
<1> SUFFICES ASSUME Init PROVE LInv
  OBVIOUS
<1>1. processes = << >> /\ mpc = "select" /\ \A k \in Kids : ~Alive(k)
  BY DEF Init, MInit, Alive
<1>2. Len(processes) = 0 /\ processes \in Seq(Process)  BY <1>1
<1>3. Index = {}  BY <1>2 DEF Index
<1> QED BY <1>1, <1>2, <1>3
        DEF LInv, ListTypes, PidsDistinct, EntriesOK, ListComplete, LocalOnce, Masked,
            MainUp, Adding, Stored, OneChildPerLocalClient, ChildrenOf

\* run() is where it was, and the same children live, or fewer if it has exited.
LEMMA ListSame ==
  ASSUME LInv, UNCHANGED <<processes, mpc, syn, forks, blocked, client>>,
         Masked',
         \A k \in Kids : Alive(k)' => Alive(k),
         MainUp => \A k \in Kids : Alive(k) => Alive(k)'
  PROVE  LInv'
<1>1. Index' = Index /\ (MainUp' <=> MainUp) /\ (Adding' <=> Adding)
  BY DEF Index, MainUp, Adding
<1>2. ListTypes' /\ PidsDistinct' /\ LocalOnce'
  BY <1>1 DEF LInv, ListTypes, PidsDistinct, LocalOnce
<1>3. MainUp => \A k \in Kids : Stored(k)' <=> Stored(k)
  BY DEF Stored
<1>4. EntriesOK'
  <2>1. ASSUME MainUp, NEW i \in Index PROVE processes[i].pid \in {0} \cup Kids
    BY EntryTypes DEF LInv
  <2>2. CASE MainUp  BY <1>1, <1>3, <2>1, <2>2 DEF LInv, EntriesOK, EntryOK
  <2>3. CASE ~MainUp
    <3>1. Len(processes) = 0  BY <2>3 DEF LInv
    <3> QED BY <1>1, <3>1 DEF EntriesOK, Index
  <2> QED BY <2>2, <2>3
<1>5. ListComplete'
  BY <1>1, <1>3 DEF LInv, ListComplete, MainUp
<1>6. OneChildPerLocalClient'
  BY DEF LInv, OneChildPerLocalClient, ChildrenOf
<1> QED BY <1>1, <1>2, <1>4, <1>5, <1>6 DEF LInv

\* run() goes on, but neither adds a process nor forks.
LEMMA MainMoves ==
  ASSUME LInv, UNCHANGED <<processes, forks, kpc, client>>,
         mpc \in {"select", "syn", "unblock"}, mpc' \in {"select", "syn", "unblock"},
         Masked'
  PROVE  LInv'
<1>1. Index' = Index /\ MainUp /\ MainUp' /\ ~Adding /\ ~Adding'
  BY DEF Index, MainUp, Adding
<1>2. \A k : (Alive(k)' <=> Alive(k)) /\ (Stored(k)' <=> Stored(k))
  BY DEF Stored, Alive
<1>3. ListTypes' /\ PidsDistinct' /\ LocalOnce'
  BY <1>1 DEF LInv, ListTypes, PidsDistinct, LocalOnce
<1>4. EntriesOK'
  BY <1>1, <1>2 DEF LInv, EntriesOK, EntryOK
<1>5. ListComplete'
  BY <1>1, <1>2 DEF LInv, ListComplete
<1>6. OneChildPerLocalClient'
  BY <1>2 DEF LInv, OneChildPerLocalClient, ChildrenOf
<1> QED BY <1>1, <1>3, <1>4, <1>5, <1>6 DEF LInv

-----------------------------------------------------------------------------
(* The steps of run(). *)

\* The new entry's client has no other, or the lookup would have found it.
LEMMA AddInv ==
  ASSUME HInv, LInv, RunAdd
  PROVE  LInv'
<1> DEFINE p == [pid |-> 0, client |-> syn]
           n == Len(processes)
<1>1. /\ mpc = "syn" /\ mpc' = "fork" /\ ~RunLookup /\ processes' = add_process(processes, p)
      /\ UNCHANGED <<syn, forks, blocked, reaping, kpc, client>>
  BY DEF RunAdd, kidVars, sigVars
<1>2. p \in Process /\ processes \in Seq(Process) /\ n \in Nat
  <2>1. p \in Process  BY DEF HInv, KidTypes, Process
  <2>2. processes \in Seq(Process)  BY DEF LInv, ListTypes
  <2> QED BY <2>1, <2>2
<1>p. p.pid = 0 /\ p.client = syn  OBVIOUS
<1> HIDE DEF p
<1>3. /\ processes' \in Seq(Process) /\ Len(processes') = n + 1 /\ processes'[1] = p
      /\ \A i \in 1 .. n : processes'[i + 1] = processes[i]
  BY <1>1, <1>2, AddFacts
<1>4. Index = 1 .. n /\ Index' = 1 .. n + 1
  BY <1>3 DEF Index
<1> HIDE DEF n
<1>5. ASSUME NEW i \in Index'
      PROVE  \/ i = 1 /\ processes'[i] = p
             \/ i - 1 \in Index /\ processes'[i] = processes[i - 1]
  <2>1. CASE i = 1  BY <1>3, <2>1
  <2>2. CASE i # 1
    <3>1. i - 1 \in 1 .. n /\ (i - 1) + 1 = i  BY <1>2, <1>4, <2>2
    <3> QED BY <1>3, <1>4, <3>1
  <2> QED BY <2>1, <2>2
<1>6. \A i \in Index : i + 1 \in Index' /\ processes'[i + 1] = processes[i]
  BY <1>2, <1>3, <1>4
<1>7. \A k : (Alive(k)' <=> Alive(k)) /\ (Stored(k)' <=> Stored(k))
  BY <1>1 DEF Stored, Alive
<1>8. ~Adding /\ Adding' /\ MainUp /\ MainUp'  BY <1>1 DEF Adding, MainUp
<1>9. \A i \in Index : processes[i].pid # 0
  BY <1>8 DEF LInv, EntriesOK, EntryOK
<1>10. ListTypes'  BY <1>1, <1>3 DEF ListTypes
<1>11. PidsDistinct'
  <2> SUFFICES ASSUME NEW i \in Index', NEW j \in Index', processes'[i].pid = processes'[j].pid
               PROVE  i = j
    BY DEF PidsDistinct
  <2>1. i \in Int /\ j \in Int  BY <1>4
  <2>2. CASE i = 1  BY <1>3, <1>5, <1>9, <1>p, <2>2
  <2>3. CASE j = 1  BY <1>3, <1>5, <1>9, <1>p, <2>3
  <2>4. CASE i # 1 /\ j # 1
    <3>1. i - 1 \in Index /\ processes'[i] = processes[i - 1]  BY <1>5, <2>4
    <3>2. j - 1 \in Index /\ processes'[j] = processes[j - 1]  BY <1>5, <2>4
    <3>3. i - 1 = j - 1  BY <3>1, <3>2 DEF LInv, PidsDistinct
    <3> QED BY <2>1, <3>3
  <2> QED BY <2>2, <2>3, <2>4
<1>12. EntriesOK'
  <2> SUFFICES ASSUME NEW i \in Index'
               PROVE  EntryOK(processes[i])'
    BY DEF EntriesOK
  <2>1. CASE i = 1 /\ processes'[i] = p
    <3>1. processes'[i].pid = 0 /\ processes'[i].client = syn  BY <1>p, <2>1
    <3> QED BY <1>1, <1>8, <3>1 DEF EntryOK
  <2>2. CASE i - 1 \in Index /\ processes'[i] = processes[i - 1]
    <3>1. processes[i - 1].pid # 0  BY <1>9, <2>2
    <3>2. /\ Stored(processes[i - 1].pid)
          /\ processes[i - 1].client = client[processes[i - 1].pid]
      BY <2>2, <3>1 DEF LInv, EntriesOK, EntryOK
    <3> QED BY <1>1, <1>7, <2>2, <3>1, <3>2 DEF EntryOK
  <2> QED BY <1>5, <2>1, <2>2
<1>13. ListComplete'
  <2>1. \A k \in Kids : Stored(k)' => \E i \in Index' : processes'[i].pid = k
    BY <1>6, <1>7, <1>8 DEF LInv, ListComplete
  <2>2. 1 \in Index' /\ processes'[1].pid = 0  BY <1>2, <1>3, <1>4, <1>p
  <2> QED BY <1>1, <2>1, <2>2 DEF ListComplete
<1>14. LocalOnce'
  <2>0. \A i \in Index : processes[i].client.ip_address = InterfaceIp => processes[i].client # syn
    <3>1. \A i \in Index : processes[i] \in ToSet(processes)
      BY <1>2, <1>4 DEF ToSet, n
    <3> QED BY <1>1, <3>1 DEF RunLookup, get_process
  <2> SUFFICES ASSUME NEW i \in Index', NEW j \in Index',
                      processes'[i].client.ip_address = InterfaceIp,
                      processes'[i].client = processes'[j].client
               PROVE  i = j
    BY DEF LocalOnce
  <2>1. i \in Int /\ j \in Int  BY <1>4
  <2>2. CASE i = 1  BY <1>5, <1>p, <2>0, <2>2, <1>3
  <2>3. CASE j = 1  BY <1>5, <1>p, <2>0, <2>3, <1>3
  <2>4. CASE i # 1 /\ j # 1
    <3>1. i - 1 \in Index /\ processes'[i] = processes[i - 1]  BY <1>5, <2>4
    <3>2. j - 1 \in Index /\ processes'[j] = processes[j - 1]  BY <1>5, <2>4
    <3>3. i - 1 = j - 1  BY <3>1, <3>2 DEF LInv, LocalOnce
    <3> QED BY <2>1, <3>3
  <2> QED BY <2>2, <2>3, <2>4
<1>15. Masked'  BY <1>1 DEF LInv, Masked
<1>16. OneChildPerLocalClient'
  BY <1>1, <1>7 DEF LInv, OneChildPerLocalClient, ChildrenOf
<1> QED BY <1>8, <1>10, <1>11, <1>12, <1>13, <1>14, <1>15, <1>16 DEF LInv

\* The child that is forked is not stored yet: its entry is still the one with pid 0.
LEMMA ForkListInv ==
  ASSUME HInv, LInv, RunFork
  PROVE  LInv'
<1> DEFINE new == forks + 1
<1>1. /\ mpc = "fork" /\ mpc' = "parent" /\ forks' = new
      /\ kpc' = [kpc EXCEPT ![new] = "open"] /\ client' = [client EXCEPT ![new] = syn]
      /\ UNCHANGED <<processes, syn, blocked, reaping>>
  BY DEF RunFork, sigVars
<1>2. new \in Kids /\ kpc[new] = "none"
  BY EndpointsAssumption
  DEF EndpointsAssumption, RunFork, HInv, KidTypes, ForksOK, Forked, Kids
<1> HIDE DEF new
<1>3. \A k \in Kids : /\ kpc'[k] = IF k = new THEN "open" ELSE kpc[k]
                      /\ client'[k] = IF k = new THEN syn ELSE client[k]
  BY <1>1, <1>2 DEF HInv, KidTypes
<1>4. \A k \in Kids : Alive(k)' <=> Alive(k) \/ k = new
  BY <1>3 DEF Alive
<1>5. ~Alive(new)  BY <1>2 DEF Alive
<1>6. \A k \in Kids : Stored(k)' <=> Stored(k)
  BY <1>1, <1>4, <1>5 DEF Stored
<1>7. Index' = Index /\ Adding /\ Adding' /\ MainUp /\ MainUp'
  BY <1>1 DEF Index, Adding, MainUp
<1>8. ListTypes' /\ PidsDistinct' /\ LocalOnce' /\ Masked'
  BY <1>1, <1>7 DEF LInv, ListTypes, PidsDistinct, LocalOnce, Masked
<1>9. EntriesOK'
  <2>1. \A i \in Index : processes[i].pid \in {0} \cup Kids
    BY EntryTypes DEF LInv
  <2>2. ~Stored(new)  BY <1>5 DEF Stored
  <2> QED BY <1>1, <1>3, <1>6, <1>7, <2>1, <2>2 DEF LInv, EntriesOK, EntryOK
<1>10. ListComplete'
  BY <1>1, <1>2, <1>3, <1>4, <1>6, <1>7 DEF LInv, ListComplete
<1>11. OneChildPerLocalClient'
  \* Another child of this client would have an entry besides the new one.
  <2>1. PICK z \in Index : processes[z].pid = 0  BY <1>7 DEF LInv, ListComplete
  <2>2. ASSUME NEW k \in Kids, Alive(k), client[k] = syn, syn.ip_address = InterfaceIp
        PROVE  FALSE
    <3>1. Stored(k)  BY <1>1, <2>2 DEF Stored
    <3>2. PICK i \in Index : processes[i].pid = k
      BY <1>7, <3>1 DEF LInv, ListComplete
    <3>3. k # 0  BY EndpointsAssumption DEF EndpointsAssumption, Kids
    <3>4. processes[i].client = syn /\ processes[z].client = syn
      BY <2>1, <2>2, <3>2, <3>3 DEF LInv, EntriesOK, EntryOK
    <3>5. i = z  BY <2>2, <3>4 DEF LInv, LocalOnce
    <3> QED BY <2>1, <3>2, <3>3, <3>5
  <2> QED BY <1>3, <1>4, <1>5, <2>2 DEF LInv, OneChildPerLocalClient, ChildrenOf
<1> QED BY <1>7, <1>8, <1>9, <1>10, <1>11 DEF LInv

\* main() frees the list.
LEMMA ForkFailsListInv ==
  ASSUME LInv, RunForkFails
  PROVE  LInv'
<1>1. processes' = << >> /\ mpc' = "exited" /\ UNCHANGED client
  BY DEF RunForkFails
<1>2. Index' = {}  BY <1>1 DEF Index
<1>3. \A k \in Kids : Alive(k)' => Alive(k)
  BY DEF RunForkFails, Alive
<1>4. OneChildPerLocalClient'
  BY <1>1, <1>3 DEF LInv, OneChildPerLocalClient, ChildrenOf
<1>5. processes' \in Seq(Process)  BY <1>1
<1> QED BY <1>1, <1>2, <1>4, <1>5
        DEF LInv, ListTypes, PidsDistinct, EntriesOK, ListComplete, LocalOnce, Masked,
            Adding, MainUp

\* The entry with pid 0 becomes the new child's.
LEMMA ParentInv ==
  ASSUME LInv, RunParent
  PROVE  LInv'
<1>1. /\ mpc = "parent" /\ mpc' = "unblock" /\ UNCHANGED <<syn, forks, blocked, reaping, kpc, client>>
      /\ processes' = [i \in DOMAIN processes |->
                         IF processes[i].pid = 0 THEN [processes[i] EXCEPT !.pid = forks]
                                                 ELSE processes[i]]
  BY DEF RunParent, kidVars, sigVars
<1>2. processes \in Seq(Process) /\ DOMAIN processes = Index /\ Len(processes) \in Nat
  BY DEF LInv, ListTypes, Index
<1>3. forks \in Kids /\ Alive(forks) /\ client[forks] = syn
  BY <1>1 DEF LInv, ListComplete, Adding
<1>4. \A i \in Index : processes[i] \in Process
  BY <1>2
<1>5. \A i \in Index :
        /\ processes'[i] \in Process
        /\ processes'[i].client = processes[i].client
        /\ processes'[i].pid = IF processes[i].pid = 0 THEN forks ELSE processes[i].pid
  BY <1>1, <1>2, <1>3, <1>4 DEF Process
<1>6. processes' \in Seq(Process) /\ Index' = Index
  <2>1. processes' \in [Index -> Process]  BY <1>1, <1>2, <1>5
  <2> QED BY <1>2, <2>1 DEF Index
<1>0. 0 \notin Kids  BY EndpointsAssumption DEF EndpointsAssumption, Kids
<1>7. \A k : (Alive(k)' <=> Alive(k)) /\ (Stored(k)' <=> Alive(k))
  BY <1>1 DEF Stored, Alive
<1>8. MainUp /\ Adding /\ MainUp' /\ ~Adding'  BY <1>1 DEF MainUp, Adding
<1>9. \A i \in Index : processes[i].pid # forks
  BY <1>0, <1>1, <1>3 DEF LInv, EntriesOK, EntryOK, Stored
<1>10. PidsDistinct'
  BY <1>5, <1>6, <1>9 DEF LInv, PidsDistinct
<1>11. EntriesOK'
  <2>1. \A i \in Index : processes[i].pid = 0 => processes[i].client = syn
    BY DEF LInv, EntriesOK, EntryOK
  <2>2. \A i \in Index : processes[i].pid # 0 =>
          Alive(processes[i].pid) /\ processes[i].client = client[processes[i].pid]
    BY DEF LInv, EntriesOK, EntryOK, Stored
  <2> SUFFICES ASSUME NEW i \in Index PROVE EntryOK(processes[i])'
    BY <1>6 DEF EntriesOK
  <2>3. CASE processes[i].pid = 0
    BY <1>0, <1>1, <1>3, <1>5, <1>7, <2>1, <2>3 DEF EntryOK
  <2>4. CASE processes[i].pid # 0
    BY <1>0, <1>1, <1>5, <1>7, <2>2, <2>4 DEF EntryOK
  <2> QED BY <2>3, <2>4
<1>12. ListComplete'
  <2>1. ASSUME NEW k \in Kids, Alive(k)
        PROVE  \E i \in Index : processes'[i].pid = k
    <3>1. CASE k = forks
      <4>1. PICK i \in Index : processes[i].pid = 0  BY <1>8 DEF LInv, ListComplete
      <4> QED BY <1>5, <3>1, <4>1
    <3>2. CASE k # forks
      <4>1. PICK i \in Index : processes[i].pid = k
        BY <1>8, <2>1, <3>2 DEF LInv, ListComplete, Stored
      <4> QED BY <1>0, <1>5, <4>1
    <3> QED BY <3>1, <3>2
  <2> QED BY <1>1, <1>6, <1>7, <1>8, <2>1 DEF ListComplete
<1>13. LocalOnce'
  BY <1>5, <1>6 DEF LInv, LocalOnce
<1>14. OneChildPerLocalClient'
  BY <1>1, <1>7 DEF LInv, OneChildPerLocalClient, ChildrenOf
<1>15. ListTypes' /\ Masked'  BY <1>1, <1>6 DEF LInv, ListTypes, Masked
<1> QED BY <1>8, <1>10, <1>11, <1>12, <1>13, <1>14, <1>15 DEF LInv

-----------------------------------------------------------------------------
(* The handler takes out the entry of the child it reaps. *)

\* The child is found, and no other entry is touched.
LEMMA ReapListInv ==
  ASSUME LInv, HInv, NEW k \in Kids, SigchldReap(k)
  PROVE  LInv'
<1>1. /\ reaping /\ kpc[k] = "zombie" /\ kpc' = [kpc EXCEPT ![k] = "reaped"]
      /\ processes' = remove_process(processes, k)
      /\ UNCHANGED <<mpc, syn, forks, blocked, reaping, client>>
  BY DEF SigchldReap, Zombies, sigVars
<1>2. mpc = "select" /\ MainUp /\ MainUp' /\ ~Adding /\ ~Adding'
  BY <1>1 DEF LInv, ListTypes, Masked, HInv, ZombiesOK, MainUp, Adding
<1>3. \A j \in Kids : kpc'[j] = IF j = k THEN "reaped" ELSE kpc[j]
  BY <1>1 DEF HInv, KidTypes
<1>4. \A j \in Kids : /\ Alive(j)' <=> Alive(j) /\ j # k
                      /\ Stored(j)' <=> Stored(j) /\ j # k
  BY <1>1, <1>2, <1>3 DEF Stored, Alive
<1>5. PICK m \in Index : processes[m].pid = k /\ processes' = RemoveAt(processes, m)
  <2>1. Stored(k)  BY <1>1, <1>2 DEF Stored, Alive
  <2>2. \E i \in Index : processes[i].pid = k  BY <1>2, <2>1 DEF LInv, ListComplete
  <2>3. DOMAIN processes = Index  BY DEF LInv, ListTypes, Index
  <2>4. Places(processes, k) # {}  BY <2>2, <2>3 DEF Places
  <2> DEFINE m == CHOOSE i \in Places(processes, k) : TRUE
  <2>5. m \in Places(processes, k)  BY <2>4
  <2>6. processes' = RemoveAt(processes, m)  BY <1>1, <2>4 DEF remove_process
  <2> HIDE DEF m
  <2> QED BY <2>3, <2>5, <2>6 DEF Places
<1> DEFINE n == Len(processes)
<1>6. processes \in Seq(Process) /\ n \in Nat /\ Index = 1 .. n
  BY DEF LInv, ListTypes, Index
<1>7. /\ processes' \in Seq(Process) /\ Len(processes') = n - 1
      /\ \A j \in 1 .. Len(processes') : processes'[j] = processes[Shift(m, j)]
  BY <1>5, <1>6, RemoveAtFacts DEF Index
<1>8. Index' = 1 .. n - 1  BY <1>7 DEF Index
<1> HIDE DEF n
<1>9. ASSUME NEW j \in Index'
      PROVE  /\ Shift(m, j) \in Index /\ Shift(m, j) # m
             /\ processes'[j] = processes[Shift(m, j)]
  BY <1>5, <1>6, <1>7, <1>8 DEF Shift
<1>10. \A i, j \in Index' : Shift(m, i) = Shift(m, j) => i = j
  BY <1>5, <1>6, <1>8 DEF Shift
<1>11. ASSUME NEW i \in Index, i # m
       PROVE  \E j \in Index' : processes'[j] = processes[i]
  <2>1. CASE i < m
    <3>1. i \in Index' /\ Shift(m, i) = i  BY <1>5, <1>6, <1>8, <2>1 DEF Shift
    <3> QED BY <1>9, <3>1
  <2>2. CASE ~(i < m)
    <3>1. i - 1 \in Index' /\ Shift(m, i - 1) = i
      BY <1>5, <1>6, <1>8, <1>11, <2>2 DEF Shift
    <3> QED BY <1>9, <3>1
  <2> QED BY <2>1, <2>2
<1>12. PidsDistinct'
  BY <1>9, <1>10 DEF LInv, PidsDistinct
<1>13. EntriesOK'
  <2> SUFFICES ASSUME NEW j \in Index'
               PROVE  EntryOK(processes[j])'
    BY DEF EntriesOK
  <2> DEFINE p == processes[Shift(m, j)]
  <2>1. p.pid # 0 /\ Stored(p.pid) /\ p.client = client[p.pid]
    BY <1>2, <1>9 DEF LInv, EntriesOK, EntryOK
  <2>2. p.pid # k  BY <1>5, <1>9 DEF LInv, PidsDistinct
  <2>3. p.pid \in Kids  BY <1>9, <2>1, EntryTypes DEF LInv
  <2>4. processes'[j] = p  BY <1>9
  <2> HIDE DEF p
  <2> QED BY <1>1, <1>4, <2>1, <2>2, <2>3, <2>4 DEF EntryOK
<1>14. ListComplete'
  <2> SUFFICES ASSUME NEW j \in Kids, Stored(j)'
               PROVE  \E i \in Index' : processes'[i].pid = j
    BY <1>1, <1>2 DEF ListComplete
  <2>1. Stored(j) /\ j # k  BY <1>4
  <2>2. PICK i \in Index : processes[i].pid = j  BY <1>2, <2>1 DEF LInv, ListComplete
  <2> QED BY <1>5, <1>11, <2>1, <2>2
<1>15. LocalOnce'
  BY <1>9, <1>10 DEF LInv, LocalOnce
<1>16. OneChildPerLocalClient'
  BY <1>1, <1>4 DEF LInv, OneChildPerLocalClient, ChildrenOf
<1>17. ListTypes' /\ Masked'  BY <1>1, <1>7 DEF LInv, ListTypes, Masked
<1> QED BY <1>2, <1>12, <1>13, <1>14, <1>15, <1>16, <1>17 DEF LInv
-----------------------------------------------------------------------------
(* All steps. *)

\* A child's step leaves the list alone, and a child that ends stays in it as a
\* zombie while there is a parent.
LEMMA ChildAlive ==
  ASSUME HInv, NEW k \in Kids, ChildStep(k)
  PROVE  /\ UNCHANGED <<mainVars, client>>
         /\ \A j \in Kids : Alive(j)' => Alive(j)
         /\ MainUp => \A j \in Kids : Alive(j) => Alive(j)'
<1>1. UNCHANGED <<mainVars, client>>
  BY DEF ChildStep, ChildSend, KSend, ChildTimeout, ChildRefused, KRetry, ChildRecvAck,
         ChildAgain, KAgain, ChildRecvFails, KRecvFails, KRecvAck, KOpen, KOpenFails, KTransferred
<1>2. Alive(k)
  BY DEF ChildStep, ChildSend, KSend, ChildTimeout, ChildRefused, KRetry, ChildRecvAck,
         ChildAgain, KAgain, ChildRecvFails, KRecvFails, KRecvAck, KOpen, KOpenFails, KTransferred, Alive
<1>3. PICK to \in KidState : /\ kpc' = [kpc EXCEPT ![k] = to]
                             /\ MainUp => to \in {"send", "wait", "transfer", "zombie"}
  BY DEF ChildStep, ChildSend, KSend, ChildTimeout, ChildRefused, KRetry, ChildRecvAck,
         ChildAgain, KAgain, ChildRecvFails, KRecvFails, KRecvAck, KOpen, KOpenFails, KTransferred, KExit, KidState
<1>4. \A j \in Kids : kpc'[j] = IF j = k THEN to ELSE kpc[j]
  BY <1>3 DEF HInv, KidTypes
<1> QED BY <1>1, <1>2, <1>3, <1>4 DEF Alive

\* Every step keeps the invariant; the clients' and the network's do not touch it.
LEMMA LNext == HInv /\ LInv /\ [Next]_vars => LInv'
<1> SUFFICES ASSUME HInv, LInv, [Next]_vars PROVE LInv'
  OBVIOUS
<1>1. CASE MainStep
  <2>1. CASE \E c \in Client : ServerRecvSyn(c)
    <3>1. PICK c \in Client : RunSyn(c) /\ ~reaping  BY <1>1, <2>1 DEF MainStep, ServerRecvSyn
    <3>2. Masked'  BY <3>1 DEF RunSyn, sigVars, Masked
    <3> QED BY <3>1, <3>2, MainMoves DEF RunSyn, kidVars
  <2>2. CASE RunFound
    BY <2>2, MainMoves DEF RunFound, kidVars, sigVars, LInv, Masked
  <2>3. CASE RunUnblock
    BY <2>3, MainMoves DEF RunUnblock, kidVars, Masked
  <2> QED BY <1>1, <2>1, <2>2, <2>3, AddInv, ForkListInv, ForkFailsListInv, ParentInv
          DEF MainStep, RunLocal
<1>2. CASE Handler
  <2>1. CASE Sigchld \/ SigchldReturn
    <3>1. UNCHANGED <<processes, mpc, syn, forks, blocked, kpc, client>>
      BY <2>1 DEF Sigchld, SigchldReturn, kidVars
    <3>2. Masked'  BY <2>1, <3>1 DEF Sigchld, SigchldReturn, LInv, Masked
    <3> QED BY <3>1, <3>2, ListSame DEF Alive
  <2>2. CASE \E k \in Kids : SigchldReap(k)  BY <2>2, ReapListInv
  <2> QED BY <1>2, <2>1, <2>2 DEF Handler
<1>3. CASE \E k \in Kids : ChildStep(k)
  BY <1>3, ChildAlive, ListSame DEF mainVars, LInv, Masked
<1>4. CASE UNCHANGED smVars
  BY <1>4, ListSame DEF smVars, mainVars, kidVars, LInv, Masked, Alive
<1>5. UNCHANGED smVars \/ MainStep \/ Handler \/ \E k \in Kids : ChildStep(k)
  BY DEF Next, vars, ClientStep, ClientSendSyn, ClientTimeout, ClientRefused,
         ClientConnect, ClientReply, ClientTransferred
<1> QED BY <1>1, <1>2, <1>3, <1>4, <1>5

-----------------------------------------------------------------------------
(* The counts: attempts, retries, and the SYNs on their way. *)

\* A client sends one SYN, and one more for each retry.
SynLimit(c) == IF cpc[c] = "syn" THEN retries[c]
               ELSE IF cpc[c] = "wait" THEN retries[c] + 1 ELSE MaxRetries + 1

CountsInv ==
  /\ pending \in BOOLEAN /\ reaping \in BOOLEAN /\ blocked \in BOOLEAN
  /\ attempts \in [Kids -> 0 .. MaxAttempts - 1]
  /\ retries \in [Client -> 0 .. MaxRetries]
  /\ syns \in [Client -> Nat]
  /\ \A c \in Client : syns[c] <= SynLimit(c)
  /\ kicmp \subseteq Kids /\ cicmp \subseteq Client

\* Nothing has been counted.
LEMMA CountsInit == Init => CountsInv
<1> SUFFICES ASSUME Init PROVE CountsInv
  OBVIOUS
<1>1. /\ MaxAttempts \in Nat \ {0} /\ MaxRetries \in Nat
  BY ServerMainAssumption, ConnectAssumption DEF ServerMainAssumption, ConnectAssumption
<1>2. attempts \in [Kids -> 0 .. MaxAttempts - 1] /\ retries \in [Client -> 0 .. MaxRetries]
  BY <1>1 DEF Init, MInit, KInit
<1>3. syns \in [Client -> Nat] /\ \A c \in Client : syns[c] <= SynLimit(c)
  BY <1>1 DEF Init, KInit, SynLimit
<1> QED BY <1>2, <1>3 DEF Init, MInit, CountsInv

\* The server's steps, which neither send SYNs nor touch a client.
LEMMA CountsServer ==
  ASSUME CountsInv, UNCHANGED <<connectVars, cicmp>>,
         pending' \in BOOLEAN, reaping' \in BOOLEAN, blocked' \in BOOLEAN,
         attempts' \in [Kids -> 0 .. MaxAttempts - 1],
         syns' \in [Client -> Nat], \A c \in Client : syns'[c] <= syns[c],
         kicmp' \subseteq Kids
  PROVE  CountsInv'
<1>1. \A c \in Client : SynLimit(c)' = SynLimit(c) /\ SynLimit(c) \in Int
  BY ConnectAssumption DEF ConnectAssumption, CountsInv, SynLimit, connectVars
<1>2. \A c \in Client : syns'[c] <= SynLimit(c)'
  BY <1>1 DEF CountsInv
<1> QED BY <1>2 DEF CountsInv, connectVars

\* run() takes a SYN, or nothing.
LEMMA CountsMain ==
  ASSUME CountsInv, MainStep \/ Handler
  PROVE  CountsInv'
<1>1. UNCHANGED <<connectVars, cicmp, kicmp, attempts>>
  BY DEF MainStep, Handler, ServerRecvSyn, RunSyn, RunLocal, RunFound, RunAdd, RunFork,
         RunForkFails, RunParent, RunUnblock, Sigchld, SigchldReap, SigchldReturn,
         kidVars, netVars
<1>2. pending' \in BOOLEAN /\ reaping' \in BOOLEAN /\ blocked' \in BOOLEAN
  BY DEF CountsInv, MainStep, Handler, ServerRecvSyn, RunSyn, RunLocal, RunFound, RunAdd,
         RunFork, RunForkFails, RunParent, RunUnblock, Sigchld, SigchldReap,
         SigchldReturn, sigVars
<1>3. syns' \in [Client -> Nat] /\ \A c \in Client : syns'[c] <= syns[c]
  <2>1. CASE \E c \in Client : ServerRecvSyn(c)
    BY <2>1 DEF ServerRecvSyn, CountsInv
  <2>2. CASE UNCHANGED syns  BY <2>2 DEF CountsInv
  <2> QED BY <2>1, <2>2 DEF MainStep, Handler, netVars
<1> QED BY <1>1, <1>2, <1>3, CountsServer DEF CountsInv

\* A child exits, starts over at zero or counts one attempt below the limit.
LEMMA CountsChild ==
  ASSUME CountsInv, HInv, NEW k \in Kids, ChildStep(k)
  PROVE  CountsInv'
<1>1. UNCHANGED <<connectVars, cicmp, syns, reaping, blocked>>
  BY DEF ChildStep, ChildSend, KSend, ChildTimeout, ChildRefused, KRetry, ChildRecvAck,
         ChildAgain, KAgain, ChildRecvFails, KRecvFails, KRecvAck, KOpen, KOpenFails, KTransferred, mainVars, netVars
<1>2. kicmp' \subseteq Kids
  BY DEF CountsInv, ChildStep, ChildSend, ChildTimeout, ChildRefused, ChildRecvAck,
         ChildAgain, ChildRecvFails, netVars
<1>3. PICK b \in {TRUE, FALSE} : MainUp <=> b  OBVIOUS
<1>4. pending' = pending \/ KExit(k)
  BY DEF ChildStep, ChildSend, KSend, ChildTimeout, ChildRefused, KRetry, ChildRecvAck,
         ChildAgain, KAgain, ChildRecvFails, KRecvFails, KRecvAck, KOpen, KOpenFails, KTransferred
<1>5. pending' \in BOOLEAN
  <2>1. CASE pending' = pending  BY <2>1 DEF CountsInv
  <2>2. CASE KExit(k)  BY <2>2, Zenon DEF KExit, MainUp
  <2> QED BY <1>4, <2>1, <2>2
<1>6. attempts' \in [Kids -> 0 .. MaxAttempts - 1]
  <2>1. PICK n \in {0, attempts[k], attempts[k] + 1} :
          /\ attempts' = attempts \/ attempts' = [attempts EXCEPT ![k] = n]
          /\ n = attempts[k] + 1 => n < MaxAttempts \/ attempts' = attempts
    BY ServerMainAssumption
    DEF ServerMainAssumption, CountsInv, ChildStep, ChildSend, KSend, ChildTimeout,
        ChildRefused, KRetry, ChildRecvAck, KRecvAck, ChildAgain, KAgain, ChildRecvFails,
        KRecvFails, KOpen, KOpenFails, KTransferred, KExit
  <2> QED BY <2>1, ServerMainAssumption DEF ServerMainAssumption, CountsInv
<1> QED BY <1>1, <1>2, <1>5, <1>6, CountsServer DEF CountsInv

\* A client sends the SYN for which it has counted a retry.
LEMMA CountsClient ==
  ASSUME CountsInv, HInv, NEW c \in Client, ClientStep(c)
  PROVE  CountsInv'
<1> DEFINE max == MaxRetries
<1>0. max \in Nat  BY ConnectAssumption DEF ConnectAssumption
<1>1. UNCHANGED <<pending, reaping, blocked, attempts, kicmp>> /\ cicmp' \subseteq Client
  BY DEF CountsInv, ClientStep, ClientSendSyn, ClientTimeout, ClientRefused,
         ClientConnect, ClientReply, ClientTransferred, smVars, mainVars, kidVars, netVars
<1>2. retries[c] \in 0 .. max /\ syns[c] \in Nat /\ syns[c] <= SynLimit(c)
  BY DEF CountsInv
<1>3. PICK r \in 0 .. max, n \in Nat, to \in ClientState :
        /\ retries' = [retries EXCEPT ![c] = r] /\ syns' = [syns EXCEPT ![c] = n]
        /\ cpc' = [cpc EXCEPT ![c] = to]
        /\ n <= IF to = "syn" THEN r ELSE IF to = "wait" THEN r + 1 ELSE max + 1
  <2>1. CASE ClientSendSyn(c)
    <3>1. PICK n \in {syns[c], syns[c] + 1} :
            /\ syns' = [syns EXCEPT ![c] = n]
            /\ c \in cicmp => n = syns[c]
      <4>1. PICK more \in {0, 1} : /\ syns' = [syns EXCEPT ![c] = @ + more]
                                   /\ c \in cicmp => more = 0
        BY <2>1 DEF ClientSendSyn
      <4>2. syns' = [syns EXCEPT ![c] = syns[c] + more]
        BY <4>1 DEF CountsInv
      <4>3. CASE more = 0
        <5>1. syns[c] + more = syns[c]  BY <1>2, <4>3
        <5> QED BY <4>2, <5>1
      <4>4. CASE more = 1
        <5>1. syns[c] + more = syns[c] + 1 /\ c \notin cicmp  BY <4>1, <4>4
        <5> QED BY <4>2, <5>1
      <4> QED BY <4>3, <4>4
    <3>2. cpc[c] = "syn" /\ syns[c] <= retries[c] /\ n \in Nat
      BY <1>2, <2>1, <3>1 DEF ClientSendSyn, SendSyn, SynLimit
    <3>3. CASE c \in cicmp
      <4>1. retries' = [retries EXCEPT ![c] = 0] /\ cpc' = [cpc EXCEPT ![c] = "failed"]
        BY <2>1, <3>3 DEF ClientSendSyn, SendSyn, Leave
      <4>2. n <= max + 1  BY <1>0, <1>2, <3>1, <3>2, <3>3
      <4>3. 0 \in 0 .. max /\ "failed" \in ClientState  BY <1>0 DEF ClientState
      <4>4. n <= IF "failed" = "syn" THEN 0 ELSE IF "failed" = "wait" THEN 1 ELSE max + 1
        BY <4>2
      <4> QED BY <3>1, <3>2, <4>1, <4>3, <4>4
    <3>4. CASE c \notin cicmp
      <4>1. retries' = [retries EXCEPT ![c] = retries[c]] /\ cpc' = [cpc EXCEPT ![c] = "wait"]
        BY <2>1, <3>4 DEF ClientSendSyn, SendSyn, CountsInv
      <4>2. n <= retries[c] + 1  BY <1>2, <3>1, <3>2
      <4> QED BY <1>2, <3>1, <3>2, <4>1, <4>2 DEF ClientState
    <3> QED BY <3>3, <3>4
  <2>2. CASE ClientTimeout(c)
    BY <1>0, <1>2, <2>2
    DEF ClientTimeout, SynTimeout, Leave, SynLimit, ClientState, CountsInv, netVars
  <2>3. CASE ClientRefused(c) \/ ClientTransferred(c)
    BY <1>0, <1>2, <2>3
    DEF ClientRefused, ClientTransferred, RecvFails, ClientEnds, Leave, SynLimit, ClientState,
        CountsInv, netVars
  <2>4. CASE ClientConnect(c)
    BY <1>0, <1>2, <2>4
    DEF ClientConnect, Connect, ConnectFails, Leave, SynLimit, ClientState, CountsInv
  <2>5. CASE ClientReply(c)
    BY <1>0, <1>2, <2>5
    DEF ClientReply, connectVars, SynLimit, ClientState, CountsInv, HInv, ClientTypes
  <2> QED BY <2>1, <2>2, <2>3, <2>4, <2>5 DEF ClientStep
<1>4. retries' \in [Client -> 0 .. max] /\ syns' \in [Client -> Nat]
  BY <1>3 DEF CountsInv
<1>5. \A d \in Client : /\ retries'[d] = IF d = c THEN r ELSE retries[d]
                        /\ syns'[d] = IF d = c THEN n ELSE syns[d]
                        /\ cpc'[d] = IF d = c THEN to ELSE cpc[d]
  BY <1>3 DEF CountsInv, HInv, ClientTypes
<1>6. ASSUME NEW d \in Client PROVE syns'[d] <= SynLimit(d)'
  <2>1. CASE d = c  BY <1>3, <1>5, <2>1 DEF SynLimit
  <2>2. CASE d # c  BY <1>5, <2>2 DEF SynLimit, CountsInv
  <2> QED BY <2>1, <2>2
<1> QED BY <1>1, <1>4, <1>6 DEF CountsInv

\* Every step keeps the counts.
LEMMA CountsNext == CountsInv /\ HInv /\ [Next]_vars => CountsInv'
<1> SUFFICES ASSUME CountsInv, HInv, [Next]_vars PROVE CountsInv'
  OBVIOUS
<1>1. CASE MainStep \/ Handler  BY <1>1, CountsMain
<1>2. CASE \E k \in Kids : ChildStep(k)  BY <1>2, CountsChild
<1>3. CASE \E c \in Client : ClientStep(c)  BY <1>3, CountsClient
<1>4. CASE NoSocket /\ UNCHANGED <<smVars, connectVars>>
  <2>1. syns' \in [Client -> Nat] /\ \A c \in Client : syns'[c] <= syns[c]
    <3>1. CASE UNCHANGED syns  BY <3>1 DEF CountsInv
    <3>2. CASE \E c \in Client : syns[c] > 0 /\ syns' = [syns EXCEPT ![c] = @ - 1]
      BY <3>2 DEF CountsInv
    <3> QED BY <1>4, <3>1, <3>2 DEF NoSocket
  <2>2. kicmp' \subseteq Kids /\ cicmp' \subseteq Client
    BY <1>4 DEF NoSocket, Sent, CountsInv, HInv, PacketTypes, KidTypes
  <2>3. \A c \in Client : SynLimit(c)' = SynLimit(c) /\ SynLimit(c) \in Int
    BY <1>4, ConnectAssumption DEF ConnectAssumption, CountsInv, SynLimit, connectVars
  <2> QED BY <1>4, <2>1, <2>2, <2>3 DEF CountsInv, smVars, mainVars, kidVars, connectVars
<1>5. CASE UNCHANGED vars
  BY <1>5, CountsServer DEF vars, smVars, mainVars, kidVars, netVars, CountsInv
<1> QED BY <1>1, <1>2, <1>3, <1>4, <1>5 DEF Next

-----------------------------------------------------------------------------
(* The theorems. *)

\* The list's invariant and the counts hold.
THEOREM ProcessListInvariant == Spec => [](HInv /\ LInv /\ CountsInv)
<1>1. Init => HInv /\ LInv /\ CountsInv  BY HInit, LInit, CountsInit
<1>2. HInv /\ LInv /\ CountsInv /\ [Next]_vars => (HInv /\ LInv /\ CountsInv)'
  BY HNext, LNext, CountsNext
<1> QED BY <1>1, <1>2, PTL DEF Spec

\* Every variable of the handshake stays within its type: no counter passes its
\* limit, and a client has no more SYNs on their way than it has sent.
THEOREM HandshakeTypes == Spec => []HTypeOK
<1>1. HInv /\ LInv /\ CountsInv => HTypeOK
  <2> SUFFICES ASSUME HInv, LInv, CountsInv PROVE HTypeOK
    OBVIOUS
  <2>1. MTypeOK
    BY DEF MTypeOK, HInv, KidTypes, KidState, LInv, ListTypes, CountsInv
  <2>2. KTypeOK
    BY DEF KTypeOK, HInv, ClientTypes, ClientState, CountsInv
  <2>3. \A c \in Client : syns[c] \in 0 .. MaxRetries + 1
    BY ConnectAssumption DEF ConnectAssumption, CountsInv, SynLimit
  <2> QED BY <2>1, <2>2, <2>3 DEF HTypeOK, HInv, PacketTypes, CountsInv
<1> QED BY <1>1, ProcessListInvariant, PTL

\* No two entries have one pid, so the list is as long as its set of pids.
LEMMA ListLength ==
  ASSUME LInv
  PROVE  Len(processes) = Cardinality(Listed)
<1> DEFINE n == Len(processes)
           f == [i \in 1 .. n |-> processes[i].pid]
<1>1. n \in Nat /\ DOMAIN processes = 1 .. n  BY DEF LInv, ListTypes
<1>2. Listed = {processes[i].pid : i \in 1 .. n}
  BY <1>1 DEF Listed, ToSet
<1>3. f \in Surjection(1 .. n, Listed)  BY <1>2 DEF Surjection
<1>4. f \in Injection(1 .. n, Listed)
  <2>1. f \in [1 .. n -> Listed] /\ DOMAIN f = 1 .. n  BY <1>2
  <2>2. \A i, j \in 1 .. n : f[i] = f[j] => i = j
    BY DEF LInv, PidsDistinct, Index
  <2> HIDE DEF f
  <2>3. IsInjective(f)  BY <2>1, <2>2 DEF IsInjective
  <2> QED BY <2>1, <2>3 DEF Injection
<1>5. IsFiniteSet(1 .. n) /\ Cardinality(1 .. n) = n
  <2> HIDE DEF n
  <2>1. 1 \in Int /\ n \in Int  BY <1>1
  <2>2. IsFiniteSet(1 .. n) /\ Cardinality(1 .. n) = IF 1 > n THEN 0 ELSE n - 1 + 1
    BY <2>1, FS_Interval
  <2> QED BY <1>1, <2>2
<1> HIDE DEF f
<1>6. Cardinality(Listed) = Cardinality(1 .. n)
  BY <1>3, <1>4, <1>5, FS_Surjection
<1> QED BY <1>5, <1>6

\* The list has every child that was not reaped, once, and nothing else; so the
\* handler always finds what it reaps.
THEOREM ListOfTheLiving == Spec => []ListMatchesChildren
<1>1. HInv /\ LInv => ListMatchesChildren
  <2> SUFFICES ASSUME HInv, LInv, MainUp
               PROVE  LET new == IF mpc = "parent" THEN {forks} ELSE {}
                      IN /\ Listed \ {0} = {k \in Kids : Alive(k)} \ new
                         /\ Len(processes) = Cardinality(Listed)
                         /\ 0 \in Listed <=> mpc \in {"fork", "parent"}
    BY DEF ListMatchesChildren
  <2>1. Listed = {processes[i].pid : i \in Index}
    BY DEF LInv, ListTypes, Index, Listed, ToSet
  <2>2. 0 \notin Kids  BY EndpointsAssumption DEF EndpointsAssumption, Kids
  <2>3. ASSUME NEW x \in Listed, x # 0 PROVE x \in Kids /\ Stored(x)
    BY <2>1, <2>3, EntryTypes DEF LInv, EntriesOK, EntryOK
  <2>4. \A k \in Kids : Stored(k) => k \in Listed
    BY <2>1 DEF LInv, ListComplete
  <2>5. 0 \in Listed <=> Adding
    BY <2>1 DEF LInv, ListComplete, EntriesOK, EntryOK
  <2> QED BY <2>2, <2>3, <2>4, <2>5, ListLength DEF Stored, Adding
<1> QED BY <1>1, ProcessListInvariant, PTL

\* A client with the interface's own address never has two children.
THEOREM LocalClientsOnce == Spec => []OneChildPerLocalClient
<1>1. LInv => OneChildPerLocalClient  BY DEF LInv
<1> QED BY <1>1, ProcessListInvariant, PTL
=============================================================================
