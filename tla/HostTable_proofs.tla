-------------------------- MODULE HostTable_proofs ---------------------------
(***************************************************************************)
(* The host table for every number of slots, hosts, addresses, descriptors *)
(* and announcements.                                                      *)
(***************************************************************************)
EXTENDS HostTable, SearchTree_proofs

LEMMA HostConstants ==
    /\ MAX_NUM_REMOTE_HOSTS \in Nat \ {0} /\ Hosts \subseteq Nat \ {0} /\ NoAddr \notin Addr
    /\ MaxFd \in Nat /\ MaxAnnounced \in Nat
  BY HostSlotsAssumption, HostsAssumption, TimersAssumption, AnnouncedAssumption

\* The thread is in the handler only with a datagram to read.
TypeInv == HostTypeOK /\ (udp = "receive" => inbox # <<>>)

\* Up to the handler the set holds no bits but those of present timers, and
\* at no time one of a slot filled in this pass.
FreshBits ==
    /\ udp \in {"select", "receive"} => fdset \subseteq Timers \cup {m_udp_fd}
    /\ \A i \in new : i \in Known => m_remote_hosts[i].alive_timer_fd \notin fdset

HostInv == TypeInv /\ TableAgrees /\ FreshBits

-----------------------------------------------------------------------------
(***************************************************************************)
(* Types                                                                   *)
(***************************************************************************)
LEMMA HostTypeInit == Init => TypeInv
<1> SUFFICES ASSUME Init PROVE TypeInv
  OBVIOUS
<1>1. NoHost \in Host
  BY DEF NoHost, Host
<1>2. m_remote_hosts \in [HostSlot -> Host]
  BY <1>1 DEF Init
<1>3. inbox \in Seq([host : Hosts, ip : Addr]) /\ m_remote_host_tree \in Seq(HostSlot)
  BY DEF Init
<1>4. index \in -1..(MAX_NUM_REMOTE_HOSTS + 1) /\ slot \in 0..MAX_NUM_REMOTE_HOSTS
      /\ announced \in 0..MaxAnnounced
  BY HostConstants DEF Init
<1> QED BY <1>2, <1>3, <1>4 DEF Init, TypeInv, HostTypeOK

LEMMA HeadAndTail ==
    ASSUME NEW S, NEW q \in Seq(S), q # <<>>
    PROVE  Head(q) \in S /\ Tail(q) \in Seq(S)
  OBVIOUS

\* The rounds of the removal loop.
LEMMA NextSlotType ==
    ASSUME HostTypeOK, udp = "remove", NextSlot
    PROVE  /\ slot \in HostSlot
           /\ slot' \in 0..MAX_NUM_REMOTE_HOSTS /\ (udp' = "remove" => slot' > 0)
           /\ udp' \in {"remove", "build"} /\ mutex' \in {"free", "main", "udp"}
<1>1. slot \in 0..MAX_NUM_REMOTE_HOSTS /\ slot > 0 /\ mutex \in {"free", "main", "udp"}
  BY DEF HostTypeOK
<1> QED BY <1>1, HostConstants DEF NextSlot, HostSlot

LEMMA HandlerType ==
    ASSUME TypeInv, handle_receive_broadcast_msg
    PROVE  TypeInv'
<1> DEFINE m == Head(inbox)
<1>1. /\ m \in [host : Hosts, ip : Addr]
      /\ inbox' \in Seq([host : Hosts, ip : Addr])
  <2>1. /\ inbox \in Seq([host : Hosts, ip : Addr]) /\ inbox # <<>>
        /\ inbox' = Tail(inbox)
    BY DEF TypeInv, HostTypeOK, handle_receive_broadcast_msg
  <2> QED BY <2>1, HeadAndTail
<1> HIDE DEF m
<1>2. /\ m_remote_hosts \in [HostSlot -> Host] /\ m_remote_host_tree \in Seq(HostSlot)
      /\ alarm \in [TimerFd -> {"none", "armed", "fired"}]
      /\ mutex = "free" /\ new \subseteq HostSlot
  BY DEF TypeInv, HostTypeOK, handle_receive_broadcast_msg
<1>3. /\ m_remote_hosts' \in [HostSlot -> Host] /\ m_remote_host_tree' \in Seq(HostSlot)
      /\ alarm' \in [TimerFd -> {"none", "armed", "fired"}]
      /\ mutex' \in {"free", "udp"} /\ new' \subseteq HostSlot /\ udp' \in {"lock", "ended"}
  <2>1. CASE RefreshHost(m.host)
    <3>1. /\ \E d : alarm' = [alarm EXCEPT ![d] = "armed"]
          /\ udp' = "lock"
          /\ UNCHANGED <<m_remote_hosts, m_remote_host_tree, mutex, new>>
      BY <2>1 DEF RefreshHost, tableVars
    <3> QED BY <1>2, <3>1
  <2>2. CASE EnterHost(m.host, m.ip)
    <3>1. PICK i \in HostSlot, d \in TimerFd :
            /\ m_remote_hosts' = [m_remote_hosts EXCEPT ![i] =
                   [hostname |-> m.host, ip |-> m.ip, alive_timer_fd |-> d]]
            /\ alarm' = [alarm EXCEPT ![d] = "armed"]
            /\ m_remote_host_tree' \in
                 Inserts(m_remote_host_tree, HostName(m_remote_hosts'), m.host, i)
            /\ new' = new \cup {i}
      BY <2>2 DEF EnterHost
    <3>2. [hostname |-> m.host, ip |-> m.ip, alive_timer_fd |-> d] \in Host
      BY <1>1 DEF Host
    <3>3. m_remote_host_tree' \in Seq(HostSlot)
      BY <1>2, <3>1, InsertsElements
    <3> QED BY <1>2, <2>2, <3>1, <3>2, <3>3 DEF EnterHost
  <2>3. CASE TableFull(m.host)
    BY <1>2, <2>3 DEF TableFull, tableVars
  <2> QED BY <2>1, <2>2, <2>3 DEF handle_receive_broadcast_msg, m
<1> QED BY <1>1, <1>3 DEF TypeInv, HostTypeOK, handle_receive_broadcast_msg, mainVars

LEMMA RemoveType ==
    ASSUME TypeInv, RemoveExpired
    PROVE  TypeInv'
<1> DEFINE d == m_remote_hosts[slot].alive_timer_fd
<1>1. /\ m_remote_hosts \in [HostSlot -> Host] /\ m_remote_host_tree \in Seq(HostSlot)
      /\ alarm \in [TimerFd -> {"none", "armed", "fired"}]
  BY DEF TypeInv, HostTypeOK
<1>2. /\ m_remote_hosts' \in [HostSlot -> Host] /\ m_remote_host_tree' \in Seq(HostSlot)
      /\ alarm' \in [TimerFd -> {"none", "armed", "fired"}]
  <2>1. CASE RemoveHost(d)
    <3>1. m_remote_host_tree' \in Seq(HostSlot)
      BY <1>1, <2>1, DeletesElements DEF RemoveHost
    <3>2. NoHost \in Host
      BY DEF NoHost, Host
    <3> QED BY <1>1, <2>1, <3>1, <3>2 DEF RemoveHost
  <2>2. CASE UNCHANGED <<tableVars, alarm>>
    BY <1>1, <2>2 DEF tableVars
  <2> QED BY <2>1, <2>2 DEF RemoveExpired
<1>3. /\ slot' \in 0..MAX_NUM_REMOTE_HOSTS /\ (udp' = "remove" => slot' > 0)
      /\ udp' \in {"remove", "build"} /\ mutex' \in {"free", "main", "udp"}
  BY NextSlotType DEF TypeInv, RemoveExpired
<1> QED BY <1>2, <1>3 DEF TypeInv, HostTypeOK, RemoveExpired, mainVars, netVars

LEMMA HostTypeNext ==
    ASSUME TypeInv, [Next]_vars
    PROVE  TypeInv'
<1> USE DEF tableVars, mainVars, udpVars, netVars, TypeInv, HostTypeOK
<1>1. CASE UNCHANGED vars
  BY <1>1 DEF vars
<1>2. CASE Scan \/ ScanLists
  BY <1>2 DEF Scan, ScanLists
<1>3. ASSUME NEW k \in {-1} \cup 1..(MAX_NUM_REMOTE_HOSTS + 1), ConnectIdx(k) PROVE TypeInv'
  <2>1. k \in -1..(MAX_NUM_REMOTE_HOSTS + 1)
    BY HostConstants
  <2> QED BY <1>3, <2>1 DEF ConnectIdx
<1>4. CASE ConnectChooses \/ ConnectRefuses \/ ConnectUses \/ RemoteAnswers
  <2>1. 0 \in -1..(MAX_NUM_REMOTE_HOSTS + 1)
    BY HostConstants
  <2> QED BY <1>4, <2>1 DEF ConnectChooses, ConnectRefuses, ConnectUses, RemoteAnswers
<1>5. CASE BuildFdSet
  <2>1. Timers \subseteq TimerFd
    BY DEF Timers, Host, NoFd
  <2> QED BY <1>5, <2>1 DEF BuildFdSet
<1>6. CASE SelectReturns
  BY <1>6 DEF SelectReturns
<1>7. CASE Interrupted
  BY <1>7 DEF Interrupted
<1>8. CASE handle_receive_broadcast_msg
  BY <1>8, HandlerType
<1>9. CASE LockForRemoval
  <2>1. 1 \in 0..MAX_NUM_REMOTE_HOSTS
    BY HostConstants
  <2> QED BY <1>9, <2>1 DEF LockForRemoval
<1>10. CASE RemoveExpired
  BY <1>10, RemoveType
<1>11. ASSUME NEW h \in Hosts, NEW a \in Addr, Announce(h, a) PROVE TypeInv'
  <2>1. inbox' \in Seq([host : Hosts, ip : Addr]) /\ inbox' # <<>>
    BY <1>11 DEF Announce
  <2>2. announced' \in 0..MaxAnnounced
    BY <1>11, HostConstants DEF Announce
  <2> QED BY <1>11, <2>1, <2>2 DEF Announce
<1>12. ASSUME NEW d \in TimerFd, TimerExpires(d) PROVE TypeInv'
  BY <1>12 DEF TimerExpires
<1> QED BY <1>1, <1>2, <1>3, <1>4, <1>5, <1>6, <1>7, <1>8, <1>9, <1>10, <1>11, <1>12
        DEF Next, Main, UdpThread, User

\* Both threads' state is well typed at all times (shell.c:965-1047,
\* 1152-1318).
THEOREM HostTypeCorrect == Spec => []HostTypeOK
<1>1. Init => TypeInv
  BY HostTypeInit
<1>2. TypeInv /\ [Next]_vars => TypeInv'
  BY HostTypeNext
<1>3. TypeInv => HostTypeOK
  BY DEF TypeInv
<1> QED BY <1>1, <1>2, <1>3, PTL DEF Spec

-----------------------------------------------------------------------------
(***************************************************************************)
(* Table, tree and timers                                                  *)
(***************************************************************************)
\* The names are integers, and the entries of the table have their fields.
LEMMA HostNames ==
    ASSUME NEW table \in [HostSlot -> Host]
    PROVE  /\ HostName(table) \in [HostSlot -> Int]
           /\ \A i \in HostSlot : HostName(table)[i] = table[i].hostname
           /\ \A i \in HostSlot : table[i].alive_timer_fd \in TimerFd \cup {NoFd}
<1>1. \A i \in HostSlot : table[i].hostname \in Int
                         /\ table[i].alive_timer_fd \in TimerFd \cup {NoFd}
  <2> TAKE i \in HostSlot
  <2>1. table[i] \in Host
    OBVIOUS
  <2>2. table[i].hostname \in Hosts \cup {0} /\ table[i].alive_timer_fd \in TimerFd \cup {NoFd}
    BY <2>1 DEF Host, Unnamed
  <2>3. Hosts \cup {0} \subseteq Int
    BY HostConstants
  <2> QED BY <2>2, <2>3
<1> QED BY <1>1 DEF HostName

\* A search that misses in a sorted tree: the name is not there.
LEMMA MissedIsAbsent ==
    ASSUME NEW S, NEW tree \in Seq(S), NEW key \in [S -> Int], NEW k \in Int,
           SortedBy(tree, key), CanMiss(tree, key, k)
    PROVE  \A s \in ToSet(tree) : key[s] # k
<1>1. Hits(tree, key, k) = {}
  BY SortedSearchIsExact
<1>2. \A p \in 1..Len(tree) : key[tree[p]] # k
  BY <1>1 DEF Hits
<1> QED BY <1>2, ToSetOfSeq

LEMMA AgreesInit == Init => TableAgrees
<1> SUFFICES ASSUME Init PROVE TableAgrees
  OBVIOUS
<1>1. \A i \in HostSlot : m_remote_hosts[i] = NoHost
  BY DEF Init
<1>2. Known = {} /\ Timers = {} /\ ToSet(m_remote_host_tree) = {}
  BY <1>1 DEF Init, Known, Timers, NoHost, ToSet
<1> QED BY <1>1, <1>2 DEF Init, TableAgrees, NoHost, SortedBy

\* An open timer of the table restarts or fires: nothing else changes.
LEMMA TimerStepAgrees ==
    ASSUME HostTypeOK, TableAgrees, NEW d, NEW v \in {"armed", "fired"},
           alarm[d] # "none", alarm' = [alarm EXCEPT ![d] = v],
           UNCHANGED <<m_remote_hosts, m_remote_host_tree>>
    PROVE  TableAgrees'
<1>1. \A e \in TimerFd : alarm'[e] # "none" <=> alarm[e] # "none"
  BY DEF HostTypeOK
<1>2. UNCHANGED <<Known, Timers>>
  BY DEF Known, Timers
<1> QED BY <1>1, <1>2 DEF TableAgrees

LEMMA EnterAgrees ==
    ASSUME HostTypeOK, TableAgrees, NEW h \in Hosts, NEW a \in Addr, EnterHost(h, a)
    PROVE  TableAgrees'
<1>1. /\ m_remote_hosts \in [HostSlot -> Host] /\ m_remote_host_tree \in Seq(HostSlot)
      /\ alarm \in [TimerFd -> {"none", "armed", "fired"}]
  BY DEF HostTypeOK
<1>2. PICK i \in HostSlot, d \in TimerFd :
        /\ m_remote_hosts[i].hostname = Unnamed /\ alarm[d] = "none"
        /\ m_remote_hosts' = [m_remote_hosts EXCEPT ![i] =
               [hostname |-> h, ip |-> a, alive_timer_fd |-> d]]
        /\ alarm' = [alarm EXCEPT ![d] = "armed"]
        /\ m_remote_host_tree' \in
             Inserts(m_remote_host_tree, HostName(m_remote_hosts'), h, i)
  BY DEF EnterHost, FirstFreeHost
<1> DEFINE new_host == [hostname |-> h, ip |-> a, alive_timer_fd |-> d]
<1>3. new_host \in Host /\ h # Unnamed /\ a # NoAddr /\ d # NoFd /\ h \in Int
  BY HostConstants DEF Host, Unnamed, NoFd, TimerFd
<1>4. m_remote_hosts' \in [HostSlot -> Host] /\ m_remote_hosts'[i] = new_host
      /\ \A j \in HostSlot : j # i => m_remote_hosts'[j] = m_remote_hosts[j]
  BY <1>1, <1>2, <1>3
<1>5. i \notin Known /\ Known' = Known \cup {i}
  BY <1>2, <1>3, <1>4 DEF Known
<1>6. m_remote_hosts[i].alive_timer_fd = NoFd /\ d \notin Timers
  BY <1>2, <1>5 DEF TableAgrees
<1>7. Timers' = Timers \cup {d}
  <2>1. \A j \in HostSlot : m_remote_hosts'[j].alive_timer_fd =
                             IF j = i THEN d ELSE m_remote_hosts[j].alive_timer_fd
    BY <1>4
  <2> QED BY <1>3, <1>6, <2>1 DEF Timers
<1>8. {e \in TimerFd : alarm'[e] # "none"} = {e \in TimerFd : alarm[e] # "none"} \cup {d}
  BY <1>1, <1>2
<1>9. i \notin ToSet(m_remote_host_tree)
  BY <1>5 DEF TableAgrees
<1>10. ToSet(m_remote_host_tree') = Known'
  BY <1>1, <1>2, <1>5, InsertsElements DEF TableAgrees
<1>11. SortedBy(m_remote_host_tree', HostName(m_remote_hosts'))
  <2>1. /\ HostName(m_remote_hosts') \in [HostSlot -> Int]
        /\ HostName(m_remote_hosts')[i] = h
    BY <1>4, HostNames
  <2>2. \A p \in 1..Len(m_remote_host_tree) :
          HostName(m_remote_hosts')[m_remote_host_tree[p]] =
          HostName(m_remote_hosts)[m_remote_host_tree[p]]
    <3>1. \A j \in HostSlot : /\ HostName(m_remote_hosts')[j] = m_remote_hosts'[j].hostname
                              /\ HostName(m_remote_hosts)[j] = m_remote_hosts[j].hostname
      BY <1>1, <1>4, HostNames
    <3>2. \A p \in 1..Len(m_remote_host_tree) :
            m_remote_host_tree[p] \in HostSlot /\ m_remote_host_tree[p] # i
      BY <1>1, <1>9, ToSetOfSeq
    <3> QED BY <1>4, <3>1, <3>2
  <2>3. SortedBy(m_remote_host_tree, HostName(m_remote_hosts'))
    BY <2>2 DEF TableAgrees, SortedBy
  <2> QED BY <1>1, <1>2, <1>9, <2>1, <2>3, InsertKeepsSorted
<1>12. \A j \in HostSlot : LET r == m_remote_hosts'[j] IN
         (j \in Known' <=> r.alive_timer_fd # NoFd) /\ (j \in Known' <=> r.ip # NoAddr)
  BY <1>3, <1>4, <1>5 DEF TableAgrees
<1>13. \A j, k \in Known' :
         m_remote_hosts'[j].alive_timer_fd = m_remote_hosts'[k].alive_timer_fd => j = k
  <2>1. \A j \in Known : j \in HostSlot /\ j # i /\ m_remote_hosts'[j] = m_remote_hosts[j]
                        /\ m_remote_hosts[j].alive_timer_fd \in Timers
    BY <1>4, <1>5 DEF TableAgrees, Known, Timers
  <2> QED BY <1>4, <1>5, <1>6, <2>1 DEF TableAgrees
<1> QED BY <1>7, <1>8, <1>10, <1>11, <1>12, <1>13 DEF TableAgrees

\* A round of the removal loop that finds the bit of its slot's timer.
LEMMA RemoveAgrees ==
    ASSUME HostTypeOK, TableAgrees, slot \in HostSlot,
           m_remote_hosts[slot].alive_timer_fd \in fdset,
           RemoveHost(m_remote_hosts[slot].alive_timer_fd)
    PROVE  TableAgrees' /\ Known' = Known \ {slot}
<1> DEFINE d == m_remote_hosts[slot].alive_timer_fd
<1>1. /\ m_remote_hosts \in [HostSlot -> Host] /\ m_remote_host_tree \in Seq(HostSlot)
      /\ alarm \in [TimerFd -> {"none", "armed", "fired"}]
      /\ fdset \subseteq TimerFd \cup {m_udp_fd}
  BY DEF HostTypeOK
<1>2. d # NoFd /\ d \in TimerFd
  <2>1. NoFd \notin TimerFd \cup {m_udp_fd}
    BY HostConstants DEF NoFd, TimerFd, m_udp_fd
  <2> QED BY <1>1, <2>1, HostNames
<1>3. slot \in Known
  BY <1>2 DEF TableAgrees
<1>4. /\ m_remote_hosts' \in [HostSlot -> Host] /\ m_remote_hosts'[slot] = NoHost
      /\ \A j \in HostSlot : j # slot => m_remote_hosts'[j] = m_remote_hosts[j]
  <2>1. NoHost \in Host
    BY DEF NoHost, Host
  <2> QED BY <1>1, <2>1 DEF RemoveHost
<1>5. Known' = Known \ {slot}
  BY <1>4 DEF Known, NoHost
<1>6. Timers' = Timers \ {d}
  <2>1. \A j \in HostSlot : m_remote_hosts'[j].alive_timer_fd =
                             IF j = slot THEN NoFd ELSE m_remote_hosts[j].alive_timer_fd
    BY <1>4 DEF NoHost
  <2>2. \A j \in HostSlot : m_remote_hosts[j].alive_timer_fd = d => j = slot
    BY <1>2, <1>3 DEF TableAgrees
  <2> QED BY <1>2, <2>1, <2>2 DEF Timers
<1>7. {e \in TimerFd : alarm'[e] # "none"} = {e \in TimerFd : alarm[e] # "none"} \ {d}
  BY <1>1, <1>2 DEF RemoveHost
<1> DEFINE key == HostName(m_remote_hosts)
<1>8. key \in [HostSlot -> Int] /\ \A j \in HostSlot : key[j] = m_remote_hosts[j].hostname
  BY <1>1, HostNames
<1>9. m_remote_host_tree' \in Deletes(m_remote_host_tree, key, key[slot])
  BY <1>8 DEF RemoveHost
<1> HIDE DEF key
<1>10. /\ m_remote_host_tree' \in Seq(HostSlot)
       /\ ToSet(m_remote_host_tree') \subseteq ToSet(m_remote_host_tree)
       /\ \A s \in ToSet(m_remote_host_tree) :
             key[s] # key[slot] => s \in ToSet(m_remote_host_tree')
  BY <1>1, <1>9, DeletesElements
<1>11. SortedBy(m_remote_host_tree, key) /\ ToSet(m_remote_host_tree) = Known
  BY DEF TableAgrees, key
<1>12. /\ SortedBy(m_remote_host_tree', key)
       /\ \A s \in ToSet(m_remote_host_tree') : key[s] # key[slot]
  <2>1. key[slot] \in Int
    BY <1>8
  <2> QED BY <1>1, <1>8, <1>9, <1>11, <2>1, DeleteFromSorted
\* Names are unique in a sorted tree, so only the slot's own node is gone.
<1>13. \A s \in Known : key[s] = key[slot] => s = slot
  <2> SUFFICES ASSUME NEW s \in Known, key[s] = key[slot] PROVE s = slot
    OBVIOUS
  <2>1. PICK p \in 1..Len(m_remote_host_tree), q \in 1..Len(m_remote_host_tree) :
          m_remote_host_tree[p] = s /\ m_remote_host_tree[q] = slot
    BY <1>1, <1>3, <1>11, ToSetOfSeq
  <2>2. key[slot] \in Int
    BY <1>8
  <2>3. ~(p < q) /\ ~(q < p)
    BY <1>11, <2>1, <2>2 DEF SortedBy
  <2> QED BY <2>1, <2>3
<1>14. ToSet(m_remote_host_tree') = Known'
  BY <1>5, <1>10, <1>11, <1>12, <1>13
<1>15. SortedBy(m_remote_host_tree', HostName(m_remote_hosts'))
  <2>1. \A p \in 1..Len(m_remote_host_tree') :
          HostName(m_remote_hosts')[m_remote_host_tree'[p]] = key[m_remote_host_tree'[p]]
    <3> SUFFICES ASSUME NEW p \in 1..Len(m_remote_host_tree')
                 PROVE  HostName(m_remote_hosts')[m_remote_host_tree'[p]] =
                        key[m_remote_host_tree'[p]]
      OBVIOUS
    <3>1. m_remote_host_tree'[p] \in Known' /\ m_remote_host_tree'[p] \in HostSlot
      BY <1>10, <1>14, ToSetOfSeq
    <3>2. \A j \in HostSlot : HostName(m_remote_hosts')[j] = m_remote_hosts'[j].hostname
      BY <1>4, HostNames
    <3> QED BY <1>4, <1>5, <1>8, <3>1, <3>2
  <2> QED BY <1>12, <2>1 DEF SortedBy
<1>16. \A j \in HostSlot : LET r == m_remote_hosts'[j] IN
         (j \in Known' <=> r.alive_timer_fd # NoFd) /\ (j \in Known' <=> r.ip # NoAddr)
  BY <1>4, <1>5 DEF TableAgrees, NoHost
<1>17. \A j, k \in Known' :
         m_remote_hosts'[j].alive_timer_fd = m_remote_hosts'[k].alive_timer_fd => j = k
  BY <1>4, <1>5 DEF TableAgrees, Known
<1> QED BY <1>5, <1>6, <1>7, <1>14, <1>15, <1>16, <1>17 DEF TableAgrees

LEMMA HandlerAgrees ==
    ASSUME TypeInv, TableAgrees, handle_receive_broadcast_msg
    PROVE  TableAgrees'
<1> DEFINE m == Head(inbox)
<1>1. m \in [host : Hosts, ip : Addr]
  BY HeadAndTail DEF TypeInv, HostTypeOK, handle_receive_broadcast_msg
<1>2. m.host \in Hosts /\ m.ip \in Addr
  BY <1>1
<1> HIDE DEF m
<1>3. CASE RefreshHost(m.host)
  <2>1. PICK i \in Found(m_remote_host_tree, HostName(m_remote_hosts), m.host) :
          alarm' = [alarm EXCEPT ![m_remote_hosts[i].alive_timer_fd] = "armed"]
    BY <1>3 DEF RefreshHost
  <2>2. m_remote_host_tree \in Seq(HostSlot)
    BY DEF TypeInv, HostTypeOK
  <2>3. i \in Known
    BY <2>2, FoundElements DEF TableAgrees
  <2>4. m_remote_hosts[i].alive_timer_fd \in Timers
    BY <2>3 DEF TableAgrees, Known, Timers
  <2>5. alarm[m_remote_hosts[i].alive_timer_fd] # "none"
    BY <2>4 DEF TableAgrees
  <2>6. UNCHANGED <<m_remote_hosts, m_remote_host_tree>>
    BY <1>3 DEF RefreshHost, tableVars
  <2> QED BY <2>1, <2>5, <2>6, TimerStepAgrees DEF TypeInv
<1>4. CASE EnterHost(m.host, m.ip)
  BY <1>2, <1>4, EnterAgrees DEF TypeInv
<1>5. CASE TableFull(m.host)
  BY <1>5 DEF TableFull, tableVars, TableAgrees, Known, Timers
<1> QED BY <1>3, <1>4, <1>5 DEF handle_receive_broadcast_msg, m

LEMMA AgreesNext ==
    ASSUME TypeInv, TableAgrees, [Next]_vars
    PROVE  TableAgrees'
<1>1. CASE UNCHANGED <<m_remote_hosts, m_remote_host_tree, alarm>>
  BY <1>1 DEF TableAgrees, Known, Timers
<1>2. CASE handle_receive_broadcast_msg
  BY <1>2, HandlerAgrees
<1>3. CASE RemoveExpired
  <2>1. CASE m_remote_hosts[slot].alive_timer_fd \in fdset
    <3>1. slot \in HostSlot
      BY <1>3, NextSlotType DEF TypeInv, RemoveExpired
    <3>2. RemoveHost(m_remote_hosts[slot].alive_timer_fd)
      BY <1>3, <2>1 DEF RemoveExpired
    <3> QED BY <2>1, <3>1, <3>2, RemoveAgrees DEF TypeInv
  <2>2. CASE m_remote_hosts[slot].alive_timer_fd \notin fdset
    BY <1>1, <1>3, <2>2 DEF RemoveExpired, tableVars
  <2> QED BY <2>1, <2>2
<1>4. ASSUME NEW d \in TimerFd, TimerExpires(d) PROVE TableAgrees'
  BY <1>4, TimerStepAgrees DEF TypeInv, TimerExpires, tableVars
<1> USE DEF tableVars, mainVars, udpVars, netVars
<1>5. CASE UNCHANGED vars
  BY <1>1, <1>5 DEF vars
<1>6. CASE User
  BY <1>1, <1>6 DEF User, Scan, ConnectIdx
<1>7. CASE Main \/ RemoteAnswers
  BY <1>1, <1>7 DEF Main, ScanLists, ConnectChooses, ConnectRefuses, ConnectUses,
                      RemoteAnswers
<1>8. CASE BuildFdSet \/ SelectReturns \/ LockForRemoval \/ Interrupted
  BY <1>1, <1>8 DEF BuildFdSet, SelectReturns, LockForRemoval, Interrupted
<1>9. ASSUME NEW h \in Hosts, NEW a \in Addr, Announce(h, a) PROVE TableAgrees'
  BY <1>1, <1>9 DEF Announce
<1> QED BY <1>2, <1>3, <1>4, <1>5, <1>6, <1>7, <1>8, <1>9 DEF Next, UdpThread

-----------------------------------------------------------------------------
(***************************************************************************)
(* The bits of a pass                                                      *)
(***************************************************************************)
LEMMA HandlerFresh ==
    ASSUME TypeInv, TableAgrees, FreshBits, handle_receive_broadcast_msg
    PROVE  FreshBits'
<1>1. /\ m_remote_hosts \in [HostSlot -> Host] /\ new \subseteq HostSlot
      /\ udp = "receive" /\ udp' \in {"lock", "ended"} /\ fdset' = fdset
  BY DEF TypeInv, HostTypeOK, handle_receive_broadcast_msg, RefreshHost, EnterHost, TableFull
<1>2. \/ UNCHANGED <<m_remote_hosts, new>>
      \/ \E h, a : EnterHost(h, a)
  BY DEF handle_receive_broadcast_msg, RefreshHost, TableFull, tableVars
<1>3. CASE UNCHANGED <<m_remote_hosts, new>>
  BY <1>1, <1>3 DEF FreshBits, Known
<1>4. ASSUME NEW h, NEW a, EnterHost(h, a) PROVE FreshBits'
  <2>1. PICK i \in HostSlot, d \in TimerFd :
          /\ m_remote_hosts[i].hostname = Unnamed /\ alarm[d] = "none"
          /\ m_remote_hosts' = [m_remote_hosts EXCEPT ![i] =
                 [hostname |-> h, ip |-> a, alive_timer_fd |-> d]]
          /\ new' = new \cup {i}
    BY <1>4 DEF EnterHost, FirstFreeHost
  <2>2. d \notin fdset
    <3>1. d \notin Timers
      BY <2>1 DEF TableAgrees
    <3>2. d # m_udp_fd
      BY HostConstants DEF TimerFd, m_udp_fd
    <3> QED BY <1>1, <3>1, <3>2 DEF FreshBits
  <2>3. /\ m_remote_hosts'[i].alive_timer_fd = d
        /\ \A j \in HostSlot : j # i => m_remote_hosts'[j] = m_remote_hosts[j]
    BY <1>1, <2>1
  <2>4. \A j \in new' : j \in Known' => m_remote_hosts'[j].alive_timer_fd \notin fdset'
    BY <1>1, <2>1, <2>2, <2>3 DEF FreshBits, Known
  <2> QED BY <1>1, <2>4 DEF FreshBits
<1> QED BY <1>2, <1>3, <1>4

LEMMA FreshNext ==
    ASSUME TypeInv, TableAgrees, FreshBits, [Next]_vars
    PROVE  FreshBits'
<1>1. CASE /\ UNCHANGED <<m_remote_hosts, fdset, new>>
           /\ udp' \in {"select", "receive"} => udp \in {"select", "receive"}
  BY <1>1 DEF FreshBits, Known, Timers
<1>2. CASE BuildFdSet
  BY <1>2 DEF BuildFdSet, FreshBits, Timers, tableVars
<1>3. CASE SelectReturns
  BY <1>3 DEF SelectReturns, FreshBits, Timers, Known, tableVars
<1>4. CASE handle_receive_broadcast_msg
  BY <1>4, HandlerFresh
<1>5. CASE RemoveExpired
  <2>1. udp' \notin {"select", "receive"} /\ UNCHANGED <<fdset, new>>
    BY <1>5 DEF RemoveExpired, NextSlot
  <2>2. new \subseteq HostSlot /\ m_remote_hosts \in [HostSlot -> Host]
    BY DEF TypeInv, HostTypeOK
  <2>3. \A j \in HostSlot : \/ m_remote_hosts'[j] = m_remote_hosts[j]
                           \/ m_remote_hosts'[j] = NoHost
    BY <1>5, <2>2 DEF RemoveExpired, RemoveHost, tableVars
  <2>4. \A j \in new' : j \in Known' => m_remote_hosts'[j].alive_timer_fd \notin fdset'
    BY <2>1, <2>2, <2>3 DEF FreshBits, Known, NoHost
  <2> QED BY <2>1, <2>4 DEF FreshBits
<1> USE DEF tableVars, mainVars, udpVars, netVars
<1>6. CASE UNCHANGED vars
  BY <1>1, <1>6 DEF vars
<1>7. CASE User
  BY <1>1, <1>7 DEF User, Scan, ConnectIdx
<1>8. CASE Main \/ RemoteAnswers
  BY <1>1, <1>8 DEF Main, ScanLists, ConnectChooses, ConnectRefuses, ConnectUses,
                      RemoteAnswers
<1>9. CASE LockForRemoval \/ Interrupted
  BY <1>1, <1>9 DEF LockForRemoval, Interrupted
<1>10. ASSUME NEW h \in Hosts, NEW a \in Addr, Announce(h, a) PROVE FreshBits'
  BY <1>1, <1>10 DEF Announce
<1>11. ASSUME NEW d \in TimerFd, TimerExpires(d) PROVE FreshBits'
  BY <1>1, <1>11 DEF TimerExpires
<1> QED BY <1>2, <1>3, <1>4, <1>5, <1>6, <1>7, <1>8, <1>9, <1>10, <1>11 DEF Next, UdpThread

LEMMA HostInductive == Spec => []HostInv
<1>1. Init => HostInv
  BY HostTypeInit, AgreesInit DEF HostInv, FreshBits, Init
<1>2. HostInv /\ [Next]_vars => HostInv'
  BY HostTypeNext, AgreesNext, FreshNext DEF HostInv
<1> QED BY <1>1, <1>2, PTL DEF Spec

\* Whatever the two threads, the hosts and the clock do, table, tree and
\* timers agree after every step (shell.c:1195-1207, 1245-1277).
THEOREM TableAlwaysAgrees == Spec => []TableAgrees
<1>1. HostInv => TableAgrees
  BY DEF HostInv
<1> QED BY <1>1, HostInductive, PTL

\* No step removes a host entered in the same pass of the UDP thread's loop
\* (shell.c:1196-1206).
LEMMA NewHostStays ==
    ASSUME HostInv, [Next]_vars, NEW i \in new, i \in Known
    PROVE  i \in Known'
<1>1. /\ m_remote_hosts \in [HostSlot -> Host] /\ i \in HostSlot
  BY DEF HostInv, TypeInv, HostTypeOK
<1>2. CASE UNCHANGED m_remote_hosts
  BY <1>2 DEF Known
<1>3. CASE handle_receive_broadcast_msg
  <2>1. \/ UNCHANGED m_remote_hosts
        \/ \E h, a : EnterHost(h, a)
    BY <1>3 DEF handle_receive_broadcast_msg, RefreshHost, TableFull, tableVars
  <2>2. ASSUME NEW h, NEW a, EnterHost(h, a) PROVE i \in Known'
    <3>1. PICK j \in HostSlot, d \in TimerFd :
            /\ m_remote_hosts[j].hostname = Unnamed
            /\ m_remote_hosts' = [m_remote_hosts EXCEPT ![j] =
                   [hostname |-> h, ip |-> a, alive_timer_fd |-> d]]
      BY <2>2 DEF EnterHost, FirstFreeHost
    <3>2. i # j
      BY <3>1 DEF Known
    <3> QED BY <1>1, <3>1, <3>2 DEF Known
  <2> QED BY <1>2, <2>1, <2>2
<1>4. CASE RemoveExpired
  <2>1. i = slot => m_remote_hosts[slot].alive_timer_fd \notin fdset
    BY DEF HostInv, FreshBits
  <2>2. CASE i = slot
    BY <1>2, <1>4, <2>1, <2>2 DEF RemoveExpired, tableVars
  <2>3. CASE i # slot
    BY <1>1, <1>2, <1>4, <2>3 DEF RemoveExpired, RemoveHost, tableVars, Known
  <2> QED BY <2>2, <2>3
<1> USE DEF tableVars, mainVars, udpVars, netVars
<1>5. CASE UNCHANGED vars
  BY <1>2, <1>5 DEF vars
<1>6. CASE User
  BY <1>2, <1>6 DEF User, Scan, ConnectIdx
<1>7. CASE Main \/ RemoteAnswers
  BY <1>2, <1>7 DEF Main, ScanLists, ConnectChooses, ConnectRefuses, ConnectUses,
                      RemoteAnswers
<1>8. CASE BuildFdSet \/ SelectReturns \/ LockForRemoval \/ Interrupted
  BY <1>2, <1>8 DEF BuildFdSet, SelectReturns, LockForRemoval, Interrupted
<1>9. ASSUME NEW h \in Hosts, NEW a \in Addr, Announce(h, a) PROVE i \in Known'
  BY <1>2, <1>9 DEF Announce
<1>10. ASSUME NEW d \in TimerFd, TimerExpires(d) PROVE i \in Known'
  BY <1>2, <1>10 DEF TimerExpires
<1> QED BY <1>3, <1>4, <1>5, <1>6, <1>7, <1>8, <1>9, <1>10 DEF Next, UdpThread

\* A host just entered is safe from the bits of the pass, although its
\* timer's number may be that of a closed one (shell.c:1195-1207).
THEOREM NewHostsAlwaysStay == Spec => NewHostsStay
<1>1. HostInv /\ [Next]_vars => [\A i \in new : i \in Known => i \in Known']_vars
  BY NewHostStays
<1> QED BY <1>1, HostInductive, PTL DEF Spec, NewHostsStay
=============================================================================
