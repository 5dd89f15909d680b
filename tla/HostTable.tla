----------------------------- MODULE HostTable ------------------------------
(***************************************************************************)
(* The table of remote hosts of the shell (sw/shell/shell.c), shared by    *)
(* two threads under m_remote_hosts_mtx: the UDP thread enters hosts that  *)
(* announce themselves and removes those whose alive timer expires; the    *)
(* main thread lists the table (scan) and takes an address from it         *)
(* (connect --idx).                                                        *)
(*                                                                         *)
(* A critical section that cannot block is one action, guarded by the      *)
(* mutex being free; the removal loop, whose intermediate states the main  *)
(* thread can see through a pointer it kept, takes the mutex step by step. *)
(* A hostname is its rank in strcmp order, 0 the empty one.                *)
(***************************************************************************)
EXTENDS SearchTree

CONSTANTS
    MAX_NUM_REMOTE_HOSTS,  \* length of the array m_remote_hosts
    Hosts,                 \* names hosts announce (ranks)
    Addr, NoAddr,          \* their addresses, and "0.0.0.0"
    MaxFd,                 \* timer descriptors 0..MaxFd
    MaxAnnounced           \* bound: announcements in a behaviour

ASSUME HostSlotsAssumption == MAX_NUM_REMOTE_HOSTS \in Nat \ {0}
ASSUME HostsAssumption     == Hosts \subseteq Nat \ {0} /\ NoAddr \notin Addr
\* There are descriptors for all alive timers.
ASSUME TimersAssumption    == MaxFd \in Nat /\ MAX_NUM_REMOTE_HOSTS <= MaxFd + 1
ASSUME AnnouncedAssumption == MaxAnnounced \in Nat

VARIABLES
    m_remote_hosts,      \* [1..MAX_NUM_REMOTE_HOSTS -> Host]
    m_remote_host_tree,  \* in-order sequence of slots of m_remote_hosts
    mutex,               \* m_remote_hosts_mtx: "free", or who holds it
    at, index,           \* the main thread, and its argument of --idx
    udp,                 \* the UDP thread
    fdset, slot,         \* its fd_set, and its loop variable
    alarm,               \* [TimerFd -> AlarmState]
    inbox, announced,    \* datagrams to read, and how many were sent
    new                  \* history: the slots filled in the current pass

tableVars == <<m_remote_hosts, m_remote_host_tree>>
mainVars  == <<at, index>>
udpVars   == <<udp, fdset, slot>>
netVars   == <<inbox, announced>>
vars == <<tableVars, mutex, mainVars, udpVars, alarm, netVars, new>>

HostSlot == 1..MAX_NUM_REMOTE_HOSTS
Unnamed  == 0
NoFd     == -1
m_udp_fd == MaxFd + 1
TimerFd  == 0..MaxFd
Host     == [hostname : Hosts \cup {Unnamed}, ip : Addr \cup {NoAddr},
             alive_timer_fd : TimerFd \cup {NoFd}]
NoHost   == [hostname |-> Unnamed, ip |-> NoAddr, alive_timer_fd |-> NoFd]

\* What the comparators of m_remote_host_tree compare.
HostName(table) == [i \in HostSlot |-> table[i].hostname]

Known  == {i \in HostSlot : m_remote_hosts[i].hostname # Unnamed}
Timers == {m_remote_hosts[i].alive_timer_fd : i \in HostSlot} \ {NoFd}

Init ==
    /\ m_remote_hosts = [i \in HostSlot |-> NoHost] /\ m_remote_host_tree = <<>>
    /\ mutex = "free"
    /\ at = "prompt" /\ index = 0
    /\ udp = "build" /\ fdset = {} /\ slot = 0
    /\ alarm = [d \in TimerFd |-> "none"]
    /\ inbox = <<>> /\ announced = 0 /\ new = {}
-----------------------------------------------------------------------------
(***************************************************************************)
(* The main thread                                                         *)
(***************************************************************************)
Scan ==
    /\ at = "prompt"
    /\ at' = "scan"
    /\ UNCHANGED <<tableVars, mutex, index, udpVars, alarm, netVars, new>>

\* The listing itself: the mutex is taken and released.
ScanLists ==
    /\ at = "scan" /\ mutex = "free"
    /\ at' = "prompt"
    /\ UNCHANGED <<tableVars, mutex, index, udpVars, alarm, netVars, new>>

\* connect --idx; for the index 0 it returns before it asks for the mutex.
ConnectIdx(k) ==
    /\ at = "prompt"
    /\ at' = "connect" /\ index' = k
    /\ UNCHANGED <<tableVars, mutex, udpVars, alarm, netVars, new>>

\* The last slot's index is taken to be out of range.
Accepted(k) == k \in 1..(MAX_NUM_REMOTE_HOSTS - 1) /\ m_remote_hosts[k].ip # NoAddr

\* The index is accepted, and a pointer to the slot's address kept.
ConnectChooses ==
    /\ at = "connect" /\ mutex = "free" /\ Accepted(index)
    /\ at' = "use"
    /\ UNCHANGED <<tableVars, mutex, index, udpVars, alarm, netVars, new>>

\* The index is refused, and the mutex kept.
ConnectRefuses ==
    /\ at = "connect" /\ mutex = "free" /\ ~Accepted(index)
    /\ at' = "prompt" /\ index' = 0
    /\ mutex' = "main"
    /\ UNCHANGED <<tableVars, udpVars, alarm, netVars, new>>

\* connect() is called with what the pointer points to now; it blocks, and
\* so does the recv of the remote command list, which has no timeout.
ConnectUses ==
    /\ at = "use"
    /\ at' = "remote"
    /\ UNCHANGED <<tableVars, mutex, index, udpVars, alarm, netVars, new>>

\* The remote side answers or refuses, or the connection fails - if ever.
RemoteAnswers ==
    /\ at = "remote"
    /\ at' = "prompt" /\ index' = 0
    /\ UNCHANGED <<tableVars, mutex, udpVars, alarm, netVars, new>>
-----------------------------------------------------------------------------
(***************************************************************************)
(* The UDP thread                                                          *)
(***************************************************************************)
\* Mutant of BuildFdSet: the loop ends one slot too early.
BuildButLast ==
    /\ udp = "build" /\ mutex = "free"
    /\ fdset' = (Timers \ {m_remote_hosts[MAX_NUM_REMOTE_HOSTS].alive_timer_fd}) \cup {m_udp_fd}
    /\ udp' = "select"
    /\ new' = {}
    /\ UNCHANGED <<tableVars, mutex, mainVars, slot, alarm, netVars>>

BuildFdSet ==
    /\ udp = "build" /\ mutex = "free"
    /\ fdset' = Timers \cup {m_udp_fd}
    /\ udp' = "select"
    /\ new' = {}
    /\ UNCHANGED <<tableVars, mutex, mainVars, slot, alarm, netVars>>

Ready(d) == IF d = m_udp_fd THEN inbox # <<>> ELSE alarm[d] = "fired"

SelectReturns ==
    /\ udp = "select"
    /\ \E d \in fdset : Ready(d)
    /\ fdset' = {d \in fdset : Ready(d)}
    /\ udp' = IF inbox # <<>> THEN "receive" ELSE "lock"
    /\ UNCHANGED <<tableVars, mutex, mainVars, slot, alarm, netVars, new>>

\* The signal of a Ctrl-C is taken by this thread: select fails with EINTR,
\* and the thread returns.
Interrupted ==
    /\ udp = "select"
    /\ udp' = "ended"
    /\ UNCHANGED <<tableVars, mutex, mainVars, fdset, slot, alarm, netVars, new>>

\* A known host: its timer starts again; its address is not looked at.
RefreshHost(h) ==
    /\ \E i \in Found(m_remote_host_tree, HostName(m_remote_hosts), h) :
         alarm' = [alarm EXCEPT ![m_remote_hosts[i].alive_timer_fd] = "armed"]
    /\ udp' = "lock"
    /\ UNCHANGED <<tableVars, mutex, new>>

FirstFreeHost(i) ==
    /\ m_remote_hosts[i].hostname = Unnamed
    /\ \A k \in HostSlot : k < i => m_remote_hosts[k].hostname # Unnamed

\* A new host takes the first free slot, with a timer of its own.
EnterHost(h, a) ==
    /\ CanMiss(m_remote_host_tree, HostName(m_remote_hosts), h)
    /\ \E i \in HostSlot, d \in TimerFd :
         /\ FirstFreeHost(i) /\ alarm[d] = "none"
         /\ m_remote_hosts' = [m_remote_hosts EXCEPT ![i] =
                [hostname |-> h, ip |-> a, alive_timer_fd |-> d]]
         /\ alarm' = [alarm EXCEPT ![d] = "armed"]
         /\ m_remote_host_tree' \in
              Inserts(m_remote_host_tree, HostName(m_remote_hosts'), h, i)
         /\ new' = new \cup {i}
    /\ udp' = "lock"
    /\ mutex' = mutex

\* No slot is left: the handler fails with the mutex kept, and the thread
\* returns.
TableFull(h) ==
    /\ CanMiss(m_remote_host_tree, HostName(m_remote_hosts), h)
    /\ Known = HostSlot
    /\ udp' = "ended" /\ mutex' = "udp"
    /\ UNCHANGED <<tableVars, alarm, new>>

handle_receive_broadcast_msg ==
    /\ udp = "receive" /\ mutex = "free"
    /\ LET m == Head(inbox) IN RefreshHost(m.host) \/ EnterHost(m.host, m.ip) \/ TableFull(m.host)
    /\ inbox' = Tail(inbox)
    /\ UNCHANGED <<mainVars, fdset, slot, announced>>

LockForRemoval ==
    /\ udp = "lock" /\ mutex = "free"
    /\ mutex' = "udp" /\ udp' = "remove" /\ slot' = 1
    /\ UNCHANGED <<tableVars, mainVars, fdset, alarm, netVars, new>>

\* Mutants of NextSlot: the loop runs one slot too far; the mutex is kept.
NextSlotTooFar ==
    \/ slot <= MAX_NUM_REMOTE_HOSTS /\ slot' = slot + 1 /\ UNCHANGED <<udp, mutex>>
    \/ slot > MAX_NUM_REMOTE_HOSTS /\ slot' = 0 /\ udp' = "build" /\ mutex' = "free"
NextSlotLocked ==
    \/ slot < MAX_NUM_REMOTE_HOSTS /\ slot' = slot + 1 /\ UNCHANGED <<udp, mutex>>
    \/ slot = MAX_NUM_REMOTE_HOSTS /\ slot' = 0 /\ udp' = "build" /\ mutex' = mutex

NextSlot ==
    \/ slot < MAX_NUM_REMOTE_HOSTS /\ slot' = slot + 1 /\ UNCHANGED <<udp, mutex>>
    \/ slot = MAX_NUM_REMOTE_HOSTS /\ slot' = 0 /\ udp' = "build" /\ mutex' = "free"

\* Mutant of RemoveHost: the name is cleared before tdelete compares it.
RemoveCleared(d) ==
    /\ m_remote_hosts' = [m_remote_hosts EXCEPT ![slot] = NoHost]
    /\ m_remote_host_tree' \in Deletes(m_remote_host_tree, HostName(m_remote_hosts'), Unnamed)
    /\ alarm' = [alarm EXCEPT ![d] = "none"]

\* tdelete by the entry's name; then the entry is cleared, its timer closed.
RemoveHost(d) ==
    /\ m_remote_host_tree' \in
         Deletes(m_remote_host_tree, HostName(m_remote_hosts), m_remote_hosts[slot].hostname)
    /\ m_remote_hosts' = [m_remote_hosts EXCEPT ![slot] = NoHost]
    /\ alarm' = [alarm EXCEPT ![d] = "none"]

\* Mutant of RemoveExpired: the timer is asked, not the bit select has left.
RemoveByTimer ==
    /\ udp = "remove"
    /\ LET d == m_remote_hosts[slot].alive_timer_fd
       IN  IF d # NoFd /\ alarm[d] = "fired" THEN RemoveHost(d)
           ELSE UNCHANGED <<tableVars, alarm>>
    /\ NextSlot
    /\ UNCHANGED <<mainVars, fdset, netVars, new>>

\* One round of the removal loop: the bit is the one select has left, also
\* when the host has announced itself since.
RemoveExpired ==
    /\ udp = "remove"
    /\ LET d == m_remote_hosts[slot].alive_timer_fd
       IN  IF d \in fdset THEN RemoveHost(d) ELSE UNCHANGED <<tableVars, alarm>>
    /\ NextSlot
    /\ UNCHANGED <<mainVars, fdset, netVars, new>>
-----------------------------------------------------------------------------
\* The network and the clock.
Announce(h, a) ==
    /\ announced < MaxAnnounced
    /\ announced' = announced + 1
    /\ inbox' = Append(inbox, [host |-> h, ip |-> a])
    /\ UNCHANGED <<tableVars, mutex, mainVars, udpVars, alarm, new>>

TimerExpires(d) ==
    /\ alarm[d] = "armed"
    /\ alarm' = [alarm EXCEPT ![d] = "fired"]
    /\ UNCHANGED <<tableVars, mutex, mainVars, udpVars, netVars, new>>

Main ==
    \/ ScanLists \/ ConnectChooses \/ ConnectRefuses \/ ConnectUses

UdpThread ==
    \/ BuildFdSet \/ SelectReturns \/ handle_receive_broadcast_msg
    \/ LockForRemoval \/ RemoveExpired

User == Scan \/ \E k \in {-1} \cup 1..(MAX_NUM_REMOTE_HOSTS + 1) : ConnectIdx(k)

Next ==
    \/ Main \/ UdpThread \/ User \/ Interrupted \/ RemoteAnswers
    \/ \E h \in Hosts, a \in Addr : Announce(h, a)
    \/ \E d \in TimerFd : TimerExpires(d)

Spec == Init /\ [][Next]_vars

\* The scheduler runs both threads, and time passes; nothing is assumed of
\* the user, the hosts, the network and signals.
FairSpec ==
    /\ Spec
    /\ WF_vars(Main) /\ WF_vars(UdpThread)
    /\ \A d \in TimerFd : WF_vars(TimerExpires(d))
-----------------------------------------------------------------------------
\* Type correctness of both threads' state.
HostTypeOK ==
    /\ m_remote_hosts \in [HostSlot -> Host]
    /\ m_remote_host_tree \in Seq(HostSlot)
    /\ mutex \in {"free", "main", "udp"}
    /\ at \in {"prompt", "scan", "connect", "use", "remote"}
    /\ index \in -1..(MAX_NUM_REMOTE_HOSTS + 1)
    /\ udp \in {"build", "select", "receive", "lock", "remove", "ended"}
    /\ fdset \subseteq TimerFd \cup {m_udp_fd}
    /\ slot \in 0..MAX_NUM_REMOTE_HOSTS /\ (udp = "remove" => slot > 0)
    /\ alarm \in [TimerFd -> {"none", "armed", "fired"}]
    /\ inbox \in Seq([host : Hosts, ip : Addr]) /\ announced \in 0..MaxAnnounced
    /\ new \subseteq HostSlot

\* Table, tree and timers agree after every step of either thread, also
\* within the removal loop: exactly the named slots have an address, a node
\* and an open timer, no timer has two owners, and the tree is sorted, so
\* that a host that announces itself again is recognised (shell.c:1247) and
\* never entered twice.
TableAgrees ==
    /\ ToSet(m_remote_host_tree) = Known
    /\ SortedBy(m_remote_host_tree, HostName(m_remote_hosts))
    /\ \A i \in HostSlot : LET r == m_remote_hosts[i] IN
         /\ i \in Known <=> r.alive_timer_fd # NoFd
         /\ i \in Known <=> r.ip # NoAddr
    /\ \A i, j \in Known :
         m_remote_hosts[i].alive_timer_fd = m_remote_hosts[j].alive_timer_fd => i = j
    /\ {d \in TimerFd : alarm[d] # "none"} = Timers

\* A host entered in a pass of the loop is not removed in the same pass: its
\* timer may have the number of one closed before, but not its bit
\* (shell.c:1195-1207).
NewHostsStay ==
    [][\A i \in new : i \in Known => i \in Known']_vars

\* The mutex is lost: to a refused index, or to a full table.
MutexLost == mutex = "main" \/ (mutex = "udp" /\ udp = "ended")

\* A host that falls silent leaves the table, unless the UDP thread has
\* ended or the mutex is lost (announcements are finite in a run).
SilentHostsLeave ==
    \A i \in HostSlot : i \in Known ~> i \notin Known \/ MutexLost \/ udp = "ended"

\* A scan returns, and a connect gets as far as the network (or is refused),
\* unless the mutex is lost: the UDP thread never keeps the mutex, not even
\* while it has table and timers to clear.  How long the network then keeps
\* connect waiting (shell.c:1448, 1511) is not the table's affair.
CommandsReturn ==
    at \in {"scan", "connect", "use"} ~> at \in {"prompt", "remote"} \/ MutexLost

\* shell.c:874 of connect: "Connect to remote device via an index returned by
\* scan command." - for the index of a host in the table it gets as far as
\* the connect, unless the host leaves the table first.
ListedConnects ==
    at = "connect" /\ index \in Known ~> at = "use" \/ index \notin Known
=============================================================================
