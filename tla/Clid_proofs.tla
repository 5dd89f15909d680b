---------------------------- MODULE Clid_proofs -----------------------------
(***************************************************************************)
(* The clid daemon for every number of shells, slots, descriptors,         *)
(* commands and requests.                                                  *)
(***************************************************************************)
EXTENDS Clid, ClidCommands_proofs

LEMMA ClidConstants ==
    /\ MAX_NUM_SHELL_CLIENTS \in Nat \ {0} /\ JobIdMod \in Nat \ 0..1
    /\ MaxFd \in Nat \ 0..2 /\ MaxRequests \in Nat /\ MaxItc \in Nat
    /\ NoConn \notin Conn
    /\ Requests \subseteq Names \cup {Unnamed} /\ Deregs \subseteq Names
  BY SlotAssumption, JobIdAssumption, FdAssumption, BoundsAssumption, RequestAssumption
  DEF ListRequest

-----------------------------------------------------------------------------
\* ++m_job_id ? m_job_id : ++m_job_id (clid.c:763) never yields the idle job,
\* for a counter of any width, at the wrap too.
THEOREM NextJobIdSkipsIdle ==
    ASSUME NEW j \in 0..(JobIdMod - 1)
    PROVE  NextJobId(j) \in 1..(JobIdMod - 1)
<1>1. JobIdMod \in Nat /\ JobIdMod >= 2
  BY JobIdAssumption
<1>2. CASE j = JobIdMod - 1
  <2>1. (j + 1) % JobIdMod = 0
    BY <1>1, <1>2
  <2>2. (j + 2) % JobIdMod = 1
    BY <1>1, <1>2
  <2> QED BY <1>1, <2>1, <2>2 DEF NextJobId, IdleJob
<1>3. CASE j < JobIdMod - 1
  <2>1. (j + 1) % JobIdMod = j + 1
    BY <1>1, <1>3
  <2> QED BY <1>1, <1>3, <2>1 DEF NextJobId, IdleJob
<1> QED BY <1>1, <1>2, <1>3

\* Below the wrap the next id is the successor.
LEMMA NextJobIdIsNext ==
    ASSUME NEW j \in 0..(JobIdMod - 1), j < JobIdMod - 1
    PROVE  NextJobId(j) = j + 1
<1>1. JobIdMod \in Nat /\ JobIdMod >= 2
  BY JobIdAssumption
<1>2. (j + 1) % JobIdMod = j + 1
  BY <1>1
<1> QED BY <1>1, <1>2 DEF NextJobId, IdleJob

-----------------------------------------------------------------------------
\* What select reported is still there when its stage comes: nobody but the
\* stage itself takes a connection off the backlog or a message off the
\* mailbox.
LoopInput ==
    /\ stage = AcceptStage /\ tcp_fd \in fdset => backlog # <<>>
    /\ stage \in AcceptStage..ItcStage /\ mbox_fd \in fdset => itc # <<>>

\* A connected client's descriptor is an open socket, and no other slot's.
SocketsHeld ==
    \A i \in Slot : Connected(i) =>
        /\ sock[clients[i].fd] \in Conn
        /\ \A k \in Slot : clients[k].fd = clients[i].fd => k = i

TypeInv == TypeOK /\ LoopInput /\ SocketsHeld

ClientType == [fd : Fd \cup {NoFd}, timer : Fd \cup {NoFd}, job : 0..(JobIdMod - 1)]

LEMMA TypeInit == Init => TypeInv
<1> SUFFICES ASSUME Init PROVE TypeInv
  OBVIOUS
<1>1. CmdTypeOK
  BY CmdInitInv DEF Init, CmdInv
<1>2. FreeSlot \in ClientType
  BY ClidConstants DEF FreeSlot, ClientType, IdleJob
<1>3. clients \in [Slot -> ClientType]
  BY <1>2 DEF Init, ClientInit
<1>4. LoopEnd \in Nat /\ LoopEnd >= 5
  BY ClidConstants DEF LoopEnd
<1>5. /\ sock \in [Fd -> Conn \cup {NoConn}]
      /\ alarm \in [Fd -> AlarmState]
      /\ peer \in [Conn -> PeerState]
      /\ backlog \in Seq(Conn)
      /\ c2s \in [Conn -> Seq(Requests)]
      /\ s2c \in [Conn -> Seq(ReplyKind)]
  BY DEF Init, KernelInit, AlarmState, PeerState
<1>6. /\ client_tree \in Seq(Slot) /\ m_job_id \in 0..(JobIdMod - 1) /\ running \in BOOLEAN
  BY ClidConstants DEF Init, ClientInit
<1>7. /\ fdset \subseteq {tcp_fd, mbox_fd} \cup Fd /\ stage \in 0..LoopEnd
      /\ sent \in 0..MaxRequests /\ itc \in Seq(ItcMsg) /\ atApp \subseteq Jobs
  BY <1>4, ClidConstants DEF Init
<1>8. TypeOK
  BY <1>1, <1>3, <1>5, <1>6, <1>7 DEF TypeOK, ClientType
<1>9. \A i \in Slot : ~Connected(i)
  BY DEF Init, ClientInit, FreeSlot, Connected
<1> QED BY <1>4, <1>8, <1>9 DEF TypeInv, LoopInput, SocketsHeld, Init, AcceptStage, ItcStage

\* A stage of the loop leaves the loop's state well formed.
LEMMA StageAdvances ==
    ASSUME TypeInv, NEW p \in 1..(LoopEnd - 1), At(p), p >= ItcStage \/ itc' = itc
    PROVE  /\ stage' \in 0..LoopEnd
           /\ fdset' \subseteq {tcp_fd, mbox_fd} \cup Fd
           /\ LoopInput'
<1>1. LoopEnd \in Nat /\ stage \in 0..LoopEnd /\ fdset \subseteq {tcp_fd, mbox_fd} \cup Fd
  BY ClidConstants DEF LoopEnd, TypeInv, TypeOK
<1>2. stage' = p + 1 /\ fdset' = fdset /\ stage \in 1..p
  BY DEF At
<1>3. p = 1 => stage = 1
  BY <1>1, <1>2
<1>4. ASSUME stage' \in AcceptStage..ItcStage, mbox_fd \in fdset' PROVE itc' # <<>>
  <2>1. p = 1 /\ stage = 1 /\ itc' = itc
    BY <1>2, <1>3, <1>4 DEF AcceptStage, ItcStage
  <2> QED BY <1>2, <1>4, <2>1 DEF TypeInv, LoopInput, AcceptStage, ItcStage
<1> QED BY <1>1, <1>2, <1>4 DEF LoopInput, AcceptStage

LEMMA StageRange ==
    /\ AcceptStage \in 1..(LoopEnd - 1) /\ ItcStage \in 1..(LoopEnd - 1)
    /\ \A i \in Slot : /\ TimerStage(i) \in 1..(LoopEnd - 1) /\ TimerStage(i) > ItcStage
                       /\ TcpStage(i) \in 1..(LoopEnd - 1) /\ TcpStage(i) > ItcStage
  BY ClidConstants DEF AcceptStage, ItcStage, TimerStage, TcpStage, LoopEnd, Slot

\* The loop selects the socket of a connected client only.
LEMMA SelectedSocket ==
    ASSUME TypeInv, NEW i \in Slot, At(TcpStage(i))
    PROVE  Connected(i) /\ clients[i].fd \in Fd /\ ConnOf(i) \in Conn
<1>1. Connected(i)
  BY ClidConstants DEF At, Selected, TcpStage, TimerStage, AcceptStage, ItcStage, Slot
<1>2. clients[i].fd \in Fd
  BY <1>1 DEF TypeInv, TypeOK, Connected
<1> QED BY <1>1, <1>2 DEF TypeInv, SocketsHeld, ConnOf

LEMMA SendType ==
    ASSUME TypeInv, NEW d, NEW m \in ReplyKind, Send(d, m)
    PROVE  s2c' \in [Conn -> Seq(ReplyKind)] /\ peer' \in [Conn -> PeerState]
<1>1. s2c \in [Conn -> Seq(ReplyKind)] /\ peer \in [Conn -> PeerState]
  BY DEF TypeInv, TypeOK
<1>2. s2c' \in [Conn -> Seq(ReplyKind)]
  <2>1. \A c \in Conn : Append(s2c[c], m) \in Seq(ReplyKind)
    BY <1>1
  <2>2. [s2c EXCEPT ![sock[d]] = Append(@, m)] \in [Conn -> Seq(ReplyKind)]
    BY <1>1, <2>1
  <2> QED BY <1>1, <2>2 DEF Send
<1>3. peer' \in [Conn -> PeerState]
  BY <1>1 DEF Send, PeerState
<1> QED BY <1>2, <1>3

-----------------------------------------------------------------------------
(***************************************************************************)
(* Type correctness, by groups of variables.                               *)
(***************************************************************************)
KernelTypeOK ==
    /\ sock \in [Fd -> Conn \cup {NoConn}] /\ alarm \in [Fd -> AlarmState]
    /\ peer \in [Conn -> PeerState] /\ backlog \in Seq(Conn)
    /\ c2s \in [Conn -> Seq(Requests)] /\ s2c \in [Conn -> Seq(ReplyKind)]
ClientTypeOK ==
    /\ clients \in [Slot -> ClientType] /\ client_tree \in Seq(Slot)
    /\ m_job_id \in 0..(JobIdMod - 1) /\ running \in BOOLEAN
LoopTypeOK == stage \in 0..LoopEnd /\ fdset \subseteq {tcp_fd, mbox_fd} \cup Fd
EnvTypeOK  == sent \in 0..MaxRequests /\ itc \in Seq(ItcMsg) /\ atApp \subseteq Jobs

LEMMA TypeGroups ==
    TypeOK <=> KernelTypeOK /\ ClientTypeOK /\ CmdTypeOK /\ LoopTypeOK /\ EnvTypeOK
  BY DEF TypeOK, KernelTypeOK, ClientTypeOK, LoopTypeOK, EnvTypeOK, ClientType

LEMMA TypeGroupsPrime ==
    KernelTypeOK' /\ ClientTypeOK' /\ CmdTypeOK' /\ LoopTypeOK' /\ EnvTypeOK' => TypeOK'
  BY DEF TypeOK, KernelTypeOK, ClientTypeOK, LoopTypeOK, EnvTypeOK, ClientType

\* What a handler leaves alone keeps its type.
LEMMA UnchangedTypes ==
    /\ KernelTypeOK /\ UNCHANGED kernelVars => KernelTypeOK'
    /\ ClientTypeOK /\ UNCHANGED clientVars => ClientTypeOK'
    /\ CmdTypeOK /\ UNCHANGED cmdVars => CmdTypeOK'
    /\ LoopTypeOK /\ UNCHANGED loopVars => LoopTypeOK'
    /\ EnvTypeOK /\ UNCHANGED envVars => EnvTypeOK'
  BY DEF KernelTypeOK, kernelVars, ClientTypeOK, clientVars, CmdTypeOK, cmdVars,
         LoopTypeOK, loopVars, EnvTypeOK, envVars

LEMMA AcceptType ==
    ASSUME TypeInv, handle_accept_new_connection, backlog # <<>>
    PROVE  KernelTypeOK' /\ ClientTypeOK'
<1>1. KernelTypeOK /\ ClientTypeOK
  BY TypeGroups DEF TypeInv
<1>2. PICK d \in Fd :
        /\ sock' = [sock EXCEPT ![d] = Head(backlog)]
        /\ \/ running' = FALSE /\ UNCHANGED <<clients, client_tree>>
           \/ \E i \in Slot :
                /\ clients' = [clients EXCEPT ![i].fd = d]
                /\ client_tree' \in Inserts(client_tree, ByFd(clients'), d, i)
                /\ running' = running
  BY DEF handle_accept_new_connection
<1>3. KernelTypeOK'
  <2>1. Head(backlog) \in Conn /\ Tail(backlog) \in Seq(Conn)
    BY <1>1 DEF KernelTypeOK
  <2>2. sock' \in [Fd -> Conn \cup {NoConn}]
    BY <1>1, <1>2, <2>1 DEF KernelTypeOK
  <2> QED BY <1>1, <2>1, <2>2 DEF KernelTypeOK, handle_accept_new_connection
<1>4. CASE running' = FALSE /\ UNCHANGED <<clients, client_tree>>
  BY <1>1, <1>3, <1>4 DEF ClientTypeOK, handle_accept_new_connection
<1>5. ASSUME NEW i \in Slot,
             clients' = [clients EXCEPT ![i].fd = d],
             client_tree' \in Inserts(client_tree, ByFd(clients'), d, i),
             running' = running
      PROVE  ClientTypeOK'
  <2>1. clients' \in [Slot -> ClientType]
    BY <1>1, <1>5 DEF ClientTypeOK, ClientType
  <2>2. client_tree' \in Seq(Slot)
    BY <1>1, <1>5, InsertsElements DEF ClientTypeOK
  <2> QED BY <1>1, <1>5, <2>1, <2>2 DEF ClientTypeOK, handle_accept_new_connection
<1> QED BY <1>2, <1>3, <1>4, <1>5

LEMMA ReleaseType ==
    ASSUME TypeInv, NEW d \in Fd, release_shell_client_resources(d)
    PROVE  KernelTypeOK' /\ ClientTypeOK'
<1>1. KernelTypeOK /\ ClientTypeOK
  BY TypeGroups DEF TypeInv
<1>2. UNCHANGED <<backlog, c2s, s2c, m_job_id, running>>
  BY DEF release_shell_client_resources
<1>3. CASE UNCHANGED <<clients, client_tree, sock, alarm, peer>>
  BY <1>1, <1>2, <1>3 DEF KernelTypeOK, ClientTypeOK
<1>4. ASSUME NEW i \in Found(client_tree, ByFd(clients), d),
             clients' = [clients EXCEPT ![i] = FreeSlot],
             client_tree' \in Deletes(client_tree, ByFd(clients'), NoFd),
             sock' = [sock EXCEPT ![d] = NoConn],
             alarm' = [e \in Fd |-> IF e = clients[i].timer THEN "none" ELSE alarm[e]],
             peer' = [peer EXCEPT ![sock[d]] = "dead"]
      PROVE  KernelTypeOK' /\ ClientTypeOK'
  <2>1. FreeSlot \in ClientType
    BY ClidConstants DEF FreeSlot, ClientType, IdleJob
  <2>2. clients' \in [Slot -> ClientType]
    BY <1>1, <1>4, <2>1 DEF ClientTypeOK
  <2>3. client_tree' \in Seq(Slot)
    BY <1>1, <1>4, DeletesElements DEF ClientTypeOK
  <2>4. sock' \in [Fd -> Conn \cup {NoConn}]
    BY <1>1, <1>4 DEF KernelTypeOK
  <2>5. alarm' \in [Fd -> AlarmState]
    BY <1>1, <1>4 DEF KernelTypeOK, AlarmState
  <2>6. peer' \in [Conn -> PeerState]
    BY <1>1, <1>4 DEF KernelTypeOK, PeerState
  <2> QED BY <1>1, <1>2, <2>2, <2>3, <2>4, <2>5, <2>6 DEF KernelTypeOK, ClientTypeOK
<1> QED BY <1>3, <1>4 DEF release_shell_client_resources

LEMMA ReplyType ==
    ASSUME TypeInv, NEW job, handle_receive_exe_cmd_reply(job)
    PROVE  KernelTypeOK' /\ ClientTypeOK'
<1>1. KernelTypeOK /\ ClientTypeOK
  BY TypeGroups DEF TypeInv
<1>2. UNCHANGED <<sock, backlog, c2s, client_tree, m_job_id, running>>
  BY DEF handle_receive_exe_cmd_reply
<1>3. CASE UNCHANGED <<clients, alarm, peer, s2c>>
  BY <1>1, <1>2, <1>3 DEF KernelTypeOK, ClientTypeOK
<1>4. ASSUME NEW i,
             Send(clients[i].fd, "answer"),
             IF Sends(clients[i].fd)
             THEN /\ clients' = [clients EXCEPT ![i].job = IdleJob]
                  /\ alarm' = [e \in Fd |-> IF e = clients[i].timer THEN "fired" ELSE alarm[e]]
             ELSE UNCHANGED <<clients, alarm>>
      PROVE  KernelTypeOK' /\ ClientTypeOK'
  <2>1. s2c' \in [Conn -> Seq(ReplyKind)] /\ peer' \in [Conn -> PeerState]
    BY <1>4, SendType DEF ReplyKind
  <2>2. alarm' \in [Fd -> AlarmState]
    BY <1>1, <1>4 DEF KernelTypeOK, AlarmState
  <2>3. clients' \in [Slot -> ClientType]
    <3>1. IdleJob \in 0..(JobIdMod - 1)
      BY ClidConstants DEF IdleJob
    <3>2. [clients EXCEPT ![i].job = IdleJob] \in [Slot -> ClientType]
      BY <1>1, <3>1 DEF ClientTypeOK, ClientType
    <3> QED BY <1>1, <1>4, <3>2 DEF ClientTypeOK
  <2> QED BY <1>1, <1>2, <2>1, <2>2, <2>3 DEF KernelTypeOK, ClientTypeOK
<1> QED BY <1>3, <1>4 DEF handle_receive_exe_cmd_reply

LEMMA ExpiryType ==
    ASSUME TypeInv, NEW t, handle_job_timer_expired(t)
    PROVE  KernelTypeOK' /\ ClientTypeOK'
<1>1. KernelTypeOK /\ ClientTypeOK
  BY TypeGroups DEF TypeInv
<1>2. UNCHANGED <<sock, alarm, backlog, c2s, client_tree, m_job_id>>
  BY DEF handle_job_timer_expired
<1>3. CASE UNCHANGED <<clients, peer, s2c, running>>
  BY <1>1, <1>2, <1>3 DEF KernelTypeOK, ClientTypeOK
<1>4. ASSUME NEW i,
             Send(clients[i].fd, "expired"),
             IF Sends(clients[i].fd)
             THEN clients' = [clients EXCEPT ![i].job = IdleJob] /\ running' = running
             ELSE running' = FALSE /\ clients' = clients
      PROVE  KernelTypeOK' /\ ClientTypeOK'
  <2>1. s2c' \in [Conn -> Seq(ReplyKind)] /\ peer' \in [Conn -> PeerState]
    BY <1>4, SendType DEF ReplyKind
  <2>2. clients' \in [Slot -> ClientType] /\ running' \in BOOLEAN
    <3>1. IdleJob \in 0..(JobIdMod - 1)
      BY ClidConstants DEF IdleJob
    <3>2. [clients EXCEPT ![i].job = IdleJob] \in [Slot -> ClientType]
      BY <1>1, <3>1 DEF ClientTypeOK, ClientType
    <3> QED BY <1>1, <1>4, <3>2 DEF ClientTypeOK
  <2> QED BY <1>1, <1>2, <2>1, <2>2 DEF KernelTypeOK, ClientTypeOK
<1> QED BY <1>3, <1>4 DEF handle_job_timer_expired

LEMMA RegType ==
    ASSUME CmdTypeOK, NEW n \in Names, NEW m \in Mbox, handle_receive_reg_cmd_request(n, m)
    PROVE  CmdTypeOK'
<1>1. CASE UNCHANGED cmdVars
  BY <1>1, UnchangedTypes
<1>2. CASE RegAccepted(n, m)
  <2>1. PICK i \in CmdSlot :
          /\ cmds' = [cmds EXCEPT ![i] = [name |-> n, mbox |-> m]]
          /\ cmd_tree' \in Inserts(cmd_tree, CmdName(cmds'), n, i)
    BY <1>2 DEF RegAccepted
  <2>2. cmds' \in [CmdSlot -> Command]
    BY <2>1 DEF CmdTypeOK, Command
  <2>3. cmd_tree' \in Seq(CmdSlot)
    BY <2>1, InsertsElements DEF CmdTypeOK
  <2>4. cmd_count' \in 0..(CountMod - 1)
    <3>1. cmd_count \in Nat /\ CountMod \in Nat /\ CountMod > 0
      BY CmdConstants DEF CmdTypeOK
    <3>2. cmd_count' = (cmd_count + 1) % CountMod
      BY <1>2 DEF RegAccepted
    <3> QED BY <3>1, <3>2
  <2> QED BY <2>2, <2>3, <2>4 DEF CmdTypeOK
<1> QED BY <1>1, <1>2 DEF handle_receive_reg_cmd_request, RegIgnored

LEMMA DeregType ==
    ASSUME CmdTypeOK, NEW n, handle_receive_dereg_cmd_request(n)
    PROVE  CmdTypeOK'
<1>1. CASE UNCHANGED cmdVars
  BY <1>1, UnchangedTypes
<1>2. ASSUME NEW i \in Found(cmd_tree, CmdName(cmds), n),
             cmds' = [cmds EXCEPT ![i] = FreeCmd],
             cmd_tree' \in Deletes(cmd_tree, CmdName(cmds'), Unnamed),
             UNCHANGED cmd_count
      PROVE  CmdTypeOK'
  <2>1. FreeCmd \in Command
    BY DEF FreeCmd, Command
  <2>2. cmds' \in [CmdSlot -> Command]
    BY <1>2, <2>1 DEF CmdTypeOK
  <2>3. cmd_tree' \in Seq(CmdSlot)
    BY <1>2, DeletesElements DEF CmdTypeOK
  <2> QED BY <1>2, <2>2, <2>3 DEF CmdTypeOK
<1> QED BY <1>1, <1>2 DEF handle_receive_dereg_cmd_request

LEMMA JobTimerType ==
    ASSUME TypeInv, NEW k, NEW job \in 0..(JobIdMod - 1), restart_job_timer(k, job)
    PROVE  clients' \in [Slot -> ClientType] /\ alarm' \in [Fd -> AlarmState]
<1>1. clients \in [Slot -> ClientType] /\ alarm \in [Fd -> AlarmState]
  BY TypeGroups DEF TypeInv, KernelTypeOK, ClientTypeOK
<1>2. PICK t \in Fd :
        /\ clients' = [clients EXCEPT ![k].timer = t, ![k].job = job]
        /\ alarm' = [alarm EXCEPT ![t] = "armed"]
  BY DEF restart_job_timer
<1>3. clients' \in [Slot -> ClientType]
  BY <1>1, <1>2 DEF ClientType
<1>4. alarm' \in [Fd -> AlarmState]
  BY <1>1, <1>2 DEF AlarmState
<1> QED BY <1>3, <1>4

LEMMA TakenRequestType ==
    ASSUME c2s \in [Conn -> Seq(Requests)], NEW c \in Conn, c2s[c] # <<>>
    PROVE  [c2s EXCEPT ![c] = Tail(@)] \in [Conn -> Seq(Requests)]
<1>1. Tail(c2s[c]) \in Seq(Requests)
  BY HeadTailProperties
<1> QED BY <1>1

LEMMA ExeRequestType ==
    ASSUME TypeInv, NEW i \in Slot, ReceiveExeRequest(i)
    PROVE  KernelTypeOK' /\ ClientTypeOK' /\ EnvTypeOK'
<1>1. KernelTypeOK /\ ClientTypeOK /\ EnvTypeOK /\ ConnOf(i) \in Conn
  BY TypeGroups, SelectedSocket DEF TypeInv, ReceiveExeRequest, Receive
<1>2. /\ UNCHANGED <<sock, peer, backlog, s2c, client_tree, running, sent, itc>>
      /\ c2s[ConnOf(i)] # <<>>
      /\ c2s' = [c2s EXCEPT ![ConnOf(i)] = Tail(@)]
      /\ m_job_id' = NextJobId(m_job_id) /\ m_job_id < JobIdMod - 1
  BY DEF ReceiveExeRequest, Receive, NoWrap
<1>3. m_job_id' \in 1..(JobIdMod - 1) /\ m_job_id' \in 0..(JobIdMod - 1)
  BY <1>1, <1>2, NextJobIdSkipsIdle DEF ClientTypeOK
<1>4. c2s' \in [Conn -> Seq(Requests)]
  BY <1>1, <1>2, TakenRequestType DEF KernelTypeOK
<1>6. CASE UNCHANGED <<clients, alarm, atApp>>
  BY <1>1, <1>2, <1>3, <1>4, <1>6 DEF KernelTypeOK, ClientTypeOK, EnvTypeOK
<1>7. ASSUME NEW k, restart_job_timer(k, m_job_id'),
             atApp' = atApp \/ atApp' = atApp \cup {[job |-> m_job_id', asker |-> ConnOf(i)]}
      PROVE  KernelTypeOK' /\ ClientTypeOK' /\ EnvTypeOK'
  <2>1. clients' \in [Slot -> ClientType] /\ alarm' \in [Fd -> AlarmState]
    BY <1>3, <1>7, JobTimerType
  <2>2. atApp' \subseteq Jobs
    BY <1>1, <1>3, <1>7 DEF EnvTypeOK, Jobs
  <2> QED BY <1>1, <1>2, <1>3, <1>4, <2>1, <2>2 DEF KernelTypeOK, ClientTypeOK, EnvTypeOK
<1> QED BY <1>6, <1>7 DEF ReceiveExeRequest, forward_exe_cmd_request

-----------------------------------------------------------------------------
(***************************************************************************)
(* SocketsHeld: only accept and release change who holds a socket.         *)
(***************************************************************************)
LEMMA AcceptHeld ==
    ASSUME TypeInv, handle_accept_new_connection, backlog # <<>>
    PROVE  SocketsHeld'
<1>1. KernelTypeOK /\ ClientTypeOK
  BY TypeGroups DEF TypeInv
<1>2. Head(backlog) \in Conn
  BY <1>1, HeadTailProperties DEF KernelTypeOK
<1>3. PICK d \in Fd :
        /\ sock[d] = NoConn
        /\ sock' = [sock EXCEPT ![d] = Head(backlog)]
        /\ \/ clients' = clients
           \/ \E i \in Slot : ~Connected(i) /\ clients' = [clients EXCEPT ![i].fd = d]
  BY DEF handle_accept_new_connection, LowestFreeFd, FreeFd, FirstFreeSlot
<1>4. \A i \in Slot : Connected(i) => /\ clients[i].fd # d
                                      /\ sock'[clients[i].fd] \in Conn
  BY <1>1, <1>2, <1>3, ClidConstants DEF TypeInv, SocketsHeld, KernelTypeOK
<1>5. CASE clients' = clients
  BY <1>4, <1>5 DEF TypeInv, SocketsHeld, Connected
<1>6. ASSUME NEW i \in Slot, ~Connected(i), clients' = [clients EXCEPT ![i].fd = d]
      PROVE  SocketsHeld'
  <2>1. clients'[i].fd = d /\ sock'[d] \in Conn /\ d # NoFd
    BY <1>1, <1>2, <1>3, <1>6 DEF KernelTypeOK, ClientTypeOK, ClientType, NoFd, Fd
  <2>2. \A j \in Slot : j # i => clients'[j] = clients[j]
    BY <1>1, <1>6 DEF ClientTypeOK
  <2>3. \A j \in Slot : j # i => clients[j].fd # d
    BY <1>4, <2>1 DEF Connected
  <2> SUFFICES ASSUME NEW j \in Slot, Connected(j)'
               PROVE  /\ sock'[clients'[j].fd] \in Conn
                      /\ \A k \in Slot : clients'[k].fd = clients'[j].fd => k = j
    BY DEF SocketsHeld
  <2>4. CASE j = i
    BY <2>1, <2>2, <2>3, <2>4
  <2>5. CASE j # i
    <3>1. Connected(j)
      BY <2>2, <2>5 DEF Connected
    <3> QED BY <1>4, <2>1, <2>2, <2>3, <2>5, <3>1 DEF TypeInv, SocketsHeld
  <2> QED BY <2>4, <2>5
<1> QED BY <1>3, <1>5, <1>6

LEMMA ReleaseHeld ==
    ASSUME TypeInv, NEW d \in Fd, release_shell_client_resources(d)
    PROVE  SocketsHeld'
<1>1. KernelTypeOK /\ ClientTypeOK
  BY TypeGroups DEF TypeInv
<1>2. CASE UNCHANGED <<clients, client_tree, sock, alarm, peer>>
  BY <1>2 DEF TypeInv, SocketsHeld, Connected
<1>3. ASSUME NEW i \in Found(client_tree, ByFd(clients), d),
             clients' = [clients EXCEPT ![i] = FreeSlot],
             sock' = [sock EXCEPT ![d] = NoConn]
      PROVE  SocketsHeld'
  <2>1. i \in Slot /\ clients[i].fd = d
    BY <1>1, <1>3, FoundElements DEF ByFd, ClientTypeOK
  <2>2. ~Connected(i)' /\ \A j \in Slot : j # i => clients'[j] = clients[j]
    BY <1>1, <1>3, <2>1 DEF Connected, ClientTypeOK, FreeSlot
  <2>3. clients'[i].fd = NoFd
    BY <2>2 DEF Connected
  <2>4. \A j \in Slot : Connected(j)' => j # i /\ Connected(j)
    BY <2>2 DEF Connected
  <2>5. \A j \in Slot : Connected(j)' => clients[j].fd # d
    BY <2>1, <2>4 DEF TypeInv, SocketsHeld
  <2> SUFFICES ASSUME NEW j \in Slot, Connected(j)'
               PROVE  /\ sock'[clients'[j].fd] \in Conn
                      /\ \A k \in Slot : clients'[k].fd = clients'[j].fd => k = j
    BY DEF SocketsHeld
  <2>6. /\ Connected(j) /\ j # i /\ clients'[j] = clients[j]
        /\ clients[j].fd # d /\ clients[j].fd # NoFd
    BY <2>2, <2>4, <2>5 DEF Connected
  <2>7. sock'[clients'[j].fd] \in Conn
    BY <1>1, <1>3, <2>6 DEF TypeInv, SocketsHeld, KernelTypeOK
  <2>8. \A k \in Slot : clients'[k].fd = clients'[j].fd => k = j
    BY <2>2, <2>3, <2>6 DEF TypeInv, SocketsHeld
  <2> QED BY <2>7, <2>8
<1> QED BY <1>2, <1>3 DEF release_shell_client_resources

\* The other handlers leave descriptors and sockets alone.
LEMMA OthersHeld ==
    ASSUME TypeInv, sock' = sock, \A i \in Slot : clients'[i].fd = clients[i].fd
    PROVE  SocketsHeld'
  BY DEF TypeInv, SocketsHeld, Connected

LEMMA FdsKept ==
    ASSUME ClientTypeOK, NEW i, NEW v, NEW w,
           \/ clients' = clients
           \/ clients' = [clients EXCEPT ![i].job = v]
           \/ clients' = [clients EXCEPT ![i].timer = w, ![i].job = v]
    PROVE  \A j \in Slot : clients'[j].fd = clients[j].fd
  BY DEF ClientTypeOK, ClientType

-----------------------------------------------------------------------------
LEMMA BuildFdSetType == TypeInv /\ BuildFdSet => TypeInv'
<1> SUFFICES ASSUME TypeInv, BuildFdSet PROVE TypeInv'
  OBVIOUS
<1>1. TypeOK /\ SocketsHeld /\ UNCHANGED <<kernelVars, clientVars, cmdVars, envVars>>
  BY DEF TypeInv, BuildFdSet
<1>2. Watched \subseteq {tcp_fd, mbox_fd} \cup Fd
  BY <1>1 DEF Watched, TypeOK, Connected
<1>3. LoopTypeOK' /\ LoopInput'
  BY <1>2, ClidConstants
  DEF BuildFdSet, LoopTypeOK, LoopInput, LoopEnd, AcceptStage, ItcStage
<1>4. KernelTypeOK' /\ ClientTypeOK' /\ CmdTypeOK' /\ EnvTypeOK'
  BY <1>1, TypeGroups, UnchangedTypes
<1>5. SocketsHeld'
  BY <1>1 DEF SocketsHeld, Connected, kernelVars, clientVars
<1> QED BY <1>3, <1>4, <1>5, TypeGroupsPrime DEF TypeInv

LEMMA SelectReturnsType == TypeInv /\ SelectReturns => TypeInv'
<1> SUFFICES ASSUME TypeInv, SelectReturns PROVE TypeInv'
  OBVIOUS
<1>1. TypeOK /\ SocketsHeld /\ UNCHANGED <<kernelVars, clientVars, cmdVars, envVars>>
  BY DEF TypeInv, SelectReturns
<1>2. fdset' = {d \in fdset : HasInput(d)} /\ stage' = 1
  BY DEF SelectReturns, AcceptStage
<1>3. /\ tcp_fd \in fdset' => backlog' # <<>>
      /\ mbox_fd \in fdset' => itc' # <<>>
  BY <1>1, <1>2, ClidConstants
  DEF HasInput, Readable, tcp_fd, mbox_fd, Fd, kernelVars, envVars
<1>4. LoopInput'
  BY <1>3 DEF LoopInput
<1>5. LoopTypeOK'
  BY <1>1, <1>2, ClidConstants DEF TypeOK, LoopTypeOK, LoopEnd
<1>6. KernelTypeOK' /\ ClientTypeOK' /\ CmdTypeOK' /\ EnvTypeOK'
  BY <1>1, TypeGroups, UnchangedTypes
<1>7. SocketsHeld'
  BY <1>1 DEF SocketsHeld, Connected, kernelVars, clientVars
<1> QED BY <1>4, <1>5, <1>6, <1>7, TypeGroupsPrime DEF TypeInv

LEMMA AcceptInv == TypeInv /\ Accept => TypeInv'
<1> SUFFICES ASSUME TypeInv, Accept PROVE TypeInv'
  OBVIOUS
<1>1. /\ At(AcceptStage) /\ handle_accept_new_connection
      /\ UNCHANGED cmdVars /\ UNCHANGED envVars /\ itc' = itc
  BY DEF Accept, envVars
<1>2. backlog # <<>>
  <2>1. stage = AcceptStage /\ tcp_fd \in fdset
    BY <1>1, ClidConstants
    DEF At, Selected, AcceptStage, ItcStage, TimerStage, TcpStage, Slot
  <2> QED BY <2>1 DEF TypeInv, LoopInput
<1>3. KernelTypeOK' /\ ClientTypeOK' /\ SocketsHeld'
  BY <1>1, <1>2, AcceptType, AcceptHeld
<1>4. LoopTypeOK' /\ LoopInput'
  BY <1>1, StageAdvances, StageRange DEF LoopTypeOK
<1>5. CmdTypeOK' /\ EnvTypeOK'
  BY <1>1, TypeGroups, UnchangedTypes DEF TypeInv
<1> QED BY <1>3, <1>4, <1>5, TypeGroupsPrime DEF TypeInv

\* The mailbox is not empty when its stage comes.
LEMMA ItcMessage ==
    ASSUME TypeInv, At(ItcStage)
    PROVE  itc # <<>> /\ Head(itc) \in ItcMsg /\ Tail(itc) \in Seq(ItcMsg)
<1>1. stage \in AcceptStage..ItcStage /\ mbox_fd \in fdset
  BY ClidConstants
  DEF At, Selected, AcceptStage, ItcStage, TimerStage, TcpStage, Slot
<1>2. itc # <<>> /\ itc \in Seq(ItcMsg)
  BY <1>1 DEF TypeInv, TypeOK, LoopInput
<1> QED BY <1>2, HeadTailProperties

LEMMA ReceiveItcInv == TypeInv /\ ReceiveItc => TypeInv'
<1> SUFFICES ASSUME TypeInv, ReceiveItc PROVE TypeInv'
  OBVIOUS
<1> DEFINE msg == Head(itc)
<1>1. At(ItcStage) /\ itc' = Tail(itc) /\ UNCHANGED <<sent, atApp>>
  BY DEF ReceiveItc
<1>2. msg \in ItcMsg /\ Tail(itc) \in Seq(ItcMsg)
  BY <1>1, ItcMessage
<1>3. TypeOK /\ SocketsHeld
  BY DEF TypeInv
<1>4. EnvTypeOK'
  BY <1>1, <1>2, <1>3 DEF EnvTypeOK, TypeOK
<1>5. LoopTypeOK' /\ LoopInput'
  BY <1>1, StageAdvances, StageRange DEF LoopTypeOK, ItcStage
<1>6. CASE /\ msg.kind = "reg"
           /\ handle_receive_reg_cmd_request(msg.name, msg.mbox)
           /\ UNCHANGED <<kernelVars, clientVars>>
  <2>1. msg.name \in Names /\ msg.mbox \in Mbox
    BY <1>2, <1>6 DEF ItcMsg, RegMsg, DeregMsg, ReplyMsg
  <2>2. CmdTypeOK'
    BY <1>3, <1>6, <2>1, RegType DEF TypeOK
  <2>3. KernelTypeOK' /\ ClientTypeOK' /\ SocketsHeld'
    BY <1>3, <1>6, TypeGroups, UnchangedTypes DEF SocketsHeld, Connected, kernelVars, clientVars
  <2> QED BY <1>4, <1>5, <2>2, <2>3, TypeGroupsPrime DEF TypeInv
<1>7. CASE /\ msg.kind = "dereg"
           /\ handle_receive_dereg_cmd_request(msg.name)
           /\ UNCHANGED <<kernelVars, clientVars>>
  <2>1. msg.name \in Names
    BY <1>2, <1>7 DEF ItcMsg, RegMsg, DeregMsg, ReplyMsg
  <2>2. CmdTypeOK'
    BY <1>3, <1>7, DeregType DEF TypeOK
  <2>3. KernelTypeOK' /\ ClientTypeOK' /\ SocketsHeld'
    BY <1>3, <1>7, TypeGroups, UnchangedTypes DEF SocketsHeld, Connected, kernelVars, clientVars
  <2> QED BY <1>4, <1>5, <2>2, <2>3, TypeGroupsPrime DEF TypeInv
<1>8. CASE /\ msg.kind = "reply"
           /\ handle_receive_exe_cmd_reply(msg.job)
           /\ UNCHANGED cmdVars
  <2>1. KernelTypeOK' /\ ClientTypeOK' /\ CmdTypeOK'
    BY <1>3, <1>8, ReplyType, UnchangedTypes DEF TypeOK
  <2>2. sock' = sock /\ \A j \in Slot : clients'[j].fd = clients[j].fd
    BY <1>3, <1>8, TypeGroups, FdsKept DEF handle_receive_exe_cmd_reply
  <2>3. SocketsHeld'
    BY <2>2, OthersHeld
  <2> QED BY <1>4, <1>5, <2>1, <2>3, TypeGroupsPrime DEF TypeInv
<1> QED BY <1>6, <1>7, <1>8 DEF ReceiveItc

LEMMA ExpireTimerInv ==
    ASSUME TypeInv, NEW i \in Slot, ExpireTimer(i) PROVE TypeInv'
<1>1. At(TimerStage(i)) /\ handle_job_timer_expired(clients[i].timer)
      /\ UNCHANGED cmdVars /\ UNCHANGED envVars
  BY DEF ExpireTimer
<1>2. KernelTypeOK' /\ ClientTypeOK'
  BY <1>1, ExpiryType
<1>3. CmdTypeOK' /\ EnvTypeOK'
  BY <1>1, TypeGroups, UnchangedTypes DEF TypeInv
<1>4. LoopTypeOK' /\ LoopInput'
  BY <1>1, StageAdvances, StageRange DEF LoopTypeOK, ItcStage
<1>5. sock' = sock /\ \A j \in Slot : clients'[j].fd = clients[j].fd
  BY <1>1, TypeGroups, FdsKept DEF handle_job_timer_expired, TypeInv
<1> QED BY <1>2, <1>3, <1>4, <1>5, OthersHeld, TypeGroupsPrime DEF TypeInv

LEMMA ReceiveListInv ==
    ASSUME TypeInv, NEW i \in Slot, ReceiveListRequest(i) PROVE TypeInv'
<1>1. At(TcpStage(i)) /\ c2s[ConnOf(i)] # <<>> /\ c2s' = [c2s EXCEPT ![ConnOf(i)] = Tail(@)]
  BY DEF ReceiveListRequest, Receive
<1>2. UNCHANGED <<sock, alarm, backlog>> /\ UNCHANGED clientVars
      /\ UNCHANGED cmdVars /\ UNCHANGED envVars
  BY DEF ReceiveListRequest
<1>3. ConnOf(i) \in Conn
  BY <1>1, SelectedSocket
<1>4. s2c' \in [Conn -> Seq(ReplyKind)] /\ peer' \in [Conn -> PeerState]
  BY SendType DEF ReceiveListRequest, ReplyKind
<1>5. KernelTypeOK /\ ClientTypeOK /\ CmdTypeOK /\ EnvTypeOK
  BY TypeGroups DEF TypeInv
<1>6. c2s' \in [Conn -> Seq(Requests)]
  BY <1>1, <1>3, <1>5, TakenRequestType DEF KernelTypeOK
<1>7. KernelTypeOK'
  BY <1>2, <1>4, <1>5, <1>6 DEF KernelTypeOK
<1>8. ClientTypeOK' /\ CmdTypeOK' /\ EnvTypeOK'
  BY <1>2, <1>5, UnchangedTypes
<1>9. LoopTypeOK' /\ LoopInput'
  BY <1>1, StageAdvances, StageRange DEF LoopTypeOK, ItcStage
<1>10. SocketsHeld'
  BY <1>2, OthersHeld DEF clientVars
<1> QED BY <1>7, <1>8, <1>9, <1>10, TypeGroupsPrime DEF TypeInv

LEMMA ReceiveExeInv ==
    ASSUME TypeInv, NEW i \in Slot, ReceiveExeRequest(i) PROVE TypeInv'
<1>1. At(TcpStage(i)) /\ UNCHANGED cmdVars /\ sock' = sock
  BY DEF ReceiveExeRequest, Receive
<1>2. KernelTypeOK' /\ ClientTypeOK' /\ EnvTypeOK'
  BY ExeRequestType
<1>3. CmdTypeOK'
  BY <1>1, TypeGroups, UnchangedTypes DEF TypeInv
<1>4. LoopTypeOK' /\ LoopInput'
  BY <1>1, StageAdvances, StageRange DEF LoopTypeOK, ItcStage
<1>5. \A j \in Slot : clients'[j].fd = clients[j].fd
  <2>1. ClientTypeOK
    BY TypeGroups DEF TypeInv
  <2>2. CASE clients' = clients
    BY <2>2
  <2>3. CASE \E k \in Slot, t \in Fd :
               clients' = [clients EXCEPT ![k].timer = t, ![k].job = m_job_id']
    BY <2>1, <2>3, FdsKept
  <2>4. ASSUME NEW k \in Found(client_tree, ByFd(clients), clients[i].fd),
               restart_job_timer(k, m_job_id')
        PROVE  \E s \in Slot, t \in Fd :
                 clients' = [clients EXCEPT ![s].timer = t, ![s].job = m_job_id']
    <3>1. k \in Slot
      BY <2>1, FoundElements DEF ClientTypeOK
    <3> QED BY <3>1, <2>4 DEF restart_job_timer
  <2> QED BY <2>2, <2>3, <2>4 DEF ReceiveExeRequest
<1> QED BY <1>1, <1>2, <1>3, <1>4, <1>5, OthersHeld, TypeGroupsPrime DEF TypeInv

LEMMA ReceiveEofInv ==
    ASSUME TypeInv, NEW i \in Slot, ReceiveEof(i) PROVE TypeInv'
<1>1. At(TcpStage(i)) /\ release_shell_client_resources(clients[i].fd)
      /\ UNCHANGED cmdVars /\ UNCHANGED envVars
  BY DEF ReceiveEof
<1>2. KernelTypeOK' /\ ClientTypeOK' /\ SocketsHeld'
  BY <1>1, SelectedSocket, ReleaseType, ReleaseHeld
<1>3. CmdTypeOK' /\ EnvTypeOK'
  BY <1>1, TypeGroups, UnchangedTypes DEF TypeInv
<1>4. LoopTypeOK' /\ LoopInput'
  BY <1>1, StageAdvances, StageRange DEF LoopTypeOK, ItcStage
<1> QED BY <1>2, <1>3, <1>4, TypeGroupsPrime DEF TypeInv

LEMMA ReceiveResetInv ==
    ASSUME TypeInv, NEW i \in Slot, ReceiveReset(i) PROVE TypeInv'
<1>1. At(TcpStage(i)) /\ running' = FALSE
      /\ UNCHANGED kernelVars /\ UNCHANGED <<clients, client_tree, m_job_id>>
      /\ UNCHANGED cmdVars /\ UNCHANGED envVars
  BY DEF ReceiveReset
<1>2. KernelTypeOK' /\ CmdTypeOK' /\ EnvTypeOK'
  BY <1>1, TypeGroups, UnchangedTypes DEF TypeInv
<1>3. ClientTypeOK'
  BY <1>1, TypeGroups DEF TypeInv, ClientTypeOK
<1>4. LoopTypeOK' /\ LoopInput'
  BY <1>1, StageAdvances, StageRange DEF LoopTypeOK, ItcStage
<1>5. SocketsHeld'
  BY <1>1, OthersHeld DEF kernelVars
<1> QED BY <1>2, <1>3, <1>4, <1>5, TypeGroupsPrime DEF TypeInv

-----------------------------------------------------------------------------
\* The shells, the applications and the clock touch neither the client table
\* nor the loop, and only add to what the daemon has been told to read.
LEMMA OutsideFrame ==
    ASSUME TypeInv, UNCHANGED clientVars, UNCHANGED cmdVars, UNCHANGED loopVars, sock' = sock,
           KernelTypeOK', EnvTypeOK', backlog # <<>> => backlog' # <<>>, itc # <<>> => itc' # <<>>
    PROVE  TypeInv'
<1>1. ClientTypeOK' /\ CmdTypeOK' /\ LoopTypeOK'
  BY TypeGroups, UnchangedTypes DEF TypeInv
<1>2. LoopInput'
  BY DEF TypeInv, LoopInput, loopVars
<1>3. SocketsHeld'
  BY OthersHeld DEF clientVars
<1> QED BY <1>1, <1>2, <1>3, TypeGroupsPrime DEF TypeInv

LEMMA ShellsInv == TypeInv /\ Shells => TypeInv'
<1> SUFFICES ASSUME TypeInv, NEW c \in Conn,
                    ShellConnects(c) \/ ShellRequests(c) \/ ShellReads(c) \/ ShellHangsUp(c)
             PROVE  TypeInv'
  BY DEF Shells
<1>1. KernelTypeOK /\ EnvTypeOK
  BY TypeGroups DEF TypeInv
<1>2. CASE ShellConnects(c)
  <2>1. backlog' = Append(backlog, c) /\ backlog' \in Seq(Conn) /\ backlog' # <<>>
    <3>1. backlog \in Seq(Conn) /\ backlog' = Append(backlog, c)
      BY <1>1, <1>2 DEF ShellConnects, Connect, KernelTypeOK
    <3> QED BY <3>1, AppendProperties
  <2>2. KernelTypeOK'
    BY <1>1, <1>2, <2>1 DEF ShellConnects, Connect, KernelTypeOK, PeerState
  <2> QED BY <1>1, <1>2, <2>1, <2>2, OutsideFrame, UnchangedTypes
          DEF ShellConnects, Connect, envVars
<1>3. CASE ShellRequests(c)
  <2>1. PICK r \in Requests : c2s' = [c2s EXCEPT ![c] = Append(@, r)]
    BY <1>3 DEF ShellRequests, Request
  <2>2. Append(c2s[c], r) \in Seq(Requests)
    BY <1>1 DEF KernelTypeOK
  <2>3. c2s' \in [Conn -> Seq(Requests)]
    BY <1>1, <2>1, <2>2 DEF KernelTypeOK
  <2>4. KernelTypeOK'
    BY <1>1, <1>3, <2>3 DEF ShellRequests, Request, KernelTypeOK
  <2>5. EnvTypeOK'
    BY <1>1, <1>3, ClidConstants DEF ShellRequests, EnvTypeOK
  <2> QED BY <1>3, <2>4, <2>5, OutsideFrame DEF ShellRequests, Request
<1>4. CASE ShellReads(c)
  <2>1. Tail(s2c[c]) \in Seq(ReplyKind)
    BY <1>1, <1>4, HeadTailProperties DEF ShellReads, ReadReply, KernelTypeOK
  <2>2. s2c' \in [Conn -> Seq(ReplyKind)]
    BY <1>1, <1>4, <2>1 DEF ShellReads, ReadReply, KernelTypeOK
  <2>3. KernelTypeOK'
    BY <1>1, <1>4, <2>2 DEF ShellReads, ReadReply, KernelTypeOK
  <2> QED BY <1>1, <1>4, <2>3, OutsideFrame, UnchangedTypes DEF ShellReads, ReadReply, envVars
<1>5. CASE ShellHangsUp(c)
  <2>1. s2c' \in [Conn -> Seq(ReplyKind)] /\ peer' \in [Conn -> PeerState]
    BY <1>1, <1>5 DEF ShellHangsUp, Hangup, KernelTypeOK, PeerState
  <2>2. KernelTypeOK'
    BY <1>1, <1>5, <2>1 DEF ShellHangsUp, Hangup, KernelTypeOK
  <2> QED BY <1>1, <1>5, <2>2, OutsideFrame, UnchangedTypes DEF ShellHangsUp, Hangup, envVars
<1> QED BY <1>2, <1>3, <1>4, <1>5

LEMMA AppsInv == TypeInv /\ Apps => TypeInv'
<1> SUFFICES ASSUME TypeInv, NEW msg \in ItcMsg, AppSends(msg), atApp' \subseteq atApp
             PROVE  TypeInv'
  <2>1. \A n \in Names, m \in Mbox : RegMsg(n, m) \in ItcMsg
    BY DEF ItcMsg
  <2>2. \A n \in Deregs : DeregMsg(n) \in ItcMsg
    BY ClidConstants DEF ItcMsg
  <2>3. TypeInv => \A r \in atApp : ReplyMsg(r) \in ItcMsg
    BY DEF ItcMsg, TypeInv, TypeOK
  <2> QED BY <2>1, <2>2, <2>3 DEF Apps, AppRegisters, AppDeregisters, AppAnswers
<1>1. EnvTypeOK
  BY TypeGroups DEF TypeInv
<1>2. itc' = Append(itc, msg) /\ itc' \in Seq(ItcMsg) /\ itc' # <<>>
  BY <1>1, AppendProperties DEF AppSends, EnvTypeOK
<1>3. EnvTypeOK'
  BY <1>1, <1>2 DEF AppSends, EnvTypeOK
<1> QED BY <1>2, <1>3, OutsideFrame, TypeGroups, UnchangedTypes
        DEF AppSends, TypeInv, kernelVars

LEMMA ClockInv == TypeInv /\ Clock => TypeInv'
<1> SUFFICES ASSUME TypeInv, NEW d \in Fd, ClockTicks(d) PROVE TypeInv'
  BY DEF Clock
<1>1. KernelTypeOK /\ EnvTypeOK
  BY TypeGroups DEF TypeInv
<1>2. KernelTypeOK'
  BY <1>1 DEF ClockTicks, TimerExpires, KernelTypeOK, AlarmState
<1> QED BY <1>1, <1>2, OutsideFrame, UnchangedTypes DEF ClockTicks, TimerExpires, envVars

LEMMA StutterInv == TypeInv /\ UNCHANGED vars => TypeInv'
<1> SUFFICES ASSUME TypeInv, UNCHANGED vars PROVE TypeInv'
  OBVIOUS
<1>1. /\ UNCHANGED kernelVars /\ UNCHANGED clientVars /\ UNCHANGED cmdVars
      /\ UNCHANGED loopVars /\ UNCHANGED envVars
  BY DEF vars
<1> QED BY <1>1, OutsideFrame, TypeGroups, UnchangedTypes DEF kernelVars, envVars, TypeInv

\* One step per action of Next.
LEMMA TypeNext == TypeInv /\ [Next]_vars => TypeInv'
<1> SUFFICES ASSUME TypeInv, [Next]_vars PROVE TypeInv'
  OBVIOUS
<1>1. CASE BuildFdSet \/ SelectReturns \/ Accept \/ ReceiveItc
  BY <1>1, BuildFdSetType, SelectReturnsType, AcceptInv, ReceiveItcInv
<1>2. ASSUME NEW i \in Slot,
             \/ ExpireTimer(i) \/ ReceiveListRequest(i) \/ ReceiveExeRequest(i)
             \/ ReceiveEof(i) \/ ReceiveReset(i)
      PROVE  TypeInv'
  BY <1>2, ExpireTimerInv, ReceiveListInv, ReceiveExeInv, ReceiveEofInv, ReceiveResetInv
<1>3. CASE Shells \/ Apps \/ Clock
  BY <1>3, ShellsInv, AppsInv, ClockInv
<1>4. CASE UNCHANGED vars
  BY <1>4, StutterInv
<1> QED BY <1>1, <1>2, <1>3, <1>4 DEF Next, Daemon, Loop

LEMMA TypeInductive == Spec => []TypeInv
  BY TypeInit, TypeNext, PTL DEF Spec

\* Type correctness of the daemon, its shells and its applications.
THEOREM ClidTypeCorrect == Spec => []TypeOK
<1>1. TypeInv => TypeOK
  BY DEF TypeInv
<1> QED BY <1>1, TypeInductive, PTL
-----------------------------------------------------------------------------
(***************************************************************************)
(* The safety of the client table: TableInv is inductive together with the *)
(* type invariant.                                                         *)
(***************************************************************************)

\* No slot waits for a job that has not been issued.
JobsIssued == \A i \in Slot : clients[i].job <= m_job_id

TableInv == FdsOwned /\ ConnectedInTree /\ JobHasTimer /\ JobsDistinct /\ JobsIssued

LEMMA TableTypes ==
    ASSUME TypeInv
    PROVE  /\ clients \in [Slot -> ClientType] /\ client_tree \in Seq(Slot)
           /\ m_job_id \in 0..(JobIdMod - 1) /\ JobIdMod \in Nat
           /\ sock \in [Fd -> Conn \cup {NoConn}] /\ alarm \in [Fd -> AlarmState]
           /\ NoFd \notin Fd /\ NoConn \notin Conn
  BY TypeGroups, ClidConstants DEF TypeInv, KernelTypeOK, ClientTypeOK, NoFd, Fd

LEMMA SlotFields ==
    ASSUME TypeInv, NEW i \in Slot
    PROVE  /\ clients[i].fd \in Fd \cup {NoFd} /\ clients[i].timer \in Fd \cup {NoFd}
           /\ clients[i].job \in Nat /\ clients[i].job < JobIdMod
  BY TableTypes DEF ClientType

LEMMA TableInit == Init => TableInv
<1> SUFFICES ASSUME Init PROVE TableInv
  OBVIOUS
<1>1. TypeInv
  BY TypeInit
<1>2. \A i \in Slot : clients[i].fd = NoFd /\ clients[i].timer = NoFd /\ clients[i].job = IdleJob
  BY DEF Init, ClientInit, FreeSlot
<1>3. m_job_id = 0 /\ \A d \in Fd : sock[d] = NoConn /\ alarm[d] = "none"
  BY DEF Init, ClientInit, KernelInit
<1>4. FdsOwned
  BY <1>1, <1>2, <1>3, TableTypes DEF FdsOwned
<1> QED BY <1>2, <1>3, <1>4
        DEF TableInv, ConnectedInTree, JobHasTimer, JobsDistinct, JobsIssued, Connected, IdleJob

\* A step that opens and closes nothing, and at most ends a wait.
LEMMA TableFrame ==
    ASSUME TypeInv, TableInv,
           sock' = sock, client_tree' = client_tree, running' => running,
           m_job_id' \in Nat, m_job_id' >= m_job_id,
           \A e \in Fd : alarm'[e] = "none" <=> alarm[e] = "none",
           \A j \in Slot : /\ clients'[j].fd = clients[j].fd
                           /\ clients'[j].timer = clients[j].timer
                           /\ clients'[j].job = clients[j].job \/ clients'[j].job = IdleJob
    PROVE  TableInv'
<1>1. FdsOwned'
  BY DEF TableInv, FdsOwned
<1>2. ConnectedInTree'
  BY DEF TableInv, ConnectedInTree, Connected
<1>3. JobHasTimer'
  BY SlotFields DEF TableInv, JobHasTimer, Connected
<1>4. JobsDistinct'
  BY DEF TableInv, JobsDistinct
<1>5. JobsIssued'
  <2> SUFFICES ASSUME NEW j \in Slot PROVE clients'[j].job <= m_job_id'
    BY DEF JobsIssued
  <2>1. clients[j].job <= m_job_id /\ clients[j].job \in Nat /\ m_job_id \in Nat
    BY TableTypes, SlotFields DEF TableInv, JobsIssued
  <2> QED BY <2>1 DEF IdleJob
<1> QED BY <1>1, <1>2, <1>3, <1>4, <1>5 DEF TableInv

-----------------------------------------------------------------------------
\* FdsOwned, one descriptor at a time.
OwnedFd(d) ==
    /\ sock[d] # NoConn <=> \E i \in Slot : clients[i].fd = d
    /\ alarm[d] # "none" <=> \E i \in Slot : clients[i].timer = d
    /\ ~(sock[d] # NoConn /\ alarm[d] # "none")
    /\ \A i, j \in Slot : clients[i].fd = d /\ clients[j].fd = d => i = j
    /\ \A i, j \in Slot : clients[i].timer = d /\ clients[j].timer = d => i = j

LEMMA OwnedFds ==
    /\ FdsOwned <=> (running => \A d \in Fd : OwnedFd(d))
    /\ FdsOwned' <=> (running' => \A d \in Fd : OwnedFd(d)')
  BY DEF FdsOwned, OwnedFd

\* A new connection gets a descriptor nobody holds.
LEMMA AcceptTable ==
    ASSUME TypeInv, TableInv, running, handle_accept_new_connection, backlog # <<>>
    PROVE  TableInv'
<1>1. Head(backlog) \in Conn
  BY TypeGroups, HeadTailProperties DEF TypeInv, KernelTypeOK
<1>2. PICK d \in Fd :
        /\ sock[d] = NoConn /\ alarm[d] = "none"
        /\ sock' = [sock EXCEPT ![d] = Head(backlog)]
        /\ \/ running' = FALSE /\ UNCHANGED <<clients, client_tree>>
           \/ \E i \in Slot :
                /\ ~Connected(i)
                /\ clients' = [clients EXCEPT ![i].fd = d]
                /\ client_tree' \in Inserts(client_tree, ByFd(clients'), d, i)
                /\ running' = running
  BY DEF handle_accept_new_connection, LowestFreeFd, FreeFd, FirstFreeSlot
<1>3. alarm' = alarm /\ m_job_id' = m_job_id
  BY DEF handle_accept_new_connection
<1>4. CASE running' = FALSE /\ UNCHANGED <<clients, client_tree>>
  <2>1. FdsOwned'
    BY <1>4 DEF FdsOwned
  <2> QED BY <1>3, <1>4, <2>1
          DEF TableInv, ConnectedInTree, Connected, JobHasTimer, JobsDistinct, JobsIssued
<1>5. ASSUME NEW i \in Slot, ~Connected(i),
             clients' = [clients EXCEPT ![i].fd = d],
             client_tree' \in Inserts(client_tree, ByFd(clients'), d, i),
             running' = running
      PROVE  TableInv'
  <2>1. \A e \in Fd : OwnedFd(e)
    BY OwnedFds DEF TableInv
  <2>2. /\ clients'[i].fd = d /\ clients[i].fd = NoFd
        /\ \A j \in Slot : j # i => clients'[j].fd = clients[j].fd
        /\ \A j \in Slot : clients'[j].timer = clients[j].timer /\ clients'[j].job = clients[j].job
    BY <1>5, TableTypes DEF Connected, ClientType
  <2>3. \A j \in Slot : clients[j].fd # d /\ clients[j].timer # d
    BY <1>2, <2>1 DEF OwnedFd
  <2>4. sock'[d] # NoConn /\ \A e \in Fd : e # d => sock'[e] = sock[e]
    BY <1>1, <1>2, TableTypes
  <2>5. FdsOwned'
    <3> SUFFICES ASSUME NEW e \in Fd PROVE OwnedFd(e)'
      BY OwnedFds
    <3>1. e # NoFd
      BY TableTypes
    <3>2. CASE e = d
      BY <1>2, <1>3, <2>2, <2>3, <2>4, <3>2 DEF OwnedFd
    <3>3. CASE e # d
      <4>1. \A j \in Slot : clients'[j].fd = e <=> clients[j].fd = e
        BY <2>2, <3>1, <3>3
      <4> QED BY <1>3, <2>1, <2>2, <2>4, <3>3, <4>1 DEF OwnedFd
    <3> QED BY <3>2, <3>3
  <2>6. ConnectedInTree'
    <3>1. ToSet(client_tree') = ToSet(client_tree) \cup {i}
      BY <1>5, TableTypes, InsertsElements
    <3>2. \A j \in Slot : Connected(j)' => j = i \/ Connected(j)
      BY <2>2 DEF Connected
    <3> QED BY <3>1, <3>2 DEF TableInv, ConnectedInTree
  <2>7. JobHasTimer'
    BY <1>3, <1>5, <2>2 DEF TableInv, JobHasTimer, Connected
  <2>8. JobsDistinct' /\ JobsIssued'
    BY <1>3, <2>2 DEF TableInv, JobsDistinct, JobsIssued
  <2> QED BY <2>5, <2>6, <2>7, <2>8 DEF TableInv
<1> QED BY <1>2, <1>4, <1>5

\* A release closes exactly what the slot held; the node it unlinks, if any,
\* is one whose client is not connected.
LEMMA ReleaseTable ==
    ASSUME TypeInv, TableInv, running, NEW d \in Fd, release_shell_client_resources(d)
    PROVE  TableInv'
<1>1. CASE UNCHANGED <<clients, client_tree, sock, alarm, peer>>
  BY <1>1, TableFrame, TableTypes DEF release_shell_client_resources
<1>2. ASSUME NEW i \in Found(client_tree, ByFd(clients), d),
             clients' = [clients EXCEPT ![i] = FreeSlot],
             client_tree' \in Deletes(client_tree, ByFd(clients'), NoFd),
             sock' = [sock EXCEPT ![d] = NoConn],
             alarm' = [e \in Fd |-> IF e = clients[i].timer THEN "none" ELSE alarm[e]],
             m_job_id' = m_job_id, running' = running
      PROVE  TableInv'
  <2>1. \A e \in Fd : OwnedFd(e)
    BY OwnedFds DEF TableInv
  <2>2. i \in Slot /\ clients[i].fd = d
    BY <1>2, TableTypes, FoundElements DEF ByFd
  <2>3. /\ clients'[i] = FreeSlot
        /\ \A j \in Slot : j # i => clients'[j] = clients[j]
    BY <1>2, <2>2, TableTypes
  <2>4. FdsOwned'
    <3> SUFFICES ASSUME NEW e \in Fd PROVE OwnedFd(e)'
      BY OwnedFds
    <3>1. OwnedFd(e) /\ e # NoFd
      BY <2>1, TableTypes
    <3>2. \A j \in Slot : clients'[j].fd = e <=> clients[j].fd = e /\ e # d
      BY <2>2, <2>3, <3>1 DEF FreeSlot, OwnedFd
    <3>3. \A j \in Slot : clients'[j].timer = e <=> clients[j].timer = e /\ e # clients[i].timer
      BY <2>2, <2>3, <3>1 DEF FreeSlot, OwnedFd
    <3>4. sock'[e] # NoConn <=> sock[e] # NoConn /\ e # d
      BY <1>2, TableTypes
    <3>5. alarm'[e] # "none" <=> alarm[e] # "none" /\ e # clients[i].timer
      BY <1>2
    <3> QED BY <3>1, <3>2, <3>3, <3>4, <3>5 DEF OwnedFd
  <2>5. ConnectedInTree'
    <3> SUFFICES ASSUME NEW j \in Slot, Connected(j)' PROVE j \in ToSet(client_tree')
      BY DEF ConnectedInTree
    <3>1. Connected(j) /\ ByFd(clients')[j] # NoFd
      BY <2>3 DEF Connected, ByFd, FreeSlot
    <3>2. j \in ToSet(client_tree)
      BY <3>1 DEF TableInv, ConnectedInTree
    <3>3. \A k \in ToSet(client_tree) : ByFd(clients')[k] # NoFd => k \in ToSet(client_tree')
      BY <1>2, TableTypes, DeletesElements
    <3> QED BY <3>1, <3>2, <3>3
  <2>6. JobHasTimer'
    <3> SUFFICES ASSUME NEW j \in Slot, clients'[j].job # IdleJob
                 PROVE  /\ Connected(j)' /\ clients'[j].timer # NoFd
                        /\ alarm'[clients'[j].timer] # "none"
      BY DEF JobHasTimer
    <3>1. j # i /\ clients'[j] = clients[j]
      BY <2>3 DEF FreeSlot
    <3>2. Connected(j) /\ clients[j].timer \in Fd /\ alarm[clients[j].timer] # "none"
      BY <3>1, SlotFields DEF TableInv, JobHasTimer
    <3>3. clients[j].timer # clients[i].timer
      BY <2>1, <2>2, <3>1, <3>2 DEF OwnedFd
    <3> QED BY <1>2, <3>1, <3>2, <3>3, TableTypes DEF Connected
  <2>7. JobsDistinct'
    BY <2>3 DEF TableInv, JobsDistinct, FreeSlot
  <2>8. JobsIssued'
    BY <1>2, <2>3, TableTypes DEF TableInv, JobsIssued, FreeSlot, IdleJob
  <2> QED BY <2>4, <2>5, <2>6, <2>7, <2>8 DEF TableInv
<1> QED BY <1>1, <1>2 DEF release_shell_client_resources

\* A new job: its timer is the slot's own or a free descriptor, and its id is
\* larger than every id issued before.
LEMMA ExeTable ==
    ASSUME TypeInv, TableInv, running, NEW i \in Slot, ReceiveExeRequest(i)
    PROVE  TableInv'
<1>1. /\ UNCHANGED <<sock, client_tree, running>>
      /\ m_job_id' = m_job_id + 1 /\ m_job_id' \in Nat /\ m_job_id \in Nat
  BY NextJobIdIsNext, TableTypes DEF ReceiveExeRequest, NoWrap
<1>2. Connected(i)
  BY SelectedSocket DEF ReceiveExeRequest, Receive
<1>3. CASE UNCHANGED <<clients, alarm, atApp>>
  BY <1>1, <1>3, TableFrame
<1>4. ASSUME NEW k \in Found(client_tree, ByFd(clients), clients[i].fd),
             restart_job_timer(k, m_job_id')
      PROVE  TableInv'
  <2>1. k \in Slot /\ Connected(k)
    BY <1>2, <1>4, TableTypes, FoundElements DEF ByFd, Connected
  <2>2. PICK t \in Fd :
          /\ IF clients[k].timer # NoFd THEN t = clients[k].timer ELSE LowestFreeFd(t)
          /\ clients' = [clients EXCEPT ![k].timer = t, ![k].job = m_job_id']
          /\ alarm' = [alarm EXCEPT ![t] = "armed"]
    BY <1>4 DEF restart_job_timer
  <2>3. /\ clients'[k].fd = clients[k].fd /\ clients'[k].timer = t /\ clients'[k].job = m_job_id'
        /\ \A j \in Slot : j # k => clients'[j] = clients[j]
    BY <2>1, <2>2, TableTypes DEF ClientType
  <2>4. alarm'[t] = "armed" /\ \A e \in Fd : e # t => alarm'[e] = alarm[e]
    BY <2>2, TableTypes
  <2>5. \A e \in Fd : OwnedFd(e)
    BY OwnedFds DEF TableInv
  <2>6. sock[t] = NoConn /\ \A j \in Slot : j # k => clients[j].timer # t
    <3>1. CASE clients[k].timer = t
      BY <2>1, <2>5, <3>1 DEF OwnedFd
    <3>2. CASE FreeFd(t)
      BY <2>5, <3>2 DEF OwnedFd, FreeFd
    <3> QED BY <2>2, <3>1, <3>2 DEF LowestFreeFd
  <2>7. \A j \in Slot : clients[j].timer = t => clients[k].timer = t
    BY <2>6
  <2>8. clients[k].timer = NoFd \/ clients[k].timer = t
    BY <2>2
  <2>9. FdsOwned'
    <3> SUFFICES ASSUME NEW e \in Fd PROVE OwnedFd(e)'
      BY OwnedFds
    <3>1. OwnedFd(e) /\ e # NoFd
      BY <2>5, TableTypes
    <3>2. \A j \in Slot : clients'[j].fd = clients[j].fd
      BY <2>3
    <3>3. CASE e = t
      <4>1. \A j \in Slot : clients'[j].timer = e <=> j = k
        BY <2>3, <2>6, <3>3
      <4>2. sock'[e] = NoConn /\ alarm'[e] # "none"
        BY <1>1, <2>4, <2>6, <3>3
      <4>3. \A j \in Slot : clients'[j].fd # e
        BY <2>6, <3>1, <3>2, <3>3 DEF OwnedFd
      <4> QED BY <2>1, <4>1, <4>2, <4>3 DEF OwnedFd
    <3>4. CASE e # t
      <4>1. \A j \in Slot : clients'[j].timer = e <=> clients[j].timer = e
        BY <2>3, <2>8, <3>1, <3>4
      <4>2. sock'[e] = sock[e] /\ alarm'[e] = alarm[e]
        BY <1>1, <2>4, <3>4
      <4> QED BY <3>1, <3>2, <4>1, <4>2 DEF OwnedFd
    <3> QED BY <3>3, <3>4
  <2>10. ConnectedInTree'
    BY <1>1, <2>3 DEF TableInv, ConnectedInTree, Connected
  <2>11. JobHasTimer'
    <3> SUFFICES ASSUME NEW j \in Slot, clients'[j].job # IdleJob
                 PROVE  /\ Connected(j)' /\ clients'[j].timer # NoFd
                        /\ alarm'[clients'[j].timer] # "none"
      BY DEF JobHasTimer
    <3>1. CASE j = k
      BY <2>1, <2>3, <2>4, <3>1, TableTypes DEF Connected
    <3>2. CASE j # k
      <4>1. clients'[j] = clients[j] /\ clients[j].timer # t
        BY <2>3, <2>6, <3>2
      <4>2. Connected(j) /\ clients[j].timer \in Fd /\ alarm[clients[j].timer] # "none"
        BY <4>1, SlotFields DEF TableInv, JobHasTimer
      <4> QED BY <2>4, <4>1, <4>2, TableTypes DEF Connected
    <3> QED BY <3>1, <3>2
  <2>12. \A j \in Slot : j # k => clients'[j].job = clients[j].job /\ clients[j].job \in Nat
                                 /\ clients[j].job < m_job_id'
    BY <1>1, <2>3, SlotFields DEF TableInv, JobsIssued
  <2>13. JobsDistinct'
    <3> SUFFICES ASSUME NEW j \in Slot, NEW l \in Slot,
                        clients'[j].job # IdleJob, clients'[j].job = clients'[l].job
                 PROVE  j = l
      BY DEF JobsDistinct
    <3>1. CASE j = k \/ l = k
      BY <1>1, <2>3, <2>12, <3>1
    <3>2. CASE j # k /\ l # k
      BY <2>12, <3>2 DEF TableInv, JobsDistinct
    <3> QED BY <3>1, <3>2
  <2>14. JobsIssued'
    <3> SUFFICES ASSUME NEW j \in Slot PROVE clients'[j].job <= m_job_id'
      BY DEF JobsIssued
    <3> QED BY <1>1, <2>3, <2>12
  <2> QED BY <2>9, <2>10, <2>11, <2>13, <2>14 DEF TableInv
<1> QED BY <1>3, <1>4 DEF ReceiveExeRequest

\* An answer ends one wait and makes that slot's own timer fire.
LEMMA ReplyTable ==
    ASSUME TypeInv, TableInv, running, NEW job, handle_receive_exe_cmd_reply(job)
    PROVE  TableInv'
<1>1. UNCHANGED <<sock, client_tree, m_job_id, running>>
  BY DEF handle_receive_exe_cmd_reply
<1>2. CASE UNCHANGED <<clients, alarm>>
  BY <1>1, <1>2, TableFrame, TableTypes
<1>3. ASSUME NEW i \in Found(client_tree, ByJob(clients), job),
             clients' = [clients EXCEPT ![i].job = IdleJob],
             alarm' = [e \in Fd |-> IF e = clients[i].timer THEN "fired" ELSE alarm[e]]
      PROVE  TableInv'
  <2>1. i \in Slot
    BY <1>3, TableTypes, FoundElements
  <2>2. \A e \in Fd : OwnedFd(e)
    BY OwnedFds DEF TableInv
  <2>3. \A e \in Fd : alarm'[e] = "none" <=> alarm[e] = "none"
    BY <1>3, <2>1, <2>2 DEF OwnedFd
  <2>4. \A j \in Slot : /\ clients'[j].fd = clients[j].fd
                        /\ clients'[j].timer = clients[j].timer
                        /\ clients'[j].job = clients[j].job \/ clients'[j].job = IdleJob
    BY <1>3, TableTypes DEF ClientType
  <2>5. sock' = sock /\ client_tree' = client_tree /\ m_job_id' \in Nat /\ m_job_id' >= m_job_id
    BY <1>1, TableTypes
  <2>6. running' => running
    OBVIOUS
  <2> QED BY <2>3, <2>4, <2>5, <2>6, TableFrame
<1> QED BY <1>2, <1>3 DEF handle_receive_exe_cmd_reply

LEMMA ExpiryTable ==
    ASSUME TypeInv, TableInv, running, NEW t, handle_job_timer_expired(t)
    PROVE  TableInv'
<1>1. UNCHANGED <<sock, alarm, client_tree, m_job_id>>
  BY DEF handle_job_timer_expired
<1>2. CASE UNCHANGED clients
  BY <1>1, <1>2, TableFrame, TableTypes
<1>3. ASSUME NEW i, clients' = [clients EXCEPT ![i].job = IdleJob]
      PROVE  TableInv'
  <2>1. \A j \in Slot : /\ clients'[j].fd = clients[j].fd
                        /\ clients'[j].timer = clients[j].timer
                        /\ clients'[j].job = clients[j].job \/ clients'[j].job = IdleJob
    BY <1>3, TableTypes DEF ClientType
  <2>2. /\ sock' = sock /\ client_tree' = client_tree /\ m_job_id' \in Nat /\ m_job_id' >= m_job_id
        /\ \A e \in Fd : alarm'[e] = "none" <=> alarm[e] = "none"
    BY <1>1, TableTypes
  <2>3. running' => running
    OBVIOUS
  <2> QED BY <2>1, <2>2, <2>3, TableFrame
<1> QED BY <1>2, <1>3 DEF handle_job_timer_expired

\* Everything else leaves the table alone; the clock only turns armed timers
\* into fired ones.
LEMMA OtherTable ==
    ASSUME TypeInv, TableInv, running' => running,
           UNCHANGED <<clients, client_tree, m_job_id, sock>>,
           \A e \in Fd : alarm'[e] = "none" <=> alarm[e] = "none"
    PROVE  TableInv'
  BY TableFrame, TableTypes

LEMMA ClockTable == TypeInv /\ TableInv /\ Clock => TableInv'
<1> SUFFICES ASSUME TypeInv, TableInv, NEW d \in Fd, ClockTicks(d) PROVE TableInv'
  BY DEF Clock
<1>1. alarm[d] = "armed" /\ alarm' = [alarm EXCEPT ![d] = "fired"]
  BY DEF ClockTicks, TimerExpires
<1>2. \A e \in Fd : alarm'[e] = "none" <=> alarm[e] = "none"
  BY <1>1, TableTypes
<1> QED BY <1>2, OtherTable DEF ClockTicks, TimerExpires, clientVars

LEMMA TableNext == TypeInv /\ TableInv /\ [Next]_vars => TableInv'
<1> SUFFICES ASSUME TypeInv, TableInv, [Next]_vars PROVE TableInv'
  OBVIOUS
<1>1. CASE BuildFdSet \/ SelectReturns
  BY <1>1, OtherTable DEF BuildFdSet, SelectReturns, kernelVars, clientVars
<1>2. CASE running /\ Accept
  <2>1. backlog # <<>>
    <3>1. stage = AcceptStage /\ tcp_fd \in fdset
      BY <1>2, ClidConstants
      DEF Accept, At, Selected, AcceptStage, ItcStage, TimerStage, TcpStage, Slot
    <3> QED BY <3>1 DEF TypeInv, LoopInput
  <2> QED BY <1>2, <2>1, AcceptTable DEF Accept
<1>3. CASE running /\ ReceiveItc
  <2>1. CASE UNCHANGED <<kernelVars, clientVars>>
    BY <2>1, OtherTable DEF kernelVars, clientVars
  <2>2. CASE handle_receive_exe_cmd_reply(Head(itc).job)
    BY <1>3, <2>2, ReplyTable
  <2> QED BY <1>3, <2>1, <2>2 DEF ReceiveItc
<1>4. ASSUME NEW i \in Slot, running, ExpireTimer(i) PROVE TableInv'
  BY <1>4, ExpiryTable DEF ExpireTimer
<1>5. ASSUME NEW i \in Slot, ReceiveListRequest(i) PROVE TableInv'
  BY <1>5, OtherTable DEF ReceiveListRequest, clientVars
<1>6. ASSUME NEW i \in Slot, running, ReceiveExeRequest(i) PROVE TableInv'
  BY <1>6, ExeTable
<1>7. ASSUME NEW i \in Slot, running, ReceiveEof(i) PROVE TableInv'
  BY <1>7, SelectedSocket, ReleaseTable DEF ReceiveEof
<1>8. ASSUME NEW i \in Slot, ReceiveReset(i) PROVE TableInv'
  BY <1>8, OtherTable DEF ReceiveReset, kernelVars
<1>9. CASE Shells
  BY <1>9, OtherTable
  DEF Shells, ShellConnects, ShellRequests, ShellReads, ShellHangsUp,
      Connect, Request, ReadReply, Hangup, clientVars
<1>10. CASE Apps
  BY <1>10, OtherTable
  DEF Apps, AppRegisters, AppDeregisters, AppAnswers, AppSends, kernelVars, clientVars
<1>11. CASE Clock
  BY <1>11, ClockTable
<1>12. CASE UNCHANGED vars
  BY <1>12, OtherTable DEF vars, kernelVars, clientVars
<1> QED BY <1>1, <1>2, <1>3, <1>4, <1>5, <1>6, <1>7, <1>8, <1>9, <1>10, <1>11, <1>12
        DEF Next, Daemon, Loop

LEMMA TableInductive == Spec => [](TypeInv /\ TableInv)
<1>1. Init => TypeInv /\ TableInv
  BY TypeInit, TableInit
<1>2. TypeInv /\ TableInv /\ [Next]_vars => (TypeInv /\ TableInv)'
  BY TypeNext, TableNext
<1> QED BY <1>1, <1>2, PTL DEF Spec

-----------------------------------------------------------------------------
\* No descriptor leaks and none is shared, however shells come and go: the
\* open descriptors are those of the client table (clid.c:399-449, 651-678,
\* 891-929).
THEOREM NoDescriptorLeaks == Spec => []FdsOwned
<1>1. TableInv => FdsOwned
  BY DEF TableInv
<1> QED BY <1>1, TableInductive, PTL

\* Although a release unlinks with an overwritten key (clid.c:662-675), no
\* connected client ever loses its node.
THEOREM ConnectedStaysInTree == Spec => []ConnectedInTree
<1>1. TableInv => ConnectedInTree
  BY DEF TableInv
<1> QED BY <1>1, TableInductive, PTL

\* A client that waits for a job is connected and has an open, armed timer.
THEOREM JobsAreTimed == Spec => []JobHasTimer
<1>1. TableInv => JobHasTimer
  BY DEF TableInv
<1> QED BY <1>1, TableInductive, PTL

\* No two clients wait for the same job, until the counter wraps.
THEOREM JobsAreDistinct == Spec => []JobsDistinct
<1>1. TableInv => JobsDistinct
  BY DEF TableInv
<1> QED BY <1>1, TableInductive, PTL

-----------------------------------------------------------------------------
(***************************************************************************)
(* An answer reaches the shell that asked.  The jobs still owed are those  *)
(* at the applications and those answered in the mailbox; whoever waits    *)
(* for the id of an owed job is the connection that asked for it.          *)
(***************************************************************************)
Owed == atApp \cup {[job |-> itc[p].job, asker |-> itc[p].asker] :
                        p \in {q \in 1..Len(itc) : itc[q].kind = "reply"}}

AskerInv ==
    \A r \in Owed :
        /\ r.job \in 1..m_job_id
        /\ \A i \in Slot : clients[i].job = r.job => ConnOf(i) = r.asker

LEMMA AskerInit == Init => AskerInv
  BY DEF Init, AskerInv, Owed

LEMMA OwedAfterTail ==
    ASSUME TypeInv, itc # <<>>, itc' = Tail(itc), atApp' = atApp
    PROVE  Owed' \subseteq Owed
<1>1. itc \in Seq(ItcMsg)
  BY DEF TypeInv, TypeOK
<1>2. Len(itc') = Len(itc) - 1 /\ \A p \in 1..Len(itc') : itc'[p] = itc[p + 1]
  BY <1>1, HeadTailProperties
<1> SUFFICES ASSUME NEW p \in 1..Len(itc'), itc'[p].kind = "reply"
             PROVE  [job |-> itc'[p].job, asker |-> itc'[p].asker] \in Owed
  BY DEF Owed
<1>3. p + 1 \in 1..Len(itc) /\ itc'[p] = itc[p + 1]
  BY <1>1, <1>2
<1> QED BY <1>3 DEF Owed

LEMMA OwedAfterAppend ==
    ASSUME TypeInv, NEW msg, itc' = Append(itc, msg), atApp' \subseteq atApp,
           msg.kind = "reply" => [job |-> msg.job, asker |-> msg.asker] \in atApp
    PROVE  Owed' \subseteq Owed
<1>1. itc \in Seq(ItcMsg)
  BY DEF TypeInv, TypeOK
<1>2. /\ Len(itc') = Len(itc) + 1 /\ itc'[Len(itc) + 1] = msg
      /\ \A p \in 1..Len(itc) : itc'[p] = itc[p]
  BY <1>1, AppendProperties
<1>3. ASSUME NEW p \in 1..Len(itc'), itc'[p].kind = "reply"
      PROVE  [job |-> itc'[p].job, asker |-> itc'[p].asker] \in Owed
  <2>1. CASE p = Len(itc) + 1
    BY <1>2, <1>3, <2>1 DEF Owed
  <2>2. CASE p # Len(itc) + 1
    <3>1. p \in 1..Len(itc)
      BY <1>1, <1>2, <2>2
    <3> QED BY <1>2, <1>3, <3>1 DEF Owed
  <2> QED BY <2>1, <2>2
<1> QED BY <1>3 DEF Owed

\* A step that lets nobody wait for a job anew and moves no waiting client.
LEMMA AskerFrame ==
    ASSUME TypeInv, AskerInv, Owed' \subseteq Owed, m_job_id' \in Nat, m_job_id' >= m_job_id,
           \A j \in Slot : \/ clients'[j].job = IdleJob
                           \/ clients'[j].job = clients[j].job /\ ConnOf(j)' = ConnOf(j)
    PROVE  AskerInv'
<1> SUFFICES ASSUME NEW r \in Owed'
             PROVE  /\ r.job \in 1..m_job_id'
                    /\ \A j \in Slot : clients'[j].job = r.job => ConnOf(j)' = r.asker
  BY DEF AskerInv
<1>1. r.job \in 1..m_job_id /\ m_job_id \in Nat
  BY TableTypes DEF AskerInv
<1>2. r.job \in 1..m_job_id' /\ r.job # IdleJob
  BY <1>1 DEF IdleJob
<1>3. \A j \in Slot : clients'[j].job = r.job => ConnOf(j)' = r.asker
  BY <1>2 DEF AskerInv
<1> QED BY <1>2, <1>3

LEMMA AskerUnmoved ==
    ASSUME TypeInv, AskerInv, UNCHANGED <<clients, sock, m_job_id>>, Owed' \subseteq Owed
    PROVE  AskerInv'
  BY AskerFrame, TableTypes DEF ConnOf

LEMMA AcceptAsker ==
    ASSUME TypeInv, TableInv, AskerInv, running, handle_accept_new_connection,
           UNCHANGED <<itc, atApp>>
    PROVE  AskerInv'
<1>1. PICK d \in Fd :
        /\ sock[d] = NoConn /\ alarm[d] = "none"
        /\ sock' = [sock EXCEPT ![d] = Head(backlog)]
        /\ \/ clients' = clients
           \/ \E i \in Slot : ~Connected(i) /\ clients' = [clients EXCEPT ![i].fd = d]
  BY DEF handle_accept_new_connection, LowestFreeFd, FreeFd, FirstFreeSlot
<1>2. \A j \in Slot : clients[j].fd # d
  BY <1>1, OwnedFds DEF TableInv, OwnedFd
<1>3. m_job_id' = m_job_id /\ Owed' = Owed
  BY DEF handle_accept_new_connection, Owed
<1>4. \A j \in Slot : Connected(j) => ConnOf(j)' = ConnOf(j) /\ clients'[j].job = clients[j].job
  <2> SUFFICES ASSUME NEW j \in Slot, Connected(j)
               PROVE  ConnOf(j)' = ConnOf(j) /\ clients'[j].job = clients[j].job
    OBVIOUS
  <2>1. clients'[j] = clients[j]
    BY <1>1, TableTypes
  <2>2. clients[j].fd \in Fd /\ clients[j].fd # d
    BY <1>2, SlotFields DEF Connected
  <2>3. sock'[clients[j].fd] = sock[clients[j].fd]
    BY <1>1, <2>2, TableTypes
  <2> QED BY <2>1, <2>3 DEF ConnOf
<1>5. \A j \in Slot : ~Connected(j) => clients'[j].job = IdleJob
  <2> SUFFICES ASSUME NEW j \in Slot, ~Connected(j) PROVE clients'[j].job = IdleJob
    OBVIOUS
  <2>1. clients[j].job = IdleJob
    BY DEF TableInv, JobHasTimer
  <2>2. clients \in [Slot -> ClientType]
    BY TableTypes
  <2>3. CASE clients' = clients
    BY <2>1, <2>3
  <2>4. CASE \E i \in Slot : clients' = [clients EXCEPT ![i].fd = d]
    BY <2>1, <2>2, <2>4 DEF ClientType
  <2> QED BY <1>1, <2>3, <2>4
<1>6. m_job_id \in Nat
  BY TableTypes
<1>7. m_job_id' \in Nat /\ m_job_id' >= m_job_id /\ Owed' \subseteq Owed
  BY <1>3, <1>6
<1>8. \A j \in Slot : \/ clients'[j].job = IdleJob
                      \/ clients'[j].job = clients[j].job /\ ConnOf(j)' = ConnOf(j)
  BY <1>4, <1>5, Zenon
<1> QED BY <1>7, <1>8, AskerFrame, Zenon

LEMMA ReleaseAsker ==
    ASSUME TypeInv, TableInv, AskerInv, running, NEW d \in Fd,
           release_shell_client_resources(d), UNCHANGED <<itc, atApp>>
    PROVE  AskerInv'
<1>1. m_job_id' = m_job_id /\ Owed' = Owed
  BY DEF release_shell_client_resources, Owed
<1>2. CASE UNCHANGED <<clients, client_tree, sock, alarm, peer>>
  BY <1>1, <1>2, AskerUnmoved
<1>3. ASSUME NEW i \in Found(client_tree, ByFd(clients), d),
             clients' = [clients EXCEPT ![i] = FreeSlot],
             sock' = [sock EXCEPT ![d] = NoConn]
      PROVE  AskerInv'
  <2>1. i \in Slot /\ clients[i].fd = d
    BY <1>3, TableTypes, FoundElements DEF ByFd
  <2>2. clients'[i].job = IdleJob
    BY <1>3, <2>1, TableTypes DEF FreeSlot
  <2>3. ASSUME NEW j \in Slot, j # i, clients[j].job # IdleJob
        PROVE  ConnOf(j)' = ConnOf(j) /\ clients'[j].job = clients[j].job
    <3>1. clients'[j] = clients[j]
      BY <1>3, <2>3, TableTypes
    <3>2. clients[j].fd \in Fd
      BY <2>3, SlotFields DEF TableInv, JobHasTimer, Connected
    <3>3. clients[j].fd # d
      BY <2>1, <2>3, OwnedFds DEF TableInv, OwnedFd
    <3>4. sock'[clients[j].fd] = sock[clients[j].fd]
      BY <1>3, <3>2, <3>3, TableTypes
    <3> QED BY <3>1, <3>4 DEF ConnOf
  <2>4. \A j \in Slot : j # i /\ clients[j].job = IdleJob => clients'[j].job = IdleJob
    BY <1>3, TableTypes
  <2> QED BY <1>1, <2>2, <2>3, <2>4, AskerFrame, TableTypes
<1> QED BY <1>2, <1>3 DEF release_shell_client_resources

LEMMA ExeAsker ==
    ASSUME TypeInv, TableInv, AskerInv, running, NEW i \in Slot, ReceiveExeRequest(i)
    PROVE  AskerInv'
<1>1. /\ sock' = sock /\ itc' = itc
      /\ m_job_id' = m_job_id + 1 /\ m_job_id' \in Nat /\ m_job_id \in Nat
  BY NextJobIdIsNext, TableTypes DEF ReceiveExeRequest, NoWrap
<1>2. Connected(i)
  BY SelectedSocket DEF ReceiveExeRequest, Receive
<1>3. CASE UNCHANGED <<clients, alarm, atApp>>
  <2>1. Owed' = Owed
    BY <1>1, <1>3 DEF Owed
  <2> QED BY <1>1, <1>3, <2>1, AskerFrame DEF ConnOf
<1>4. ASSUME NEW k \in Found(client_tree, ByFd(clients), clients[i].fd),
             restart_job_timer(k, m_job_id'),
             atApp' = atApp \/ atApp' = atApp \cup {[job |-> m_job_id', asker |-> ConnOf(i)]}
      PROVE  AskerInv'
  <2>1. k \in Slot /\ ConnOf(k) = ConnOf(i)
    BY <1>4, TableTypes, FoundElements DEF ByFd, ConnOf
  <2>2. /\ clients'[k].job = m_job_id'
        /\ \A j \in Slot : j # k => clients'[j] = clients[j]
        /\ \A j \in Slot : clients'[j].fd = clients[j].fd
    BY <1>4, <2>1, TableTypes DEF restart_job_timer, ClientType
  <2>3. \A j \in Slot : ConnOf(j)' = ConnOf(j)
    BY <1>1, <2>2 DEF ConnOf
  <2>4. \A r \in Owed' : r \in Owed \/ r = [job |-> m_job_id', asker |-> ConnOf(i)]
    BY <1>1, <1>4 DEF Owed
  <2> SUFFICES ASSUME NEW r \in Owed'
               PROVE  /\ r.job \in 1..m_job_id'
                      /\ \A j \in Slot : clients'[j].job = r.job => ConnOf(j)' = r.asker
    BY DEF AskerInv
  <2>5. CASE r \in Owed
    <3>1. r.job \in 1..m_job_id
      BY <2>5 DEF AskerInv
    <3>2. r.job \in 1..m_job_id' /\ r.job # m_job_id'
      BY <1>1, <3>1
    <3>3. ASSUME NEW j \in Slot, clients'[j].job = r.job PROVE ConnOf(j)' = r.asker
      <4>1. j # k
        BY <2>2, <3>2, <3>3
      <4>2. clients[j].job = r.job
        BY <2>2, <3>3, <4>1
      <4> QED BY <2>3, <2>5, <4>2 DEF AskerInv
    <3> QED BY <3>2, <3>3
  <2>6. CASE r = [job |-> m_job_id', asker |-> ConnOf(i)]
    <3>1. r.job \in 1..m_job_id'
      BY <1>1, <2>6
    <3>2. ASSUME NEW j \in Slot, clients'[j].job = r.job PROVE ConnOf(j)' = r.asker
      <4>1. CASE j = k
        BY <2>1, <2>3, <2>6, <4>1
      <4>2. CASE j # k
        <5>1. clients[j].job = m_job_id + 1
          BY <1>1, <2>2, <2>6, <3>2, <4>2
        <5>2. clients[j].job <= m_job_id
          BY DEF TableInv, JobsIssued
        <5> QED BY <1>1, <5>1, <5>2
      <4> QED BY <4>1, <4>2
    <3> QED BY <3>1, <3>2
  <2> QED BY <2>4, <2>5, <2>6
<1> QED BY <1>3, <1>4 DEF ReceiveExeRequest, forward_exe_cmd_request

\* Answers and expiries end waits and move nobody.
LEMMA EndedWaitAsker ==
    ASSUME TypeInv, AskerInv, NEW i, Owed' \subseteq Owed, UNCHANGED <<sock, m_job_id>>,
           clients' = clients \/ clients' = [clients EXCEPT ![i].job = IdleJob]
    PROVE  AskerInv'
<1>1. \A j \in Slot : /\ clients'[j].fd = clients[j].fd
                      /\ clients'[j].job = clients[j].job \/ clients'[j].job = IdleJob
  BY TableTypes DEF ClientType
<1>2. \A j \in Slot : ConnOf(j)' = ConnOf(j)
  BY <1>1 DEF ConnOf
<1> QED BY <1>1, <1>2, AskerFrame, TableTypes

LEMMA ReceiveItcAsker ==
    ASSUME TypeInv, AskerInv, ReceiveItc
    PROVE  AskerInv'
<1>1. Owed' \subseteq Owed
  BY ItcMessage, OwedAfterTail DEF ReceiveItc
<1>2. CASE UNCHANGED <<kernelVars, clientVars>>
  BY <1>1, <1>2, AskerUnmoved DEF kernelVars, clientVars
<1>3. CASE handle_receive_exe_cmd_reply(Head(itc).job)
  <2>1. UNCHANGED <<sock, m_job_id>>
    BY <1>3 DEF handle_receive_exe_cmd_reply
  <2>2. CASE clients' = clients
    BY <1>1, <2>1, <2>2, EndedWaitAsker
  <2>3. ASSUME NEW i, clients' = [clients EXCEPT ![i].job = IdleJob] PROVE AskerInv'
    BY <1>1, <2>1, <2>3, EndedWaitAsker
  <2> QED BY <1>3, <2>2, <2>3 DEF handle_receive_exe_cmd_reply
<1> QED BY <1>2, <1>3 DEF ReceiveItc

LEMMA ExpireTimerAsker ==
    ASSUME TypeInv, AskerInv, NEW t, handle_job_timer_expired(t), UNCHANGED envVars
    PROVE  AskerInv'
<1>1. Owed' = Owed /\ UNCHANGED <<sock, m_job_id>>
  BY DEF Owed, envVars, handle_job_timer_expired
<1>2. CASE clients' = clients
  BY <1>1, <1>2, EndedWaitAsker
<1>3. ASSUME NEW i, clients' = [clients EXCEPT ![i].job = IdleJob] PROVE AskerInv'
  BY <1>1, <1>3, EndedWaitAsker
<1> QED BY <1>2, <1>3 DEF handle_job_timer_expired

LEMMA AppsAsker ==
    ASSUME TypeInv, AskerInv, Apps
    PROVE  AskerInv'
<1>1. UNCHANGED <<clients, sock, m_job_id>>
  BY DEF Apps, AppRegisters, AppDeregisters, AppAnswers, AppSends, kernelVars, clientVars
<1>2. ASSUME NEW msg, itc' = Append(itc, msg), atApp' \subseteq atApp,
             msg.kind = "reply" => [job |-> msg.job, asker |-> msg.asker] \in atApp
      PROVE  AskerInv'
  BY <1>1, <1>2, OwedAfterAppend, AskerUnmoved
<1>3. ASSUME NEW n, NEW m, AppRegisters(n, m) PROVE AskerInv'
  BY <1>2, <1>3 DEF AppRegisters, AppSends, RegMsg
<1>4. ASSUME NEW n, AppDeregisters(n) PROVE AskerInv'
  BY <1>2, <1>4 DEF AppDeregisters, AppSends, DeregMsg
<1>5. ASSUME NEW r \in atApp, AppAnswers(r) PROVE AskerInv'
  <2>1. r \in Jobs
    BY DEF TypeInv, TypeOK
  <2>2. [job |-> ReplyMsg(r).job, asker |-> ReplyMsg(r).asker] = r
    BY <2>1 DEF Jobs, ReplyMsg
  <2>3. itc' = Append(itc, ReplyMsg(r)) /\ atApp' \subseteq atApp
    BY <1>5 DEF AppAnswers, AppSends
  <2> QED BY <1>2, <2>2, <2>3
<1> QED BY <1>3, <1>4, <1>5 DEF Apps

LEMMA AskerNext == TypeInv /\ TableInv /\ AskerInv /\ [Next]_vars => AskerInv'
<1> SUFFICES ASSUME TypeInv, TableInv, AskerInv, [Next]_vars PROVE AskerInv'
  OBVIOUS
<1>1. CASE BuildFdSet \/ SelectReturns
  BY <1>1, AskerUnmoved DEF BuildFdSet, SelectReturns, kernelVars, clientVars, envVars, Owed
<1>2. CASE running /\ Accept
  BY <1>2, AcceptAsker DEF Accept, envVars
<1>3. CASE ReceiveItc
  BY <1>3, ReceiveItcAsker
<1>4. ASSUME NEW i \in Slot, ExpireTimer(i) PROVE AskerInv'
  BY <1>4, ExpireTimerAsker DEF ExpireTimer
<1>5. ASSUME NEW i \in Slot, ReceiveListRequest(i) PROVE AskerInv'
  BY <1>5, AskerUnmoved DEF ReceiveListRequest, clientVars, envVars, Owed
<1>6. ASSUME NEW i \in Slot, running, ReceiveExeRequest(i) PROVE AskerInv'
  BY <1>6, ExeAsker
<1>7. ASSUME NEW i \in Slot, running, ReceiveEof(i) PROVE AskerInv'
  BY <1>7, SelectedSocket, ReleaseAsker DEF ReceiveEof, envVars
<1>8. ASSUME NEW i \in Slot, ReceiveReset(i) PROVE AskerInv'
  BY <1>8, AskerUnmoved DEF ReceiveReset, kernelVars, envVars, Owed
<1>9. CASE Shells
  BY <1>9, AskerUnmoved
  DEF Shells, ShellConnects, ShellRequests, ShellReads, ShellHangsUp,
      Connect, Request, ReadReply, Hangup, clientVars, envVars, Owed
<1>10. CASE Apps
  BY <1>10, AppsAsker
<1>11. CASE Clock
  BY <1>11, AskerUnmoved DEF Clock, ClockTicks, TimerExpires, clientVars, envVars, Owed
<1>12. CASE UNCHANGED vars
  BY <1>12, AskerUnmoved DEF vars, kernelVars, clientVars, envVars, Owed
<1> QED BY <1>1, <1>2, <1>3, <1>4, <1>5, <1>6, <1>7, <1>8, <1>9, <1>10, <1>11, <1>12
        DEF Next, Daemon, Loop

-----------------------------------------------------------------------------
LEMMA AppendIsProper ==
    ASSUME NEW S, NEW q \in Seq(S), NEW x \in S, NEW y \in S
    PROVE  /\ q # Append(q, x) /\ Append(q, x) # <<>>
           /\ Append(q, x) = Append(q, y) => x = y
<1>1. /\ Len(Append(q, x)) = Len(q) + 1 /\ Append(q, x)[Len(q) + 1] = x
      /\ Append(q, y)[Len(q) + 1] = y /\ Len(q) \in Nat
  BY AppendProperties
<1> QED BY <1>1

\* Only a Send of m to the socket of c adds m to what c will read.
LEMMA SentTo ==
    ASSUME TypeInv, NEW d, NEW m \in ReplyKind, Send(d, m),
           NEW c \in Conn, s2c'[c] = Append(s2c[c], "answer")
    PROVE  m = "answer" /\ c = sock[d]
<1>1. s2c \in [Conn -> Seq(ReplyKind)] /\ s2c[c] \in Seq(ReplyKind) /\ "answer" \in ReplyKind
  BY TypeGroups DEF TypeInv, KernelTypeOK, ReplyKind
<1>2. s2c'[c] # s2c[c]
  BY <1>1, AppendIsProper
<1>3. s2c' = [s2c EXCEPT ![sock[d]] = Append(@, m)]
  BY <1>2 DEF Send
<1>4. c = sock[d]
  BY <1>1, <1>2, <1>3
<1>5. Append(s2c[c], m) = Append(s2c[c], "answer")
  BY <1>1, <1>3, <1>4
<1> QED BY <1>1, <1>4, <1>5, AppendIsProper

AnswerStep ==
    \A c \in Conn :
        s2c'[c] = Append(s2c[c], "answer") =>
            itc # <<>> /\ Head(itc).kind = "reply" /\ Head(itc).asker = c

LEMMA AnswerInStep ==
    ASSUME TypeInv, TableInv, AskerInv, [Next]_vars
    PROVE  AnswerStep
<1> SUFFICES ASSUME NEW c \in Conn, s2c'[c] = Append(s2c[c], "answer")
             PROVE  itc # <<>> /\ Head(itc).kind = "reply" /\ Head(itc).asker = c
  BY DEF AnswerStep
<1>1. s2c[c] \in Seq(ReplyKind) /\ "answer" \in ReplyKind
  BY TypeGroups DEF TypeInv, KernelTypeOK, ReplyKind
<1>2. s2c'[c] # s2c[c] /\ s2c'[c] # <<>> /\ s2c' # s2c
  BY <1>1, AppendIsProper
<1>3. CASE ReceiveItc
  <2>1. /\ At(ItcStage)
        /\ Head(itc).kind = "reply" /\ handle_receive_exe_cmd_reply(Head(itc).job)
    BY <1>2, <1>3 DEF ReceiveItc, kernelVars
  <2>2. itc \in Seq(ItcMsg) /\ itc # <<>> /\ Head(itc) \in ItcMsg
    BY <2>1, ItcMessage DEF TypeInv, TypeOK
  <2>3. 1 \in 1..Len(itc) /\ Head(itc) = itc[1]
    BY <2>2
  <2>4. [job |-> Head(itc).job, asker |-> Head(itc).asker] \in Owed
    BY <2>1, <2>3 DEF Owed
  <2>5. PICK i \in Found(client_tree, ByJob(clients), Head(itc).job) :
          Send(clients[i].fd, "answer")
    BY <1>2, <2>1 DEF handle_receive_exe_cmd_reply
  <2>6. i \in Slot /\ clients[i].job = Head(itc).job
    BY <2>5, TableTypes, FoundElements DEF ByJob
  <2>7. c = ConnOf(i)
    BY <2>5, SentTo DEF ConnOf, ReplyKind
  <2>8. ConnOf(i) = Head(itc).asker
    BY <2>4, <2>6 DEF AskerInv
  <2> QED BY <2>1, <2>2, <2>7, <2>8
<1>4. CASE BuildFdSet \/ SelectReturns
  BY <1>2, <1>4 DEF BuildFdSet, SelectReturns, kernelVars
<1>5. CASE Accept
  BY <1>2, <1>5 DEF Accept, handle_accept_new_connection
<1>6. ASSUME NEW i \in Slot, ExpireTimer(i) PROVE FALSE
  <2>1. PICK k : Send(clients[k].fd, "expired")
    BY <1>2, <1>6 DEF ExpireTimer, handle_job_timer_expired
  <2> QED BY <2>1, SentTo DEF ReplyKind
<1>7. ASSUME NEW i \in Slot, ReceiveListRequest(i) PROVE FALSE
  BY <1>7, SentTo DEF ReceiveListRequest, ReplyKind
<1>8. ASSUME NEW i \in Slot, ReceiveExeRequest(i) \/ ReceiveEof(i) \/ ReceiveReset(i) PROVE FALSE
  BY <1>2, <1>8 DEF ReceiveExeRequest, ReceiveEof, release_shell_client_resources,
                    ReceiveReset, kernelVars
<1>9. ASSUME NEW b \in Conn,
             ShellConnects(b) \/ ShellRequests(b) \/ ShellReads(b) \/ ShellHangsUp(b)
      PROVE  FALSE
  <2>1. CASE ShellConnects(b) \/ ShellRequests(b)
    BY <1>2, <2>1 DEF ShellConnects, ShellRequests, Connect, Request
  <2>2. CASE ShellReads(b)
    <3>1. s2c[b] # <<>> /\ s2c' = [s2c EXCEPT ![b] = Tail(@)] /\ s2c \in [Conn -> Seq(ReplyKind)]
      BY <2>2, TypeGroups DEF ShellReads, ReadReply, TypeInv, KernelTypeOK
    <3>2. b = c
      BY <1>2, <3>1
    <3>3. Len(s2c'[c]) = Len(s2c[c]) - 1 /\ Len(s2c[c]) \in Nat
      BY <1>1, <3>1, <3>2, HeadTailProperties
    <3>4. Len(s2c'[c]) = Len(s2c[c]) + 1
      BY <1>1, AppendProperties
    <3> QED BY <3>3, <3>4
  <2>3. CASE ShellHangsUp(b)
    BY <1>2, <2>3, TypeGroups DEF ShellHangsUp, Hangup, TypeInv, KernelTypeOK
  <2> QED BY <1>9, <2>1, <2>2, <2>3
<1>10. CASE Apps
  BY <1>2, <1>10 DEF Apps, AppRegisters, AppDeregisters, AppAnswers, AppSends, kernelVars
<1>11. CASE Clock
  BY <1>2, <1>11 DEF Clock, ClockTicks, TimerExpires
<1>12. CASE UNCHANGED vars
  BY <1>2, <1>12 DEF vars, kernelVars
<1> QED BY <1>3, <1>4, <1>5, <1>6, <1>7, <1>8, <1>9, <1>10, <1>11, <1>12
        DEF Next, Daemon, Loop, Shells

\* The answer of a job goes to the connection whose request made the job and
\* to no other, although slots and descriptors are reused and the lookup
\* searches a tree built by another key (clid.c:1117-1148).
THEOREM AnswersReachAskers == Spec => AnswerReachesAsker
<1>1. TypeInv /\ TableInv /\ AskerInv /\ [Next]_vars => (TypeInv /\ TableInv /\ AskerInv)'
  BY TypeNext, TableNext, AskerNext
<1>2. Init => TypeInv /\ TableInv /\ AskerInv
  BY TypeInit, TableInit, AskerInit
<1>3. TypeInv /\ TableInv /\ AskerInv /\ [Next]_vars => [AnswerStep]_vars
  BY AnswerInStep
<1>4. Spec => [][AnswerStep]_vars
  BY <1>1, <1>2, <1>3, PTL DEF Spec
<1> QED BY <1>4 DEF AnswerReachesAsker, AnswerStep
-----------------------------------------------------------------------------
(***************************************************************************)
(* The passes of the daemon's loop: every handler finds the input it was   *)
(* selected for, the daemon exits for three reasons only, and it           *)
(* implements JobService.                                                  *)
(***************************************************************************)

(***************************************************************************)
(* The bits of a pass.  ConnsOnce: a connection is on one socket or once   *)
(* on the backlog, and is one that a shell has opened.  TimersHeld: only a *)
(* connected slot has a timer.  BitsInv: a bit that a later stage will     *)
(* test on the present contents of a slot has input behind it.             *)
(***************************************************************************)
ConnsOnce ==
    /\ \A d, e \in Fd : sock[d] # NoConn /\ sock[d] = sock[e] => d = e
    /\ \A d \in Fd : sock[d] # NoConn => peer[sock[d]] # "none"
    /\ \A p \in 1..Len(backlog) :
         /\ peer[backlog[p]] # "none"
         /\ \A d \in Fd : sock[d] # backlog[p]
         /\ \A q \in 1..Len(backlog) : backlog[p] = backlog[q] => p = q

TimersHeld == \A i \in Slot : clients[i].timer # NoFd => Connected(i)

HasFired(i) == alarm[clients[i].timer] = "fired"
HasData(i)  == c2s[ConnOf(i)] # <<>> \/ peer[ConnOf(i)] # "up"

\* At the first stage no bit belongs to a free descriptor, so a connection
\* that is accepted gets none.
FreshBits == stage = AcceptStage => \A d \in Fd : FreeFd(d) => d \notin fdset

SlotBits(i) ==
    /\ TimerStage(i) >= stage /\ clients[i].timer \in fdset => HasFired(i)
    /\ TcpStage(i) >= stage /\ clients[i].fd \in fdset => HasData(i)

BitsInv == running /\ stage # 0 => FreshBits /\ \A i \in Slot : SlotBits(i)

PassInv == ConnsOnce /\ TimersHeld /\ BitsInv

LEMMA PassInit == Init => PassInv
<1> SUFFICES ASSUME Init PROVE PassInv
  OBVIOUS
<1>1. /\ backlog = <<>> /\ fdset = {}
      /\ \A d \in Fd : sock[d] = NoConn
      /\ \A i \in Slot : clients[i].timer = NoFd
  BY DEF Init, KernelInit, ClientInit, FreeSlot
<1> QED BY <1>1 DEF PassInv, ConnsOnce, TimersHeld, BitsInv, FreshBits, SlotBits

-----------------------------------------------------------------------------
LEMMA KernelTypes ==
    ASSUME TypeInv
    PROVE  /\ peer \in [Conn -> PeerState] /\ backlog \in Seq(Conn)
           /\ c2s \in [Conn -> Seq(Requests)] /\ NoConn \notin Conn
           /\ sock \in [Fd -> Conn \cup {NoConn}] /\ alarm \in [Fd -> AlarmState]
           /\ fdset \subseteq {tcp_fd, mbox_fd} \cup Fd /\ stage \in 0..LoopEnd
           /\ LoopEnd \in Nat
  BY TypeGroups, ClidConstants DEF TypeInv, KernelTypeOK, LoopTypeOK, LoopEnd

\* Sockets are only closed, and no connection becomes one never opened.
LEMMA ConnsFrame ==
    ASSUME TypeInv, ConnsOnce, backlog' = backlog,
           \A d \in Fd : sock'[d] \in {sock[d], NoConn},
           \A c \in Conn : peer[c] # "none" => peer'[c] # "none"
    PROVE  ConnsOnce'
<1>1. /\ \A d \in Fd : sock[d] # NoConn => sock[d] \in Conn
      /\ \A p \in 1..Len(backlog) : backlog[p] \in Conn
  BY KernelTypes
<1>2. \A d \in Fd : sock'[d] # NoConn => sock'[d] = sock[d]
  OBVIOUS
<1>3. \A d, e \in Fd : sock'[d] # NoConn /\ sock'[d] = sock'[e] => d = e
  BY <1>2 DEF ConnsOnce
<1>4. \A d \in Fd : sock'[d] # NoConn => peer'[sock'[d]] # "none"
  BY <1>1, <1>2 DEF ConnsOnce
<1>5. \A p \in 1..Len(backlog) : peer'[backlog[p]] # "none" /\ \A d \in Fd : sock'[d] # backlog[p]
  BY <1>1, <1>2, KernelTypes DEF ConnsOnce
<1> QED BY <1>3, <1>4, <1>5 DEF ConnsOnce

\* A send leaves a peer as it is or dead.
LEMMA SendPeers ==
    ASSUME TypeInv, NEW d, NEW m, Send(d, m)
    PROVE  \A c \in Conn : peer'[c] = peer[c] \/ peer'[c] = "dead"
  BY KernelTypes DEF Send

LEMMA ConnectConns ==
    ASSUME TypeInv, ConnsOnce, NEW c \in Conn, Connect(c)
    PROVE  ConnsOnce'
<1>1. /\ backlog \in Seq(Conn) /\ backlog' = Append(backlog, c) /\ sock' = sock
      /\ peer[c] = "none" /\ peer'[c] = "up" /\ \A b \in Conn : b # c => peer'[b] = peer[b]
  BY KernelTypes DEF Connect
<1>2. /\ Len(backlog') = Len(backlog) + 1 /\ Len(backlog) \in Nat
      /\ \A p \in 1..Len(backlog') :
           \/ p \in 1..Len(backlog) /\ backlog'[p] = backlog[p]
           \/ p = Len(backlog) + 1 /\ backlog'[p] = c
  BY <1>1
<1>3. /\ \A d \in Fd : sock[d] # NoConn => sock[d] \in Conn /\ sock[d] # c
      /\ \A p \in 1..Len(backlog) : backlog[p] \in Conn /\ backlog[p] # c
      /\ c # NoConn
  BY <1>1, KernelTypes DEF ConnsOnce
<1>4. \A d \in Fd : sock[d] # NoConn => peer'[sock[d]] # "none"
  BY <1>1, <1>3 DEF ConnsOnce
<1>5. ASSUME NEW p \in 1..Len(backlog')
      PROVE  /\ peer'[backlog'[p]] # "none"
             /\ \A d \in Fd : sock[d] # backlog'[p]
             /\ \A q \in 1..Len(backlog') : backlog'[p] = backlog'[q] => p = q
  <2>1. CASE p \in 1..Len(backlog) /\ backlog'[p] = backlog[p]
    BY <1>1, <1>2, <1>3, <2>1 DEF ConnsOnce
  <2>2. CASE p = Len(backlog) + 1 /\ backlog'[p] = c
    BY <1>1, <1>2, <1>3, <2>2
  <2> QED BY <1>2, <2>1, <2>2
<1> QED BY <1>1, <1>4, <1>5 DEF ConnsOnce

LEMMA AcceptConns ==
    ASSUME TypeInv, ConnsOnce, backlog # <<>>, handle_accept_new_connection
    PROVE  ConnsOnce'
<1>1. PICK d \in Fd : sock[d] = NoConn /\ sock' = [sock EXCEPT ![d] = Head(backlog)]
  BY DEF handle_accept_new_connection, LowestFreeFd, FreeFd
<1>2. peer' = peer /\ backlog' = Tail(backlog)
  BY DEF handle_accept_new_connection
<1>3. /\ Head(backlog) = backlog[1] /\ 1 \in 1..Len(backlog) /\ Head(backlog) \in Conn
      /\ Len(backlog') = Len(backlog) - 1 /\ Len(backlog) \in Nat
      /\ \A p \in 1..Len(backlog') : p + 1 \in 1..Len(backlog) /\ backlog'[p] = backlog[p + 1]
  BY <1>2, KernelTypes
<1>4. sock'[d] = backlog[1] /\ \A e \in Fd : e # d => sock'[e] = sock[e]
  BY <1>1, <1>3, KernelTypes
<1>5. \A e, f \in Fd : sock'[e] # NoConn /\ sock'[e] = sock'[f] => e = f
  BY <1>3, <1>4 DEF ConnsOnce
<1>6. \A e \in Fd : sock'[e] # NoConn => peer[sock'[e]] # "none"
  BY <1>3, <1>4 DEF ConnsOnce
<1>7. ASSUME NEW p \in 1..Len(backlog')
      PROVE  /\ peer[backlog'[p]] # "none"
             /\ \A e \in Fd : sock'[e] # backlog'[p]
             /\ \A q \in 1..Len(backlog') : backlog'[p] = backlog'[q] => p = q
  <2>1. p \in Nat /\ p >= 1 /\ p + 1 \in 1..Len(backlog) /\ backlog'[p] = backlog[p + 1]
    BY <1>3
  <2>2. backlog[p + 1] # backlog[1]
    BY <1>3, <2>1 DEF ConnsOnce
  <2>3. \A q \in 1..Len(backlog') : backlog[p + 1] = backlog[q + 1] => p + 1 = q + 1
    BY <1>3, <2>1 DEF ConnsOnce
  <2> QED BY <1>3, <1>4, <2>1, <2>2, <2>3 DEF ConnsOnce
<1> QED BY <1>2, <1>5, <1>6, <1>7 DEF ConnsOnce

-----------------------------------------------------------------------------
\* The loop is at stage p: it has been at no later one, and will be at none
\* before p again in this pass.
LEMMA StageMoves ==
    ASSUME TypeInv, NEW p \in 1..(LoopEnd - 1), At(p)
    PROVE  /\ stage \in 1..p /\ stage' = p + 1 /\ stage' # 0 /\ stage' # AcceptStage
           /\ fdset' = fdset /\ stage \in Nat /\ stage' \in Nat /\ stage # 0
  BY KernelTypes DEF At, AcceptStage

LEMMA StagesInOrder ==
    \A i, j \in Slot : /\ TimerStage(i) \in Nat /\ TcpStage(i) \in Nat
                       /\ TimerStage(i) # TcpStage(j)
                       /\ TimerStage(i) = TimerStage(j) => i = j
                       /\ TcpStage(i) = TcpStage(j) => i = j
                       /\ TimerStage(j) >= TcpStage(i) + 1 => j # i
                       /\ TcpStage(j) >= TcpStage(i) + 1 => j # i
                       /\ TimerStage(i) > ItcStage /\ TcpStage(i) > ItcStage
                       /\ AcceptStage < ItcStage
  BY ClidConstants DEF Slot, TimerStage, TcpStage, AcceptStage, ItcStage

\* The slots whose stages are still to come keep their descriptors and what
\* is behind them.
LEMMA BitsKept ==
    ASSUME TypeInv, BitsInv, running, stage # 0, fdset' = fdset,
           stage' \in Nat, stage' >= stage,
           stage' = AcceptStage => \A d \in Fd : FreeFd(d)' => FreeFd(d),
           \A i \in Slot :
             /\ TimerStage(i) >= stage' /\ clients'[i].timer \in fdset =>
                  /\ clients'[i].timer = clients[i].timer
                  /\ HasFired(i) => HasFired(i)'
             /\ TcpStage(i) >= stage' /\ clients'[i].fd \in fdset =>
                  /\ clients'[i].fd = clients[i].fd
                  /\ HasData(i) => HasData(i)'
    PROVE  BitsInv'
<1>1. stage \in Nat
  BY KernelTypes
<1>2. FreshBits'
  <2> SUFFICES ASSUME stage' = AcceptStage, NEW d \in Fd, FreeFd(d)' PROVE d \notin fdset
    BY DEF FreshBits
  <2>1. stage = AcceptStage /\ FreeFd(d)
    BY <1>1 DEF AcceptStage
  <2> QED BY <2>1 DEF BitsInv, FreshBits
<1>3. ASSUME NEW i \in Slot PROVE SlotBits(i)'
  <2>1. SlotBits(i) /\ TimerStage(i) \in Nat /\ TcpStage(i) \in Nat
    BY StagesInOrder DEF BitsInv
  <2> QED BY <1>1, <2>1 DEF SlotBits, TimerStage, TcpStage
<1> QED BY <1>2, <1>3 DEF BitsInv

-----------------------------------------------------------------------------
LEMMA BuildPass == ASSUME TypeInv, PassInv, BuildFdSet PROVE PassInv'
  BY DEF BuildFdSet, kernelVars, clientVars, PassInv, ConnsOnce, TimersHeld, Connected, BitsInv

LEMMA SelectPass == ASSUME TypeInv, TableInv, PassInv, running, SelectReturns PROVE PassInv'
<1>1. /\ stage' = AcceptStage /\ fdset' = {d \in fdset : HasInput(d)}
      /\ UNCHANGED <<sock, alarm, peer, backlog, c2s, clients>>
  BY DEF SelectReturns, kernelVars, clientVars
<1>2. ConnsOnce' /\ TimersHeld'
  BY <1>1 DEF PassInv, ConnsOnce, TimersHeld, Connected
<1>3. \A d \in Fd : d # tcp_fd /\ d # mbox_fd
  BY DEF Fd, tcp_fd, mbox_fd
<1>4. FreshBits'
  BY <1>1, <1>3 DEF FreshBits, FreeFd, HasInput, Readable
<1>5. NoFd \notin {tcp_fd, mbox_fd}
  BY DEF NoFd, tcp_fd, mbox_fd
<1>6. ASSUME NEW i \in Slot PROVE SlotBits(i)'
  <2>1. ASSUME clients[i].timer \in fdset' PROVE HasFired(i)
    <3>1. clients[i].timer \in Fd
      BY <1>1, <1>5, <2>1, SlotFields, KernelTypes
    <3>2. OwnedFd(clients[i].timer)
      BY <3>1, OwnedFds DEF TableInv
    <3>3. sock[clients[i].timer] = NoConn
      BY <3>2 DEF OwnedFd
    <3> QED BY <1>1, <1>3, <2>1, <3>1, <3>3 DEF HasInput, Readable, HasFired
  <2>2. ASSUME clients[i].fd \in fdset' PROVE HasData(i)
    <3>1. clients[i].fd \in Fd
      BY <1>1, <1>5, <2>2, SlotFields, KernelTypes
    <3>2. OwnedFd(clients[i].fd)
      BY <3>1, OwnedFds DEF TableInv
    <3>3. alarm[clients[i].fd] = "none"
      BY <3>2 DEF OwnedFd
    <3> QED BY <1>1, <1>3, <2>2, <3>1, <3>3 DEF HasInput, Readable, HasData, ConnOf
  <2> QED BY <1>1, <2>1, <2>2 DEF SlotBits, HasFired, HasData, ConnOf
<1> QED BY <1>2, <1>4, <1>6 DEF PassInv, BitsInv

\* What fdset holds of a slot is a descriptor of its own.
LEMMA SlotBitFds ==
    ASSUME TypeInv, NEW i \in Slot
    PROVE  /\ clients[i].timer \in fdset => clients[i].timer \in Fd
           /\ clients[i].fd \in fdset =>
                clients[i].fd \in Fd /\ Connected(i) /\ ConnOf(i) \in Conn
<1>1. NoFd \notin {tcp_fd, mbox_fd} /\ NoFd \notin Fd
  BY DEF NoFd, tcp_fd, mbox_fd, Fd
<1> QED BY <1>1, SlotFields, KernelTypes DEF TypeInv, SocketsHeld, Connected, ConnOf

LEMMA AcceptPass ==
    ASSUME TypeInv, PassInv, running, Accept
    PROVE  PassInv'
<1>1. /\ At(AcceptStage) /\ handle_accept_new_connection
      /\ UNCHANGED <<alarm, peer, c2s>>
  BY DEF Accept, handle_accept_new_connection
<1>2. stage = AcceptStage /\ stage' = AcceptStage + 1 /\ stage' # AcceptStage /\ fdset' = fdset
      /\ stage \in Nat /\ stage # 0
  BY <1>1, StageRange DEF At, AcceptStage
<1>3. tcp_fd \in fdset
  BY <1>1, StagesInOrder DEF At, Selected, AcceptStage, ItcStage, TimerStage, TcpStage
<1>4. ConnsOnce'
  BY <1>1, <1>2, <1>3, AcceptConns DEF PassInv, TypeInv, LoopInput
<1>5. PICK d \in Fd :
        /\ FreeFd(d) /\ sock' = [sock EXCEPT ![d] = Head(backlog)]
        /\ \/ running' = FALSE /\ clients' = clients
           \/ \E i \in Slot : ~Connected(i) /\ clients' = [clients EXCEPT ![i].fd = d]
  BY <1>1 DEF handle_accept_new_connection, LowestFreeFd, FirstFreeSlot
<1>6. CASE running' = FALSE /\ clients' = clients
  BY <1>4, <1>6 DEF PassInv, TimersHeld, Connected, BitsInv
<1>7. ASSUME NEW i \in Slot, ~Connected(i), clients' = [clients EXCEPT ![i].fd = d]
      PROVE  PassInv'
  <2>1. /\ clients'[i].fd = d /\ clients'[i].timer = NoFd
        /\ \A j \in Slot : clients'[j].timer = clients[j].timer
        /\ \A j \in Slot : j # i => clients'[j].fd = clients[j].fd
    BY <1>7, TableTypes DEF PassInv, TimersHeld, ClientType
  <2>2. TimersHeld'
    BY <2>1, TableTypes DEF PassInv, TimersHeld, Connected
  <2>3. d \notin fdset
    BY <1>2, <1>5 DEF PassInv, BitsInv, FreshBits
  <2>4. \A j \in Slot : clients'[j].fd \in fdset =>
          /\ clients'[j].fd = clients[j].fd
          /\ ConnOf(j)' = ConnOf(j)
    <3> SUFFICES ASSUME NEW j \in Slot, clients'[j].fd \in fdset
                 PROVE  clients'[j].fd = clients[j].fd /\ ConnOf(j)' = ConnOf(j)
      OBVIOUS
    <3>1. j # i /\ clients'[j].fd = clients[j].fd
      BY <2>1, <2>3
    <3>2. clients[j].fd \in Fd /\ clients[j].fd # d
      BY <2>3, <3>1, SlotBitFds
    <3> QED BY <1>5, <3>1, <3>2, TableTypes DEF ConnOf
  <2>5. BitsInv'
    BY <1>1, <1>2, <2>1, <2>4, BitsKept DEF PassInv, HasFired, HasData
  <2> QED BY <1>4, <2>2, <2>5 DEF PassInv
<1> QED BY <1>5, <1>6, <1>7

-----------------------------------------------------------------------------
\* A stage that opens and closes nothing and takes no later stage's input.
LEMMA StagePass ==
    ASSUME TypeInv, PassInv, running, NEW p \in 1..(LoopEnd - 1), At(p),
           sock' = sock, backlog' = backlog,
           \A c \in Conn : peer'[c] = peer[c] \/ peer'[c] = "dead",
           \A j \in Slot : /\ clients'[j].fd = clients[j].fd
                           /\ clients'[j].timer = clients[j].timer,
           \A d \in Fd : alarm[d] = "fired" => alarm'[d] = "fired",
           \A j \in Slot : TcpStage(j) >= p + 1 /\ clients[j].fd \in fdset =>
                              c2s'[ConnOf(j)] = c2s[ConnOf(j)]
    PROVE  PassInv'
<1>1. ConnsOnce'
  BY ConnsFrame DEF PassInv
<1>2. TimersHeld'
  BY DEF PassInv, TimersHeld, Connected
<1>3. ASSUME NEW j \in Slot, TimerStage(j) >= stage', clients'[j].timer \in fdset, HasFired(j)
      PROVE  HasFired(j)'
  BY <1>3, SlotBitFds DEF HasFired
<1>4. ASSUME NEW j \in Slot, TcpStage(j) >= stage', clients'[j].fd \in fdset, HasData(j)
      PROVE  HasData(j)'
  <2>1. ConnOf(j) \in Conn /\ ConnOf(j)' = ConnOf(j) /\ c2s'[ConnOf(j)] = c2s[ConnOf(j)]
    BY <1>4, StageMoves, SlotBitFds DEF ConnOf
  <2> QED BY <1>4, <2>1 DEF HasData
<1>5. BitsInv'
  BY <1>3, <1>4, StageMoves, BitsKept DEF PassInv
<1> QED BY <1>1, <1>2, <1>5 DEF PassInv

LEMMA ReceiveItcPass ==
    ASSUME TypeInv, PassInv, running, ReceiveItc
    PROVE  PassInv'
<1>1. At(ItcStage) /\ ItcStage \in 1..(LoopEnd - 1)
  BY StageRange DEF ReceiveItc
<1>2. CASE UNCHANGED <<kernelVars, clientVars>>
  BY <1>1, <1>2, StagePass DEF kernelVars, clientVars
<1>3. CASE handle_receive_exe_cmd_reply(Head(itc).job)
  <2>1. UNCHANGED <<sock, backlog, c2s>>
    BY <1>3 DEF handle_receive_exe_cmd_reply
  <2>2. \A c \in Conn : peer'[c] = peer[c] \/ peer'[c] = "dead"
    BY <1>3, SendPeers DEF handle_receive_exe_cmd_reply
  <2>3. \/ UNCHANGED <<clients, alarm>>
        \/ \E i : /\ clients' = [clients EXCEPT ![i].job = IdleJob]
                  /\ alarm' = [e \in Fd |-> IF e = clients[i].timer THEN "fired" ELSE alarm[e]]
    BY <1>3 DEF handle_receive_exe_cmd_reply
  <2>4. \A j \in Slot : /\ clients'[j].fd = clients[j].fd
                        /\ clients'[j].timer = clients[j].timer
    <3>1. ASSUME NEW i, clients' = [clients EXCEPT ![i].job = IdleJob]
          PROVE  \A j \in Slot : /\ clients'[j].fd = clients[j].fd
                                 /\ clients'[j].timer = clients[j].timer
      BY <3>1, TableTypes DEF ClientType
    <3> QED BY <2>3, <3>1
  <2>5. \A d \in Fd : alarm[d] = "fired" => alarm'[d] = "fired"
    BY <2>3
  <2> QED BY <1>1, <2>1, <2>2, <2>4, <2>5, StagePass
<1> QED BY <1>2, <1>3 DEF ReceiveItc

LEMMA ExpireTimerPass ==
    ASSUME TypeInv, PassInv, running, NEW i \in Slot, ExpireTimer(i)
    PROVE  PassInv'
<1>1. At(TimerStage(i)) /\ TimerStage(i) \in 1..(LoopEnd - 1)
  BY StageRange DEF ExpireTimer
<1>2. UNCHANGED <<sock, alarm, backlog, c2s>>
  BY DEF ExpireTimer, handle_job_timer_expired
<1>3. \A c \in Conn : peer'[c] = peer[c] \/ peer'[c] = "dead"
  BY SendPeers DEF ExpireTimer, handle_job_timer_expired
<1>4. clients' = clients \/ \E k : clients' = [clients EXCEPT ![k].job = IdleJob]
  BY DEF ExpireTimer, handle_job_timer_expired
<1>5. \A j \in Slot : clients'[j].fd = clients[j].fd /\ clients'[j].timer = clients[j].timer
  <2>1. ASSUME NEW k, clients' = [clients EXCEPT ![k].job = IdleJob]
        PROVE  \A j \in Slot : clients'[j].fd = clients[j].fd /\ clients'[j].timer = clients[j].timer
    BY <2>1, TableTypes DEF ClientType
  <2> QED BY <1>4, <2>1
<1> QED BY <1>1, <1>2, <1>3, <1>5, StagePass

LEMMA ListPass ==
    ASSUME TypeInv, PassInv, running, NEW i \in Slot, ReceiveListRequest(i)
    PROVE  PassInv'
<1>1. /\ At(TcpStage(i)) /\ TcpStage(i) \in 1..(LoopEnd - 1)
      /\ Connected(i) /\ clients[i].fd \in Fd /\ ConnOf(i) \in Conn
  BY StageRange, SelectedSocket DEF ReceiveListRequest, Receive
<1>2. /\ UNCHANGED <<sock, alarm, backlog, clients>>
      /\ c2s' = [c2s EXCEPT ![ConnOf(i)] = Tail(@)]
  BY DEF ReceiveListRequest, Receive, clientVars
<1>3. \A c \in Conn : peer'[c] = peer[c] \/ peer'[c] = "dead"
  BY SendPeers DEF ReceiveListRequest
<1>4. ASSUME NEW j \in Slot, TcpStage(j) >= TcpStage(i) + 1, clients[j].fd \in fdset
      PROVE  c2s'[ConnOf(j)] = c2s[ConnOf(j)]
  <2>1. j # i /\ clients[j].fd \in Fd /\ ConnOf(j) \in Conn
    BY <1>4, StagesInOrder, SlotBitFds
  <2>2. clients[j].fd # clients[i].fd
    BY <1>1, <2>1 DEF TypeInv, SocketsHeld
  <2>3. ConnOf(j) # ConnOf(i)
    BY <1>1, <2>1, <2>2, KernelTypes DEF PassInv, ConnsOnce, ConnOf
  <2> QED BY <1>2, <2>1, <2>3, KernelTypes
<1> QED BY <1>1, <1>2, <1>3, <1>4, StagePass

LEMMA ExePass ==
    ASSUME TypeInv, TableInv, PassInv, running, NEW i \in Slot, ReceiveExeRequest(i)
    PROVE  PassInv'
<1>1. /\ At(TcpStage(i)) /\ TcpStage(i) \in 1..(LoopEnd - 1)
      /\ Connected(i) /\ clients[i].fd \in Fd /\ ConnOf(i) \in Conn
  BY StageRange, SelectedSocket DEF ReceiveExeRequest, Receive
<1>2. /\ UNCHANGED <<sock, peer, backlog, running>>
      /\ c2s' = [c2s EXCEPT ![ConnOf(i)] = Tail(@)]
  BY DEF ReceiveExeRequest, Receive
<1>3. ASSUME NEW j \in Slot, TcpStage(j) >= TcpStage(i) + 1, clients[j].fd \in fdset
      PROVE  c2s'[ConnOf(j)] = c2s[ConnOf(j)]
  <2>1. j # i /\ clients[j].fd \in Fd /\ ConnOf(j) \in Conn
    BY <1>3, StagesInOrder, SlotBitFds
  <2>2. clients[j].fd # clients[i].fd
    BY <1>1, <2>1 DEF TypeInv, SocketsHeld
  <2>3. ConnOf(j) # ConnOf(i)
    BY <1>1, <2>1, <2>2, KernelTypes DEF PassInv, ConnsOnce, ConnOf
  <2> QED BY <1>2, <2>1, <2>3, KernelTypes
<1>4. CASE UNCHANGED <<clients, alarm, atApp>>
  BY <1>1, <1>2, <1>3, <1>4, StagePass
<1>5. ASSUME NEW k \in Found(client_tree, ByFd(clients), clients[i].fd),
             restart_job_timer(k, m_job_id')
      PROVE  PassInv'
  <2>1. k = i
    BY <1>1, <1>5, TableTypes, FoundElements DEF ByFd, TypeInv, SocketsHeld
  <2>2. PICK t \in Fd :
          /\ IF clients[i].timer # NoFd THEN t = clients[i].timer ELSE LowestFreeFd(t)
          /\ clients' = [clients EXCEPT ![i].timer = t, ![i].job = m_job_id']
          /\ alarm' = [alarm EXCEPT ![t] = "armed"]
    BY <1>5, <2>1 DEF restart_job_timer
  <2>3. /\ \A j \in Slot : clients'[j].fd = clients[j].fd
        /\ \A j \in Slot : j # i => clients'[j].timer = clients[j].timer
    BY <2>2, TableTypes DEF ClientType
  <2>4. \A e \in Fd : OwnedFd(e)
    BY OwnedFds DEF TableInv
  <2>5. \A j \in Slot : j # i => clients[j].timer # t
    <3>1. CASE clients[i].timer = t
      BY <2>4, <3>1 DEF OwnedFd
    <3>2. CASE FreeFd(t)
      BY <2>4, <3>2 DEF OwnedFd, FreeFd
    <3> QED BY <2>2, <3>1, <3>2 DEF LowestFreeFd
  <2>6. ConnsOnce'
    BY <1>2, ConnsFrame DEF PassInv
  <2>7. TimersHeld'
    BY <1>1, <2>3 DEF PassInv, TimersHeld, Connected
  <2>8. ASSUME NEW j \in Slot, TimerStage(j) >= stage', clients'[j].timer \in fdset
        PROVE  clients'[j].timer = clients[j].timer /\ (HasFired(j) => HasFired(j)')
    <3>1. j # i
      BY <1>1, <2>8, StageMoves, StagesInOrder
    <3>2. clients'[j].timer = clients[j].timer /\ clients[j].timer \in Fd /\ clients[j].timer # t
      BY <2>3, <2>5, <2>8, <3>1, SlotBitFds
    <3>3. alarm'[clients[j].timer] = alarm[clients[j].timer]
      BY <2>2, <3>2, TableTypes
    <3> QED BY <3>2, <3>3 DEF HasFired
  <2>9. ASSUME NEW j \in Slot, TcpStage(j) >= stage', clients'[j].fd \in fdset, HasData(j)
        PROVE  HasData(j)'
    BY <1>1, <1>2, <1>3, <2>3, <2>9, StageMoves DEF HasData, ConnOf
  <2>10. BitsInv'
    BY <1>1, <2>3, <2>8, <2>9, StageMoves, BitsKept DEF PassInv
  <2> QED BY <2>6, <2>7, <2>10 DEF PassInv
<1> QED BY <1>4, <1>5 DEF ReceiveExeRequest

LEMMA EofPass ==
    ASSUME TypeInv, TableInv, PassInv, running, NEW i \in Slot, ReceiveEof(i)
    PROVE  PassInv'
<1>1. /\ At(TcpStage(i)) /\ TcpStage(i) \in 1..(LoopEnd - 1)
      /\ Connected(i) /\ clients[i].fd \in Fd /\ ConnOf(i) \in Conn
      /\ release_shell_client_resources(clients[i].fd)
  BY StageRange, SelectedSocket DEF ReceiveEof
<1>2. UNCHANGED <<backlog, c2s, running>>
  BY <1>1 DEF release_shell_client_resources
<1>3. CASE UNCHANGED <<clients, client_tree, sock, alarm, peer>>
  BY <1>1, <1>2, <1>3, StagePass
<1>4. ASSUME NEW k \in Found(client_tree, ByFd(clients), clients[i].fd),
             clients' = [clients EXCEPT ![k] = FreeSlot],
             sock' = [sock EXCEPT ![clients[i].fd] = NoConn],
             alarm' = [e \in Fd |-> IF e = clients[k].timer THEN "none" ELSE alarm[e]],
             peer' = [peer EXCEPT ![ConnOf(i)] = "dead"]
      PROVE  PassInv'
  <2>1. k = i
    BY <1>1, <1>4, TableTypes, FoundElements DEF ByFd, TypeInv, SocketsHeld
  <2>2. /\ clients'[i].timer = NoFd /\ clients'[i].fd = NoFd
        /\ \A j \in Slot : j # i => clients'[j] = clients[j]
    BY <1>4, <2>1, TableTypes DEF FreeSlot
  <2>3. ConnsOnce'
    BY <1>2, <1>4, ConnsFrame, KernelTypes DEF PassInv
  <2>4. TimersHeld'
    BY <2>2 DEF PassInv, TimersHeld, Connected
  <2>5. NoFd \notin fdset
    BY KernelTypes DEF NoFd, tcp_fd, mbox_fd, Fd
  <2>6. ASSUME NEW j \in Slot, clients'[j].timer \in fdset
        PROVE  clients'[j].timer = clients[j].timer /\ (HasFired(j) => HasFired(j)')
    <3>1. j # i /\ clients'[j] = clients[j] /\ clients[j].timer \in Fd
      BY <2>2, <2>5, <2>6, SlotBitFds
    <3>2. clients[j].timer # clients[i].timer
      BY <3>1, OwnedFds DEF TableInv, OwnedFd
    <3> QED BY <1>4, <2>1, <3>1, <3>2 DEF HasFired
  <2>7. ASSUME NEW j \in Slot, clients'[j].fd \in fdset
        PROVE  clients'[j].fd = clients[j].fd /\ (HasData(j) => HasData(j)')
    <3>1. /\ j # i /\ clients'[j] = clients[j]
          /\ clients[j].fd \in Fd /\ Connected(j) /\ ConnOf(j) \in Conn
      BY <2>2, <2>5, <2>7, SlotBitFds
    <3>2. clients[j].fd # clients[i].fd
      BY <1>1, <3>1 DEF TypeInv, SocketsHeld
    <3>3. ConnOf(j)' = ConnOf(j)
      BY <1>4, <3>1, <3>2, KernelTypes DEF ConnOf
    <3>4. peer'[ConnOf(j)] = peer[ConnOf(j)] \/ peer'[ConnOf(j)] = "dead"
      BY <1>4, <3>1, KernelTypes
    <3> QED BY <1>2, <3>1, <3>3, <3>4 DEF HasData
  <2>8. BitsInv'
    BY <1>1, <2>6, <2>7, StageMoves, BitsKept DEF PassInv
  <2> QED BY <2>3, <2>4, <2>8 DEF PassInv
<1> QED BY <1>1, <1>3, <1>4 DEF release_shell_client_resources, ConnOf

LEMMA ResetPass ==
    ASSUME TypeInv, PassInv, NEW i \in Slot, ReceiveReset(i)
    PROVE  PassInv'
  BY DEF ReceiveReset, kernelVars, PassInv, ConnsOnce, TimersHeld, Connected, BitsInv

-----------------------------------------------------------------------------
\* Steps outside the daemon: a timer that has fired stays so, and what there
\* is to receive on an open connection stays.
LEMMA OutsidePass ==
    ASSUME TypeInv, PassInv, ConnsOnce', UNCHANGED clientVars, UNCHANGED loopVars, sock' = sock,
           \A d \in Fd : /\ alarm[d] = "fired" => alarm'[d] = "fired"
                         /\ alarm'[d] = "none" => alarm[d] = "none",
           \A c \in Conn : peer[c] # "none" /\ (c2s[c] # <<>> \/ peer[c] # "up") =>
                              c2s'[c] # <<>> \/ peer'[c] # "up"
    PROVE  PassInv'
<1>1. clients' = clients /\ running' = running /\ stage' = stage /\ fdset' = fdset
  BY DEF clientVars, loopVars
<1>2. TimersHeld'
  BY <1>1 DEF PassInv, TimersHeld, Connected
<1>3. CASE ~running \/ stage = 0
  BY <1>1, <1>2, <1>3 DEF PassInv, BitsInv
<1>4. CASE running /\ stage # 0
  <2>1. stage \in Nat
    BY KernelTypes
  <2>2. \A d \in Fd : FreeFd(d)' => FreeFd(d)
    BY DEF FreeFd
  <2>3. ASSUME NEW j \in Slot, clients[j].timer \in fdset, HasFired(j) PROVE HasFired(j)'
    BY <1>1, <2>3, SlotBitFds DEF HasFired
  <2>4. ASSUME NEW j \in Slot, clients[j].fd \in fdset, HasData(j) PROVE HasData(j)'
    <3>1. clients[j].fd \in Fd /\ ConnOf(j) \in Conn /\ ConnOf(j) # NoConn
      BY <2>4, SlotBitFds, KernelTypes
    <3>2. peer[ConnOf(j)] # "none"
      BY <3>1 DEF PassInv, ConnsOnce, ConnOf
    <3>3. ConnOf(j)' = ConnOf(j)
      BY <1>1 DEF ConnOf
    <3> QED BY <2>4, <3>1, <3>2, <3>3 DEF HasData
  <2>5. BitsInv'
    BY <1>1, <1>4, <2>1, <2>2, <2>3, <2>4, BitsKept DEF PassInv
  <2> QED BY <1>2, <2>5 DEF PassInv
<1> QED BY <1>3, <1>4

LEMMA ShellsPass == ASSUME TypeInv, PassInv, Shells PROVE PassInv'
<1> PICK c \in Conn :
      ShellConnects(c) \/ ShellRequests(c) \/ ShellReads(c) \/ ShellHangsUp(c)
  BY DEF Shells
<1>1. UNCHANGED clientVars /\ UNCHANGED loopVars /\ UNCHANGED <<sock, alarm>>
  BY DEF ShellConnects, ShellRequests, ShellReads, ShellHangsUp,
         Connect, Request, ReadReply, Hangup
<1>2. CASE ShellConnects(c)
  BY <1>1, <1>2, ConnectConns, OutsidePass, KernelTypes DEF ShellConnects, Connect, PassInv
<1>3. CASE ShellRequests(c)
  <2>1. PICK r \in Requests : Request(c, r)
    BY <1>3 DEF ShellRequests
  <2>2. /\ UNCHANGED <<peer, backlog>> /\ c2s' = [c2s EXCEPT ![c] = Append(@, r)]
        /\ c2s[c] \in Seq(Requests)
    BY <2>1, KernelTypes DEF Request
  <2>3. Append(c2s[c], r) # <<>>
    BY <2>2, AppendIsProper
  <2>4. \A b \in Conn : c2s[b] # <<>> => c2s'[b] # <<>>
    BY <2>2, <2>3, KernelTypes
  <2>5. ConnsOnce'
    BY <1>1, <2>2, ConnsFrame DEF PassInv
  <2> QED BY <1>1, <2>2, <2>4, <2>5, OutsidePass
<1>4. CASE ShellReads(c)
  <2>1. UNCHANGED <<peer, backlog, c2s>>
    BY <1>4 DEF ShellReads, ReadReply
  <2> QED BY <1>1, <2>1, ConnsFrame, OutsidePass DEF PassInv
<1>5. CASE ShellHangsUp(c)
  <2>1. /\ UNCHANGED <<backlog, c2s>> /\ \A b \in Conn : peer'[b] = peer[b] \/ peer'[b] \in {"fin", "rst"}
    BY <1>5, KernelTypes DEF ShellHangsUp, Hangup
  <2> QED BY <1>1, <2>1, ConnsFrame, OutsidePass DEF PassInv
<1> QED BY <1>2, <1>3, <1>4, <1>5

LEMMA AppsPass == ASSUME TypeInv, PassInv, Apps PROVE PassInv'
<1>1. UNCHANGED kernelVars /\ UNCHANGED clientVars /\ UNCHANGED loopVars
  BY DEF Apps, AppRegisters, AppDeregisters, AppAnswers, AppSends
<1> QED BY <1>1, ConnsFrame, OutsidePass DEF PassInv, kernelVars

LEMMA ClockPass == ASSUME TypeInv, PassInv, Clock PROVE PassInv'
<1> PICK d \in Fd : ClockTicks(d)
  BY DEF Clock
<1>1. /\ UNCHANGED clientVars /\ UNCHANGED loopVars /\ UNCHANGED <<sock, peer, backlog, c2s>>
      /\ alarm' = [alarm EXCEPT ![d] = "fired"]
  BY DEF ClockTicks, TimerExpires
<1>2. \A e \in Fd : alarm'[e] = alarm[e] \/ alarm'[e] = "fired"
  BY <1>1, KernelTypes
<1> QED BY <1>1, <1>2, ConnsFrame, OutsidePass DEF PassInv

LEMMA PassNext == TypeInv /\ TableInv /\ PassInv /\ [Next]_vars => PassInv'
<1> SUFFICES ASSUME TypeInv, TableInv, PassInv, [Next]_vars PROVE PassInv'
  OBVIOUS
<1>1. CASE UNCHANGED vars
  <2>1. UNCHANGED kernelVars /\ UNCHANGED clientVars /\ UNCHANGED loopVars
    BY <1>1 DEF vars
  <2> QED BY <2>1, ConnsFrame, OutsidePass DEF PassInv, kernelVars
<1>2. CASE Daemon
  BY <1>2, BuildPass, SelectPass, AcceptPass, ReceiveItcPass, ExpireTimerPass,
     ListPass, ExePass, EofPass, ResetPass DEF Daemon, Loop
<1>3. CASE Shells \/ Apps \/ Clock
  BY <1>3, ShellsPass, AppsPass, ClockPass
<1> QED BY <1>1, <1>2, <1>3 DEF Next

LEMMA PassInductive == Spec => [](TypeInv /\ TableInv /\ PassInv)
<1>1. Init => TypeInv /\ TableInv /\ PassInv
  BY TypeInit, TableInit, PassInit
<1>2. TypeInv /\ TableInv /\ PassInv /\ [Next]_vars => (TypeInv /\ TableInv /\ PassInv)'
  BY TypeNext, TableNext, PassNext
<1> QED BY <1>1, <1>2, PTL DEF Spec

\* A stage of a slot is selected by that slot's own descriptor.
LEMMA SelectedSlot ==
    ASSUME NEW i \in Slot
    PROVE  /\ Selected(TimerStage(i)) => Connected(i) /\ clients[i].timer \in fdset
           /\ Selected(TcpStage(i)) => Connected(i) /\ clients[i].fd \in fdset
  BY StagesInOrder DEF Selected, AcceptStage, ItcStage

LEMMA SelectedDaemonFd ==
    /\ Selected(AcceptStage) => tcp_fd \in fdset
    /\ Selected(ItcStage) => mbox_fd \in fdset
  BY StagesInOrder DEF Selected, AcceptStage, ItcStage

\* A handler never finds its descriptor without the input it was selected
\* for: recv and itc_receive do not block the loop and no timer is handled
\* before its time, however descriptors are closed and reused within the
\* pass (clid.c:204-240).
THEOREM StagesFindTheirInput == Spec => []StageHasInput
<1>1. ASSUME TypeInv, PassInv PROVE StageHasInput
  <2> SUFFICES ASSUME running, stage # 0
               PROVE  /\ AcceptStage >= stage /\ Selected(AcceptStage) => backlog # <<>>
                      /\ ItcStage >= stage /\ Selected(ItcStage) => itc # <<>>
                      /\ \A i \in Slot :
                           /\ TimerStage(i) >= stage /\ Selected(TimerStage(i)) => HasFired(i)
                           /\ TcpStage(i) >= stage /\ Selected(TcpStage(i)) => HasData(i)
    BY DEF StageHasInput, HasFired, HasData
  <2>1. \A i \in Slot : SlotBits(i)
    BY <1>1 DEF PassInv, BitsInv
  <2>2. stage \in Nat
    BY <1>1, KernelTypes
  <2>3. AcceptStage >= stage => stage = AcceptStage
    BY <2>2 DEF AcceptStage
  <2>4. ItcStage >= stage => stage \in AcceptStage..ItcStage
    BY <2>2 DEF AcceptStage, ItcStage
  <2> QED BY <1>1, <2>1, <2>3, <2>4, SelectedSlot, SelectedDaemonFd DEF TypeInv, LoopInput, SlotBits
<1> QED BY <1>1, PassInductive, PTL

ExitStep ==
    running /\ ~running' =>
        \/ \A i \in Slot : Connected(i)
        \/ \E i \in Slot : /\ Connected(i)
                           /\ \E c \in Conn : c = ConnOf(i) /\ peer[c] \in {"rst", "dead"}

LEMMA ExitInStep ==
    ASSUME TypeInv, TableInv, PassInv, [Next]_vars
    PROVE  ExitStep
<1> SUFFICES ASSUME running, ~running', ~(\A i \in Slot : Connected(i))
             PROVE  \E i \in Slot : /\ Connected(i) /\ ConnOf(i) \in Conn
                                    /\ peer[ConnOf(i)] \in {"rst", "dead"}
  BY DEF ExitStep
<1>1. CASE Accept
  <2>1. PICK d \in Fd : sock[d] = NoConn /\ Found(client_tree, ByFd(clients), d) # {}
    BY <1>1 DEF Accept, handle_accept_new_connection, LowestFreeFd, FreeFd
  <2>2. PICK i \in Found(client_tree, ByFd(clients), d) : TRUE
    BY <2>1
  <2>3. i \in Slot /\ clients[i].fd = d
    BY <2>2, TableTypes, FoundElements DEF ByFd
  <2> QED BY <2>1, <2>3, TableTypes DEF TypeInv, SocketsHeld, Connected
<1>2. ASSUME NEW j \in Slot, ExpireTimer(j)
      PROVE  \E i \in Slot : /\ Connected(i) /\ ConnOf(i) \in Conn
                             /\ peer[ConnOf(i)] \in {"rst", "dead"}
  <2>1. PICK i \in Found(client_tree, ByTimer(clients), clients[j].timer) :
          ~Sends(clients[i].fd)
    BY <1>2 DEF ExpireTimer, handle_job_timer_expired
  <2>2. i \in Slot /\ clients[i].timer = clients[j].timer
    BY <2>1, TableTypes, FoundElements DEF ByTimer
  <2>3. clients[j].timer # NoFd
    BY <1>2, SelectedSlot, SlotBitFds, TableTypes DEF ExpireTimer, At
  <2>4. Connected(i) /\ clients[i].fd \in Fd /\ ConnOf(i) \in Conn
    BY <2>2, <2>3, SlotFields DEF PassInv, TimersHeld, TypeInv, SocketsHeld, Connected, ConnOf
  <2>5. peer[ConnOf(i)] \in PeerState /\ peer[ConnOf(i)] # "none"
    BY <2>4, KernelTypes DEF PassInv, ConnsOnce, ConnOf
  <2> QED BY <2>1, <2>2, <2>4, <2>5 DEF Sends, ConnOf, PeerState
<1>3. ASSUME NEW i \in Slot, ReceiveReset(i)
      PROVE  Connected(i) /\ ConnOf(i) \in Conn /\ peer[ConnOf(i)] \in {"rst", "dead"}
  BY <1>3, SelectedSocket DEF ReceiveReset
<1>4. ASSUME NEW i \in Slot, ReceiveListRequest(i) \/ ReceiveExeRequest(i) \/ ReceiveEof(i)
      PROVE  FALSE
  BY <1>4 DEF ReceiveListRequest, ReceiveExeRequest, ReceiveEof,
              release_shell_client_resources, clientVars
<1>5. CASE BuildFdSet \/ SelectReturns \/ ReceiveItc
  BY <1>5 DEF BuildFdSet, SelectReturns, ReceiveItc, handle_receive_exe_cmd_reply, clientVars
<1>6. CASE Shells \/ Apps \/ Clock \/ UNCHANGED vars
  BY <1>6 DEF Shells, ShellConnects, ShellRequests, ShellReads, ShellHangsUp,
              Apps, AppRegisters, AppDeregisters, AppAnswers, AppSends,
              Clock, ClockTicks, vars, clientVars
<1> QED BY <1>1, <1>2, <1>3, <1>4, <1>5, <1>6 DEF Next, Daemon, Loop

\* The daemon exits only for a connection beyond the last slot, or for a
\* shell of a connected slot that has reset its connection or gone
\* (clid.c:441, 592, 1161): a descriptor that is used again while an old
\* node still hangs in client_tree is no cause (425).
THEOREM DaemonExitsForCause == Spec => ExitsForCause
<1>1. TypeInv /\ TableInv /\ PassInv /\ [Next]_vars => [ExitStep]_vars
  BY ExitInStep
<1>2. Spec => [][ExitStep]_vars
  BY <1>1, PassInductive, PTL DEF Spec
<1> QED BY <1>2 DEF ExitsForCause, ExitStep

-----------------------------------------------------------------------------
(***************************************************************************)
(* The daemon implements JobService.  A connection is held by one slot at  *)
(* most, so the CHOOSE of Waiting picks the slot that holds it.            *)
(***************************************************************************)
HeldBy(c, i) == Connected(i) /\ ConnOf(i) = c

WaitsAreJobs ==
    \A c \in Conn :
        /\ \A i \in Slot : HeldBy(c, i) => Waiting(c) = clients[i].job
        /\ (\A i \in Slot : ~HeldBy(c, i)) => Waiting(c) = IdleJob

ServiceInv == TypeInv /\ TableInv /\ PassInv /\ WaitsAreJobs

LEMMA OneHolder ==
    ASSUME TypeInv, ConnsOnce, NEW c \in Conn, NEW i \in Slot, NEW k \in Slot,
           HeldBy(c, i), HeldBy(c, k)
    PROVE  k = i
<1>1. clients[i].fd \in Fd /\ clients[k].fd \in Fd /\ c # NoConn
  BY SlotFields, KernelTypes DEF HeldBy, Connected
<1>2. clients[i].fd = clients[k].fd
  BY <1>1 DEF ConnsOnce, HeldBy, ConnOf
<1> QED BY <1>2 DEF TypeInv, SocketsHeld, HeldBy

LEMMA WaitsFollow == TypeInv /\ ConnsOnce => WaitsAreJobs
<1> SUFFICES ASSUME TypeInv, ConnsOnce, NEW c \in Conn
             PROVE  /\ \A i \in Slot : HeldBy(c, i) => Waiting(c) = clients[i].job
                    /\ (\A i \in Slot : ~HeldBy(c, i)) => Waiting(c) = IdleJob
  BY DEF WaitsAreJobs
<1> DEFINE H(i) == Connected(i) /\ ConnOf(i) = c
           k == CHOOSE i \in Slot : H(i)
<1>1. Waiting(c) = IF \E i \in Slot : H(i) THEN clients[k].job ELSE IdleJob
  BY DEF Waiting
<1>2. ASSUME NEW i \in Slot, HeldBy(c, i) PROVE Waiting(c) = clients[i].job
  <2>1. H(i)
    BY <1>2 DEF HeldBy
  <2>2. k \in Slot /\ H(k)
    BY <2>1
  <2>3. k = i
    BY <1>2, <2>2, OneHolder DEF HeldBy
  <2> QED BY <1>1, <2>1, <2>3
<1>3. (\A i \in Slot : ~HeldBy(c, i)) => Waiting(c) = IdleJob
  BY <1>1 DEF HeldBy
<1> QED BY <1>2, <1>3

\* A connection that keeps its slot, and the slot its job, keeps its wait.
LEMMA WaitKept ==
    ASSUME WaitsAreJobs, WaitsAreJobs', NEW c \in Conn,
           \A i \in Slot : HeldBy(c, i)' <=> HeldBy(c, i),
           \A i \in Slot : HeldBy(c, i) => clients'[i].job = clients[i].job
    PROVE  Waiting(c)' = Waiting(c)
<1>1. CASE \E i \in Slot : HeldBy(c, i)
  BY <1>1 DEF WaitsAreJobs
<1>2. CASE \A i \in Slot : ~HeldBy(c, i)
  BY <1>2 DEF WaitsAreJobs
<1> QED BY <1>1, <1>2

WaitingMap == [c \in Conn |-> Waiting(c)]

ServiceStep == [Service!Next]_<<WaitingMap, s2c>>

LEMMA MapKept ==
    ASSUME \A c \in Conn : Waiting(c)' = Waiting(c)
    PROVE  WaitingMap' = WaitingMap
  BY DEF WaitingMap

LEMMA MapChanged ==
    ASSUME NEW b \in Conn, NEW j, Waiting(b)' = j, \A c \in Conn \ {b} : Waiting(c)' = Waiting(c)
    PROVE  WaitingMap' = [WaitingMap EXCEPT ![b] = j]
  BY DEF WaitingMap

\* Nothing the clients wait for changes.
LEMMA MapUnmoved ==
    ASSUME WaitsAreJobs, WaitsAreJobs', sock' = sock,
           \A i \in Slot : clients'[i].fd = clients[i].fd /\ clients'[i].job = clients[i].job
    PROVE  WaitingMap' = WaitingMap
<1>1. \A c \in Conn, i \in Slot : HeldBy(c, i)' <=> HeldBy(c, i)
  BY DEF HeldBy, Connected, ConnOf
<1> QED BY <1>1, WaitKept, MapKept

\* The job of one connected client changes.
LEMMA MapMoved ==
    ASSUME TypeInv, ConnsOnce, WaitsAreJobs, WaitsAreJobs', sock' = sock,
           NEW k \in Slot, Connected(k),
           \A i \in Slot : /\ clients'[i].fd = clients[i].fd
                           /\ i # k => clients'[i].job = clients[i].job
    PROVE  /\ ConnOf(k) \in Conn
           /\ WaitingMap[ConnOf(k)] = clients[k].job
           /\ WaitingMap' = [WaitingMap EXCEPT ![ConnOf(k)] = clients'[k].job]
<1>1. \A c \in Conn, i \in Slot : HeldBy(c, i)' <=> HeldBy(c, i)
  BY DEF HeldBy, Connected, ConnOf
<1>2. PICK b \in Conn : b = ConnOf(k)
  BY DEF TypeInv, SocketsHeld, ConnOf
<1>3. Waiting(b) = clients[k].job /\ Waiting(b)' = clients'[k].job
  BY <1>1, <1>2 DEF WaitsAreJobs, HeldBy
<1>4. ASSUME NEW c \in Conn \ {b} PROVE Waiting(c)' = Waiting(c)
  <2>1. \A i \in Slot : HeldBy(c, i) => i # k
    BY <1>2, <1>4 DEF HeldBy
  <2> QED BY <1>1, <2>1, WaitKept
<1>5. WaitingMap' = [WaitingMap EXCEPT ![b] = clients'[k].job]
  BY <1>3, <1>4, MapChanged
<1> QED BY <1>2, <1>3, <1>5 DEF WaitingMap

-----------------------------------------------------------------------------
\* The steps of the service, on the map of waits.
LEMMA ServiceActions ==
    ASSUME NEW c \in Conn,
           \/ /\ WaitingMap' = WaitingMap
              /\ \/ s2c' = s2c
                 \/ s2c' = [s2c EXCEPT ![c] = Append(@, "list")]
                 \/ s2c[c] # <<>> /\ s2c' = [s2c EXCEPT ![c] = Tail(@)]
                 \/ s2c[c] # <<>> /\ s2c' = [s2c EXCEPT ![c] = <<>>]
           \/ /\ WaitingMap' = [WaitingMap EXCEPT ![c] = IdleJob]
              /\ \/ s2c' \in {s2c, [s2c EXCEPT ![c] = Append(@, "expired")]}
                 \/ WaitingMap[c] # IdleJob /\ s2c' = [s2c EXCEPT ![c] = Append(@, "answer")]
           \/ \E j \in 1..(JobIdMod - 1) :
                 /\ \A d \in Conn : d # c => WaitingMap[d] # j
                 /\ WaitingMap' = [WaitingMap EXCEPT ![c] = j]
                 /\ s2c' = s2c
    PROVE  ServiceStep
  BY DEF ServiceStep, Service!Next, Service!Submit, Service!Answer, Service!Expire,
         Service!List, Service!Leave, Service!Read, Service!Deliver, WaitingMap

LEMMA SendDelivers ==
    ASSUME NEW d, NEW m, Send(d, m)
    PROVE  s2c' = s2c \/ s2c' = [s2c EXCEPT ![sock[d]] = Append(@, m)]
  BY DEF Send

LEMMA AcceptServes ==
    ASSUME ServiceInv, ServiceInv', running, Accept
    PROVE  ServiceStep
<1>1. handle_accept_new_connection /\ s2c' = s2c
  BY DEF Accept, handle_accept_new_connection
<1>2. backlog # <<>>
  <2>1. stage = AcceptStage /\ tcp_fd \in fdset
    BY SelectedDaemonFd, StageRange DEF Accept, At, AcceptStage
  <2> QED BY <2>1 DEF ServiceInv, TypeInv, LoopInput
<1>3. PICK b \in Conn : b = Head(backlog) /\ b = backlog[1] /\ 1 \in 1..Len(backlog)
  BY <1>2, KernelTypes DEF ServiceInv
<1>4. PICK d \in Fd :
        /\ sock[d] = NoConn /\ sock' = [sock EXCEPT ![d] = b]
        /\ \/ clients' = clients
           \/ \E i \in Slot : ~Connected(i) /\ clients' = [clients EXCEPT ![i].fd = d]
  BY <1>1, <1>3 DEF handle_accept_new_connection, LowestFreeFd, FreeFd, FirstFreeSlot
<1>5. \A j \in Slot : Connected(j) => /\ clients[j].fd \in Fd /\ clients[j].fd # d
                                      /\ sock'[clients[j].fd] = sock[clients[j].fd]
  BY <1>4, SlotFields, TableTypes DEF ServiceInv, TypeInv, SocketsHeld, Connected
<1>6. CASE clients' = clients
  <2>1. \A c \in Conn, j \in Slot : HeldBy(c, j)' <=> HeldBy(c, j)
    BY <1>5, <1>6 DEF HeldBy, Connected, ConnOf
  <2>2. WaitingMap' = WaitingMap
    BY <1>6, <2>1, WaitKept, MapKept DEF ServiceInv
  <2> QED BY <1>1, <2>2 DEF ServiceStep
<1>7. ASSUME NEW i \in Slot, ~Connected(i), clients' = [clients EXCEPT ![i].fd = d]
      PROVE  ServiceStep
  <2>1. /\ clients'[i].fd = d /\ clients'[i].job = IdleJob
        /\ \A j \in Slot : j # i => clients'[j] = clients[j]
    BY <1>7, TableTypes DEF ServiceInv, TableInv, JobHasTimer, ClientType
  <2>2. d # NoFd /\ sock'[d] = b
    BY <1>4, TableTypes DEF ServiceInv
  <2>3. HeldBy(b, i)' /\ \A j \in Slot : ~HeldBy(b, j)
    <3>1. \A e \in Fd : sock[e] # b
      BY <1>3 DEF ServiceInv, PassInv, ConnsOnce
    <3> QED BY <1>5, <2>1, <2>2, <3>1 DEF HeldBy, Connected, ConnOf
  <2>4. Waiting(b)' = IdleJob /\ Waiting(b) = IdleJob
    BY <2>1, <2>3 DEF ServiceInv, WaitsAreJobs
  <2>5. ASSUME NEW c \in Conn, c # b PROVE Waiting(c)' = Waiting(c)
    <3>1. \A j \in Slot : j # i => (HeldBy(c, j)' <=> HeldBy(c, j))
      BY <1>5, <2>1 DEF HeldBy, Connected, ConnOf
    <3>2. ~HeldBy(c, i)' /\ ~HeldBy(c, i)
      BY <1>7, <2>1, <2>2, <2>5 DEF HeldBy, ConnOf
    <3>3. \A j \in Slot : HeldBy(c, j)' <=> HeldBy(c, j)
      BY <3>1, <3>2
    <3>4. \A j \in Slot : HeldBy(c, j) => clients'[j].job = clients[j].job
      BY <2>1, <3>2
    <3> QED BY <3>3, <3>4, WaitKept DEF ServiceInv
  <2>6. WaitingMap' = WaitingMap
    BY <2>4, <2>5, MapKept
  <2> QED BY <1>1, <2>6 DEF ServiceStep
<1> QED BY <1>4, <1>6, <1>7

LEMMA ReceiveItcServes ==
    ASSUME ServiceInv, ServiceInv', running, ReceiveItc
    PROVE  ServiceStep
<1>1. CASE UNCHANGED <<kernelVars, clientVars>>
  BY <1>1, MapUnmoved DEF ServiceInv, ServiceStep, kernelVars, clientVars
<1>2. CASE Head(itc).kind = "reply" /\ handle_receive_exe_cmd_reply(Head(itc).job)
  <2>1. sock' = sock
    BY <1>2 DEF handle_receive_exe_cmd_reply
  <2>2. CASE UNCHANGED <<clients, s2c>>
    BY <2>1, <2>2, MapUnmoved DEF ServiceInv, ServiceStep
  <2>3. ASSUME NEW i \in Found(client_tree, ByJob(clients), Head(itc).job),
               Send(clients[i].fd, "answer"),
               Sends(clients[i].fd),
               clients' = [clients EXCEPT ![i].job = IdleJob]
        PROVE  ServiceStep
    <3>1. i \in Slot /\ clients[i].job = Head(itc).job
      BY <2>3, TableTypes, FoundElements DEF ByJob, ServiceInv
    <3>2. clients[i].job # IdleJob
      BY <1>2, <3>1, ItcMessage
      DEF ReceiveItc, ServiceInv, ItcMsg, ReplyMsg, RegMsg, DeregMsg, Jobs, IdleJob
    <3>3. Connected(i)
      BY <3>1, <3>2 DEF ServiceInv, TableInv, JobHasTimer
    <3>4. /\ clients'[i].job = IdleJob
          /\ \A j \in Slot : /\ clients'[j].fd = clients[j].fd
                             /\ j # i => clients'[j].job = clients[j].job
      BY <2>3, <3>1, TableTypes DEF ServiceInv, ClientType
    <3>5. PICK c \in Conn : c = ConnOf(i)
      BY <3>1, <3>3 DEF ServiceInv, TypeInv, SocketsHeld, ConnOf
    <3>6. WaitingMap[c] # IdleJob /\ WaitingMap' = [WaitingMap EXCEPT ![c] = IdleJob]
      BY <2>1, <3>1, <3>2, <3>3, <3>4, <3>5, MapMoved DEF ServiceInv, PassInv
    <3>7. s2c' = s2c \/ s2c' = [s2c EXCEPT ![c] = Append(@, "answer")]
      BY <2>3, <3>5, SendDelivers DEF ConnOf
    <3> QED BY <3>6, <3>7, ServiceActions
  <2>4. ASSUME NEW i, Send(clients[i].fd, "answer"), ~Sends(clients[i].fd), clients' = clients
        PROVE  UNCHANGED <<clients, s2c>>
    BY <2>4 DEF Send, Sends
  <2> QED BY <1>2, <2>2, <2>3, <2>4 DEF handle_receive_exe_cmd_reply
<1> QED BY <1>1, <1>2 DEF ReceiveItc

LEMMA ExpireTimerServes ==
    ASSUME ServiceInv, ServiceInv', running, NEW t \in Slot, ExpireTimer(t)
    PROVE  ServiceStep
<1>1. sock' = sock /\ handle_job_timer_expired(clients[t].timer)
  BY DEF ExpireTimer, handle_job_timer_expired
<1>2. CASE UNCHANGED <<clients, s2c>>
  BY <1>1, <1>2, MapUnmoved DEF ServiceInv, ServiceStep
<1>3. ASSUME NEW i \in Found(client_tree, ByTimer(clients), clients[t].timer),
             Send(clients[i].fd, "expired"),
             clients' = [clients EXCEPT ![i].job = IdleJob]
      PROVE  ServiceStep
  <2>1. i \in Slot /\ clients[i].timer = clients[t].timer
    BY <1>3, TableTypes, FoundElements DEF ByTimer, ServiceInv
  <2>2. clients[t].timer # NoFd
    BY SelectedSlot, SlotBitFds, TableTypes DEF ExpireTimer, At, ServiceInv
  <2>3. Connected(i)
    BY <2>1, <2>2 DEF ServiceInv, PassInv, TimersHeld
  <2>4. /\ clients'[i].job = IdleJob
        /\ \A j \in Slot : /\ clients'[j].fd = clients[j].fd
                           /\ j # i => clients'[j].job = clients[j].job
    BY <1>3, <2>1, TableTypes DEF ServiceInv, ClientType
  <2>5. PICK c \in Conn : c = ConnOf(i)
    BY <2>1, <2>3 DEF ServiceInv, TypeInv, SocketsHeld, ConnOf
  <2>6. WaitingMap' = [WaitingMap EXCEPT ![c] = IdleJob]
    BY <1>1, <2>1, <2>3, <2>4, <2>5, MapMoved DEF ServiceInv, PassInv
  <2>7. s2c' \in {s2c, [s2c EXCEPT ![c] = Append(@, "expired")]}
    BY <1>3, <2>5, SendDelivers DEF ConnOf
  <2> QED BY <2>6, <2>7, ServiceActions
<1>4. ASSUME NEW i, Send(clients[i].fd, "expired"), ~Sends(clients[i].fd), clients' = clients
      PROVE  UNCHANGED <<clients, s2c>>
  BY <1>4 DEF Send, Sends
<1> QED BY <1>1, <1>2, <1>3, <1>4 DEF handle_job_timer_expired

LEMMA ListServes ==
    ASSUME ServiceInv, ServiceInv', NEW i \in Slot, ReceiveListRequest(i)
    PROVE  ServiceStep
<1>1. PICK c \in Conn : c = ConnOf(i)
  BY SelectedSocket DEF ServiceInv, ReceiveListRequest, Receive
<1>2. s2c' = s2c \/ s2c' = [s2c EXCEPT ![c] = Append(@, "list")]
  BY <1>1, SendDelivers DEF ReceiveListRequest, ConnOf
<1>3. WaitingMap' = WaitingMap
  BY MapUnmoved DEF ServiceInv, ReceiveListRequest, clientVars
<1> QED BY <1>2, <1>3, ServiceActions

LEMMA ExeServes ==
    ASSUME ServiceInv, ServiceInv', running, NEW i \in Slot, ReceiveExeRequest(i)
    PROVE  ServiceStep
<1>1. Connected(i) /\ clients[i].fd \in Fd /\ ConnOf(i) \in Conn
  BY SelectedSocket DEF ServiceInv, ReceiveExeRequest, Receive
<1>2. /\ sock' = sock /\ s2c' = s2c
      /\ m_job_id' = m_job_id + 1 /\ m_job_id \in Nat /\ m_job_id' \in 1..(JobIdMod - 1)
  BY NextJobIdIsNext, TableTypes DEF ServiceInv, ReceiveExeRequest, NoWrap
<1>3. CASE UNCHANGED <<clients, alarm, atApp>>
  BY <1>2, <1>3, MapUnmoved DEF ServiceInv, ServiceStep
<1>4. ASSUME NEW k \in Found(client_tree, ByFd(clients), clients[i].fd),
             restart_job_timer(k, m_job_id')
      PROVE  ServiceStep
  <2>1. k = i
    BY <1>1, <1>4, TableTypes, FoundElements DEF ByFd, ServiceInv, TypeInv, SocketsHeld
  <2>2. /\ clients'[i].job = m_job_id'
        /\ \A j \in Slot : /\ clients'[j].fd = clients[j].fd
                           /\ j # i => clients'[j].job = clients[j].job
    BY <1>4, <2>1, TableTypes DEF ServiceInv, restart_job_timer, ClientType
  <2>3. PICK c \in Conn : c = ConnOf(i)
    BY <1>1
  <2>4. WaitingMap' = [WaitingMap EXCEPT ![c] = m_job_id']
    BY <1>1, <1>2, <2>2, <2>3, MapMoved DEF ServiceInv, PassInv
  <2>5. ASSUME NEW b \in Conn PROVE WaitingMap[b] # m_job_id'
    <3>1. Waiting(b) = IdleJob \/ \E j \in Slot : Waiting(b) = clients[j].job
      BY DEF ServiceInv, WaitsAreJobs
    <3>2. \A j \in Slot : clients[j].job \in Nat /\ clients[j].job <= m_job_id
      BY SlotFields DEF ServiceInv, TableInv, JobsIssued
    <3> QED BY <1>2, <3>1, <3>2 DEF WaitingMap, IdleJob
  <2>6. PICK n \in 1..(JobIdMod - 1) : n = m_job_id'
    BY <1>2
  <2> QED BY <1>2, <2>4, <2>5, <2>6, ServiceActions
<1> QED BY <1>3, <1>4 DEF ReceiveExeRequest

LEMMA EofServes ==
    ASSUME ServiceInv, ServiceInv', running, NEW i \in Slot, ReceiveEof(i)
    PROVE  ServiceStep
<1>1. /\ Connected(i) /\ clients[i].fd \in Fd /\ ConnOf(i) \in Conn
      /\ release_shell_client_resources(clients[i].fd)
  BY SelectedSocket DEF ServiceInv, ReceiveEof
<1>2. s2c' = s2c
  BY <1>1 DEF release_shell_client_resources
<1>3. CASE UNCHANGED <<clients, client_tree, sock, alarm, peer>>
  BY <1>2, <1>3, MapUnmoved DEF ServiceInv, ServiceStep
<1>4. ASSUME NEW k \in Found(client_tree, ByFd(clients), clients[i].fd),
             clients' = [clients EXCEPT ![k] = FreeSlot],
             sock' = [sock EXCEPT ![clients[i].fd] = NoConn]
      PROVE  ServiceStep
  <2>1. k = i
    BY <1>1, <1>4, TableTypes, FoundElements DEF ByFd, ServiceInv, TypeInv, SocketsHeld
  <2>2. clients'[i].fd = NoFd /\ \A j \in Slot : j # i => clients'[j] = clients[j]
    BY <1>4, <2>1, TableTypes DEF ServiceInv, FreeSlot
  <2>3. PICK b \in Conn : b = ConnOf(i)
    BY <1>1
  <2>4. \A j \in Slot : j # i /\ Connected(j) => ConnOf(j)' = ConnOf(j)
    <3> SUFFICES ASSUME NEW j \in Slot, j # i, Connected(j) PROVE ConnOf(j)' = ConnOf(j)
      OBVIOUS
    <3>1. clients[j].fd # clients[i].fd /\ clients[j].fd \in Fd
      BY <1>1, SlotFields DEF ServiceInv, TypeInv, SocketsHeld, Connected
    <3> QED BY <1>4, <2>2, <3>1, TableTypes DEF ServiceInv, ConnOf
  <2>5. ~Connected(i)' /\ \A j \in Slot : j # i => (Connected(j)' <=> Connected(j))
    BY <2>2 DEF Connected
  <2>6. \A c \in Conn, j \in Slot : j # i => (HeldBy(c, j)' <=> HeldBy(c, j))
    BY <2>4, <2>5 DEF HeldBy
  <2>7. \A c \in Conn : ~HeldBy(c, i)'
    BY <2>5 DEF HeldBy
  <2>8. HeldBy(b, i)
    BY <1>1, <2>3 DEF HeldBy
  <2>9. \A j \in Slot : ~HeldBy(b, j)'
    BY <2>6, <2>7, <2>8, OneHolder DEF ServiceInv, PassInv
  <2>10. Waiting(b)' = IdleJob
    BY <2>9 DEF ServiceInv, WaitsAreJobs
  <2>11. ASSUME NEW c \in Conn \ {b} PROVE Waiting(c)' = Waiting(c)
    <3>1. ~HeldBy(c, i)
      BY <2>3, <2>11 DEF HeldBy
    <3>2. \A j \in Slot : /\ HeldBy(c, j)' <=> HeldBy(c, j)
                          /\ HeldBy(c, j) => clients'[j].job = clients[j].job
      BY <2>2, <2>6, <2>7, <3>1
    <3> QED BY <3>2, WaitKept DEF ServiceInv
  <2>12. WaitingMap' = [WaitingMap EXCEPT ![b] = IdleJob]
    BY <2>10, <2>11, MapChanged
  <2> QED BY <1>2, <2>12, ServiceActions
<1> QED BY <1>1, <1>3, <1>4 DEF release_shell_client_resources

LEMMA ShellsServe ==
    ASSUME ServiceInv, ServiceInv', Shells
    PROVE  ServiceStep
<1> PICK c \in Conn :
      ShellConnects(c) \/ ShellRequests(c) \/ ShellReads(c) \/ ShellHangsUp(c)
  BY DEF Shells
<1>1. WaitingMap' = WaitingMap
  BY MapUnmoved DEF ServiceInv, ShellConnects, ShellRequests, ShellReads, ShellHangsUp,
     Connect, Request, ReadReply, Hangup, clientVars
<1>2. \/ s2c' = s2c
      \/ s2c[c] # <<>> /\ s2c' = [s2c EXCEPT ![c] = Tail(@)]
      \/ s2c' = [s2c EXCEPT ![c] = <<>>]
  BY DEF ShellConnects, ShellRequests, ShellReads, ShellHangsUp,
     Connect, Request, ReadReply, Hangup
<1>3. s2c[c] = <<>> /\ s2c' = [s2c EXCEPT ![c] = <<>>] => s2c' = s2c
  BY TypeGroups DEF ServiceInv, TypeInv, KernelTypeOK
<1> QED BY <1>1, <1>2, <1>3, ServiceActions

LEMMA StepServes ==
    ASSUME ServiceInv, ServiceInv', [Next]_vars
    PROVE  ServiceStep
<1>1. CASE UNCHANGED <<kernelVars, clients>>
  BY <1>1, MapUnmoved DEF ServiceInv, ServiceStep, kernelVars
<1>2. CASE UNCHANGED <<sock, s2c, clients>>
  BY <1>2, MapUnmoved DEF ServiceInv, ServiceStep
<1>3. CASE running /\ (Accept \/ ReceiveItc)
  BY <1>3, AcceptServes, ReceiveItcServes
<1>4. ASSUME NEW i \in Slot, running,
             \/ ExpireTimer(i) \/ ReceiveListRequest(i)
             \/ ReceiveExeRequest(i) \/ ReceiveEof(i)
      PROVE  ServiceStep
  BY <1>4, ExpireTimerServes, ListServes, ExeServes, EofServes
<1>5. ASSUME NEW i \in Slot, ReceiveReset(i) PROVE UNCHANGED <<kernelVars, clients>>
  BY <1>5 DEF ReceiveReset
<1>6. CASE Shells
  BY <1>6, ShellsServe
<1>7. CASE Apps \/ UNCHANGED vars
  BY <1>1, <1>7
  DEF Apps, AppRegisters, AppDeregisters, AppAnswers, AppSends, vars, clientVars
<1>8. CASE Clock
  BY <1>2, <1>8 DEF Clock, ClockTicks, TimerExpires, clientVars
<1>9. CASE BuildFdSet \/ SelectReturns
  BY <1>1, <1>9 DEF BuildFdSet, SelectReturns, clientVars
<1> QED BY <1>1, <1>3, <1>4, <1>5, <1>6, <1>7, <1>8, <1>9 DEF Next, Daemon, Loop

\* The daemon, with all its lookups, timers and reused slots, implements
\* JobService: an answer is given once, to a connection that waits for it, and
\* no client's request, expiry or departure touches another's wait
\* (clid.c:651-678, 717-779, 1117-1167).
THEOREM DaemonImplementsJobService == Spec => ImplementsJobService
<1>1. Init => Service!Init
  BY DEF Init, KernelInit, ClientInit, FreeSlot, Service!Init, Waiting, Connected
<1>2. TypeInv /\ TableInv /\ PassInv => ServiceInv
  BY WaitsFollow DEF ServiceInv, PassInv
<1>3. ServiceInv /\ ServiceInv' /\ [Next]_vars => [Service!Next]_(Service!serviceVars)
  BY StepServes DEF ServiceStep, WaitingMap, Service!serviceVars
<1>4. Spec => []ServiceInv
  BY <1>2, PassInductive, PTL
<1>5. Spec => Service!Spec
  BY <1>1, <1>3, <1>4, PTL DEF Spec, Service!Spec
<1> QED BY <1>5 DEF ImplementsJobService
=============================================================================
