-------------------------------- MODULE Clid --------------------------------
(***************************************************************************)
(* The clid daemon (sw/clid/clid.c): the select loop of main() over the    *)
(* client table (ClidClients) and the command registry (ClidCommands),     *)
(* with its shells and the clock (Kernel) and the applications behind the  *)
(* ITC mailbox.                                                            *)
(*                                                                         *)
(* One pass of the loop: BuildFdSet fills fdset, select reduces it to the  *)
(* readable descriptors, then the stages run in order - accept, one ITC    *)
(* message, and per slot the timer and the socket.  A stage whose bit is   *)
(* not set is skipped; bits are never refreshed within a pass.             *)
(***************************************************************************)
EXTENDS ClidClients, ClidCommands

CONSTANTS
    Requests,     \* what the shells ask for: names and ListRequest
    Deregs,       \* the names applications deregister
    MaxRequests,  \* bound: the shells' requests, in all, but for those that
    MaxPending,   \* MaxPending exempts: lists asked for with less on the way
    MaxItc        \* bound: messages in the daemon's mailbox

ListRequest == Unnamed  \* a request is the name of a command, or this

ASSUME RequestAssumption == Requests \subseteq Names \cup {ListRequest} /\ Deregs \subseteq Names
ASSUME BoundsAssumption  == MaxRequests \in Nat /\ MaxPending \in Nat /\ MaxItc \in Nat

VARIABLES
    fdset,   \* the descriptors watched, then the readable ones
    stage,   \* 0 in select, else the next stage of the pass
    sent,    \* requests counted so far (for the bound)
    itc,     \* the daemon's mailbox: Seq of messages
    atApp    \* jobs the applications hold: set of [job, asker]

loopVars == <<fdset, stage>>
envVars  == <<sent, itc, atApp>>
vars     == <<kernelVars, clientVars, cmdVars, loopVars, envVars>>

AcceptStage   == 1
ItcStage      == 2
TimerStage(i) == 2 * i + 1
TcpStage(i)   == 2 * i + 2
LoopEnd       == 2 * MAX_NUM_SHELL_CLIENTS + 3

Jobs        == [job : 1..(JobIdMod - 1), asker : Conn]

\* The ITC messages; the asker of a job is not in the message, it is kept
\* to say whom an answer belongs to.
RegMsg(n, m) == [kind |-> "reg", name |-> n, mbox |-> m]
DeregMsg(n)  == [kind |-> "dereg", name |-> n]
ReplyMsg(r)  == [kind |-> "reply", job |-> r.job, asker |-> r.asker]
ItcMsg       == {RegMsg(n, m) : n \in Names, m \in Mbox}
                  \cup {DeregMsg(n) : n \in Names} \cup {ReplyMsg(r) : r \in Jobs}

Init ==
    /\ KernelInit /\ ClientInit /\ CmdInit
    /\ fdset = {} /\ stage = LoopEnd
    /\ sent = 0 /\ itc = <<>> /\ atApp = {}
-----------------------------------------------------------------------------
\* Mutant of HasInput: FD_ISSET is not tested after select.
NoTest(d) == TRUE

\* The descriptors with something to handle.
HasInput(d) == Readable(d) \/ (d = mbox_fd /\ itc # <<>>)

\* Only running timers are watched: one that has already fired is not.
Watched ==
    {tcp_fd, mbox_fd}
      \cup {clients[i].fd : i \in {k \in Slot : Connected(k)}}
      \cup {clients[i].timer : i \in {k \in Slot :
               Connected(k) /\ clients[k].timer # NoFd /\ alarm[clients[k].timer] = "armed"}}

\* The stages whose FD_ISSET test succeeds.
Selected(p) ==
    \/ p = AcceptStage /\ tcp_fd \in fdset
    \/ p = ItcStage    /\ mbox_fd \in fdset
    \/ \E i \in Slot : /\ Connected(i)
                       /\ \/ p = TimerStage(i) /\ clients[i].timer \in fdset
                          \/ p = TcpStage(i)   /\ clients[i].fd \in fdset

\* Mutant of the next: a pass ends with the first stage it has handled.
AtOnce(p) ==
    /\ stage \in 1..p
    /\ Selected(p)
    /\ \A q \in stage..(p - 1) : ~Selected(q)
    /\ stage' = LoopEnd
    /\ fdset' = fdset

\* The loop reaches stage p, and goes on behind it.
At(p) ==
    /\ stage \in 1..p
    /\ Selected(p)
    /\ \A q \in stage..(p - 1) : ~Selected(q)
    /\ stage' = p + 1
    /\ fdset' = fdset

BuildFdSet ==
    /\ stage # 0
    /\ \A q \in stage..(LoopEnd - 1) : ~Selected(q)
    /\ stage' = 0
    /\ fdset' = Watched
    /\ UNCHANGED <<kernelVars, clientVars, cmdVars, envVars>>

SelectReturns ==
    /\ stage = 0
    /\ fdset' = {d \in fdset : HasInput(d)}
    /\ fdset' # {}
    /\ stage' = AcceptStage
    /\ UNCHANGED <<kernelVars, clientVars, cmdVars, envVars>>

Accept ==
    /\ At(AcceptStage)
    /\ handle_accept_new_connection
    /\ UNCHANGED <<cmdVars, envVars>>

\* handle_receive_itc_msg takes one message.
ReceiveItc ==
    /\ At(ItcStage)
    /\ itc' = Tail(itc)
    /\ LET msg == Head(itc) IN
         \/ /\ msg.kind = "reg"
            /\ handle_receive_reg_cmd_request(msg.name, msg.mbox)
            /\ UNCHANGED <<kernelVars, clientVars>>
         \/ /\ msg.kind = "dereg"
            /\ handle_receive_dereg_cmd_request(msg.name)
            /\ UNCHANGED <<kernelVars, clientVars>>
         \/ /\ msg.kind = "reply"
            /\ handle_receive_exe_cmd_reply(msg.job)
            /\ UNCHANGED cmdVars
    /\ UNCHANGED <<sent, atApp>>

ExpireTimer(i) ==
    /\ At(TimerStage(i))
    /\ handle_job_timer_expired(clients[i].timer)
    /\ UNCHANGED <<cmdVars, envVars>>
-----------------------------------------------------------------------------
(***************************************************************************)
(* handle_receive_tcp_packet of slot i.  The socket was selected, so either *)
(* a request is queued or the peer is gone.                                *)
(***************************************************************************)
Receive(i) == /\ At(TcpStage(i))
              /\ c2s[ConnOf(i)] # <<>>
              /\ c2s' = [c2s EXCEPT ![ConnOf(i)] = Tail(@)]

RequestOf(i) == Head(c2s[ConnOf(i)])

\* handle_receive_get_list_cmd_request: the list is sent, or the send fails.
ReceiveListRequest(i) ==
    /\ Receive(i)
    /\ RequestOf(i) = ListRequest
    /\ Send(clients[i].fd, "list")
    /\ UNCHANGED <<sock, alarm, backlog, clientVars, cmdVars, envVars>>

\* forward_exe_cmd_request: the application gets the job, unless the lookup
\* misses or its mailbox is gone.
forward_exe_cmd_request(r, n) ==
    \/ /\ ForwardTargets(n) # {NoMbox}
       /\ atApp' = atApp \cup {r}
    \/ atApp' = atApp

\* Bound: the counter does not wrap (it has 64 bits; see NextJobIdSkipsIdle
\* in Clid_proofs for the wrap itself).
NoWrap == m_job_id < JobIdMod - 1

\* handle_receive_exe_cmd_request
ReceiveExeRequest(i) ==
    /\ Receive(i)
    /\ RequestOf(i) # ListRequest
    /\ NoWrap
    /\ m_job_id' = NextJobId(m_job_id)
    /\ \/ /\ CanMiss(client_tree, ByFd(clients), clients[i].fd)
          /\ UNCHANGED <<clients, alarm, atApp>>
       \/ \E k \in Found(client_tree, ByFd(clients), clients[i].fd) :
            /\ restart_job_timer(k, m_job_id')
            /\ forward_exe_cmd_request([job |-> m_job_id', asker |-> ConnOf(i)],
                                       RequestOf(i))
    /\ UNCHANGED <<sock, peer, backlog, s2c, client_tree, running, cmdVars, sent, itc>>

\* recv returns 0.
ReceiveEof(i) ==
    /\ At(TcpStage(i))
    /\ c2s[ConnOf(i)] = <<>>
    /\ peer[ConnOf(i)] \in {"fin", "dead"}
    /\ release_shell_client_resources(clients[i].fd)
    /\ UNCHANGED <<cmdVars, envVars>>

\* recv fails with ECONNRESET: the daemon exits.
ReceiveReset(i) ==
    /\ At(TcpStage(i))
    /\ c2s[ConnOf(i)] = <<>>
    /\ peer[ConnOf(i)] = "rst"
    /\ running' = FALSE
    /\ UNCHANGED <<kernelVars, clients, client_tree, m_job_id, cmdVars, envVars>>
-----------------------------------------------------------------------------
(***************************************************************************)
(* The shells and the applications.                                        *)
(***************************************************************************)
ShellConnects(c) == Connect(c) /\ UNCHANGED <<clientVars, cmdVars, loopVars, envVars>>

\* Bound: a list is not counted while fewer than MaxPending requests and
\* replies are on the shell's connection; it may be asked for again for ever.
Uncounted(c, r) == r = ListRequest /\ Len(c2s[c]) + Len(s2c[c]) < MaxPending

ShellRequests(c) ==
    /\ \E r \in Requests :
         /\ Request(c, r)
         /\ \/ Uncounted(c, r) /\ sent' = sent
            \/ ~Uncounted(c, r) /\ sent < MaxRequests /\ sent' = sent + 1
    /\ UNCHANGED <<clientVars, cmdVars, loopVars, itc, atApp>>

ShellReads(c)    == ReadReply(c) /\ UNCHANGED <<clientVars, cmdVars, loopVars, envVars>>
ShellHangsUp(c)  == Hangup(c) /\ UNCHANGED <<clientVars, cmdVars, loopVars, envVars>>
ClockTicks(d)    == TimerExpires(d) /\ UNCHANGED <<clientVars, cmdVars, loopVars, envVars>>

AppSends(msg) ==
    /\ Len(itc) < MaxItc
    /\ itc' = Append(itc, msg)
    /\ UNCHANGED <<kernelVars, clientVars, cmdVars, loopVars, sent>>

AppRegisters(n, m) ==
    /\ cmd_count + Len(itc) < MaxRegs
    /\ AppSends(RegMsg(n, m))
    /\ UNCHANGED atApp

AppDeregisters(n) == AppSends(DeregMsg(n)) /\ UNCHANGED atApp

\* CmdJobImpl::done, which may be called again for the same job.
AppAnswers(r) == AppSends(ReplyMsg(r)) /\ atApp' \in {atApp, atApp \ {r}}
-----------------------------------------------------------------------------
Loop ==
    \/ BuildFdSet \/ SelectReturns \/ Accept \/ ReceiveItc
    \/ \E i \in Slot : \/ ExpireTimer(i)
                       \/ ReceiveListRequest(i) \/ ReceiveExeRequest(i)
                       \/ ReceiveEof(i) \/ ReceiveReset(i)

Shells ==
    \E c \in Conn : ShellConnects(c) \/ ShellRequests(c) \/ ShellReads(c) \/ ShellHangsUp(c)

Apps ==
    \/ \E n \in Names, m \in Mbox : AppRegisters(n, m)
    \/ \E n \in Deregs : AppDeregisters(n)
    \/ \E r \in atApp : AppAnswers(r)

Clock == \E d \in Fd : ClockTicks(d)

Daemon == running /\ Loop
Next   == Daemon \/ (running /\ (Shells \/ Apps \/ Clock))

Spec == Init /\ [][Next]_vars

\* The loop is a process that is always scheduled, and time passes.
FairSpec == Spec /\ WF_vars(Daemon) /\ WF_vars(running /\ Clock)
-----------------------------------------------------------------------------
\* Type correctness.
TypeOK ==
    /\ sock \in [Fd -> Conn \cup {NoConn}]
    /\ alarm \in [Fd -> AlarmState]
    /\ peer \in [Conn -> PeerState]
    /\ backlog \in Seq(Conn)
    /\ c2s \in [Conn -> Seq(Requests)]
    /\ s2c \in [Conn -> Seq(ReplyKind)]
    /\ clients \in [Slot -> [fd : Fd \cup {NoFd}, timer : Fd \cup {NoFd}, job : 0..(JobIdMod - 1)]]
    /\ client_tree \in Seq(Slot)
    /\ m_job_id \in 0..(JobIdMod - 1)
    /\ running \in BOOLEAN
    /\ CmdTypeOK
    /\ fdset \subseteq {tcp_fd, mbox_fd} \cup Fd
    /\ stage \in 0..LoopEnd
    /\ sent \in 0..MaxRequests
    /\ itc \in Seq(ItcMsg)
    /\ atApp \subseteq Jobs

\* While the daemon runs, the open descriptors are exactly those the client
\* table holds, each held once and for one purpose: nothing leaks when a
\* shell comes and goes, and no two slots share a socket or a timer.
FdsOwned ==
    running => \A d \in Fd :
        /\ sock[d] # NoConn <=> \E i \in Slot : clients[i].fd = d
        /\ alarm[d] # "none" <=> \E i \in Slot : clients[i].timer = d
        /\ ~(sock[d] # NoConn /\ alarm[d] # "none")
        /\ \A i, j \in Slot :
              (clients[i].fd = d /\ clients[j].fd = d) \/ (clients[i].timer = d /\ clients[j].timer = d)
                => i = j

\* Every connected client has a node in client_tree, although releases
\* unlink with a key that has already been overwritten (clid.c:662-675).
ConnectedInTree == {i \in Slot : Connected(i)} \subseteq ToSet(client_tree)

\* A client waits for a job only while it is connected and with a timer that
\* is open and has been armed: clid.c keeps the three in separate fields and
\* sets and clears them in different handlers.
JobHasTimer ==
    \A i \in Slot : clients[i].job # IdleJob =>
        /\ Connected(i) /\ clients[i].timer # NoFd
        /\ alarm[clients[i].timer] # "none"

\* Two clients never wait for the same job.
JobsDistinct ==
    \A i, j \in Slot : clients[i].job # IdleJob /\ clients[i].job = clients[j].job => i = j

\* A handler the loop has selected finds its input still there, whatever the
\* earlier stages of the pass released, closed or reused: recv does not
\* block, itc_receive does not return NULL, and no timer is handled early.
StageHasInput ==
    (running /\ stage # 0) =>
        /\ AcceptStage >= stage /\ Selected(AcceptStage) => backlog # <<>>
        /\ ItcStage >= stage /\ Selected(ItcStage) => itc # <<>>
        /\ \A i \in Slot :
             /\ TimerStage(i) >= stage /\ Selected(TimerStage(i)) => alarm[clients[i].timer] = "fired"
             /\ TcpStage(i) >= stage /\ Selected(TcpStage(i)) =>
                   c2s[ConnOf(i)] # <<>> \/ peer[ConnOf(i)] # "up"

\* An answer goes to the connection whose request made the job, and to no
\* other, although slots, descriptors and job ids are looked up and reused.
AnswerReachesAsker ==
    [][\A c \in Conn :
          s2c'[c] = Append(s2c[c], "answer") =>
              itc # <<>> /\ Head(itc).kind = "reply" /\ Head(itc).asker = c]_vars

\* The daemon implements JobService: at most one answer per job, only to a
\* connection that waits for it, and one client's requests, timeouts and
\* departure never touch what another waits for.
Waiting(c) ==
    IF \E i \in Slot : Connected(i) /\ ConnOf(i) = c
    THEN clients[CHOOSE i \in Slot : Connected(i) /\ ConnOf(i) = c].job
    ELSE IdleJob

Service == INSTANCE JobService WITH
    Job <- 1..(JobIdMod - 1), NoJob <- IdleJob,
    waiting <- [c \in Conn |-> Waiting(c)], inbox <- s2c

ImplementsJobService == Service!Spec

\* No request stays on its socket, unless the daemon exits: while any are
\* there the loop goes on taking them, although the other shells never stop
\* asking, and the applications never stop deregistering and answering.
Responsive ==
    \A c \in Conn :
        \/ []<>(c2s[c] = <<>> \/ ~running)
        \/ []<><<c2s[c] # <<>> /\ c2s'[c] = Tail(c2s[c])>>_c2s

\* clid.c:1122-1129: a reply's job is found unless its timer expired, the
\* shell started another job, or it disconnected.  So while every client in
\* the tree waits for a job, each of these jobs is found.
WaitedJobsAreFound ==
    (\A i \in ToSet(client_tree) : clients[i].job # IdleJob) =>
        \A i \in ToSet(client_tree) : ~CanMiss(client_tree, ByJob(clients), clients[i].job)

\* The daemon exits for three reasons and no other: a connection beyond the
\* last slot, a reset by a shell that left an answer unread, and an expiry
\* notice for a shell that has gone (clid.c:441, 592, 1161).  The nodes that
\* releases leave in client_tree, for descriptors that are used again, are
\* no fourth (425).
ExitsForCause ==
    [][running /\ ~running' =>
          \/ \A i \in Slot : Connected(i)
          \/ \E i \in Slot : /\ Connected(i)
                             /\ \E c \in Conn : c = ConnOf(i) /\ peer[c] \in {"rst", "dead"}]_vars
=============================================================================
