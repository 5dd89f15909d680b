------------------------------- MODULE Kernel -------------------------------
(***************************************************************************)
(* What the clid daemon and its shells ask of the operating system: a      *)
(* descriptor table, timerfds, and TCP connections on one host.            *)
(*                                                                         *)
(* A connection c is a shell's socket.  peer[c] is what the daemon's end   *)
(* would learn from it:                                                    *)
(*   "none"  the shell has not connected;                                  *)
(*   "up"    connected, the shell's end is open;                           *)
(*   "fin"   the shell closed after reading everything sent to it: recv    *)
(*           returns 0, a send is accepted and lost, and brings back a     *)
(*           reset;                                                        *)
(*   "rst"   the shell closed with unread data: the next recv (after the   *)
(*           data already queued) fails with ECONNRESET, a send too;       *)
(*   "dead"  the error was reported, or the daemon closed its end: recv    *)
(*           returns 0, a send fails (SIGPIPE is ignored, clid.c:258).     *)
(* Messages are never split: a partial packet, and a send that blocks on a *)
(* full socket buffer, are not modelled.                                   *)
(***************************************************************************)
EXTENDS Integers, Sequences

CONSTANTS
    Conn,      \* shell connections
    NoConn,
    MaxFd      \* descriptors 3..MaxFd can be allocated

ASSUME FdAssumption == MaxFd \in Nat \ 0..2 /\ NoConn \notin Conn

VARIABLES
    sock,     \* [Fd -> Conn \cup {NoConn}]: the connection a descriptor is
    alarm,    \* [Fd -> AlarmState]: the timerfd a descriptor is
    peer,     \* [Conn -> PeerState]
    backlog,  \* connections waiting for accept
    c2s,      \* [Conn -> Seq(request)]: sent by the shell, not yet received
    s2c       \* [Conn -> Seq(ReplyKind)]: sent by the daemon, not yet read

kernelVars == <<sock, alarm, peer, backlog, c2s, s2c>>

NoFd    == -1
tcp_fd  == 1
mbox_fd == 2
Fd      == 3..MaxFd

AlarmState == {"none", "armed", "fired"}
PeerState  == {"none", "up", "fin", "rst", "dead"}
ReplyKind  == {"list", "answer", "expired"}

KernelInit ==
    /\ sock    = [d \in Fd |-> NoConn]
    /\ alarm   = [d \in Fd |-> "none"]
    /\ peer    = [c \in Conn |-> "none"]
    /\ backlog = <<>>
    /\ c2s     = [c \in Conn |-> <<>>]
    /\ s2c     = [c \in Conn |-> <<>>]

\* A new descriptor is the lowest free one.
FreeFd(d) == sock[d] = NoConn /\ alarm[d] = "none"
LowestFreeFd(d) == d \in Fd /\ FreeFd(d) /\ \A e \in Fd : e < d => ~FreeFd(e)

\* The descriptors select finds readable, besides the daemon's mailbox.
Readable(d) ==
    \/ d = tcp_fd /\ backlog # <<>>
    \/ d \in Fd /\ alarm[d] = "fired"
    \/ d \in Fd /\ sock[d] # NoConn /\ (c2s[sock[d]] # <<>> \/ peer[sock[d]] # "up")

\* send on the socket d: whether it succeeds, and what it leaves behind.
Sends(d) == peer[sock[d]] \in {"up", "fin"}

Send(d, m) ==
    /\ s2c' = IF peer[sock[d]] = "up" THEN [s2c EXCEPT ![sock[d]] = Append(@, m)] ELSE s2c
    /\ \/ Sends(d) /\ peer' = peer
       \/ peer[sock[d]] # "up" /\ peer' = [peer EXCEPT ![sock[d]] = "dead"]
-----------------------------------------------------------------------------
(***************************************************************************)
(* The shell's end (sw/shell/shell.c) and the clock.                       *)
(***************************************************************************)
\* connect_to_remote_host
Connect(c) ==
    /\ peer[c] = "none"
    /\ peer' = [peer EXCEPT ![c] = "up"]
    /\ backlog' = Append(backlog, c)
    /\ UNCHANGED <<sock, alarm, c2s, s2c>>

\* send_get_list_cmd_request, send_exe_cmd_request: also while an earlier
\* answer is awaited, for Ctrl-C abandons the wait (shell.c:284).
Request(c, r) ==
    /\ peer[c] = "up"
    /\ c2s' = [c2s EXCEPT ![c] = Append(@, r)]
    /\ UNCHANGED <<sock, alarm, peer, backlog, s2c>>

\* receive_get_list_cmd_reply, receive_exe_cmd_reply
ReadReply(c) ==
    /\ peer[c] = "up"
    /\ s2c[c] # <<>>
    /\ s2c' = [s2c EXCEPT ![c] = Tail(@)]
    /\ UNCHANGED <<sock, alarm, peer, backlog, c2s>>

\* The local commands disconnect and exit, and the end of the process.
Hangup(c) ==
    /\ peer[c] = "up"
    /\ peer' = [peer EXCEPT ![c] = IF s2c[c] = <<>> THEN "fin" ELSE "rst"]
    /\ s2c' = [s2c EXCEPT ![c] = <<>>]
    /\ UNCHANGED <<sock, alarm, backlog, c2s>>

TimerExpires(d) ==
    /\ alarm[d] = "armed"
    /\ alarm' = [alarm EXCEPT ![d] = "fired"]
    /\ UNCHANGED <<sock, peer, backlog, c2s, s2c>>
=============================================================================
