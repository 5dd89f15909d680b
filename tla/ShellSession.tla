---------------------------- MODULE ShellSession ----------------------------
(***************************************************************************)
(* The main thread of the shell (sw/shell/shell.c): its connection to one  *)
(* daemon, the requests it sends, the replies it reads, and the table      *)
(* m_remote_cmds of remote commands with its tree.  The shell blocks in    *)
(* recv after each request; Ctrl-C interrupts that wait.                   *)
(*                                                                         *)
(* The daemon's end of the connection is what Clid shows of one client:    *)
(* it takes requests in order, answers a list at once and a job when its   *)
(* application does, and may send an expiry notice for each timer it       *)
(* armed.  Replies carry no request number: the field `of`, and the        *)
(* variables asked, gaveUp, twice and overread, are history that no action *)
(* of the program reads.                                                   *)
(*                                                                         *)
(* Packets arrive whole.  A name is its rank in strcmp order; names of     *)
(* local commands are not among Names.                                     *)
(***************************************************************************)
EXTENDS SearchTree

CONSTANTS
    MAX_REMOTE_CMDS,  \* length of the array m_remote_cmds
    Names,            \* names of remote commands (ranks)
    MaxRequests,      \* bound: requests sent in a behaviour
    MaxListed,        \* bound: commands in a list reply
    MaxJunk           \* bound: commands a list announces and does not carry

ASSUME RemoteSlotsAssumption == MAX_REMOTE_CMDS \in Nat \ {0}
ASSUME RemoteNamesAssumption == Names \subseteq Nat \ {0}
ASSUME SessionBoundsAssumption ==
    MaxRequests \in Nat /\ MaxListed \in Nat /\ MaxJunk \in Nat

VARIABLES
    at,                 \* where the main thread is
    m_is_connected,     \* which prompt is shown
    m_active_fd,        \* the socket, or NoFd
    m_remote_cmds,      \* [1..MAX_REMOTE_CMDS -> Names \cup {Unnamed}]
    m_remote_cmd_tree,  \* in-order sequence of slots of m_remote_cmds
    todo,               \* entries of a list reply not yet added
    drop,               \* the slot a disconnect has reached
    link, c2s, s2c,     \* the connection, and the packets in it
    job, waiting, timer,\* the daemon's side: last job, unanswered, armed
    asked,              \* the requests sent so far
    gaveUp,             \* those whose reply the user gave up, this connection
    twice,              \* an expiry notice followed its job's answer
    overread            \* a list announced entries it did not carry

shellVars == <<at, m_is_connected, m_active_fd>>
tableVars == <<m_remote_cmds, m_remote_cmd_tree, todo, drop>>
linkVars  == <<link, c2s, s2c>>
daemonVars == <<job, waiting, timer>>
ghostVars == <<asked, gaveUp, twice, overread>>
vars == <<shellVars, tableVars, linkVars, daemonVars, ghostVars>>

RemoteSlot == 1..MAX_REMOTE_CMDS
Unnamed == 0
NoFd    == -1
SockFd  == 5   \* the descriptor the shell's socket gets
Place   == {"prompt", "list", "adding", "exe", "dropping", "done"}
Listed  == {i \in RemoteSlot : m_remote_cmds[i] # Unnamed}

Init ==
    /\ at = "prompt" /\ m_is_connected = FALSE /\ m_active_fd = NoFd
    /\ m_remote_cmds = [i \in RemoteSlot |-> Unnamed]
    /\ m_remote_cmd_tree = <<>> /\ todo = <<>> /\ drop = 0
    /\ link = "none" /\ c2s = <<>> /\ s2c = <<>>
    /\ job = 0 /\ waiting = FALSE /\ timer = FALSE
    /\ asked = 0 /\ gaveUp = {} /\ twice = FALSE /\ overread = FALSE
-----------------------------------------------------------------------------
(***************************************************************************)
(* Connecting, and the list of commands                                    *)
(***************************************************************************)
\* A connection is still open, or the host does not answer: the prompt
\* changes all the same.
ConnectInVain ==
    /\ at = "prompt"
    /\ m_is_connected' = TRUE
    /\ UNCHANGED <<at, m_active_fd, tableVars, linkVars, daemonVars, ghostVars>>

\* The connection is made, the list request sent, and recv entered.
Connect ==
    /\ at = "prompt" /\ m_active_fd = NoFd /\ asked < MaxRequests
    /\ m_active_fd' = SockFd /\ at' = "list"
    /\ link' = "up" /\ s2c' = <<>>
    /\ c2s' = <<[kind |-> "list", id |-> asked + 1]>>
    /\ asked' = asked + 1
    /\ UNCHANGED <<m_is_connected, tableVars, daemonVars, gaveUp, twice, overread>>

\* A packet of another kind is dropped, but only its header is read.
AfterPacket(kind) ==
    IF Head(s2c).kind = kind THEN Tail(s2c)
    ELSE <<[kind |-> "payload", of |-> Head(s2c).of]>> \o Tail(s2c)

\* The list reply is read.  num_cmds can exceed the entries that follow
\* (ListCountIsExact of ClidCommands): the rest is whatever lies behind the
\* buffer.
ReadList ==
    /\ at = "list" /\ s2c # <<>>
    /\ s2c' = AfterPacket("list")
    /\ \E names \in SeqOf(Names, MaxListed), junk \in SeqOf(Names \cup {Unnamed}, MaxJunk) :
         /\ todo' = names \o junk
         /\ overread' = (overread \/ junk # <<>>)
    /\ at' = "adding"
    /\ UNCHANGED <<m_is_connected, m_active_fd, m_remote_cmds, m_remote_cmd_tree, drop,
                   link, c2s, daemonVars, asked, gaveUp, twice>>

\* The first free slot; a zero-length entry leaves it free.
FirstFreeRemote(j) ==
    /\ m_remote_cmds[j] = Unnamed
    /\ \A k \in RemoteSlot : k < j => m_remote_cmds[k] # Unnamed

\* Mutant of AddListed: the slot is linked before the name is copied.
AddUnnamed ==
    /\ at = "adding" /\ todo # <<>>
    /\ \E j \in RemoteSlot :
         /\ FirstFreeRemote(j)
         /\ m_remote_cmds' = [m_remote_cmds EXCEPT ![j] = Head(todo)]
         /\ m_remote_cmd_tree' \in Inserts(m_remote_cmd_tree, m_remote_cmds, Unnamed, j)
    /\ todo' = Tail(todo)
    /\ UNCHANGED <<shellVars, drop, linkVars, daemonVars, ghostVars>>

\* The name is copied into the slot, looked up, and linked if not found.
AddListed ==
    /\ at = "adding" /\ todo # <<>>
    /\ \E j \in RemoteSlot :
         /\ FirstFreeRemote(j)
         /\ m_remote_cmds' = [m_remote_cmds EXCEPT ![j] = Head(todo)]
         /\ \/ /\ Hits(m_remote_cmd_tree, m_remote_cmds', Head(todo)) # {}
               /\ m_remote_cmd_tree' = m_remote_cmd_tree
            \/ /\ CanMiss(m_remote_cmd_tree, m_remote_cmds', Head(todo))
               /\ m_remote_cmd_tree' \in
                    Inserts(m_remote_cmd_tree, m_remote_cmds', Head(todo), j)
    /\ todo' = Tail(todo)
    /\ UNCHANGED <<shellVars, drop, linkVars, daemonVars, ghostVars>>

\* All entries are added, or no slot is left for the next.
ListDone ==
    /\ at = "adding"
    /\ todo = <<>> \/ Listed = RemoteSlot
    /\ todo' = <<>> /\ at' = "prompt" /\ m_is_connected' = TRUE
    /\ UNCHANGED <<m_active_fd, m_remote_cmds, m_remote_cmd_tree, drop,
                   linkVars, daemonVars, ghostVars>>
-----------------------------------------------------------------------------
(***************************************************************************)
(* Executing a remote command                                              *)
(***************************************************************************)
\* Mutant of Exec: the lookup is left to the daemon.
ExecUnchecked(n) ==
    /\ at = "prompt" /\ m_active_fd # NoFd /\ asked < MaxRequests
    /\ at' = "exe"
    /\ asked' = asked + 1
    /\ link = "up"
    /\ c2s' = Append(c2s, [kind |-> "exe", id |-> asked + 1])
    /\ UNCHANGED <<m_is_connected, m_active_fd, tableVars, link, s2c, daemonVars,
                   gaveUp, twice, overread>>

\* The command is known and the request is sent; a send fails once the
\* peer's reset has arrived, and the shell enters recv either way.
Exec(n) ==
    /\ at = "prompt" /\ m_active_fd # NoFd /\ asked < MaxRequests
    /\ Found(m_remote_cmd_tree, m_remote_cmds, n) # {}
    /\ at' = "exe"
    /\ asked' = asked + 1
    /\ \/ /\ link = "up"
          /\ c2s' = Append(c2s, [kind |-> "exe", id |-> asked + 1])
          /\ link' = link
       \/ /\ link # "up"
          /\ link' = "dead"
          /\ c2s' = c2s
    /\ UNCHANGED <<m_is_connected, m_active_fd, tableVars, s2c, daemonVars,
                   gaveUp, twice, overread>>

\* The shell does not ignore SIGPIPE: such a send can end it.
KilledBySend(n) ==
    /\ at = "prompt" /\ m_active_fd # NoFd /\ link = "dead"
    /\ Found(m_remote_cmd_tree, m_remote_cmds, n) # {}
    /\ at' = "done"
    /\ UNCHANGED <<m_is_connected, m_active_fd, tableVars, linkVars, daemonVars, ghostVars>>

\* Mutant of ReadAnswer: the packet is looked at and not consumed.
PeekAnswer ==
    /\ at = "exe" /\ s2c # <<>>
    /\ at' = "prompt"
    /\ UNCHANGED <<m_is_connected, m_active_fd, tableVars, linkVars, daemonVars, ghostVars>>

\* The next packet is taken for the answer.
ReadAnswer ==
    /\ at = "exe" /\ s2c # <<>>
    /\ s2c' = AfterPacket("exe")
    /\ at' = "prompt"
    /\ UNCHANGED <<m_is_connected, m_active_fd, tableVars, link, c2s, daemonVars, ghostVars>>

\* recv returns 0 or an error; after a connect the prompt changes too.
Broken ==
    /\ at \in {"list", "exe"} /\ s2c = <<>> /\ link # "up"
    /\ m_is_connected' = (m_is_connected \/ at = "list")
    /\ at' = "prompt"
    /\ UNCHANGED <<m_active_fd, tableVars, linkVars, daemonVars, ghostVars>>

\* Ctrl-C while recv waits: it fails with EINTR (no SA_RESTART).
CtrlC ==
    /\ at \in {"list", "exe"} /\ s2c = <<>>
    /\ m_is_connected' = (m_is_connected \/ at = "list")
    /\ at' = "prompt"
    /\ gaveUp' = gaveUp \cup {asked}
    /\ UNCHANGED <<m_active_fd, tableVars, linkVars, daemonVars, asked, twice, overread>>
-----------------------------------------------------------------------------
(***************************************************************************)
(* Disconnecting and leaving                                               *)
(***************************************************************************)
\* With the socket everything of the connection is gone, on both sides.
Disconnect ==
    /\ at = "prompt"
    /\ m_is_connected' = FALSE /\ m_active_fd' = NoFd
    /\ at' = "dropping" /\ drop' = 1
    /\ link' = "none" /\ c2s' = <<>> /\ s2c' = <<>>
    /\ job' = 0 /\ waiting' = FALSE /\ timer' = FALSE
    /\ gaveUp' = {} /\ twice' = FALSE
    /\ UNCHANGED <<m_remote_cmds, m_remote_cmd_tree, todo, asked, overread>>

\* Mutants of DropSlot: the name is cleared before tdelete uses it; the loop
\* runs one slot too far.
DropCleared ==
    /\ at = "dropping"
    /\ m_remote_cmds' = [m_remote_cmds EXCEPT ![drop] = Unnamed]
    /\ m_remote_cmd_tree' \in Deletes(m_remote_cmd_tree, m_remote_cmds', Unnamed)
    /\ \/ drop < MAX_REMOTE_CMDS /\ drop' = drop + 1 /\ at' = at
       \/ drop = MAX_REMOTE_CMDS /\ drop' = 0 /\ at' = "prompt"
    /\ UNCHANGED <<m_is_connected, m_active_fd, todo, linkVars, daemonVars, ghostVars>>

DropTooFar ==
    /\ at = "dropping"
    /\ m_remote_cmds' = [m_remote_cmds EXCEPT ![drop] = Unnamed]
    /\ m_remote_cmd_tree' \in Deletes(m_remote_cmd_tree, m_remote_cmds, m_remote_cmds[drop])
    /\ \/ drop <= MAX_REMOTE_CMDS /\ drop' = drop + 1 /\ at' = at
       \/ drop > MAX_REMOTE_CMDS /\ drop' = 0 /\ at' = "prompt"
    /\ UNCHANGED <<m_is_connected, m_active_fd, todo, linkVars, daemonVars, ghostVars>>

\* One round of the loop over the slots, by which the tree is unlinked.
\* The tdestroy that follows it frees what is left but keeps the root.
DropSlot ==
    /\ at = "dropping"
    /\ IF m_remote_cmds[drop] = Unnamed
       THEN UNCHANGED <<m_remote_cmds, m_remote_cmd_tree>>
       ELSE /\ m_remote_cmd_tree' \in
                 Deletes(m_remote_cmd_tree, m_remote_cmds, m_remote_cmds[drop])
            /\ m_remote_cmds' = [m_remote_cmds EXCEPT ![drop] = Unnamed]
    /\ \/ drop < MAX_REMOTE_CMDS /\ drop' = drop + 1 /\ at' = at
       \/ drop = MAX_REMOTE_CMDS /\ drop' = 0 /\ at' = "prompt"
    /\ UNCHANGED <<m_is_connected, m_active_fd, todo, linkVars, daemonVars, ghostVars>>

Exit ==
    /\ at = "prompt"
    /\ at' = "done"
    /\ UNCHANGED <<m_is_connected, m_active_fd, tableVars, linkVars, daemonVars, ghostVars>>

\* Lengths read from beyond the buffer overrun the others, and a node a
\* tdestroy has freed may still be reached from the root.
Crash ==
    /\ overread /\ at # "done"
    /\ at' = "done"
    /\ UNCHANGED <<m_is_connected, m_active_fd, tableVars, linkVars, daemonVars, ghostVars>>
-----------------------------------------------------------------------------
(***************************************************************************)
(* The daemon's end                                                        *)
(***************************************************************************)
Replies(kind, id) == s2c' = Append(s2c, [kind |-> kind, of |-> id])

DaemonLists ==
    /\ link = "up" /\ c2s # <<>> /\ Head(c2s).kind = "list"
    /\ Replies("list", Head(c2s).id)
    /\ c2s' = Tail(c2s)
    /\ UNCHANGED <<shellVars, tableVars, link, daemonVars, ghostVars>>

\* A job replaces the one before it and restarts the timer.
DaemonStartsJob ==
    /\ link = "up" /\ c2s # <<>> /\ Head(c2s).kind = "exe"
    /\ job' = Head(c2s).id /\ waiting' = TRUE /\ timer' = TRUE
    /\ c2s' = Tail(c2s)
    /\ UNCHANGED <<shellVars, tableVars, link, s2c, ghostVars>>

\* The timer is not disarmed by the answer (clid.c:1139).
DaemonAnswers ==
    /\ link = "up" /\ waiting
    /\ Replies("exe", job)
    /\ waiting' = FALSE
    /\ UNCHANGED <<shellVars, tableVars, link, c2s, job, timer, ghostVars>>

DaemonExpiresJob ==
    /\ link = "up" /\ timer
    /\ Replies("exe", job)
    /\ waiting' = FALSE /\ timer' = FALSE
    /\ twice' = (twice \/ ~waiting)
    /\ UNCHANGED <<shellVars, tableVars, link, c2s, job, asked, gaveUp, overread>>

\* The daemon exits; with unread requests that is a reset.
DaemonCloses ==
    /\ link = "up"
    /\ link' = IF c2s = <<>> THEN "fin" ELSE "dead"
    /\ c2s' = <<>> /\ waiting' = FALSE /\ timer' = FALSE
    /\ UNCHANGED <<shellVars, tableVars, s2c, job, ghostVars>>

Shell ==
    \/ ConnectInVain \/ Connect \/ ReadList \/ AddListed \/ ListDone
    \/ \E n \in Names : Exec(n) \/ KilledBySend(n)
    \/ ReadAnswer \/ Broken \/ CtrlC \/ Disconnect \/ DropSlot \/ Exit \/ Crash

Next ==
    \/ Shell
    \/ DaemonLists \/ DaemonStartsJob \/ DaemonAnswers \/ DaemonExpiresJob \/ DaemonCloses

Spec == Init /\ [][Next]_vars
-----------------------------------------------------------------------------
Request == [kind : {"list", "exe"}, id : 1..MaxRequests]
Reply   == [kind : {"list", "exe", "payload"}, of : 0..MaxRequests]

\* Type correctness of the session's state.
SessionTypeOK ==
    /\ at \in Place
    /\ m_is_connected \in BOOLEAN /\ m_active_fd \in {NoFd, SockFd}
    /\ m_remote_cmds \in [RemoteSlot -> Names \cup {Unnamed}]
    /\ m_remote_cmd_tree \in Seq(RemoteSlot)
    /\ todo \in Seq(Names \cup {Unnamed})
    /\ drop \in 0..MAX_REMOTE_CMDS /\ (at = "dropping" => drop > 0)
    /\ link \in {"none", "up", "fin", "dead"}
    /\ c2s \in Seq(Request) /\ s2c \in Seq(Reply)
    /\ job \in 0..MaxRequests /\ waiting \in BOOLEAN /\ timer \in BOOLEAN
    /\ asked \in 0..MaxRequests /\ gaveUp \subseteq 0..MaxRequests
    /\ twice \in BOOLEAN /\ overread \in BOOLEAN

\* A reply carries no number: the shell takes the next one for the answer to
\* the command just typed (shell.c:237-238).  That is right as long as, on
\* this connection, no wait was given up and no job was both answered and
\* expired; a new connection starts in step again.
RepliesInStep ==
    at \in {"list", "exe"} /\ s2c # <<>> /\ gaveUp = {} /\ ~twice
        => Head(s2c).of = asked

\* The switches in receive_get_list_cmd_reply and receive_exe_cmd_reply drop
\* a packet of another kind by its header only, which would leave its payload
\* to be read as the next header (shell.c:1564, 1748).  It never happens, not even
\* after a Ctrl-C during the list: without the list no command is known.
NoStrayPacket ==
    /\ s2c # <<>> => Head(s2c).kind # "payload"
    /\ at \in {"list", "exe"} /\ s2c # <<>> => Head(s2c).kind = at

\* As long as no list announced more than it carried, every command that
\* "help" shows is found when it is typed, although a name may be listed
\* twice and then has a slot without a node (shell.c:1628-1631).
ListedIsFound ==
    at = "prompt" /\ ~overread =>
        \A i \in Listed :
            /\ Found(m_remote_cmd_tree, m_remote_cmds, m_remote_cmds[i]) # {}
            /\ ~CanMiss(m_remote_cmd_tree, m_remote_cmds, m_remote_cmds[i])

\* The prompt "local$" promises a clean state: no socket is open, no remote
\* command is listed, and none can be found - the unlinking by name of a
\* disconnect has left no node behind (shell.c:1061-1072).
LocalPromptIsClean ==
    at = "prompt" /\ ~m_is_connected =>
        /\ m_active_fd = NoFd /\ Listed = {}
        /\ ~overread => m_remote_cmd_tree = <<>>

\* shell.c:284 of Ctrl-C: "give up and terminate the on-going command" - the
\* reply to a command that was given up is not read as that of a later one.
GivenUpIsOver ==
    at = "exe" /\ s2c # <<>> => Head(s2c).of \notin gaveUp
=============================================================================
