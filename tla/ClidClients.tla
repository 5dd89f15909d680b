---------------------------- MODULE ClidClients -----------------------------
(***************************************************************************)
(* The client table of the clid daemon (sw/clid/clid.c): the array         *)
(* clid_inst.clients, the tree client_tree over it, the job counter, and   *)
(* the handlers that work on them.  A slot holds a shell's socket, the     *)
(* descriptor of its job timer, and the id of the job it waits for.        *)
(*                                                                         *)
(* client_tree is built by socket, but a reply is looked up in it by job   *)
(* id and an expired timer by timer descriptor.                            *)
(***************************************************************************)
EXTENDS Kernel, SearchTree

CONSTANTS
    MAX_NUM_SHELL_CLIENTS,  \* length of the array clients
    JobIdMod                \* 2^64: m_job_id is an unsigned long long

ASSUME SlotAssumption  == MAX_NUM_SHELL_CLIENTS \in Nat \ {0}
ASSUME JobIdAssumption == JobIdMod \in Nat \ 0..1

VARIABLES
    clients,      \* [Slot -> [fd, timer, job]]
    client_tree,  \* in-order sequence of slots of clients
    m_job_id,     \* id of the last job
    running       \* FALSE once the daemon has called exit

clientVars == <<clients, client_tree, m_job_id, running>>

Slot     == 1..MAX_NUM_SHELL_CLIENTS
IdleJob  == 0
\* Mutant of FreeSlot: memset to zero.
ZeroedSlot == [fd |-> NoFd, timer |-> 0, job |-> IdleJob]
FreeSlot   == [fd |-> NoFd, timer |-> NoFd, job |-> IdleJob]

Connected(i) == clients[i].fd # NoFd
ConnOf(i)    == sock[clients[i].fd]

\* The three comparators of client_tree.
ByFd(table)    == [i \in Slot |-> table[i].fd]
ByTimer(table) == [i \in Slot |-> table[i].timer]
ByJob(table)   == [i \in Slot |-> table[i].job]

\* Mutant of NextJobId: the counter is set once and not incremented.
SameJobId(j) == IF j = IdleJob THEN 1 ELSE j

\* ++m_job_id ? m_job_id : ++m_job_id, in the width of the counter.
NextJobId(j) == IF (j + 1) % JobIdMod # IdleJob THEN (j + 1) % JobIdMod
                ELSE (j + 2) % JobIdMod

FirstFreeSlot(i) ==
    /\ ~Connected(i)
    /\ \A k \in Slot : k < i => Connected(k)

ClientInit ==
    /\ clients = [i \in Slot |-> FreeSlot]
    /\ client_tree = <<>>
    /\ m_job_id = 0
    /\ running = TRUE
-----------------------------------------------------------------------------
\* Mutant of the next: the new client is not linked.
AcceptUnlinked ==
    /\ backlog' = Tail(backlog)
    /\ \E d \in Fd, i \in Slot :
         /\ LowestFreeFd(d) /\ FirstFreeSlot(i)
         /\ sock' = [sock EXCEPT ![d] = Head(backlog)]
         /\ clients' = [clients EXCEPT ![i].fd = d]
    /\ UNCHANGED <<alarm, peer, c2s, s2c, client_tree, m_job_id, running>>

\* accept; the daemon exits when every slot is taken, or the tree already
\* holds the descriptor.
handle_accept_new_connection ==
    /\ backlog' = Tail(backlog)
    /\ \E d \in Fd :
         /\ LowestFreeFd(d)
         /\ sock' = [sock EXCEPT ![d] = Head(backlog)]
         /\ IF \/ \A i \in Slot : Connected(i)
               \/ Found(client_tree, ByFd(clients), d) # {}
            THEN running' = FALSE /\ UNCHANGED <<clients, client_tree>>
            ELSE \E i \in Slot :
                   /\ FirstFreeSlot(i)
                   /\ clients' = [clients EXCEPT ![i].fd = d]
                   /\ client_tree' \in Inserts(client_tree, ByFd(clients'), d, i)
                   /\ running' = running
    /\ UNCHANGED <<alarm, peer, c2s, s2c, m_job_id>>

\* Mutants of release_shell_client_resources: the timer is left open; the
\* job id, or the descriptor, is left behind.
ReleaseKeepsTimer(d) ==
    /\ \E i \in Found(client_tree, ByFd(clients), d) :
         /\ clients' = [clients EXCEPT ![i] = FreeSlot]
         /\ client_tree' \in Deletes(client_tree, ByFd(clients'), NoFd)
         /\ sock' = [sock EXCEPT ![d] = NoConn]
         /\ peer' = [peer EXCEPT ![sock[d]] = "dead"]
    /\ UNCHANGED <<alarm, backlog, c2s, s2c, m_job_id, running>>

ReleaseKeepsJob(d) ==
    /\ \E i \in Found(client_tree, ByFd(clients), d) :
         /\ clients' = [clients EXCEPT ![i].fd = NoFd, ![i].timer = NoFd]
         /\ client_tree' \in Deletes(client_tree, ByFd(clients'), NoFd)
         /\ sock' = [sock EXCEPT ![d] = NoConn]
         /\ alarm' = [e \in Fd |-> IF e = clients[i].timer THEN "none" ELSE alarm[e]]
         /\ peer' = [peer EXCEPT ![sock[d]] = "dead"]
    /\ UNCHANGED <<backlog, c2s, s2c, m_job_id, running>>

ReleaseKeepsFd(d) ==
    /\ \E i \in Found(client_tree, ByFd(clients), d) :
         /\ clients' = [clients EXCEPT ![i].timer = NoFd, ![i].job = IdleJob]
         /\ client_tree' = client_tree
         /\ sock' = [sock EXCEPT ![d] = NoConn]
         /\ alarm' = [e \in Fd |-> IF e = clients[i].timer THEN "none" ELSE alarm[e]]
         /\ peer' = [peer EXCEPT ![sock[d]] = "dead"]
    /\ UNCHANGED <<backlog, c2s, s2c, m_job_id, running>>

\* recv returned 0.  The slot is cleared before tdelete, which therefore
\* searches for descriptor -1; if tfind misses, nothing at all happens.
release_shell_client_resources(d) ==
    /\ \/ /\ CanMiss(client_tree, ByFd(clients), d)
          /\ UNCHANGED <<clients, client_tree, sock, alarm, peer>>
       \/ \E i \in Found(client_tree, ByFd(clients), d) :
            /\ clients' = [clients EXCEPT ![i] = FreeSlot]
            /\ client_tree' \in Deletes(client_tree, ByFd(clients'), NoFd)
            /\ sock' = [sock EXCEPT ![d] = NoConn]
            /\ alarm' = [e \in Fd |-> IF e = clients[i].timer THEN "none" ELSE alarm[e]]
            /\ peer' = [peer EXCEPT ![sock[d]] = "dead"]
    /\ UNCHANGED <<backlog, c2s, s2c, m_job_id, running>>

\* restart_job_timer and reassign_current_job_id of client i: the timer is
\* created for the client's first job.
restart_job_timer(i, job) ==
    \E t \in Fd :
       /\ IF clients[i].timer # NoFd THEN t = clients[i].timer ELSE LowestFreeFd(t)
       /\ clients' = [clients EXCEPT ![i].timer = t, ![i].job = job]
       /\ alarm' = [alarm EXCEPT ![t] = "armed"]

\* Mutant of the next: current_job_id is not unset after the answer.
AnswerKeepsJob(job) ==
    /\ \E i \in Found(client_tree, ByJob(clients), job) :
         /\ Send(clients[i].fd, "answer")
         /\ alarm' = [e \in Fd |-> IF e = clients[i].timer THEN "fired" ELSE alarm[e]]
    /\ UNCHANGED <<clients, sock, backlog, c2s, client_tree, m_job_id, running>>

\* The answer of a job goes to the client that waits for it; its timer is
\* "stopped" by arming it for the present time, so it fires at once.
handle_receive_exe_cmd_reply(job) ==
    /\ \/ /\ CanMiss(client_tree, ByJob(clients), job)
          /\ UNCHANGED <<clients, alarm, peer, s2c>>
       \/ \E i \in Found(client_tree, ByJob(clients), job) :
            /\ Send(clients[i].fd, "answer")
            /\ IF Sends(clients[i].fd)
               THEN /\ clients' = [clients EXCEPT ![i].job = IdleJob]
                    /\ alarm' = [e \in Fd |-> IF e = clients[i].timer THEN "fired" ELSE alarm[e]]
               ELSE UNCHANGED <<clients, alarm>>
    /\ UNCHANGED <<sock, backlog, c2s, client_tree, m_job_id, running>>

\* The timer's client is told, whether it waits for a job or not; the
\* daemon exits when it cannot be told.
handle_job_timer_expired(t) ==
    /\ \/ /\ CanMiss(client_tree, ByTimer(clients), t)
          /\ UNCHANGED <<clients, peer, s2c, running>>
       \/ \E i \in Found(client_tree, ByTimer(clients), t) :
            /\ Send(clients[i].fd, "expired")
            /\ IF Sends(clients[i].fd)
               THEN clients' = [clients EXCEPT ![i].job = IdleJob] /\ running' = running
               ELSE running' = FALSE /\ clients' = clients
    /\ UNCHANGED <<sock, alarm, backlog, c2s, client_tree, m_job_id>>
=============================================================================
