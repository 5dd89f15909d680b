----------------------------- MODULE JobService -----------------------------
(***************************************************************************)
(* What the clid daemon promises its shells: each connection waits for at  *)
(* most one job, an answer is given only for the job waited for and ends   *)
(* the wait, and nobody else's wait is touched.  An expiry notice ends the *)
(* wait too, but may also reach a connection that waits for nothing: the   *)
(* daemon does not stop a job timer in time (clid.c:1138).                 *)
(***************************************************************************)
EXTENDS Integers, Sequences

CONSTANTS Conn, Job, NoJob

VARIABLES
    waiting,  \* [Conn -> Job \cup {NoJob}]: the job a connection waits for
    inbox     \* [Conn -> Seq of replies]: what the shell has yet to read

serviceVars == <<waiting, inbox>>

Init ==
    /\ waiting = [c \in Conn |-> NoJob]
    /\ inbox = [c \in Conn |-> <<>>]

\* A new job replaces the one waited for; nobody else waits for it.
Submit(c, j) ==
    /\ \A d \in Conn : d # c => waiting[d] # j
    /\ waiting' = [waiting EXCEPT ![c] = j]
    /\ inbox' = inbox

\* A reply is delivered, or lost because the shell is gone.
Deliver(c, m) == inbox' \in {inbox, [inbox EXCEPT ![c] = Append(@, m)]}

Answer(c) ==
    /\ waiting[c] # NoJob
    /\ waiting' = [waiting EXCEPT ![c] = NoJob]
    /\ Deliver(c, "answer")

Expire(c) ==
    /\ waiting' = [waiting EXCEPT ![c] = NoJob]
    /\ Deliver(c, "expired")

List(c) == Deliver(c, "list") /\ waiting' = waiting

Leave(c) == waiting' = [waiting EXCEPT ![c] = NoJob] /\ inbox' = inbox

\* The shell reads a reply, or closes and discards what it did not read.
Read(c) ==
    /\ inbox[c] # <<>>
    /\ inbox' \in {[inbox EXCEPT ![c] = Tail(@)], [inbox EXCEPT ![c] = <<>>]}
    /\ waiting' = waiting

Next ==
    \E c \in Conn : \/ Leave(c) \/ List(c) \/ Read(c) \/ Answer(c) \/ Expire(c)
                    \/ \E j \in Job : Submit(c, j)

Spec == Init /\ [][Next]_serviceVars
=============================================================================
