----------------------------- MODULE CmdRegister -----------------------------
(***************************************************************************)
(* Command registration in an application (cmdif: CmdRegisterImpl), with   *)
(* the daemon's registry (ClidCommands) at the other end of its messages.  *)
(*                                                                         *)
(* Threads of one application register and deregister commands.  A call    *)
(* changes the invoker map under a mutex, releases the mutex, and only     *)
(* then sends a message to the daemon; the map says ALREADY_EXISTS or      *)
(* NOT_FOUND to calls that would change nothing, and those are stutters.   *)
(* The daemon forwards a shell's request as a job to the mailbox of the    *)
(* thread that registered the command; the thread that constructed the     *)
(* library looks the handler up, without the mutex.                        *)
(*                                                                         *)
(* The daemon never learns that an application has ended: a restart leaves *)
(* its entries behind.  raced, unheard, orphaned and withdrawn record what *)
(* has happened to a name and influence nothing.                           *)
(***************************************************************************)
EXTENDS ClidCommands, FiniteSets

CONSTANTS
    Thread,
    NoThread,
    NoMsg,
    AppNames,     \* the full names the threads use
    LongNames,    \* those of MAX_CMD_NAME_LENGTH characters or more
    ClippedName,  \* what is left of a long name in a message
    MaxCalls,     \* bound: calls that change the map
    MaxMail,      \* bound: messages in the daemon's mailbox
    MaxRequests,  \* bound: requests of the shells
    MaxRestarts   \* bound: restarts of the application

\* The name the daemon knows a command by.
Wire(n) == IF n \in LongNames THEN ClippedName ELSE n

\* Every thread makes a mailbox of its own in each life of the application.
ASSUME ThreadAssumption == /\ NoThread \notin Thread
                           /\ MaxRestarts \in Nat /\ (0..MaxRestarts) \X Thread \subseteq Mbox
ASSUME WireAssumption   == /\ \A n \in AppNames : Wire(n) \in Names
                           /\ \A n, k \in AppNames : Wire(n) = Wire(k) => n = k

VARIABLES
    m_registeredInvokers,  \* name -> thread whose handler it holds, or NoThread
    sending,               \* thread -> the message it has still to send
    m_clidMboxId,          \* TRUE: the daemon was located by init()
    listener,              \* the thread that ran init()
    mail,                  \* the daemon's mailbox
    jobs,                  \* mailbox -> names of the commands to execute
    lookup,                \* the job the listener is looking a handler up for
    disturbed,             \* the map has been changed during that lookup
    raced,                 \* names whose calls overlapped
    unheard,               \* names about which a message was not understood
    orphaned,              \* names the daemon knew at a restart
    withdrawn,             \* names whose handler was taken away
    calls, requests,
    restarts               \* how many, and the application's life

appVars    == <<m_registeredInvokers, sending, m_clidMboxId, listener>>
jobVars    == <<jobs, lookup, disturbed>>
historyVars == <<raced, unheard, orphaned, withdrawn>>
boundVars  == <<calls, requests, restarts>>
regVars    == <<cmdVars, appVars, mail, jobVars, historyVars, boundVars>>

NoJob == Unnamed

itc_current_mbox(t) == <<restarts, t>>

RegisterMsg(n, t) == [kind |-> "reg", app |-> n, name |-> Wire(n), mbox |-> itc_current_mbox(t)]
\* w is the name the message carries, see deregisterCmdHandler.
DeregisterMsg(n, w) == [kind |-> "dereg", app |-> n, name |-> w, mbox |-> NoMbox]
AppMsg == [kind : {"reg", "dereg"}, app : AppNames,
           name : Names \cup {Unnamed}, mbox : Mbox \cup {NoMbox}]

ASSUME MsgAssumption == NoMsg \notin AppMsg

SendingAbout(n) == {t \in Thread : sending[t] # NoMsg /\ sending[t].app = n}
MailAbout(n)    == {k \in 1..Len(mail) : mail[k].app = n}
LastAbout(n)    == {k \in MailAbout(n) : \A j \in MailAbout(n) : j <= k}

\* The mailboxes under which the daemon has n, normally one or none.
Registrants(n) == {cmds[i].mbox : i \in {k \in CmdSlot : cmds[k].name = Wire(n)}}

RegInit ==
    /\ CmdInit
    /\ m_registeredInvokers = [n \in AppNames |-> NoThread]
    /\ sending = [t \in Thread |-> NoMsg]
    /\ m_clidMboxId \in BOOLEAN /\ listener \in Thread
    /\ mail = <<>>
    /\ jobs = [m \in Mbox |-> {}] /\ lookup = NoJob /\ disturbed = FALSE
    /\ raced = {} /\ unheard = {} /\ orphaned = {} /\ withdrawn = {}
    /\ calls = 0 /\ requests = 0 /\ restarts = 0
-----------------------------------------------------------------------------
\* A thread is in one call at a time, and the listener in none while it
\* looks a handler up.
Free(t) == sending[t] = NoMsg /\ (t = listener => lookup = NoJob)

\* The map changes under the mutex: a lookup under way, which does not take
\* it, is disturbed; calls about n that are both past the unlock overlap.
ChangeMap(t, n, owner) ==
    /\ calls < MaxCalls /\ calls' = calls + 1
    /\ m_registeredInvokers' = [m_registeredInvokers EXCEPT ![n] = owner]
    /\ disturbed' = (lookup # NoJob)
    /\ raced' = IF SendingAbout(n) # {} THEN raced \cup {n} ELSE raced
    /\ UNCHANGED <<cmdVars, m_clidMboxId, listener, mail, jobs, lookup,
                   unheard, orphaned, requests, restarts>>

\* Mutant of registerCmdHandler: the handler is not entered in the map.
RegisterUnstored(t, n) ==
    /\ Free(t)
    /\ m_registeredInvokers[n] = NoThread
    /\ ChangeMap(t, n, NoThread)
    /\ sending' = [sending EXCEPT ![t] = RegisterMsg(n, t)]
    /\ UNCHANGED withdrawn

\* registerCmdHandler up to the unlock.
registerCmdHandler(t, n) ==
    /\ Free(t)
    /\ m_registeredInvokers[n] = NoThread
    /\ ChangeMap(t, n, t)
    /\ sending' = [sending EXCEPT ![t] = RegisterMsg(n, t)]
    /\ UNCHANGED withdrawn

\* Mutant of deregisterCmdHandler: the handler is not erased.
DeregisterKeepsHandler(t, n) ==
    /\ Free(t)
    /\ m_registeredInvokers[n] # NoThread
    /\ ChangeMap(t, n, m_registeredInvokers[n])
    /\ \E w \in Names \cup {Unnamed} :
         sending' = [sending EXCEPT ![t] = DeregisterMsg(n, w)]
    /\ withdrawn' = withdrawn \cup {n}

\* deregisterCmdHandler up to the unlock.  The message is allocated without
\* room for the name, which is written behind it: the daemon reads the name,
\* or whatever its own memory holds there, which may be another one.
deregisterCmdHandler(t, n) ==
    /\ Free(t)
    /\ m_registeredInvokers[n] # NoThread
    /\ ChangeMap(t, n, NoThread)
    /\ \E w \in Names \cup {Unnamed} :
         sending' = [sending EXCEPT ![t] = DeregisterMsg(n, w)]
    /\ withdrawn' = withdrawn \cup {n}

\* The names about which a message tells the daemon nothing, or what is not so.
Misled(msg) == IF msg.name = Wire(msg.app) THEN {}
               ELSE {n \in AppNames : n = msg.app \/ Wire(n) = msg.name}

\* Mutant of SendMessage: the message of a later call overtakes.
SendAhead(t) ==
    /\ sending[t] # NoMsg
    /\ m_clidMboxId
    /\ Len(mail) < MaxMail
    /\ mail' = <<sending[t]>> \o mail
    /\ sending' = [sending EXCEPT ![t] = NoMsg]
    /\ unheard' = unheard \cup Misled(sending[t])
    /\ UNCHANGED <<cmdVars, m_registeredInvokers, m_clidMboxId, listener, jobVars,
                   raced, orphaned, withdrawn, boundVars>>

\* itc_send succeeds.
SendMessage(t) ==
    /\ sending[t] # NoMsg
    /\ m_clidMboxId
    /\ Len(mail) < MaxMail
    /\ mail' = Append(mail, sending[t])
    /\ sending' = [sending EXCEPT ![t] = NoMsg]
    /\ unheard' = unheard \cup Misled(sending[t])
    /\ UNCHANGED <<cmdVars, m_registeredInvokers, m_clidMboxId, listener, jobVars,
                   raced, orphaned, withdrawn, boundVars>>

\* INTERNAL_ERROR: the daemon was never located, or itc_send fails.  The map
\* keeps the change.
SendFails(t) ==
    /\ sending[t] # NoMsg
    /\ sending' = [sending EXCEPT ![t] = NoMsg]
    /\ unheard' = unheard \cup {sending[t].app}
    /\ UNCHANGED <<cmdVars, m_registeredInvokers, m_clidMboxId, listener, mail, jobVars,
                   raced, orphaned, withdrawn, boundVars>>
-----------------------------------------------------------------------------
\* The daemon's two reasons not to do what a message says: the array is
\* full, and the search misses a registered name.
Refuses(msg) ==
    \/ msg.kind = "reg" /\ Entries = CmdSlot
    \/ msg.kind = "dereg" /\ Registrants(msg.app) # {} /\ CanMiss(cmd_tree, CmdName(cmds), msg.name)

ClidReceives ==
    /\ mail # <<>>
    /\ mail' = Tail(mail)
    /\ LET msg == Head(mail) IN
         /\ \/ msg.kind = "reg" /\ cmd_count < MaxRegs
                 /\ handle_receive_reg_cmd_request(msg.name, msg.mbox)
            \/ msg.kind = "dereg" /\ handle_receive_dereg_cmd_request(msg.name)
         /\ unheard' = IF Refuses(msg) THEN unheard \cup {msg.app} ELSE unheard
    /\ UNCHANGED <<appVars, jobVars, raced, orphaned, withdrawn, boundVars>>

\* A shell asks for w.
ClidForwards(w) ==
    /\ requests < MaxRequests /\ requests' = requests + 1
    /\ \E m \in ForwardTargets(w) \ {NoMbox} : jobs' = [jobs EXCEPT ![m] = @ \cup {w}]
    /\ UNCHANGED <<cmdVars, appVars, mail, lookup, disturbed, historyVars, calls, restarts>>
-----------------------------------------------------------------------------
\* handleExeCmdRequest: only the listener's event loop has it registered.
TakeJob ==
    /\ m_clidMboxId /\ Free(listener)
    /\ \E w \in jobs[itc_current_mbox(listener)] :
         /\ lookup' = w
         /\ jobs' = [jobs EXCEPT ![itc_current_mbox(listener)] = @ \ {w}]
    /\ disturbed' = FALSE
    /\ UNCHANGED <<cmdVars, appVars, mail, historyVars, boundVars>>

HasHandler(w) == w \in AppNames /\ m_registeredInvokers[w] # NoThread

LookupEnds == /\ lookup # NoJob
              /\ lookup' = NoJob /\ disturbed' = FALSE
              /\ UNCHANGED <<cmdVars, appVars, mail, jobs, historyVars, boundVars>>

\* Reading the map while another thread changes it has no defined result:
\* the handler is found, it is missed, or the process ends (Restart).
HandlerFound  == LookupEnds /\ (HasHandler(lookup) \/ disturbed)
HandlerMissed == LookupEnds /\ (~HasHandler(lookup) \/ disturbed)

\* The application ends and is started again: new mailboxes, an empty map,
\* and a new attempt to locate the daemon by the thread that comes first.
Restart ==
    /\ restarts < MaxRestarts /\ restarts' = restarts + 1
    /\ m_registeredInvokers' = [n \in AppNames |-> NoThread]
    /\ sending' = [t \in Thread |-> NoMsg]
    /\ m_clidMboxId' \in BOOLEAN /\ listener' \in Thread
    /\ jobs' = [m \in Mbox |-> {}] /\ lookup' = NoJob /\ disturbed' = FALSE
    /\ orphaned' = orphaned \cup {n \in AppNames : Registrants(n) # {} \/ MailAbout(n) # {}}
    /\ UNCHANGED <<cmdVars, mail, raced, unheard, withdrawn, calls, requests>>
-----------------------------------------------------------------------------
App  == \E t \in Thread : \/ \E n \in AppNames : registerCmdHandler(t, n) \/ deregisterCmdHandler(t, n)
                          \/ SendMessage(t) \/ SendFails(t)
Jobs == \/ \E w \in Names : ClidForwards(w)
        \/ TakeJob \/ HandlerFound \/ HandlerMissed

RegNext == App \/ Jobs \/ ClidReceives \/ Restart

RegSpec == RegInit /\ [][RegNext]_regVars

\* Threads and daemon do not stop in the middle of their work.
RegFairSpec ==
    /\ RegSpec
    /\ WF_regVars(ClidReceives)
    /\ \A t \in Thread : WF_regVars(SendMessage(t) \/ SendFails(t))
-----------------------------------------------------------------------------
\* Type correctness of the application's side.
RegTypeOK ==
    /\ CmdTypeOK
    /\ m_registeredInvokers \in [AppNames -> Thread \cup {NoThread}]
    /\ sending \in [Thread -> AppMsg \cup {NoMsg}]
    /\ m_clidMboxId \in BOOLEAN /\ listener \in Thread
    /\ mail \in Seq(AppMsg)
    /\ jobs \in [Mbox -> SUBSET Names]
    /\ lookup \in Names \cup {NoJob} /\ disturbed \in BOOLEAN
    /\ raced \subseteq AppNames /\ unheard \subseteq AppNames
    /\ orphaned \subseteq AppNames /\ withdrawn \subseteq AppNames
    /\ restarts \in 0..MaxRestarts

\* What the daemon will have for n once every message about n has been sent
\* and received; and what it ought to have.
View(n) ==
    IF SendingAbout(n) # {} THEN {sending[t].mbox : t \in SendingAbout(n)} \ {NoMbox}
    ELSE IF MailAbout(n) # {} THEN {mail[k].mbox : k \in LastAbout(n)} \ {NoMbox}
    ELSE Registrants(n)

Wanted(n) ==
    IF m_registeredInvokers[n] = NoThread THEN {} ELSE {itc_current_mbox(m_registeredInvokers[n])}

\* The daemon follows the invoker map although the message is sent after
\* the unlock and may wait in the mailbox: for each name the last word is
\* the map's.  Four things break it, and only these: the calls of two
\* threads overlapped (cmdRegisterImpl.cc:61, 107), the message was not sent
\* or a deregistration was read with another name (78-87, 109), the daemon's
\* array or tree failed it, or an earlier life of the application left an
\* entry.
DaemonFollowsMap ==
    \A n \in AppNames \ (raced \cup unheard \cup orphaned) : View(n) = Wanted(n)

\* A job is dropped without an answer (cmdRegisterImpl.cc:196-199) only for
\* a name that was clipped on its way, whose handler had been taken away
\* while the daemon or an older job still named it, or when the map was
\* changed during the lookup that does not take the mutex (191).
JobsFindHandlers ==
    [][HandlerMissed => \/ lookup \notin AppNames
                        \/ lookup \in withdrawn \cup orphaned
                        \/ disturbed]_regVars

\* Once the calls have stopped the daemon settles on what the map says.
Settles ==
    \A n \in AppNames :
        <>(n \in raced \cup unheard \cup orphaned) \/ <>[](Registrants(n) = Wanted(n))
=============================================================================
