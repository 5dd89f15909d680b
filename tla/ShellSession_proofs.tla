------------------------- MODULE ShellSession_proofs -------------------------
(***************************************************************************)
(* The shell's session for every table size, set of names and number of    *)
(* requests.                                                               *)
(***************************************************************************)
EXTENDS ShellSession, SearchTree_proofs

LEMMA SessionConstants ==
    /\ MAX_REMOTE_CMDS \in Nat \ {0} /\ Names \subseteq Nat \ {0}
    /\ MaxRequests \in Nat /\ MaxListed \in Nat /\ MaxJunk \in Nat
  BY RemoteSlotsAssumption, RemoteNamesAssumption, SessionBoundsAssumption

LEMMA SeqOfIsSeq ==
    ASSUME NEW S, NEW n \in Nat, NEW q \in SeqOf(S, n)
    PROVE  q \in Seq(S)
  BY DEF SeqOf

-----------------------------------------------------------------------------
(***************************************************************************)
(* Types                                                                   *)
(***************************************************************************)
LEMMA SessionTypeInit == Init => SessionTypeOK
<1> SUFFICES ASSUME Init PROVE SessionTypeOK
  OBVIOUS
<1>1. m_remote_cmds \in [RemoteSlot -> Names \cup {Unnamed}]
  BY DEF Init
<1>2. /\ m_remote_cmd_tree \in Seq(RemoteSlot) /\ todo \in Seq(Names \cup {Unnamed})
      /\ c2s \in Seq(Request) /\ s2c \in Seq(Reply)
  BY DEF Init
<1>3. drop \in 0..MAX_REMOTE_CMDS /\ job \in 0..MaxRequests /\ asked \in 0..MaxRequests
  BY SessionConstants DEF Init
<1> QED BY <1>1, <1>2, <1>3 DEF Init, SessionTypeOK, Place

\* What the first packet of a queue is.
LEMMA HeadTypes ==
    ASSUME SessionTypeOK
    PROVE  /\ c2s # <<>> => Head(c2s) \in Request /\ Tail(c2s) \in Seq(Request)
           /\ s2c # <<>> => Head(s2c) \in Reply /\ Tail(s2c) \in Seq(Reply)
<1>1. c2s \in Seq(Request) /\ s2c \in Seq(Reply)
  BY DEF SessionTypeOK
<1> QED BY <1>1

\* A packet is read, wholly or by its header.
LEMMA AfterPacketType ==
    ASSUME s2c \in Seq(Reply), s2c # <<>>, NEW kind
    PROVE  AfterPacket(kind) \in Seq(Reply)
<1>1. Tail(s2c) \in Seq(Reply) /\ Head(s2c) \in Reply
  OBVIOUS
<1>2. [kind |-> "payload", of |-> Head(s2c).of] \in Reply
  BY <1>1 DEF Reply
<1>3. <<[kind |-> "payload", of |-> Head(s2c).of]>> \in Seq(Reply)
  BY <1>2
<1> QED BY <1>1, <1>3 DEF AfterPacket

LEMMA AddListedType ==
    ASSUME SessionTypeOK, AddListed
    PROVE  SessionTypeOK'
<1>1. PICK j \in RemoteSlot :
        /\ m_remote_cmds' = [m_remote_cmds EXCEPT ![j] = Head(todo)]
        /\ \/ m_remote_cmd_tree' = m_remote_cmd_tree
           \/ m_remote_cmd_tree' \in
                Inserts(m_remote_cmd_tree, m_remote_cmds', Head(todo), j)
  BY DEF AddListed
<1>2. /\ todo \in Seq(Names \cup {Unnamed}) /\ todo # <<>>
      /\ m_remote_cmd_tree \in Seq(RemoteSlot)
      /\ m_remote_cmds \in [RemoteSlot -> Names \cup {Unnamed}]
  BY DEF SessionTypeOK, AddListed
<1>3. Head(todo) \in Names \cup {Unnamed} /\ todo' \in Seq(Names \cup {Unnamed})
  BY <1>2 DEF AddListed
<1>4. m_remote_cmd_tree' \in Seq(RemoteSlot)
  BY <1>1, <1>2, InsertsElements
<1>5. m_remote_cmds' \in [RemoteSlot -> Names \cup {Unnamed}]
  BY <1>1, <1>2, <1>3
<1>6. UNCHANGED <<shellVars, drop, linkVars, daemonVars, ghostVars>>
  BY DEF AddListed
<1> QED BY <1>3, <1>4, <1>5, <1>6
        DEF SessionTypeOK, shellVars, linkVars, daemonVars, ghostVars

LEMMA DropSlotType ==
    ASSUME SessionTypeOK, DropSlot
    PROVE  SessionTypeOK'
<1>1. /\ m_remote_cmd_tree \in Seq(RemoteSlot)
      /\ m_remote_cmds \in [RemoteSlot -> Names \cup {Unnamed}]
      /\ drop \in RemoteSlot
  BY SessionConstants DEF SessionTypeOK, DropSlot, RemoteSlot
<1>2. m_remote_cmd_tree' \in Seq(RemoteSlot)
  BY <1>1, DeletesElements DEF DropSlot
<1>3. m_remote_cmds' \in [RemoteSlot -> Names \cup {Unnamed}]
  BY <1>1 DEF DropSlot
<1>4. /\ drop' \in 0..MAX_REMOTE_CMDS
      /\ at' \in Place /\ (at' = "dropping" => drop' > 0)
  BY <1>1, SessionConstants DEF DropSlot, RemoteSlot, Place
<1>5. UNCHANGED <<m_is_connected, m_active_fd, todo, linkVars, daemonVars, ghostVars>>
  BY DEF DropSlot
<1> QED BY <1>2, <1>3, <1>4, <1>5
        DEF SessionTypeOK, linkVars, daemonVars, ghostVars

LEMMA SessionTypeNext == SessionTypeOK /\ [Next]_vars => SessionTypeOK'
<1> SUFFICES ASSUME SessionTypeOK, [Next]_vars PROVE SessionTypeOK'
  OBVIOUS
<1> USE DEF shellVars, tableVars, linkVars, daemonVars, ghostVars
<1>1. CASE UNCHANGED vars
  BY <1>1 DEF SessionTypeOK, vars
<1>2. CASE ConnectInVain
  BY <1>2 DEF ConnectInVain, SessionTypeOK
<1>3. CASE Connect
  <2>1. [kind |-> "list", id |-> asked + 1] \in Request /\ asked' \in 0..MaxRequests
    BY <1>3, SessionConstants DEF Connect, SessionTypeOK, Request
  <2>2. c2s' \in Seq(Request) /\ s2c' \in Seq(Reply)
    BY <1>3, <2>1 DEF Connect
  <2> QED BY <1>3, <2>1, <2>2 DEF Connect, SessionTypeOK, Place
<1>4. CASE ReadList
  <2>1. s2c' \in Seq(Reply)
    BY <1>4, AfterPacketType DEF ReadList, SessionTypeOK
  <2>2. todo' \in Seq(Names \cup {Unnamed}) /\ overread' \in BOOLEAN
    <3>1. PICK names \in SeqOf(Names, MaxListed),
               junk \in SeqOf(Names \cup {Unnamed}, MaxJunk) :
            todo' = names \o junk /\ overread' = (overread \/ junk # <<>>)
      BY <1>4 DEF ReadList
    <3>2. names \in Seq(Names) /\ junk \in Seq(Names \cup {Unnamed})
      BY SeqOfIsSeq, SessionConstants
    <3>3. names \in Seq(Names \cup {Unnamed})
      BY <3>2
    <3> QED BY <3>1, <3>2, <3>3 DEF SessionTypeOK
  <2> QED BY <1>4, <2>1, <2>2 DEF ReadList, SessionTypeOK, Place
<1>5. CASE AddListed
  BY <1>5, AddListedType
<1>6. CASE ListDone
  BY <1>6 DEF ListDone, SessionTypeOK, Place
<1>7. ASSUME NEW n \in Names, Exec(n) PROVE SessionTypeOK'
  <2>1. [kind |-> "exe", id |-> asked + 1] \in Request /\ asked' \in 0..MaxRequests
    BY <1>7, SessionConstants DEF Exec, SessionTypeOK, Request
  <2>2. c2s' \in Seq(Request) /\ link' \in {"none", "up", "fin", "dead"}
    <3>1. c2s \in Seq(Request) /\ link \in {"none", "up", "fin", "dead"}
      BY DEF SessionTypeOK
    <3>2. CASE link' = link /\ c2s' = Append(c2s, [kind |-> "exe", id |-> asked + 1])
      BY <2>1, <3>1, <3>2
    <3>3. CASE link' = "dead" /\ c2s' = c2s
      BY <3>1, <3>3
    <3> QED BY <1>7, <3>2, <3>3 DEF Exec
  <2> QED BY <1>7, <2>1, <2>2 DEF Exec, SessionTypeOK, Place
<1>8. ASSUME NEW n \in Names, KilledBySend(n) PROVE SessionTypeOK'
  BY <1>8 DEF KilledBySend, SessionTypeOK, Place
<1>9. CASE ReadAnswer
  <2>1. s2c' \in Seq(Reply)
    BY <1>9, AfterPacketType DEF ReadAnswer, SessionTypeOK
  <2> QED BY <1>9, <2>1 DEF ReadAnswer, SessionTypeOK, Place
<1>10. CASE Broken
  BY <1>10 DEF Broken, SessionTypeOK, Place
<1>11. CASE CtrlC
  BY <1>11 DEF CtrlC, SessionTypeOK, Place
<1>12. CASE Disconnect
  <2>1. c2s' \in Seq(Request) /\ s2c' \in Seq(Reply)
    BY <1>12 DEF Disconnect
  <2>2. drop' \in 0..MAX_REMOTE_CMDS /\ drop' > 0 /\ job' \in 0..MaxRequests
    BY <1>12, SessionConstants DEF Disconnect
  <2>3. gaveUp' = {} /\ link' = "none" /\ at' = "dropping"
    BY <1>12 DEF Disconnect
  <2> QED BY <1>12, <2>1, <2>2, <2>3 DEF Disconnect, SessionTypeOK, Place
<1>13. CASE DropSlot
  BY <1>13, DropSlotType
<1>14. CASE Exit \/ Crash
  BY <1>14 DEF Exit, Crash, SessionTypeOK, Place
<1>15. CASE DaemonLists
  <2>1. Head(c2s) \in Request /\ c2s' \in Seq(Request)
    BY <1>15, HeadTypes DEF DaemonLists
  <2>2. [kind |-> "list", of |-> Head(c2s).id] \in Reply
    BY <2>1, SessionConstants DEF Request, Reply
  <2>3. s2c' \in Seq(Reply)
    BY <1>15, <2>2 DEF DaemonLists, Replies, SessionTypeOK
  <2> QED BY <1>15, <2>1, <2>3 DEF DaemonLists, SessionTypeOK
<1>16. CASE DaemonStartsJob
  <2>1. Head(c2s) \in Request /\ c2s' \in Seq(Request)
    BY <1>16, HeadTypes DEF DaemonStartsJob
  <2>2. Head(c2s).id \in 0..MaxRequests
    BY <2>1, SessionConstants DEF Request
  <2> QED BY <1>16, <2>1, <2>2 DEF DaemonStartsJob, SessionTypeOK
<1>17. CASE DaemonAnswers \/ DaemonExpiresJob
  <2>1. [kind |-> "exe", of |-> job] \in Reply
    BY DEF SessionTypeOK, Reply
  <2>2. s2c' \in Seq(Reply)
    <3>1. s2c \in Seq(Reply)
      BY DEF SessionTypeOK
    <3>2. s2c' = Append(s2c, [kind |-> "exe", of |-> job])
      BY <1>17 DEF DaemonAnswers, DaemonExpiresJob, Replies
    <3> QED BY <2>1, <3>1, <3>2
  <2>3. CASE DaemonAnswers
    BY <2>2, <2>3 DEF DaemonAnswers, SessionTypeOK
  <2>4. CASE DaemonExpiresJob
    BY <2>2, <2>4 DEF DaemonExpiresJob, SessionTypeOK
  <2> QED BY <1>17, <2>3, <2>4
<1>18. CASE DaemonCloses
  <2>1. c2s' \in Seq(Request) /\ link' \in {"none", "up", "fin", "dead"}
    BY <1>18 DEF DaemonCloses
  <2> QED BY <1>18, <2>1 DEF DaemonCloses, SessionTypeOK
<1> QED BY <1>1, <1>2, <1>3, <1>4, <1>5, <1>6, <1>7, <1>8, <1>9, <1>10, <1>11, <1>12,
           <1>13, <1>14, <1>15, <1>16, <1>17, <1>18 DEF Next, Shell

\* The shell's session is type correct.
THEOREM SessionTypeCorrect == Spec => []SessionTypeOK
  BY SessionTypeInit, SessionTypeNext, PTL DEF Spec

-----------------------------------------------------------------------------
(***************************************************************************)
(* The safety properties of a shell's session: the table of remote         *)
(* commands and its tree, the prompt, and the stream of replies.           *)
(***************************************************************************)
\* Without a socket there is no daemon behind it; where the shell waits or
\* adds there is a socket; a disconnect has cleared the slots it has passed.
CleanInv ==
    /\ m_active_fd = NoFd => link = "none" /\ ~waiting /\ ~timer
    /\ at \in {"list", "adding", "exe"} => m_active_fd # NoFd
    /\ at = "dropping" =>
         /\ m_active_fd = NoFd
         /\ \A i \in RemoteSlot : i < drop => m_remote_cmds[i] = Unnamed
    /\ at = "prompt" /\ m_active_fd = NoFd =>
         \A i \in RemoteSlot : m_remote_cmds[i] = Unnamed
    /\ at \in {"prompt", "exe"} /\ ~m_is_connected => m_active_fd = NoFd

\* Without an over-read, the tree is sorted, has nodes of named slots only,
\* and - except while a disconnect takes it apart - a node for every name.
TreeInv ==
    ~overread =>
        /\ todo \in Seq(Names)
        /\ SortedBy(m_remote_cmd_tree, m_remote_cmds)
        /\ ToSet(m_remote_cmd_tree) \subseteq Listed
        /\ at # "dropping" =>
             \A i \in Listed : \E j \in ToSet(m_remote_cmd_tree) :
                m_remote_cmds[j] = m_remote_cmds[i]

ListRequest == [kind : {"list"}, id : 1..MaxRequests]
ExeRequest  == [kind : {"exe"}, id : 1..MaxRequests]
ListReply   == [kind : {"list"}, of : 0..MaxRequests]
ExeReply    == [kind : {"exe"}, of : 0..MaxRequests]

\* Until the list is read nothing but the list is on the connection, and no
\* command is known; from then on there are only execute packets.
Fresh ==
    /\ at \in {"list", "prompt", "done"}
    /\ ~waiting /\ ~timer
    /\ \A i \in RemoteSlot : m_remote_cmds[i] = Unnamed
    /\ \/ s2c = <<>> /\ c2s = <<>>
       \/ s2c = <<>> /\ \E r \in ListRequest : c2s = <<r>>
       \/ c2s = <<>> /\ \E r \in ListReply : s2c = <<r>>

Working == at # "list" /\ c2s \in Seq(ExeRequest) /\ s2c \in Seq(ExeReply)

StreamInv == Fresh \/ Working

\* In step: nothing is on the way while the shell does not wait, and one
\* thing - the request, the job or the reply - while it does.
Quiet == c2s = <<>> /\ s2c = <<>> /\ ~waiting

Open ==
    \/ link = "up" /\ s2c = <<>> /\ ~waiting /\ \E r \in Request : c2s = <<r>> /\ r.id = asked
    \/ link = "up" /\ s2c = <<>> /\ c2s = <<>> /\ waiting /\ job = asked
    \/ c2s = <<>> /\ ~waiting /\ \E r \in Reply : s2c = <<r>> /\ r.of = asked
    \/ link # "up" /\ Quiet

StepInv ==
    gaveUp = {} /\ ~twice =>
        /\ at \in {"prompt", "adding", "dropping"} => Quiet
        /\ at \in {"list", "exe"} => Open

SessionInv == SessionTypeOK /\ CleanInv /\ TreeInv /\ StreamInv /\ StepInv

-----------------------------------------------------------------------------
LEMMA SessionInit == Init => SessionInv
<1> SUFFICES ASSUME Init PROVE SessionInv
  OBVIOUS
<1>1. CleanInv /\ StepInv
  BY DEF Init, CleanInv, StepInv, Quiet
<1>2. TreeInv
  BY DEF Init, TreeInv, SortedBy, ToSet, Listed
<1>3. StreamInv
  BY DEF Init, StreamInv, Fresh
<1> QED BY <1>1, <1>2, <1>3, SessionTypeInit DEF SessionInv

\* A name that a search can find is the name of a listed slot.
LEMMA FoundIsListed ==
    ASSUME SessionTypeOK, NEW n \in Names, Found(m_remote_cmd_tree, m_remote_cmds, n) # {}
    PROVE  \E i \in RemoteSlot : m_remote_cmds[i] # Unnamed
<1>1. PICK i \in Found(m_remote_cmd_tree, m_remote_cmds, n) : TRUE
  OBVIOUS
<1>2. i \in RemoteSlot /\ m_remote_cmds[i] = n
  BY <1>1, FoundElements DEF SessionTypeOK
<1> QED BY <1>2, SessionConstants DEF Unnamed

-----------------------------------------------------------------------------
(***************************************************************************)
(* The prompt                                                              *)
(***************************************************************************)
LEMMA DropSlotClean ==
    ASSUME SessionTypeOK, CleanInv, DropSlot
    PROVE  CleanInv'
<1>1. /\ m_remote_cmds \in [RemoteSlot -> Names \cup {Unnamed}]
      /\ drop \in 1..MAX_REMOTE_CMDS /\ m_active_fd = NoFd
      /\ \A i \in RemoteSlot : i < drop => m_remote_cmds[i] = Unnamed
  BY SessionConstants DEF SessionTypeOK, CleanInv, DropSlot
<1>2. \A i \in RemoteSlot : i <= drop => m_remote_cmds'[i] = Unnamed
  BY <1>1, SessionConstants DEF DropSlot, RemoteSlot
<1>3. UNCHANGED <<m_is_connected, m_active_fd, link, waiting, timer>>
  BY DEF DropSlot, linkVars, daemonVars
<1>4. CASE drop < MAX_REMOTE_CMDS /\ drop' = drop + 1 /\ at' = at
  <2>1. \A i \in RemoteSlot : i < drop' => m_remote_cmds'[i] = Unnamed
    BY <1>1, <1>2, <1>4, SessionConstants DEF RemoteSlot
  <2> QED BY <1>1, <1>3, <1>4, <2>1 DEF CleanInv, DropSlot
<1>5. CASE drop = MAX_REMOTE_CMDS /\ drop' = 0 /\ at' = "prompt"
  <2>1. \A i \in RemoteSlot : m_remote_cmds'[i] = Unnamed
    BY <1>1, <1>2, <1>5, SessionConstants DEF RemoteSlot
  <2> QED BY <1>1, <1>3, <1>5, <2>1 DEF CleanInv, DropSlot
<1> QED BY <1>4, <1>5 DEF DropSlot

LEMMA CleanNext ==
    ASSUME SessionTypeOK, CleanInv, [Next]_vars
    PROVE  CleanInv'
<1> USE DEF shellVars, tableVars, linkVars, daemonVars, ghostVars
<1>1. CASE UNCHANGED vars
  BY <1>1 DEF CleanInv, vars
<1>2. CASE ConnectInVain
  BY <1>2 DEF ConnectInVain, CleanInv
<1>3. CASE Connect
  BY <1>3 DEF Connect, CleanInv, SockFd, NoFd
<1>4. CASE ReadList
  BY <1>4 DEF ReadList, CleanInv
<1>5. CASE AddListed
  BY <1>5 DEF AddListed, CleanInv
<1>6. CASE ListDone
  BY <1>6 DEF ListDone, CleanInv
<1>7. ASSUME NEW n \in Names, Exec(n) PROVE CleanInv'
  BY <1>7 DEF Exec, CleanInv
<1>8. ASSUME NEW n \in Names, KilledBySend(n) PROVE CleanInv'
  BY <1>8 DEF KilledBySend, CleanInv
<1>9. CASE ReadAnswer
  BY <1>9 DEF ReadAnswer, CleanInv
<1>10. CASE Broken \/ CtrlC
  BY <1>10 DEF Broken, CtrlC, CleanInv
<1>11. CASE Disconnect
  <2>1. \A i \in RemoteSlot : ~(i < drop')
    BY <1>11, SessionConstants DEF Disconnect, RemoteSlot
  <2> QED BY <1>11, <2>1 DEF Disconnect, CleanInv
<1>12. CASE DropSlot
  BY <1>12, DropSlotClean
<1>13. CASE Exit \/ Crash
  BY <1>13 DEF Exit, Crash, CleanInv
<1>14. CASE DaemonLists \/ DaemonStartsJob \/ DaemonAnswers \/ DaemonExpiresJob
  BY <1>14 DEF DaemonLists, DaemonStartsJob, DaemonAnswers, DaemonExpiresJob, CleanInv
<1>15. CASE DaemonCloses
  BY <1>15 DEF DaemonCloses, CleanInv
<1> QED BY <1>1, <1>2, <1>3, <1>4, <1>5, <1>6, <1>7, <1>8, <1>9, <1>10, <1>11, <1>12,
           <1>13, <1>14, <1>15 DEF Next, Shell

-----------------------------------------------------------------------------
(***************************************************************************)
(* The table and the tree                                                  *)
(***************************************************************************)
\* Adding an entry: its slot was not in the tree, so the nodes' keys stay.
LEMMA AddListedTree ==
    ASSUME SessionTypeOK, TreeInv, AddListed
    PROVE  TreeInv'
<1> SUFFICES ASSUME ~overread PROVE TreeInv'
  BY DEF TreeInv, AddListed, ghostVars
<1> DEFINE n == Head(todo)
<1>1. PICK j \in RemoteSlot :
        /\ m_remote_cmds[j] = Unnamed
        /\ m_remote_cmds' = [m_remote_cmds EXCEPT ![j] = n]
        /\ \/ /\ Hits(m_remote_cmd_tree, m_remote_cmds', n) # {}
              /\ m_remote_cmd_tree' = m_remote_cmd_tree
           \/ m_remote_cmd_tree' \in Inserts(m_remote_cmd_tree, m_remote_cmds', n, j)
  BY DEF AddListed, FirstFreeRemote
<1>2. /\ m_remote_cmds \in [RemoteSlot -> Names \cup {Unnamed}]
      /\ m_remote_cmd_tree \in Seq(RemoteSlot)
  BY DEF SessionTypeOK
<1>3. /\ todo \in Seq(Names) /\ todo # <<>> /\ at = "adding"
      /\ SortedBy(m_remote_cmd_tree, m_remote_cmds)
      /\ ToSet(m_remote_cmd_tree) \subseteq Listed
      /\ \A i \in Listed : \E k \in ToSet(m_remote_cmd_tree) :
            m_remote_cmds[k] = m_remote_cmds[i]
  BY DEF TreeInv, AddListed
<1>4. n \in Names /\ n # Unnamed /\ todo' \in Seq(Names)
  <2>1. n \in Names /\ todo' \in Seq(Names)
    BY <1>3 DEF AddListed
  <2> QED BY <2>1, SessionConstants DEF Unnamed
<1> HIDE DEF n
<1>5. Listed' = Listed \cup {j} /\ j \notin Listed
  BY <1>1, <1>2, <1>4 DEF Listed
<1>6. \A i \in Listed : i # j /\ m_remote_cmds'[i] = m_remote_cmds[i]
  BY <1>1, <1>2, <1>5 DEF Listed
<1>7. m_remote_cmds'[j] = n /\ m_remote_cmds' \in [RemoteSlot -> Int]
  <2>1. Names \cup {Unnamed} \subseteq Int /\ n \in Int
    BY <1>4, SessionConstants DEF Unnamed
  <2> QED BY <1>1, <1>2, <2>1
<1>8. SortedBy(m_remote_cmd_tree, m_remote_cmds')
  <2>1. \A p \in 1..Len(m_remote_cmd_tree) :
          m_remote_cmds'[m_remote_cmd_tree[p]] = m_remote_cmds[m_remote_cmd_tree[p]]
    BY <1>2, <1>3, <1>6, ToSetOfSeq
  <2> QED BY <1>3, <2>1 DEF SortedBy
<1>9. at' = at /\ overread' = overread
  BY DEF AddListed, shellVars, ghostVars
<1>10. CASE /\ Hits(m_remote_cmd_tree, m_remote_cmds', n) # {}
            /\ m_remote_cmd_tree' = m_remote_cmd_tree
  <2>1. PICK p \in 1..Len(m_remote_cmd_tree) : m_remote_cmds'[m_remote_cmd_tree[p]] = n
    BY <1>10 DEF Hits
  <2>2. m_remote_cmd_tree[p] \in ToSet(m_remote_cmd_tree)
    BY <1>2, ToSetOfSeq
  <2>3. \A i \in Listed' : \E k \in ToSet(m_remote_cmd_tree) :
          m_remote_cmds'[k] = m_remote_cmds'[i]
    <3> TAKE i \in Listed'
    <3>1. CASE i = j
      BY <1>7, <2>1, <2>2, <3>1
    <3>2. CASE i \in Listed
      <4>1. PICK k \in ToSet(m_remote_cmd_tree) : m_remote_cmds[k] = m_remote_cmds[i]
        BY <1>3, <3>2
      <4> QED BY <1>3, <1>6, <3>2, <4>1
    <3> QED BY <1>5, <3>1, <3>2
  <2>4. ToSet(m_remote_cmd_tree) \subseteq Listed'
    BY <1>3, <1>5
  <2> QED BY <1>4, <1>8, <1>9, <1>10, <2>3, <2>4 DEF TreeInv
<1>11. CASE m_remote_cmd_tree' \in Inserts(m_remote_cmd_tree, m_remote_cmds', n, j)
  <2>1. j \notin ToSet(m_remote_cmd_tree)
    BY <1>3, <1>5
  <2>2. ToSet(m_remote_cmd_tree') = ToSet(m_remote_cmd_tree) \cup {j}
    BY <1>2, <1>11, InsertsElements
  <2>3. SortedBy(m_remote_cmd_tree', m_remote_cmds')
    BY <1>2, <1>7, <1>8, <1>11, <2>1, InsertKeepsSorted
  <2>4. \A i \in Listed' : \E k \in ToSet(m_remote_cmd_tree') :
          m_remote_cmds'[k] = m_remote_cmds'[i]
    <3> TAKE i \in Listed'
    <3>1. CASE i = j
      BY <2>2, <3>1
    <3>2. CASE i \in Listed
      <4>1. PICK k \in ToSet(m_remote_cmd_tree) : m_remote_cmds[k] = m_remote_cmds[i]
        BY <1>3, <3>2
      <4> QED BY <1>3, <1>6, <2>2, <3>2, <4>1
    <3> QED BY <1>5, <3>1, <3>2
  <2>5. ToSet(m_remote_cmd_tree') \subseteq Listed'
    BY <1>3, <1>5, <2>2
  <2> QED BY <1>4, <1>9, <2>3, <2>4, <2>5 DEF TreeInv
<1> QED BY <1>1, <1>10, <1>11

\* Dropping a slot by name: the one node with that name goes, be it the
\* slot's own or that of another slot with the same name.
LEMMA DropSlotTree ==
    ASSUME SessionTypeOK, CleanInv, TreeInv, DropSlot
    PROVE  TreeInv'
<1> SUFFICES ASSUME ~overread PROVE TreeInv'
  BY DEF TreeInv, DropSlot, ghostVars
<1>1. /\ m_remote_cmds \in [RemoteSlot -> Names \cup {Unnamed}]
      /\ m_remote_cmd_tree \in Seq(RemoteSlot)
      /\ drop \in 1..MAX_REMOTE_CMDS /\ drop \in RemoteSlot
  BY SessionConstants DEF SessionTypeOK, DropSlot, RemoteSlot
<1>2. m_remote_cmds \in [RemoteSlot -> Int] /\ m_remote_cmds[drop] \in Int
  <2>1. Names \cup {Unnamed} \subseteq Int
    BY SessionConstants DEF Unnamed
  <2> QED BY <1>1, <2>1
<1>3. /\ todo \in Seq(Names)
      /\ SortedBy(m_remote_cmd_tree, m_remote_cmds)
      /\ ToSet(m_remote_cmd_tree) \subseteq Listed
  BY DEF TreeInv
<1>4. /\ SortedBy(m_remote_cmd_tree', m_remote_cmds')
      /\ ToSet(m_remote_cmd_tree') \subseteq Listed'
  <2>1. CASE m_remote_cmds[drop] = Unnamed
    BY <1>3, <2>1 DEF DropSlot, Listed
  <2>2. CASE m_remote_cmds[drop] # Unnamed
    <3>1. /\ m_remote_cmd_tree' \in
               Deletes(m_remote_cmd_tree, m_remote_cmds, m_remote_cmds[drop])
          /\ m_remote_cmds' = [m_remote_cmds EXCEPT ![drop] = Unnamed]
      BY <2>2 DEF DropSlot
    <3>2. /\ m_remote_cmd_tree' \in Seq(RemoteSlot)
          /\ ToSet(m_remote_cmd_tree') \subseteq ToSet(m_remote_cmd_tree)
      BY <1>1, <3>1, DeletesElements
    <3>3. /\ SortedBy(m_remote_cmd_tree', m_remote_cmds)
          /\ \A s \in ToSet(m_remote_cmd_tree') : m_remote_cmds[s] # m_remote_cmds[drop]
      BY <1>1, <1>2, <1>3, <3>1, DeleteFromSorted
    <3>4. \A s \in ToSet(m_remote_cmd_tree') :
            s \in Listed /\ s # drop /\ m_remote_cmds'[s] = m_remote_cmds[s]
      BY <1>1, <1>3, <3>1, <3>2, <3>3 DEF Listed
    <3>5. SortedBy(m_remote_cmd_tree', m_remote_cmds')
      <4>1. \A p \in 1..Len(m_remote_cmd_tree') :
              m_remote_cmds'[m_remote_cmd_tree'[p]] = m_remote_cmds[m_remote_cmd_tree'[p]]
        BY <3>2, <3>4, ToSetOfSeq
      <4> QED BY <3>3, <4>1 DEF SortedBy
    <3>6. ToSet(m_remote_cmd_tree') \subseteq Listed'
      BY <3>4 DEF Listed
    <3> QED BY <3>5, <3>6
  <2> QED BY <2>1, <2>2
<1>5. at' # "dropping" => Listed' = {}
  <2> SUFFICES ASSUME at' # "dropping" PROVE Listed' = {}
    OBVIOUS
  <2>1. at' = "prompt" /\ m_active_fd' = NoFd
    BY DEF DropSlot, CleanInv
  <2> QED BY <2>1, DropSlotClean DEF CleanInv, Listed
<1>6. todo' = todo /\ overread' = overread
  BY DEF DropSlot, ghostVars
<1> QED BY <1>3, <1>4, <1>5, <1>6 DEF TreeInv

LEMMA TreeNext ==
    ASSUME SessionTypeOK, CleanInv, TreeInv, [Next]_vars
    PROVE  TreeInv'
<1> USE DEF shellVars, tableVars, linkVars, daemonVars, ghostVars
<1>1. CASE /\ UNCHANGED <<tableVars, overread>>
           /\ at = "dropping" => at' = "dropping"
  BY <1>1 DEF TreeInv, Listed
<1>2. CASE UNCHANGED vars
  BY <1>1, <1>2 DEF vars
<1>3. CASE ConnectInVain \/ Connect
  BY <1>1, <1>3 DEF ConnectInVain, Connect
<1>4. CASE ReadList
  <2> SUFFICES ASSUME ~overread' PROVE TreeInv'
    BY DEF TreeInv
  <2>1. PICK names \in SeqOf(Names, MaxListed),
             junk \in SeqOf(Names \cup {Unnamed}, MaxJunk) :
          todo' = names \o junk /\ overread' = (overread \/ junk # <<>>)
    BY <1>4 DEF ReadList
  <2>2. names \in Seq(Names) /\ junk = <<>> /\ ~overread
    BY <2>1, SeqOfIsSeq, SessionConstants DEF SessionTypeOK
  <2>3. todo' \in Seq(Names)
    BY <2>1, <2>2
  <2> QED BY <1>4, <2>2, <2>3 DEF ReadList, TreeInv, Listed
<1>5. CASE AddListed
  BY <1>5, AddListedTree
<1>6. CASE ListDone
  BY <1>6 DEF ListDone, TreeInv, Listed
<1>7. ASSUME NEW n \in Names, Exec(n) \/ KilledBySend(n) PROVE TreeInv'
  BY <1>1, <1>7 DEF Exec, KilledBySend
<1>8. CASE ReadAnswer \/ Broken \/ CtrlC
  BY <1>1, <1>8 DEF ReadAnswer, Broken, CtrlC
<1>9. CASE Disconnect
  BY <1>9 DEF Disconnect, TreeInv, Listed
<1>10. CASE DropSlot
  BY <1>10, DropSlotTree
<1>11. CASE Exit
  BY <1>1, <1>11 DEF Exit
<1>12. CASE Crash
  BY <1>12 DEF Crash, TreeInv
<1>13. CASE DaemonLists \/ DaemonStartsJob \/ DaemonAnswers \/ DaemonExpiresJob \/ DaemonCloses
  BY <1>1, <1>13 DEF DaemonLists, DaemonStartsJob, DaemonAnswers, DaemonExpiresJob, DaemonCloses
<1> QED BY <1>2, <1>3, <1>4, <1>5, <1>6, <1>7, <1>8, <1>9, <1>10, <1>11, <1>12, <1>13
        DEF Next, Shell

-----------------------------------------------------------------------------
(***************************************************************************)
(* The stream of packets                                                   *)
(***************************************************************************)
LEMMA StreamNext ==
    ASSUME SessionTypeOK, CleanInv, StreamInv, [Next]_vars
    PROVE  StreamInv'
<1> USE DEF shellVars, tableVars, linkVars, daemonVars, ghostVars
<1>1. CASE /\ UNCHANGED <<m_remote_cmds, waiting, timer, c2s, s2c>>
           /\ at' = at \/ (at' \in {"prompt", "done"} /\ at # "dropping")
  BY <1>1 DEF StreamInv, Fresh, Working
<1>2. CASE UNCHANGED vars
  BY <1>1, <1>2 DEF vars
<1>3. CASE ConnectInVain \/ ListDone \/ Broken \/ CtrlC
  BY <1>1, <1>3 DEF ConnectInVain, ListDone, Broken, CtrlC
<1>4. CASE Connect
  <2>1. [kind |-> "list", id |-> asked + 1] \in ListRequest
    BY <1>4, SessionConstants DEF Connect, SessionTypeOK, ListRequest
  <2>2. Fresh'
    BY <1>4, <2>1 DEF Connect, CleanInv, Fresh
  <2> QED BY <2>2 DEF StreamInv
<1>5. CASE ReadList
  <2>1. PICK r \in ListReply : s2c = <<r>> /\ c2s = <<>>
    BY <1>5 DEF ReadList, StreamInv, Fresh, Working
  <2>2. s2c' = <<>>
    BY <1>5, <2>1 DEF ReadList, AfterPacket, ListReply
  <2>3. at' = "adding" /\ c2s' = <<>>
    BY <1>5, <2>1 DEF ReadList
  <2>4. Working'
    BY <2>2, <2>3 DEF Working
  <2> QED BY <2>4 DEF StreamInv
<1>6. CASE AddListed
  BY <1>6 DEF AddListed, StreamInv, Fresh, Working
<1>7. ASSUME NEW n \in Names, Exec(n) PROVE StreamInv'
  <2>1. Working
    BY <1>7, FoundIsListed DEF StreamInv, Fresh, Exec
  <2>2. [kind |-> "exe", id |-> asked + 1] \in ExeRequest
    BY <1>7, SessionConstants DEF Exec, SessionTypeOK, ExeRequest
  <2>3. c2s' \in Seq(ExeRequest)
    <3>1. c2s \in Seq(ExeRequest)
      BY <2>1 DEF Working
    <3>2. c2s' = c2s \/ c2s' = Append(c2s, [kind |-> "exe", id |-> asked + 1])
      BY <1>7 DEF Exec
    <3> QED BY <2>2, <3>1, <3>2
  <2>4. Working'
    BY <1>7, <2>1, <2>3 DEF Exec, Working
  <2> QED BY <2>4 DEF StreamInv
<1>8. ASSUME NEW n \in Names, KilledBySend(n) PROVE StreamInv'
  BY <1>1, <1>8 DEF KilledBySend
<1>9. CASE ReadAnswer
  <2>1. Working
    BY <1>9 DEF StreamInv, Fresh, ReadAnswer
  <2>2. s2c \in Seq(ExeReply) /\ s2c # <<>>
    BY <1>9, <2>1 DEF Working, ReadAnswer
  <2>3. Head(s2c) \in ExeReply /\ Tail(s2c) \in Seq(ExeReply)
    BY <2>2
  <2>4. s2c' = Tail(s2c)
    BY <1>9, <2>3 DEF ReadAnswer, AfterPacket, ExeReply
  <2>5. Working'
    BY <1>9, <2>1, <2>3, <2>4 DEF ReadAnswer, Working
  <2> QED BY <2>5 DEF StreamInv
<1>10. CASE Disconnect
  <2>1. Working'
    BY <1>10 DEF Disconnect, Working
  <2> QED BY <2>1 DEF StreamInv
<1>11. CASE DropSlot
  <2>1. Working
    BY <1>11 DEF StreamInv, Fresh, DropSlot
  <2>2. at' # "list"
    BY <1>11 DEF DropSlot
  <2>3. c2s' = c2s /\ s2c' = s2c
    BY <1>11 DEF DropSlot
  <2> QED BY <2>1, <2>2, <2>3 DEF StreamInv, Working
<1>12. CASE Exit
  BY <1>1, <1>12 DEF Exit
<1>13. CASE Crash
  BY <1>13 DEF Crash, StreamInv, Fresh, Working
<1>14. CASE DaemonLists
  <2>1. Fresh
    <3>1. CASE Working
      <4>1. c2s \in Seq(ExeRequest) /\ c2s # <<>>
        BY <1>14, <3>1 DEF Working, DaemonLists
      <4>2. Head(c2s) \in ExeRequest
        BY <4>1
      <4> QED BY <1>14, <4>2 DEF DaemonLists, ExeRequest
    <3> QED BY <3>1 DEF StreamInv
  <2>2. PICK r \in ListRequest : c2s = <<r>> /\ s2c = <<>>
    BY <1>14, <2>1 DEF Fresh, DaemonLists
  <2>3. [kind |-> "list", of |-> r.id] \in ListReply
    BY <2>2, SessionConstants DEF ListRequest, ListReply
  <2>4. c2s' = <<>> /\ s2c' = <<[kind |-> "list", of |-> r.id]>>
    BY <1>14, <2>2 DEF DaemonLists, Replies
  <2> QED BY <1>14, <2>1, <2>3, <2>4 DEF StreamInv, Fresh, DaemonLists
<1>15. CASE DaemonStartsJob
  <2>1. Working
    <3>1. ASSUME NEW r \in ListRequest, c2s = <<r>> PROVE FALSE
      BY <1>15, <3>1 DEF DaemonStartsJob, ListRequest
    <3> QED BY <1>15, <3>1 DEF StreamInv, Fresh, DaemonStartsJob
  <2>2. c2s' \in Seq(ExeRequest)
    BY <1>15, <2>1 DEF DaemonStartsJob, Working
  <2> QED BY <1>15, <2>1, <2>2 DEF StreamInv, Working, DaemonStartsJob
<1>16. CASE DaemonAnswers \/ DaemonExpiresJob
  <2>1. Working
    BY <1>16 DEF StreamInv, Fresh, DaemonAnswers, DaemonExpiresJob
  <2>2. [kind |-> "exe", of |-> job] \in ExeReply
    BY DEF SessionTypeOK, ExeReply
  <2>3. s2c' = Append(s2c, [kind |-> "exe", of |-> job]) /\ c2s' = c2s /\ at' = at
    BY <1>16 DEF DaemonAnswers, DaemonExpiresJob, Replies
  <2>4. s2c' \in Seq(ExeReply)
    BY <2>1, <2>2, <2>3 DEF Working
  <2> QED BY <2>1, <2>3, <2>4 DEF StreamInv, Working
<1>17. CASE DaemonCloses
  <2>1. CASE Fresh
    BY <1>17, <2>1 DEF DaemonCloses, StreamInv, Fresh
  <2>2. CASE Working
    BY <1>17, <2>2 DEF DaemonCloses, StreamInv, Working
  <2> QED BY <2>1, <2>2 DEF StreamInv
<1> QED BY <1>2, <1>3, <1>4, <1>5, <1>6, <1>7, <1>8, <1>9, <1>10, <1>11, <1>12, <1>13,
           <1>14, <1>15, <1>16, <1>17 DEF Next, Shell

-----------------------------------------------------------------------------
(***************************************************************************)
(* Which request a reply belongs to                                        *)
(***************************************************************************)
\* The packet at the head is of the kind the shell waits for.
LEMMA HeadKind ==
    ASSUME SessionTypeOK, StreamInv, s2c # <<>>
    PROVE  /\ Head(s2c).kind \in {"list", "exe"}
           /\ at = "list" => Head(s2c).kind = "list"
           /\ at = "exe" => Head(s2c).kind = "exe"
<1>1. CASE Fresh
  <2>1. PICK r \in ListReply : s2c = <<r>>
    BY <1>1 DEF Fresh
  <2> QED BY <1>1, <2>1 DEF Fresh, ListReply
<1>2. CASE Working
  <2>1. Head(s2c) \in ExeReply
    BY <1>2 DEF Working
  <2> QED BY <1>2, <2>1 DEF Working, ExeReply
<1> QED BY <1>1, <1>2 DEF StreamInv

LEMMA StepNext ==
    ASSUME SessionTypeOK, CleanInv, StreamInv, StepInv, [Next]_vars
    PROVE  StepInv'
<1> USE DEF shellVars, tableVars, linkVars, daemonVars, ghostVars
<1> SUFFICES ASSUME (gaveUp = {} /\ ~twice)'
             PROVE  /\ at' \in {"prompt", "adding", "dropping"} => Quiet'
                    /\ at' \in {"list", "exe"} => Open'
  BY DEF StepInv
<1>1. CASE UNCHANGED vars
  BY <1>1 DEF StepInv, Quiet, Open, vars
<1>2. CASE ConnectInVain
  BY <1>2 DEF ConnectInVain, StepInv, Quiet
<1>3. CASE Connect
  <2>1. [kind |-> "list", id |-> asked + 1] \in Request
    BY <1>3, SessionConstants DEF Connect, SessionTypeOK, Request
  <2> QED BY <1>3, <2>1 DEF Connect, CleanInv, Open
<1>4. CASE ReadList \/ ReadAnswer
  <2>1. s2c # <<>> /\ at \in {"list", "exe"} /\ at' \in {"adding", "prompt"}
    BY <1>4 DEF ReadList, ReadAnswer
  <2>2. PICK r \in Reply : s2c = <<r>> /\ c2s = <<>> /\ ~waiting
    BY <1>4, <2>1 DEF ReadList, ReadAnswer, StepInv, Open, Quiet
  <2>3. s2c' = Tail(s2c)
    BY <1>4, <2>1, HeadKind DEF ReadList, ReadAnswer, AfterPacket
  <2>4. s2c' = <<>>
    BY <2>2, <2>3
  <2> QED BY <1>4, <2>1, <2>2, <2>4 DEF ReadList, ReadAnswer, Quiet
<1>5. CASE AddListed \/ ListDone
  BY <1>5 DEF AddListed, ListDone, StepInv, Quiet
<1>6. ASSUME NEW n \in Names, Exec(n)
      PROVE  /\ at' \in {"prompt", "adding", "dropping"} => Quiet'
             /\ at' \in {"list", "exe"} => Open'
  <2>1. Quiet
    BY <1>6 DEF Exec, StepInv
  <2>2. [kind |-> "exe", id |-> asked + 1] \in Request
    BY <1>6, SessionConstants DEF Exec, SessionTypeOK, Request
  <2>3. CASE link = "up"
    BY <1>6, <2>1, <2>2, <2>3 DEF Exec, Quiet, Open
  <2>4. CASE link # "up"
    BY <1>6, <2>1, <2>4 DEF Exec, Quiet, Open
  <2> QED BY <2>3, <2>4
<1>7. ASSUME NEW n \in Names, KilledBySend(n)
      PROVE  /\ at' \in {"prompt", "adding", "dropping"} => Quiet'
             /\ at' \in {"list", "exe"} => Open'
  BY <1>7 DEF KilledBySend
<1>8. CASE Broken
  BY <1>8 DEF Broken, StepInv, Open, Quiet
<1>9. CASE CtrlC
  BY <1>9 DEF CtrlC
<1>10. CASE Disconnect
  BY <1>10 DEF Disconnect, Quiet
<1>11. CASE DropSlot
  BY <1>11 DEF DropSlot, StepInv, Quiet
<1>12. CASE Exit \/ Crash
  BY <1>12 DEF Exit, Crash
<1>13. CASE DaemonLists
  <2>1. at \in {"list", "exe", "done"}
    BY <1>13 DEF DaemonLists, StepInv, Quiet, SessionTypeOK, Place
  <2>2. CASE at \in {"list", "exe"}
    <3>1. PICK r \in Request : c2s = <<r>> /\ r.id = asked /\ s2c = <<>> /\ ~waiting
      BY <1>13, <2>2 DEF DaemonLists, StepInv, Open, Quiet
    <3>2. [kind |-> "list", of |-> asked] \in Reply
      BY DEF SessionTypeOK, Reply
    <3>3. s2c' = <<[kind |-> "list", of |-> asked]>> /\ c2s' = <<>>
      BY <1>13, <3>1 DEF DaemonLists, Replies
    <3> QED BY <1>13, <2>2, <3>1, <3>2, <3>3 DEF DaemonLists, Open
  <2> QED BY <1>13, <2>1, <2>2 DEF DaemonLists
<1>14. CASE DaemonStartsJob
  <2>1. at \in {"list", "exe", "done"}
    BY <1>14 DEF DaemonStartsJob, StepInv, Quiet, SessionTypeOK, Place
  <2>2. CASE at \in {"list", "exe"}
    <3>1. PICK r \in Request : c2s = <<r>> /\ r.id = asked /\ s2c = <<>> /\ ~waiting
      BY <1>14, <2>2 DEF DaemonStartsJob, StepInv, Open, Quiet
    <3>2. job' = asked /\ c2s' = <<>>
      BY <1>14, <3>1 DEF DaemonStartsJob
    <3> QED BY <1>14, <2>2, <3>1, <3>2 DEF DaemonStartsJob, Open
  <2> QED BY <1>14, <2>1, <2>2 DEF DaemonStartsJob
<1>15. CASE DaemonAnswers \/ DaemonExpiresJob
  <2>1. waiting /\ ~waiting' /\ gaveUp = {} /\ ~twice
    <3>1. CASE DaemonAnswers
      BY <3>1 DEF DaemonAnswers
    <3>2. CASE DaemonExpiresJob
      <4>1. waiting' = FALSE /\ gaveUp' = gaveUp /\ twice' = (twice \/ ~waiting)
        BY <3>2 DEF DaemonExpiresJob
      <4>2. ~(twice \/ ~waiting)
        BY <4>1
      <4> QED BY <4>1, <4>2
    <3> QED BY <1>15, <3>1, <3>2
  <2>2. at \in {"list", "exe", "done"} /\ at' = at
    BY <1>15, <2>1 DEF DaemonAnswers, DaemonExpiresJob, StepInv, Quiet, SessionTypeOK, Place
  <2>3. CASE at \in {"list", "exe"}
    <3>1. s2c = <<>> /\ c2s = <<>> /\ job = asked
      BY <2>1, <2>3 DEF StepInv, Open, Quiet
    <3>2. [kind |-> "exe", of |-> job] \in Reply
      BY DEF SessionTypeOK, Reply
    <3>3. s2c' = <<[kind |-> "exe", of |-> job]>> /\ c2s' = <<>> /\ asked' = asked
      BY <1>15, <3>1 DEF DaemonAnswers, DaemonExpiresJob, Replies
    <3> QED BY <2>1, <2>2, <2>3, <3>1, <3>2, <3>3 DEF Open
  <2> QED BY <2>2, <2>3
<1>16. CASE DaemonCloses
  BY <1>16 DEF DaemonCloses, StepInv, Open, Quiet
<1> QED BY <1>1, <1>2, <1>3, <1>4, <1>5, <1>6, <1>7, <1>8, <1>9, <1>10, <1>11, <1>12,
           <1>13, <1>14, <1>15, <1>16 DEF Next, Shell

LEMMA SessionNext == SessionInv /\ [Next]_vars => SessionInv'
  BY SessionTypeNext, CleanNext, TreeNext, StreamNext, StepNext DEF SessionInv

LEMMA SessionInductive == Spec => []SessionInv
  BY SessionInit, SessionNext, PTL DEF Spec

-----------------------------------------------------------------------------
\* Every command that help shows is found when typed (shell.c:196-238),
\* whatever lists the daemon sends, as long as no list announces more
\* commands than it carries.
THEOREM ListedCommandsAreFound == Spec => []ListedIsFound
<1>1. SessionInv => ListedIsFound
  <2> SUFFICES ASSUME SessionInv, at = "prompt", ~overread, NEW i \in Listed
               PROVE  /\ Found(m_remote_cmd_tree, m_remote_cmds, m_remote_cmds[i]) # {}
                      /\ ~CanMiss(m_remote_cmd_tree, m_remote_cmds, m_remote_cmds[i])
    BY DEF ListedIsFound
  <2>1. /\ m_remote_cmd_tree \in Seq(RemoteSlot)
        /\ m_remote_cmds \in [RemoteSlot -> Int] /\ m_remote_cmds[i] \in Int
    <3>1. Names \cup {Unnamed} \subseteq Int
      BY SessionConstants DEF Unnamed
    <3> QED BY <3>1 DEF SessionInv, SessionTypeOK, Listed
  <2>2. /\ SortedBy(m_remote_cmd_tree, m_remote_cmds)
        /\ \E j \in ToSet(m_remote_cmd_tree) : m_remote_cmds[j] = m_remote_cmds[i]
    BY DEF SessionInv, TreeInv
  <2>3. PICK p \in 1..Len(m_remote_cmd_tree) :
          m_remote_cmds[m_remote_cmd_tree[p]] = m_remote_cmds[i]
    BY <2>1, <2>2, ToSetOfSeq
  <2>4. p \in Hits(m_remote_cmd_tree, m_remote_cmds, m_remote_cmds[i])
    BY <2>3 DEF Hits
  <2>5. Found(m_remote_cmd_tree, m_remote_cmds, m_remote_cmds[i]) # {}
    BY <2>4 DEF Found
  <2> QED BY <2>1, <2>2, <2>4, <2>5, SortedSearchIsExact
<1> QED BY <1>1, SessionInductive, PTL

\* The local prompt is only shown with no socket open and no remote command
\* left, in the table or in the tree (shell.c:1049-1076).
THEOREM LocalPromptsAreClean == Spec => []LocalPromptIsClean
<1>1. SessionInv => LocalPromptIsClean
  <2> SUFFICES ASSUME SessionInv, at = "prompt", ~m_is_connected
               PROVE  /\ m_active_fd = NoFd /\ Listed = {}
                      /\ ~overread => m_remote_cmd_tree = <<>>
    BY DEF LocalPromptIsClean
  <2>1. m_active_fd = NoFd /\ Listed = {}
    BY DEF SessionInv, CleanInv, Listed
  <2>2. ASSUME ~overread PROVE m_remote_cmd_tree = <<>>
    <3>1. m_remote_cmd_tree \in Seq(RemoteSlot) /\ ToSet(m_remote_cmd_tree) = {}
      BY <2>1, <2>2 DEF SessionInv, SessionTypeOK, TreeInv
    <3>2. ~(1 \in 1..Len(m_remote_cmd_tree))
      BY <3>1, ToSetOfSeq
    <3> QED BY <3>1, <3>2
  <2> QED BY <2>1, <2>2
<1> QED BY <1>1, SessionInductive, PTL

\* The branches that drop a packet of another kind by its header only are
\* never taken (shell.c:1564, 1748).
THEOREM PacketsAreNeverStray == Spec => []NoStrayPacket
<1>1. SessionInv => NoStrayPacket
  BY HeadKind DEF SessionInv, NoStrayPacket
<1> QED BY <1>1, SessionInductive, PTL

\* Without Ctrl-C and without a second reply to one job, every reply is read
\* as the answer to its own request.
THEOREM RepliesStayInStep == Spec => []RepliesInStep
<1>1. SessionInv => RepliesInStep
  <2> SUFFICES ASSUME SessionInv, at \in {"list", "exe"}, s2c # <<>>, gaveUp = {}, ~twice
               PROVE  Head(s2c).of = asked
    BY DEF RepliesInStep
  <2>1. PICK r \in Reply : s2c = <<r>> /\ r.of = asked
    BY DEF SessionInv, StepInv, Open, Quiet
  <2> QED BY <2>1
<1> QED BY <1>1, SessionInductive, PTL
=============================================================================
