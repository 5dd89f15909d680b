-------------------------- MODULE CmdRegister_proofs --------------------------
(***************************************************************************)
(* Command registration, for every number of threads, names, slots, calls, *)
(* restarts and messages under way.                                        *)
(***************************************************************************)
EXTENDS CmdRegister, ClidCommands_proofs

LEMMA RegConstants ==
    /\ NoThread \notin Thread /\ NoMsg \notin AppMsg /\ NoMbox \notin Mbox
    /\ MaxRestarts \in Nat /\ (0..MaxRestarts) \X Thread \subseteq Mbox
    /\ \A n \in AppNames : Wire(n) \in Names
    /\ \A n, k \in AppNames : Wire(n) = Wire(k) => n = k
    /\ Unnamed \notin Names
  BY ThreadAssumption, MsgAssumption, MboxAssumption, WireAssumption, NamesAssumption DEF Unnamed

\* What a message says besides its type.
GoodMsg(msg) ==
    \/ msg.kind = "reg" /\ msg.mbox \in Mbox /\ msg.name = Wire(msg.app)
    \/ msg.kind = "dereg" /\ msg.mbox = NoMbox

GoodMsgs ==
    /\ \A t \in Thread : sending[t] # NoMsg => GoodMsg(sending[t])
    /\ \A k \in 1..Len(mail) : /\ GoodMsg(mail[k])
                               /\ Misled(mail[k]) \subseteq unheard

\* The types, and what ClidCommands_proofs knows of the registry.
TypeInv == RegTypeOK /\ CmdInv /\ GoodMsgs

\* Names to which none of the four things has happened.
Clean == AppNames \ (raced \cup unheard \cup orphaned)

\* What the daemon will have for n when its mailbox is empty.
MailedView(n) ==
    IF MailAbout(n) # {} THEN {mail[k].mbox : k \in LastAbout(n)} \ {NoMbox}
    ELSE Registrants(n)

\* A registration is only sent, or received, where nothing is registered.
Alternates(n) ==
    /\ \A t \in SendingAbout(n) : sending[t].kind = "reg" => MailedView(n) = {}
    /\ \A k \in MailAbout(n) : mail[k].kind = "reg" =>
         /\ (\A j \in MailAbout(n) : j >= k) => Registrants(n) = {}
         /\ \A j \in MailAbout(n) :
              j < k /\ (\A l \in MailAbout(n) : l <= j \/ l >= k) => mail[j].kind = "dereg"

OneSender(n) == \A t, u \in SendingAbout(n) : t = u
OneEntry(n)  == \A i, k \in CmdSlot : cmds[i].name = Wire(n) /\ cmds[k].name = Wire(n) => i = k

FollowInv ==
    \A n \in Clean : OneSender(n) /\ OneEntry(n) /\ Alternates(n) /\ View(n) = Wanted(n)

\* w has a handler, or has lost it to a deregistration or a restart.
Covered(w) ==
    w \in AppNames \ {Unnamed} =>
        /\ Wire(w) = w
        /\ m_registeredInvokers[w] # NoThread \/ w \in withdrawn \cup orphaned

\* The names on the way from a registration to the lookup of a handler.
EntryNames   == {cmds[i].name : i \in CmdSlot}
MailNames    == {mail[k].name : k \in {j \in 1..Len(mail) : mail[j].kind = "reg"}}
SendingNames == {sending[t].name : t \in {u \in Thread : sending[u] # NoMsg /\ sending[u].kind = "reg"}}
JobNames     == {w \in Names : \E m \in Mbox : w \in jobs[m]} \cup {lookup}

HandlerInv ==
    \A w \in EntryNames \cup MailNames \cup SendingNames \cup JobNames : Covered(w)
-----------------------------------------------------------------------------
\* A deregistration that is read without a name can only find free slots.
LEMMA DeregUnnamedInv ==
    ASSUME CmdInv, handle_receive_dereg_cmd_request(Unnamed)
    PROVE  CmdInv'
<1>1. CASE UNCHANGED cmdVars
  BY <1>1, CmdStutterInv
<1>2. ASSUME NEW i \in Found(cmd_tree, CmdName(cmds), Unnamed),
             cmds' = [cmds EXCEPT ![i] = FreeCmd],
             cmd_tree' \in Deletes(cmd_tree, CmdName(cmds'), Unnamed),
             cmd_count' = cmd_count
      PROVE  CmdInv'
  <2>1. /\ cmds \in [CmdSlot -> Command]
        /\ cmd_tree \in Seq(CmdSlot)
        /\ cmd_count \in 0..(CountMod - 1)
    BY DEF CmdInv, CmdTypeOK
  <2>2. i \in CmdSlot /\ i \in ToSet(cmd_tree) /\ CmdName(cmds)[i] = Unnamed
    BY <2>1, FoundElements
  <2>3. cmds[i].name = Unnamed
    BY <2>2 DEF CmdName
  <2>4. cmds' \in [CmdSlot -> Command]
    BY <1>2, <2>1, <2>2 DEF Command, FreeCmd
  <2>5. Entries' = Entries /\ i \notin Entries
    BY <1>2, <2>1, <2>2, <2>3 DEF Entries, FreeCmd
  <2>6. /\ cmd_tree' \in Seq(CmdSlot)
        /\ \A j \in ToSet(cmd_tree) : CmdName(cmds')[j] # Unnamed => j \in ToSet(cmd_tree')
    BY <1>2, <2>1, DeletesElements
  <2>7. CmdTypeOK'
    BY <1>2, <2>1, <2>4, <2>6 DEF CmdTypeOK
  <2>8. RegisteredInTree'
    <3> SUFFICES ASSUME NEW j \in Entries' PROVE j \in ToSet(cmd_tree')
      BY DEF RegisteredInTree
    <3>1. j \in ToSet(cmd_tree)
      BY <2>5 DEF CmdInv, RegisteredInTree
    <3>2. CmdName(cmds')[j] # Unnamed
      BY DEF Entries, CmdName
    <3> QED BY <2>6, <3>1, <3>2
  <2>9. CountCoversEntries'
    BY <1>2, <2>5 DEF CmdInv, CountCoversEntries
  <2>10. cmd_count # Cardinality(Entries)
    BY <2>2, <2>5 DEF CmdInv, ExactUntilFirstDereg
  <2>11. ExactUntilFirstDereg'
    BY <1>2, <2>5, <2>10 DEF ExactUntilFirstDereg
  <2> QED BY <2>7, <2>8, <2>9, <2>11 DEF CmdInv
<1> QED BY <1>1, <1>2 DEF handle_receive_dereg_cmd_request

\* What the messages under way may be.
LEMMA AppMsgFields ==
    ASSUME NEW msg \in AppMsg
    PROVE  /\ msg.kind \in {"reg", "dereg"} /\ msg.app \in AppNames
           /\ msg.name \in Names \cup {Unnamed} /\ msg.mbox \in Mbox \cup {NoMbox}
  BY DEF AppMsg

LEMMA RegisterMsgGood ==
    ASSUME RegTypeOK, NEW t \in Thread, NEW n \in AppNames
    PROVE  /\ itc_current_mbox(t) \in Mbox
           /\ RegisterMsg(n, t) \in AppMsg /\ GoodMsg(RegisterMsg(n, t))
           /\ RegisterMsg(n, t).kind = "reg" /\ RegisterMsg(n, t).app = n
           /\ RegisterMsg(n, t).name = Wire(n) /\ RegisterMsg(n, t).mbox = itc_current_mbox(t)
<1>1. restarts \in 0..MaxRestarts
  BY DEF RegTypeOK
<1>2. itc_current_mbox(t) \in Mbox
  BY <1>1, RegConstants DEF itc_current_mbox
<1>3. Wire(n) \in Names
  BY RegConstants
<1> QED BY <1>2, <1>3 DEF RegisterMsg, AppMsg, GoodMsg

LEMMA DeregisterMsgGood ==
    ASSUME NEW n \in AppNames, NEW w \in Names \cup {Unnamed}
    PROVE  /\ DeregisterMsg(n, w) \in AppMsg /\ GoodMsg(DeregisterMsg(n, w))
           /\ DeregisterMsg(n, w).kind = "dereg" /\ DeregisterMsg(n, w).app = n
           /\ DeregisterMsg(n, w).mbox = NoMbox
  BY DEF DeregisterMsg, AppMsg, GoodMsg
-----------------------------------------------------------------------------
(***************************************************************************)
(* Types                                                                   *)
(***************************************************************************)
LEMMA RegInitType == RegInit => TypeInv
<1> SUFFICES ASSUME RegInit PROVE TypeInv
  OBVIOUS
<1>1. CmdInv
  BY CmdInitInv DEF RegInit
<1>2. RegTypeOK
  <2>1. /\ CmdTypeOK
        /\ m_registeredInvokers \in [AppNames -> Thread \cup {NoThread}]
        /\ sending \in [Thread -> AppMsg \cup {NoMsg}]
    BY <1>1 DEF CmdInv, RegInit
  <2>2. mail \in Seq(AppMsg) /\ jobs \in [Mbox -> SUBSET Names] /\ restarts \in 0..MaxRestarts
    BY RegConstants DEF RegInit
  <2> QED BY <2>1, <2>2 DEF RegInit, RegTypeOK
<1>3. GoodMsgs
  BY DEF RegInit, GoodMsgs
<1> QED BY <1>1, <1>2, <1>3 DEF TypeInv

\* A call up to the unlock.
LEMMA ChangeMapType ==
    ASSUME TypeInv, NEW t \in Thread, NEW n \in AppNames,
           NEW owner \in Thread \cup {NoThread}, NEW msg \in AppMsg, GoodMsg(msg),
           ChangeMap(t, n, owner), sending' = [sending EXCEPT ![t] = msg],
           withdrawn' \in {withdrawn, withdrawn \cup {n}}
    PROVE  TypeInv'
<1>1. CmdInv'
  BY CmdStutterInv DEF TypeInv, ChangeMap
<1>2. /\ m_registeredInvokers' \in [AppNames -> Thread \cup {NoThread}]
      /\ sending' \in [Thread -> AppMsg \cup {NoMsg}]
      /\ raced' \subseteq AppNames /\ withdrawn' \subseteq AppNames
      /\ disturbed' \in BOOLEAN
  BY DEF TypeInv, RegTypeOK, ChangeMap
<1>3. GoodMsgs'
  <2>1. \A u \in Thread : sending'[u] = IF u = t THEN msg ELSE sending[u]
    BY DEF TypeInv, RegTypeOK
  <2> QED BY <2>1 DEF TypeInv, GoodMsgs, GoodMsg, ChangeMap
<1>4. RegTypeOK'
  BY <1>1, <1>2 DEF TypeInv, RegTypeOK, CmdInv, ChangeMap
<1> QED BY <1>1, <1>3, <1>4 DEF TypeInv

\* The rest of a call: the message of thread t is sent, or it is not.
Sent(t) ==
    /\ sending[t] # NoMsg
    /\ sending' = [sending EXCEPT ![t] = NoMsg]
    /\ mail' = Append(mail, sending[t])
    /\ unheard' = unheard \cup Misled(sending[t])

Unsent(t) ==
    /\ sending[t] # NoMsg
    /\ sending' = [sending EXCEPT ![t] = NoMsg]
    /\ mail' = mail
    /\ unheard' = unheard \cup {sending[t].app}

SendFrame == UNCHANGED <<cmdVars, m_registeredInvokers, m_clidMboxId, listener, jobVars,
                         raced, orphaned, withdrawn, boundVars>>

LEMMA SendSplits ==
    ASSUME NEW t \in Thread
    PROVE  /\ SendMessage(t) => Sent(t) /\ SendFrame
           /\ SendFails(t) => Unsent(t) /\ SendFrame
  BY DEF SendMessage, SendFails, Sent, Unsent, SendFrame, cmdVars, jobVars, boundVars

LEMMA SentType ==
    ASSUME TypeInv, NEW t \in Thread, Sent(t) \/ Unsent(t), SendFrame
    PROVE  TypeInv'
<1>1. CmdInv'
  BY CmdStutterInv DEF TypeInv, SendFrame
<1>2. sending[t] \in AppMsg /\ GoodMsg(sending[t])
  BY DEF TypeInv, RegTypeOK, GoodMsgs, Sent, Unsent
<1>3. /\ sending' \in [Thread -> AppMsg \cup {NoMsg}]
      /\ mail \in Seq(AppMsg) /\ mail' \in Seq(AppMsg) /\ unheard' \subseteq AppNames
      /\ unheard \subseteq unheard'
      /\ \A u \in Thread : sending'[u] = IF u = t THEN NoMsg ELSE sending[u]
  <2>1. sending \in [Thread -> AppMsg \cup {NoMsg}] /\ mail \in Seq(AppMsg) /\ unheard \subseteq AppNames
    BY DEF TypeInv, RegTypeOK
  <2>2. sending' = [sending EXCEPT ![t] = NoMsg] /\ mail' \in {mail, Append(mail, sending[t])}
    BY DEF Sent, Unsent
  <2>3. unheard' \subseteq AppNames /\ unheard \subseteq unheard'
    BY <1>2, <2>1, AppMsgFields DEF Sent, Unsent, Misled
  <2> QED BY <1>2, <2>1, <2>2, <2>3
<1>4. GoodMsgs'
  <2>1. \A u \in Thread : sending'[u] # NoMsg => GoodMsg(sending'[u])
    BY <1>3 DEF TypeInv, GoodMsgs
  <2>2. ASSUME NEW k \in 1..Len(mail')
        PROVE  GoodMsg(mail'[k]) /\ Misled(mail'[k]) \subseteq unheard'
    <3>1. CASE k \in 1..Len(mail) /\ mail'[k] = mail[k]
      BY <1>3, <3>1 DEF TypeInv, GoodMsgs
    <3>2. CASE Sent(t) /\ mail'[k] = sending[t]
      BY <1>2, <3>2 DEF Sent
    <3> QED BY <1>2, <1>3, <3>1, <3>2 DEF Sent, Unsent
  <2> QED BY <2>1, <2>2 DEF GoodMsgs, GoodMsg, Misled, Wire
<1>5. RegTypeOK'
  BY <1>1, <1>3 DEF TypeInv, RegTypeOK, CmdInv, SendFrame, jobVars, boundVars
<1> QED BY <1>1, <1>4, <1>5 DEF TypeInv

\* The daemon takes the first message.
LEMMA TailOfMail ==
    ASSUME TypeInv, mail # <<>>, mail' = Tail(mail)
    PROVE  /\ mail \in Seq(AppMsg) /\ mail' \in Seq(AppMsg)
           /\ Head(mail) \in AppMsg /\ Head(mail) = mail[1] /\ 1 \in 1..Len(mail)
           /\ GoodMsg(Head(mail))
           /\ Misled(Head(mail)) \subseteq unheard
           /\ Len(mail') = Len(mail) - 1 /\ Len(mail) \in Nat
           /\ \A k \in 1..Len(mail') : k + 1 \in 1..Len(mail) /\ mail'[k] = mail[k + 1]
           /\ \A k \in 1..Len(mail) : k # 1 => k - 1 \in 1..Len(mail') /\ mail'[k - 1] = mail[k]
<1>1. mail \in Seq(AppMsg)
  BY DEF TypeInv, RegTypeOK
<1>2. /\ mail' \in Seq(AppMsg) /\ Head(mail) \in AppMsg /\ Head(mail) = mail[1]
      /\ 1 \in 1..Len(mail) /\ Len(mail') = Len(mail) - 1 /\ Len(mail) \in Nat
      /\ \A k \in 1..Len(mail') : mail'[k] = mail[k + 1]
  BY <1>1
<1> QED BY <1>1, <1>2 DEF TypeInv, GoodMsgs

LEMMA ReceivesType == ASSUME TypeInv, ClidReceives PROVE TypeInv'
<1> DEFINE msg == Head(mail)
<1>1. mail # <<>> /\ mail' = Tail(mail)
  BY DEF ClidReceives
<1>2. /\ mail' \in Seq(AppMsg) /\ msg \in AppMsg /\ GoodMsg(msg)
      /\ msg.app \in AppNames /\ msg.name \in Names \cup {Unnamed}
      /\ unheard \subseteq unheard' /\ unheard' \subseteq AppNames
  BY <1>1, TailOfMail, AppMsgFields DEF ClidReceives, TypeInv, RegTypeOK
<1>3. CmdInv'
  <2>1. ASSUME msg.kind = "reg", cmd_count < MaxRegs,
               handle_receive_reg_cmd_request(msg.name, msg.mbox)
        PROVE  CmdInv'
    <3>1. msg.name \in Names /\ msg.mbox \in Mbox
      BY <1>2, <2>1, RegConstants DEF GoodMsg
    <3> QED BY <2>1, <3>1, CmdNextInv DEF TypeInv, CmdNext
  <2>2. ASSUME handle_receive_dereg_cmd_request(msg.name)
        PROVE  CmdInv'
    <3>1. CASE msg.name \in Names
      BY <2>2, <3>1, CmdNextInv DEF TypeInv, CmdNext
    <3>2. CASE msg.name = Unnamed
      BY <2>2, <3>2, DeregUnnamedInv DEF TypeInv
    <3> QED BY <1>2, <3>1, <3>2
  <2> QED BY <2>1, <2>2 DEF ClidReceives
<1>4. GoodMsgs'
  <2>1. \A k \in 1..Len(mail') : GoodMsg(mail'[k]) /\ Misled(mail'[k]) \subseteq unheard'
    BY <1>1, <1>2, TailOfMail DEF TypeInv, GoodMsgs
  <2>2. sending' = sending
    BY DEF ClidReceives, appVars
  <2> QED BY <2>1, <2>2 DEF TypeInv, GoodMsgs, GoodMsg, Misled, Wire
<1>5. RegTypeOK'
  BY <1>2, <1>3 DEF TypeInv, RegTypeOK, CmdInv, ClidReceives, appVars, jobVars, boundVars
<1> QED BY <1>3, <1>4, <1>5 DEF TypeInv

\* The daemon forwards, the listener looks a handler up.
JobsFrame == UNCHANGED <<cmdVars, appVars, mail, historyVars>>

LEMMA JobsType ==
    ASSUME TypeInv, JobsFrame,
           jobs' \in [Mbox -> SUBSET Names], lookup' \in Names \cup {NoJob},
           disturbed' \in BOOLEAN, restarts' = restarts
    PROVE  TypeInv'
<1>1. CmdInv'
  BY CmdStutterInv DEF TypeInv, JobsFrame
<1>2. GoodMsgs'
  BY DEF TypeInv, GoodMsgs, GoodMsg, Misled, Wire, JobsFrame, appVars, historyVars
<1>3. RegTypeOK'
  BY <1>1 DEF TypeInv, RegTypeOK, CmdInv, JobsFrame, appVars, historyVars
<1> QED BY <1>1, <1>2, <1>3 DEF TypeInv

LEMMA ForwardsToNamed ==
    ASSUME TypeInv, NEW w \in Names, NEW m \in ForwardTargets(w) \ {NoMbox}
    PROVE  m \in Mbox /\ \E i \in CmdSlot : cmds[i].name = w
<1>1. PICK i \in Found(cmd_tree, CmdName(cmds), w) : m = cmds[i].mbox
  BY DEF ForwardTargets
<1>2. cmd_tree \in Seq(CmdSlot) /\ cmds \in [CmdSlot -> Command]
  BY DEF TypeInv, CmdInv, CmdTypeOK
<1>3. i \in CmdSlot /\ CmdName(cmds)[i] = w
  BY <1>2, FoundElements
<1> QED BY <1>1, <1>2, <1>3 DEF CmdName, Command

LEMMA JobsSteps ==
    ASSUME TypeInv, Jobs
    PROVE  /\ JobsFrame /\ restarts' = restarts
           /\ jobs' \in [Mbox -> SUBSET Names] /\ lookup' \in Names \cup {NoJob}
           /\ disturbed' \in BOOLEAN
           /\ \A m \in Mbox : \A w \in jobs'[m] :
                w \in jobs[m] \/ \E i \in CmdSlot : cmds[i].name = w
           /\ lookup' \in {lookup, NoJob} \/ \E m \in Mbox : lookup' \in jobs[m]
<1>1. /\ jobs \in [Mbox -> SUBSET Names] /\ lookup \in Names \cup {NoJob}
      /\ disturbed \in BOOLEAN
  BY DEF TypeInv, RegTypeOK
<1>2. ASSUME NEW w \in Names, ClidForwards(w)
      PROVE  /\ JobsFrame /\ restarts' = restarts /\ lookup' = lookup /\ disturbed' = disturbed
             /\ jobs' \in [Mbox -> SUBSET Names]
             /\ \A m \in Mbox : \A v \in jobs'[m] :
                  v \in jobs[m] \/ \E i \in CmdSlot : cmds[i].name = v
  <2>1. PICK m \in ForwardTargets(w) \ {NoMbox} : jobs' = [jobs EXCEPT ![m] = @ \cup {w}]
    BY <1>2 DEF ClidForwards
  <2>2. m \in Mbox /\ \E i \in CmdSlot : cmds[i].name = w
    BY <2>1, ForwardsToNamed
  <2> QED BY <1>1, <1>2, <2>1, <2>2 DEF ClidForwards, JobsFrame
<1>3. ASSUME TakeJob
      PROVE  /\ JobsFrame /\ restarts' = restarts /\ disturbed' = FALSE
             /\ jobs' \in [Mbox -> SUBSET Names]
             /\ \A m \in Mbox : jobs'[m] \subseteq jobs[m]
             /\ \E m \in Mbox : lookup' \in jobs[m]
  <2>1. listener \in Thread
    BY DEF TypeInv, RegTypeOK
  <2>2. itc_current_mbox(listener) \in Mbox
    BY <2>1, RegConstants DEF TypeInv, RegTypeOK, itc_current_mbox
  <2> QED BY <1>1, <1>3, <2>2 DEF TakeJob, JobsFrame, boundVars
<1>4. ASSUME LookupEnds
      PROVE  /\ JobsFrame /\ restarts' = restarts /\ disturbed' = FALSE
             /\ jobs' = jobs /\ lookup' = NoJob
  BY <1>4 DEF LookupEnds, JobsFrame, boundVars
<1>5. CASE \E w \in Names : ClidForwards(w)
  BY <1>1, <1>2, <1>5
<1>6. CASE TakeJob
  BY <1>1, <1>3, <1>6
<1>7. CASE LookupEnds
  BY <1>1, <1>4, <1>7
<1> QED BY <1>5, <1>6, <1>7 DEF Jobs, HandlerFound, HandlerMissed

LEMMA RestartType == ASSUME TypeInv, Restart PROVE TypeInv'
<1>1. CmdInv'
  BY CmdStutterInv DEF TypeInv, Restart
<1>2. GoodMsgs'
  BY DEF TypeInv, GoodMsgs, GoodMsg, Restart
<1>3. /\ m_registeredInvokers' \in [AppNames -> Thread \cup {NoThread}]
      /\ sending' \in [Thread -> AppMsg \cup {NoMsg}]
      /\ restarts' \in 0..MaxRestarts /\ jobs' \in [Mbox -> SUBSET Names]
      /\ orphaned' \subseteq AppNames
  BY RegConstants DEF TypeInv, RegTypeOK, Restart
<1>4. RegTypeOK'
  BY <1>1, <1>3 DEF TypeInv, RegTypeOK, CmdInv, Restart, NoJob
<1> QED BY <1>1, <1>2, <1>4 DEF TypeInv

\* How the calls change the map.
LEMMA RegisterChanges ==
    ASSUME TypeInv, NEW t \in Thread, NEW n \in AppNames, registerCmdHandler(t, n)
    PROVE  TypeInv' /\ RegisterMsg(n, t) \in AppMsg
<1>1. RegisterMsg(n, t) \in AppMsg /\ GoodMsg(RegisterMsg(n, t))
  BY RegisterMsgGood DEF TypeInv
<1>2. /\ ChangeMap(t, n, t) /\ sending' = [sending EXCEPT ![t] = RegisterMsg(n, t)]
      /\ withdrawn' = withdrawn
  BY DEF registerCmdHandler
<1> QED BY <1>1, <1>2, ChangeMapType

LEMMA DeregisterChanges ==
    ASSUME TypeInv, NEW t \in Thread, NEW n \in AppNames, deregisterCmdHandler(t, n)
    PROVE  TypeInv'
<1>1. PICK w \in Names \cup {Unnamed} : sending' = [sending EXCEPT ![t] = DeregisterMsg(n, w)]
  BY DEF deregisterCmdHandler
<1>2. DeregisterMsg(n, w) \in AppMsg /\ GoodMsg(DeregisterMsg(n, w))
  BY DeregisterMsgGood
<1>3. ChangeMap(t, n, NoThread) /\ withdrawn' = withdrawn \cup {n}
  BY DEF deregisterCmdHandler
<1> QED BY <1>1, <1>2, <1>3, ChangeMapType

LEMMA RegNextType == TypeInv /\ [RegNext]_regVars => TypeInv'
<1> SUFFICES ASSUME TypeInv, [RegNext]_regVars PROVE TypeInv'
  OBVIOUS
<1>1. CASE App
  BY <1>1, RegisterChanges, DeregisterChanges, SendSplits, SentType DEF App
<1>2. CASE Jobs
  BY <1>2, JobsSteps, JobsType
<1>3. CASE ClidReceives
  BY <1>3, ReceivesType
<1>4. CASE Restart
  BY <1>4, RestartType
<1>5. CASE UNCHANGED regVars
  BY <1>5, JobsType DEF regVars, JobsFrame, jobVars, boundVars, TypeInv, RegTypeOK
<1> QED BY <1>1, <1>2, <1>3, <1>4, <1>5 DEF RegNext

LEMMA RegTypeInductive == RegSpec => []TypeInv
  BY RegInitType, RegNextType, PTL DEF RegSpec

\* Type correctness of application and registry together.
THEOREM RegTypeCorrect == RegSpec => []RegTypeOK
<1>1. TypeInv => RegTypeOK
  BY DEF TypeInv
<1> QED BY <1>1, RegTypeInductive, PTL

\* What ClidCommands_proofs shows of the registry alone holds with the
\* messages that applications really send, deregistrations whose name was
\* lost on the way (cmdRegisterImpl.cc:109) among them.
THEOREM RegistryHoldsInUse ==
    RegSpec => [](RegisteredInTree /\ CountCoversEntries /\ ExactUntilFirstDereg)
<1>1. TypeInv => RegisteredInTree /\ CountCoversEntries /\ ExactUntilFirstDereg
  BY DEF TypeInv, CmdInv
<1> QED BY <1>1, RegTypeInductive, PTL
-----------------------------------------------------------------------------
(***************************************************************************)
(* The daemon follows the map                                              *)
(***************************************************************************)
LEMMA RegistrantsEmpty ==
    ASSUME NEW n
    PROVE  Registrants(n) = {} <=> \A i \in CmdSlot : cmds[i].name # Wire(n)
  BY DEF Registrants

LEMMA RegInitFollows == RegInit => FollowInv
<1> SUFFICES ASSUME RegInit, NEW n \in AppNames
             PROVE  OneSender(n) /\ OneEntry(n) /\ Alternates(n) /\ View(n) = Wanted(n)
  BY DEF FollowInv, Clean
<1>1. SendingAbout(n) = {} /\ MailAbout(n) = {}
  BY DEF RegInit, SendingAbout, MailAbout
<1>2. \A i \in CmdSlot : cmds[i].name # Wire(n)
  <2>1. Wire(n) # Unnamed
    BY RegConstants
  <2> QED BY <2>1 DEF RegInit, CmdInit, FreeCmd
<1>3. Registrants(n) = {}
  BY <1>2, RegistrantsEmpty
<1>4. View(n) = {} /\ Wanted(n) = {}
  BY <1>1, <1>3 DEF View, Wanted, RegInit
<1> QED BY <1>1, <1>2, <1>4 DEF OneSender, OneEntry, Alternates

\* Nothing that concerns the clean name n has changed.
Undisturbed(n) ==
    /\ SendingAbout(n)' = SendingAbout(n)
    /\ \A t \in SendingAbout(n) : sending'[t] = sending[t]
    /\ MailAbout(n)' = MailAbout(n)
    /\ \A k \in MailAbout(n) : mail'[k] = mail[k]
    /\ cmds' = cmds
    /\ m_registeredInvokers'[n] = m_registeredInvokers[n]
    /\ restarts' = restarts

LEMMA UndisturbedFollows ==
    ASSUME NEW n, OneSender(n), OneEntry(n), Alternates(n), View(n) = Wanted(n), Undisturbed(n)
    PROVE  OneSender(n)' /\ OneEntry(n)' /\ Alternates(n)' /\ View(n)' = Wanted(n)'
<1>1. LastAbout(n)' = LastAbout(n) /\ LastAbout(n) \subseteq MailAbout(n)
  BY DEF LastAbout, Undisturbed
<1>2. {mail'[k].mbox : k \in LastAbout(n)} = {mail[k].mbox : k \in LastAbout(n)}
  BY <1>1 DEF Undisturbed
<1>3. Registrants(n)' = Registrants(n)
  BY DEF Registrants, Undisturbed
<1>4. MailedView(n)' = MailedView(n)
  BY <1>1, <1>2, <1>3 DEF MailedView, Undisturbed
<1>5. {sending'[t].mbox : t \in SendingAbout(n)} = {sending[t].mbox : t \in SendingAbout(n)}
  BY DEF Undisturbed
<1>6. View(n)' = View(n)
  BY <1>1, <1>2, <1>3, <1>5 DEF View, Undisturbed
<1>7. Wanted(n)' = Wanted(n)
  BY DEF Wanted, Undisturbed, itc_current_mbox
<1>8. OneSender(n)' /\ OneEntry(n)'
  BY DEF OneSender, OneEntry, Undisturbed
<1>9. Alternates(n)'
  BY <1>3, <1>4 DEF Alternates, Undisturbed
<1> QED BY <1>6, <1>7, <1>8, <1>9

\* A call about n: no other was under way, so the map was what the mail says.
LEMMA ChangeMapFollows ==
    ASSUME TypeInv, FollowInv, NEW t \in Thread, NEW n \in AppNames,
           NEW owner \in Thread \cup {NoThread}, NEW msg \in AppMsg,
           sending[t] = NoMsg, ChangeMap(t, n, owner), sending' = [sending EXCEPT ![t] = msg],
           msg.app = n,
           \/ /\ m_registeredInvokers[n] = NoThread /\ owner = t
              /\ msg.mbox = itc_current_mbox(t) /\ itc_current_mbox(t) \in Mbox
           \/ owner = NoThread /\ msg.kind = "dereg" /\ msg.mbox = NoMbox
    PROVE  FollowInv'
<1> SUFFICES ASSUME NEW k \in Clean'
             PROVE  OneSender(k)' /\ OneEntry(k)' /\ Alternates(k)' /\ View(k)' = Wanted(k)'
  BY DEF FollowInv
<1>1. /\ sending \in [Thread -> AppMsg \cup {NoMsg}]
      /\ m_registeredInvokers \in [AppNames -> Thread \cup {NoThread}]
  BY DEF TypeInv, RegTypeOK
<1>2. \A u \in Thread : sending'[u] = IF u = t THEN msg ELSE sending[u]
  BY <1>1
<1>3. /\ raced \subseteq raced' /\ unheard' = unheard /\ orphaned' = orphaned
      /\ cmds' = cmds /\ mail' = mail /\ restarts' = restarts
      /\ m_registeredInvokers' = [m_registeredInvokers EXCEPT ![n] = owner]
      /\ SendingAbout(n) # {} => n \in raced'
  BY DEF ChangeMap, cmdVars
<1>4. k \in Clean /\ k \in AppNames
  BY <1>3 DEF Clean
<1>5. OneSender(k) /\ OneEntry(k) /\ Alternates(k) /\ View(k) = Wanted(k)
  BY <1>4 DEF FollowInv
<1>6. CASE k # n
  <2>1. Undisturbed(k)
    BY <1>1, <1>2, <1>3, <1>4, <1>6, RegConstants DEF Undisturbed, SendingAbout, MailAbout
  <2> QED BY <1>5, <2>1, UndisturbedFollows
<1>7. CASE k = n
  <2>1. SendingAbout(n) = {}
    BY <1>3, <1>7 DEF Clean
  <2>2. SendingAbout(n)' = {t} /\ sending'[t] = msg
    BY <1>2, <2>1, RegConstants DEF SendingAbout
  <2>3. MailAbout(n)' = MailAbout(n) /\ LastAbout(n)' = LastAbout(n)
    BY <1>3 DEF MailAbout, LastAbout
  <2>4. Registrants(n)' = Registrants(n) /\ MailedView(n)' = MailedView(n)
    BY <1>3, <2>3 DEF Registrants, MailedView
  <2>5. View(n) = MailedView(n)
    BY <2>1 DEF View, MailedView
  <2>6. View(n)' = {msg.mbox} \ {NoMbox}
    BY <2>2 DEF View
  <2>7. m_registeredInvokers'[n] = owner
    BY <1>1, <1>3
  <2>8. View(n)' = Wanted(n)'
    BY <1>3, <2>6, <2>7, RegConstants DEF Wanted, itc_current_mbox
  <2>9. msg.kind = "reg" => MailedView(n)' = {}
    BY <1>5, <1>7, <2>4, <2>5 DEF Wanted
  <2>10. Alternates(n)'
    BY <1>3, <1>5, <1>7, <2>2, <2>3, <2>4, <2>9 DEF Alternates
  <2>11. OneSender(n)' /\ OneEntry(n)'
    BY <1>3, <1>5, <1>7, <2>2 DEF OneSender, OneEntry
  <2> QED BY <1>7, <2>8, <2>10, <2>11
<1> QED BY <1>6, <1>7

LEMMA RegisterFollows ==
    ASSUME TypeInv, FollowInv, NEW t \in Thread, NEW n \in AppNames, registerCmdHandler(t, n)
    PROVE  FollowInv'
<1> DEFINE msg == RegisterMsg(n, t)
<1>1. /\ msg \in AppMsg /\ msg.app = n /\ msg.mbox = itc_current_mbox(t)
      /\ itc_current_mbox(t) \in Mbox
  BY RegisterMsgGood DEF TypeInv
<1>2. /\ sending[t] = NoMsg /\ m_registeredInvokers[n] = NoThread
      /\ ChangeMap(t, n, t) /\ sending' = [sending EXCEPT ![t] = msg]
  BY DEF registerCmdHandler, Free
<1> QED BY <1>1, <1>2, ChangeMapFollows

LEMMA DeregisterFollows ==
    ASSUME TypeInv, FollowInv, NEW t \in Thread, NEW n \in AppNames, deregisterCmdHandler(t, n)
    PROVE  FollowInv'
<1>1. PICK w \in Names \cup {Unnamed} : sending' = [sending EXCEPT ![t] = DeregisterMsg(n, w)]
  BY DEF deregisterCmdHandler
<1> DEFINE msg == DeregisterMsg(n, w)
<1>2. msg \in AppMsg /\ msg.app = n /\ msg.kind = "dereg" /\ msg.mbox = NoMbox
  BY DeregisterMsgGood
<1>3. sending[t] = NoMsg /\ ChangeMap(t, n, NoThread)
  BY DEF deregisterCmdHandler, Free
<1> QED BY <1>1, <1>2, <1>3, ChangeMapFollows

\* A message that is sent moves from the thread to the end of the mail; one
\* that is not sent takes its name out of the claim.
LEMMA SentFollows ==
    ASSUME TypeInv, FollowInv, NEW t \in Thread, Sent(t) \/ Unsent(t), SendFrame
    PROVE  FollowInv'
<1>0. PICK n : n = sending[t].app
  OBVIOUS
<1> DEFINE L == Len(mail) + 1
<1> SUFFICES ASSUME NEW k \in Clean'
             PROVE  OneSender(k)' /\ OneEntry(k)' /\ Alternates(k)' /\ View(k)' = Wanted(k)'
  BY DEF FollowInv
<1>1. /\ sending \in [Thread -> AppMsg \cup {NoMsg}] /\ mail \in Seq(AppMsg)
      /\ sending[t] \in AppMsg /\ n \in AppNames
      /\ \A u \in Thread : sending'[u] = IF u = t THEN NoMsg ELSE sending[u]
  BY <1>0, AppMsgFields DEF TypeInv, RegTypeOK, Sent, Unsent
<1>2. /\ raced' = raced /\ orphaned' = orphaned /\ unheard \subseteq unheard'
      /\ cmds' = cmds /\ m_registeredInvokers' = m_registeredInvokers /\ restarts' = restarts
  BY DEF Sent, Unsent, SendFrame, cmdVars, boundVars
<1>3. k \in Clean /\ k \in AppNames
  BY <1>2 DEF Clean
<1>4. OneSender(k) /\ OneEntry(k) /\ Alternates(k) /\ View(k) = Wanted(k)
  BY <1>3 DEF FollowInv
<1>5. CASE Unsent(t)
  <2>1. k # n /\ mail' = mail
    BY <1>0, <1>5 DEF Unsent, Clean
  <2>2. Undisturbed(k)
    BY <1>0, <1>1, <1>2, <2>1 DEF Undisturbed, SendingAbout, MailAbout
  <2> QED BY <1>4, <2>2, UndisturbedFollows
<1>6. CASE Sent(t)
  <2>1. /\ mail' = Append(mail, sending[t]) /\ Len(mail) \in Nat /\ Len(mail') = L
        /\ mail'[L] = sending[t] /\ \A p \in 1..Len(mail) : mail'[p] = mail[p]
    BY <1>1, <1>6 DEF Sent
  <2>2. CASE k # n
    <3>1. Undisturbed(k)
      BY <1>0, <1>1, <1>2, <2>1, <2>2 DEF Undisturbed, SendingAbout, MailAbout
    <3> QED BY <1>4, <3>1, UndisturbedFollows
  <2>3. CASE k = n
    <3>1. t \in SendingAbout(n) /\ SendingAbout(n) = {t} /\ SendingAbout(n)' = {}
      <4>1. t \in SendingAbout(n)
        BY <1>0, <1>6 DEF Sent, SendingAbout
      <4>2. SendingAbout(n) = {t}
        BY <1>4, <2>3, <4>1 DEF OneSender, SendingAbout
      <4> QED BY <1>1, <4>1, <4>2 DEF SendingAbout
    <3>2. MailAbout(n)' = MailAbout(n) \cup {L} /\ MailAbout(n) \subseteq 1..Len(mail)
      BY <1>0, <2>1 DEF MailAbout
    <3>3. LastAbout(n)' = {L}
      BY <2>1, <3>2 DEF LastAbout
    <3>4. View(n)' = View(n)
      <4>1. View(n) = {sending[t].mbox} \ {NoMbox}
        BY <3>1 DEF View
      <4>2. View(n)' = {mail'[L].mbox} \ {NoMbox}
        BY <3>1, <3>2, <3>3 DEF View
      <4> QED BY <2>1, <4>1, <4>2
    <3>5. Wanted(n)' = Wanted(n) /\ Registrants(n)' = Registrants(n)
      BY <1>2 DEF Wanted, itc_current_mbox, Registrants
    <3>6. ASSUME NEW p \in MailAbout(n)', mail'[p].kind = "reg"
          PROVE  /\ (\A j \in MailAbout(n)' : j >= p) => Registrants(n)' = {}
                 /\ \A j \in MailAbout(n)' :
                      j < p /\ (\A l \in MailAbout(n)' : l <= j \/ l >= p) => mail'[j].kind = "dereg"
      <4>1. CASE p = L
        <5>1. MailedView(n) = {}
          BY <1>4, <2>1, <2>3, <3>1, <3>6, <4>1 DEF Alternates
        <5>2. (\A j \in MailAbout(n)' : j >= p) => MailAbout(n) = {}
          BY <2>1, <3>2, <4>1
        <5>3. ASSUME NEW j \in MailAbout(n), \A l \in MailAbout(n)' : l <= j \/ l >= p
              PROVE  mail[j].kind = "dereg"
          <6>1. j \in LastAbout(n)
            BY <2>1, <3>2, <4>1, <5>3 DEF LastAbout
          <6>2. mail[j].mbox = NoMbox
            BY <5>1, <6>1 DEF MailedView
          <6>3. GoodMsg(mail[j])
            BY <3>2 DEF TypeInv, GoodMsgs
          <6> QED BY <6>2, <6>3, RegConstants DEF GoodMsg
        <5>4. \A j \in MailAbout(n)' : j < p => j \in MailAbout(n) /\ mail'[j] = mail[j]
          BY <2>1, <3>2, <4>1
        <5> QED BY <3>5, <5>1, <5>2, <5>3, <5>4 DEF MailedView
      <4>2. CASE p # L
        <5>1. p \in MailAbout(n) /\ mail[p].kind = "reg" /\ p < L
          BY <2>1, <3>2, <3>6, <4>2
        <5>2. /\ (\A j \in MailAbout(n) : j >= p) => Registrants(n) = {}
              /\ \A j \in MailAbout(n) :
                   j < p /\ (\A l \in MailAbout(n) : l <= j \/ l >= p) => mail[j].kind = "dereg"
          BY <1>4, <2>3, <5>1 DEF Alternates
        <5>3. \A j \in MailAbout(n)' : j < p => j \in MailAbout(n) /\ mail'[j] = mail[j]
          BY <2>1, <3>2, <5>1
        <5> QED BY <3>2, <3>5, <5>2, <5>3
      <4> QED BY <4>1, <4>2
    <3>7. Alternates(n)'
      BY <3>1, <3>6 DEF Alternates
    <3>8. OneSender(n)' /\ OneEntry(n)'
      BY <1>2, <1>4, <2>3, <3>1 DEF OneSender, OneEntry
    <3> QED BY <1>4, <2>3, <3>4, <3>5, <3>7, <3>8
  <2> QED BY <2>2, <2>3
<1> QED BY <1>5, <1>6

\* What a message does to the entries: those of other names stay, and a
\* message that is not refused does what it says.
SameEntries(k) ==
    \A i \in CmdSlot : cmds[i].name = Wire(k) \/ cmds'[i].name = Wire(k) => cmds'[i] = cmds[i]

LEMMA SlotChange ==
    ASSUME TypeInv, NEW msg \in AppMsg,
           \/ msg.kind = "reg" /\ handle_receive_reg_cmd_request(msg.name, msg.mbox)
           \/ msg.kind = "dereg" /\ handle_receive_dereg_cmd_request(msg.name)
    PROVE  \/ cmds' = cmds
           \/ /\ msg.kind = "reg" /\ \E i \in CmdSlot :
                   /\ cmds[i].name = Unnamed
                   /\ cmds' = [cmds EXCEPT ![i] = [name |-> msg.name, mbox |-> msg.mbox]]
           \/ /\ msg.kind = "dereg" /\ \E i \in CmdSlot :
                   /\ cmds[i].name = msg.name
                   /\ cmds' = [cmds EXCEPT ![i] = FreeCmd]
<1>1. cmd_tree \in Seq(CmdSlot)
  BY DEF TypeInv, CmdInv, CmdTypeOK
<1>2. CASE msg.kind = "reg"
  BY <1>2 DEF handle_receive_reg_cmd_request, RegIgnored, RegAccepted, FirstFreeCmd, cmdVars
<1>3. CASE msg.kind = "dereg"
  <2>1. CASE cmds' = cmds
    BY <2>1
  <2>2. ASSUME NEW i \in Found(cmd_tree, CmdName(cmds), msg.name),
               cmds' = [cmds EXCEPT ![i] = FreeCmd]
        PROVE  i \in CmdSlot /\ cmds[i].name = msg.name
    BY <1>1, FoundElements DEF CmdName
  <2> QED BY <1>3, <2>1, <2>2 DEF handle_receive_dereg_cmd_request, cmdVars
<1> QED BY <1>2, <1>3, AppMsgFields

LEMMA OtherEntries ==
    ASSUME TypeInv, NEW msg \in AppMsg, NEW k \in AppNames,
           Wire(k) # msg.name,
           \/ msg.kind = "reg" /\ handle_receive_reg_cmd_request(msg.name, msg.mbox)
           \/ msg.kind = "dereg" /\ handle_receive_dereg_cmd_request(msg.name)
    PROVE  SameEntries(k)
<1>1. cmds \in [CmdSlot -> Command] /\ Wire(k) # Unnamed
  BY RegConstants DEF TypeInv, CmdInv, CmdTypeOK
<1>2. FreeCmd.name = Unnamed
  BY DEF FreeCmd
<1> QED BY <1>1, <1>2, SlotChange DEF SameEntries

LEMMA OwnEntries ==
    ASSUME TypeInv, NEW msg \in AppMsg, NEW n \in AppNames,
           GoodMsg(msg), msg.app = n, msg.name = Wire(n), ~Refuses(msg),
           OneEntry(n), msg.kind = "reg" => Registrants(n) = {},
           \/ msg.kind = "reg" /\ handle_receive_reg_cmd_request(msg.name, msg.mbox)
           \/ msg.kind = "dereg" /\ handle_receive_dereg_cmd_request(msg.name)
    PROVE  OneEntry(n)' /\ Registrants(n)' = {msg.mbox} \ {NoMbox}
<1>1. /\ cmds \in [CmdSlot -> Command] /\ cmd_tree \in Seq(CmdSlot)
      /\ Wire(n) # Unnamed /\ Wire(n) \in Names
  BY RegConstants DEF TypeInv, CmdInv, CmdTypeOK
<1>2. CASE msg.kind = "reg"
  <2>1. \A i \in CmdSlot : cmds[i].name # Wire(n)
    BY <1>2, RegistrantsEmpty
  <2>2. Hits(cmd_tree, CmdName(cmds), msg.name) = {}
    <3> SUFFICES ASSUME NEW p \in Hits(cmd_tree, CmdName(cmds), msg.name) PROVE FALSE
      OBVIOUS
    <3>1. p \in 1..Len(cmd_tree) /\ CmdName(cmds)[cmd_tree[p]] = msg.name
      BY DEF Hits
    <3>2. cmd_tree[p] \in CmdSlot
      BY <1>1, <3>1
    <3> QED BY <2>1, <3>1, <3>2 DEF CmdName
  <2>3. RegAccepted(msg.name, msg.mbox)
    BY <1>2, <2>2 DEF Refuses, handle_receive_reg_cmd_request, RegIgnored
  <2>4. PICK i \in CmdSlot : cmds' = [cmds EXCEPT ![i] = [name |-> msg.name, mbox |-> msg.mbox]]
    BY <2>3 DEF RegAccepted
  <2>5. \A j \in CmdSlot : cmds'[j].name = Wire(n) <=> j = i
    BY <1>1, <2>1, <2>4
  <2>6. Registrants(n)' = {msg.mbox}
    BY <1>1, <2>4, <2>5 DEF Registrants
  <2>7. msg.mbox # NoMbox
    BY <1>2, RegConstants DEF GoodMsg
  <2> QED BY <2>5, <2>6, <2>7 DEF OneEntry
<1>3. CASE msg.kind = "dereg"
  <2>1. \A j \in CmdSlot : cmds'[j].name # Wire(n)
    <3>1. CASE Registrants(n) = {}
      <4>1. \A i \in CmdSlot : cmds[i].name # Wire(n)
        BY <3>1, RegistrantsEmpty
      <4>2. cmds' = cmds
        BY <1>3, <4>1, SlotChange
      <4> QED BY <4>1, <4>2
    <3>2. CASE Registrants(n) # {}
      <4>1. ~CanMiss(cmd_tree, CmdName(cmds), msg.name)
        BY <1>3, <3>2 DEF Refuses
      <4>2. PICK i \in Found(cmd_tree, CmdName(cmds), msg.name) :
              cmds' = [cmds EXCEPT ![i] = FreeCmd]
        BY <1>3, <4>1 DEF handle_receive_dereg_cmd_request
      <4>3. i \in CmdSlot /\ cmds[i].name = Wire(n)
        BY <1>1, FoundElements DEF CmdName
      <4>4. \A j \in CmdSlot : cmds[j].name = Wire(n) => j = i
        BY <4>3 DEF OneEntry
      <4> QED BY <1>1, <4>2, <4>3, <4>4 DEF FreeCmd
    <3> QED BY <3>1, <3>2
  <2>2. Registrants(n)' = {}
    BY <2>1 DEF Registrants
  <2>3. msg.mbox = NoMbox
    BY <1>3 DEF GoodMsg
  <2> QED BY <2>1, <2>2, <2>3 DEF OneEntry
<1> QED BY <1>2, <1>3, AppMsgFields

\* When the first message goes, the others move up, and the entries take
\* its place for the name it was about.
LEMMA ReceivesFollows == ASSUME TypeInv, FollowInv, ClidReceives PROVE FollowInv'
<1>0. PICK msg \in AppMsg : msg = Head(mail)
  BY TailOfMail DEF ClidReceives
<1> SUFFICES ASSUME NEW k \in Clean'
             PROVE  OneSender(k)' /\ OneEntry(k)' /\ Alternates(k)' /\ View(k)' = Wanted(k)'
  BY DEF FollowInv
<1>1. /\ mail[1] = msg /\ 1 \in 1..Len(mail) /\ GoodMsg(msg) /\ msg.app \in AppNames
      /\ Misled(msg) \subseteq unheard
      /\ Len(mail') = Len(mail) - 1 /\ Len(mail) \in Nat
      /\ \A p \in 1..Len(mail') : p + 1 \in 1..Len(mail) /\ mail'[p] = mail[p + 1]
      /\ \A p \in 1..Len(mail) : p # 1 => p - 1 \in 1..Len(mail') /\ mail'[p - 1] = mail[p]
  BY <1>0, TailOfMail, AppMsgFields DEF ClidReceives
<1>2. /\ sending' = sending /\ m_registeredInvokers' = m_registeredInvokers
      /\ raced' = raced /\ orphaned' = orphaned /\ restarts' = restarts
      /\ unheard' = IF Refuses(msg) THEN unheard \cup {msg.app} ELSE unheard
      /\ \/ msg.kind = "reg" /\ handle_receive_reg_cmd_request(msg.name, msg.mbox)
         \/ msg.kind = "dereg" /\ handle_receive_dereg_cmd_request(msg.name)
  BY <1>0 DEF ClidReceives, appVars, boundVars
<1>3. k \in Clean /\ k \in AppNames
  BY <1>2 DEF Clean
<1>4. OneSender(k) /\ OneEntry(k) /\ Alternates(k) /\ View(k) = Wanted(k)
  BY <1>3 DEF FollowInv
<1>5. 1 \in MailAbout(k) <=> msg.app = k
  BY <1>1 DEF MailAbout
<1>6. /\ OneEntry(k)'
      /\ Registrants(k)' = IF 1 \in MailAbout(k) THEN {msg.mbox} \ {NoMbox} ELSE Registrants(k)
  <2>1. CASE msg.app = k
    <3>1. k \notin unheard /\ ~Refuses(msg)
      BY <1>2, <2>1 DEF Clean
    <3>2. msg.name = Wire(k)
      BY <1>1, <2>1, <3>1 DEF Misled
    <3>3. msg.kind = "reg" => Registrants(k) = {}
      BY <1>1, <1>4, <1>5, <2>1 DEF Alternates, MailAbout
    <3> QED BY <1>1, <1>2, <1>3, <1>4, <1>5, <2>1, <3>1, <3>2, <3>3, OwnEntries
  <2>2. CASE msg.app # k
    <3>1. Wire(k) # msg.name
      <4>1. k \notin Misled(msg) /\ Wire(k) # Wire(msg.app)
        BY <1>1, <1>3, <2>2, RegConstants DEF Clean
      <4> QED BY <1>3, <4>1 DEF Misled
    <3>2. SameEntries(k)
      BY <1>1, <1>2, <1>3, <3>1, OtherEntries
    <3> QED BY <1>4, <1>5, <2>2, <3>2 DEF SameEntries, OneEntry, Registrants
  <2> QED BY <2>1, <2>2
<1>7. \A p \in MailAbout(k)' : p \in Nat \ {0} /\ p + 1 \in MailAbout(k) /\ mail'[p] = mail[p + 1]
  BY <1>1 DEF MailAbout
<1>8. \A p \in MailAbout(k) : p \in Nat \ {0} /\ (p # 1 => p - 1 \in MailAbout(k)' /\ mail'[p - 1] = mail[p])
  BY <1>1 DEF MailAbout
<1>9. MailedView(k)' = MailedView(k)
  <2>1. CASE MailAbout(k)' # {}
    <3>1. PICK q \in MailAbout(k)' : q + 1 \in MailAbout(k) /\ q \in Nat \ {0}
      BY <1>7, <2>1
    <3>2. \A p \in LastAbout(k)' : p + 1 \in LastAbout(k) /\ mail'[p] = mail[p + 1]
      BY <1>7, <1>8 DEF LastAbout
    <3>3. \A p \in LastAbout(k) : p # 1 /\ p - 1 \in LastAbout(k)' /\ mail'[p - 1] = mail[p]
      <4> TAKE p \in LastAbout(k)
      <4>1. p \in MailAbout(k) /\ p # 1
        BY <1>8, <3>1 DEF LastAbout
      <4> QED BY <1>7, <1>8, <4>1 DEF LastAbout
    <3>4. {mail'[p].mbox : p \in LastAbout(k)'} = {mail[p].mbox : p \in LastAbout(k)}
      BY <3>2, <3>3
    <3> QED BY <2>1, <3>1, <3>4 DEF MailedView
  <2>2. CASE MailAbout(k)' = {} /\ MailAbout(k) = {}
    BY <1>6, <2>2 DEF MailedView
  <2>3. CASE MailAbout(k)' = {} /\ MailAbout(k) # {}
    <3>1. MailAbout(k) = {1}
      BY <1>8, <2>3
    <3>2. LastAbout(k) = {1}
      BY <3>1 DEF LastAbout
    <3> QED BY <1>1, <1>6, <2>3, <3>1, <3>2 DEF MailedView
  <2> QED BY <2>1, <2>2, <2>3
<1>10. SendingAbout(k)' = SendingAbout(k) /\ OneSender(k)'
  BY <1>2, <1>4 DEF SendingAbout, OneSender
<1>11. View(k)' = Wanted(k)'
  <2>1. View(k)' = View(k)
    BY <1>2, <1>9, <1>10 DEF View, MailedView
  <2> QED BY <1>2, <1>4, <2>1 DEF Wanted, itc_current_mbox
<1>12. ASSUME NEW p \in MailAbout(k)', mail'[p].kind = "reg"
       PROVE  /\ (\A j \in MailAbout(k)' : j >= p) => Registrants(k)' = {}
              /\ \A j \in MailAbout(k)' :
                   j < p /\ (\A l \in MailAbout(k)' : l <= j \/ l >= p) => mail'[j].kind = "dereg"
  <2>1. p + 1 \in MailAbout(k) /\ mail[p + 1].kind = "reg" /\ p \in Nat \ {0}
    BY <1>7, <1>12
  <2>2. /\ (\A j \in MailAbout(k) : j >= p + 1) => Registrants(k) = {}
        /\ \A j \in MailAbout(k) :
             j < p + 1 /\ (\A l \in MailAbout(k) : l <= j \/ l >= p + 1) => mail[j].kind = "dereg"
    BY <1>4, <2>1 DEF Alternates
  <2>3. ASSUME \A j \in MailAbout(k)' : j >= p PROVE Registrants(k)' = {}
    <3>1. \A j \in MailAbout(k) : j = 1 \/ j >= p + 1
      BY <1>8, <2>1, <2>3
    <3>2. CASE 1 \in MailAbout(k)
      <4>1. mail[1].kind = "dereg"
        BY <2>1, <2>2, <3>1, <3>2
      <4>2. msg.mbox = NoMbox
        BY <1>1, <4>1 DEF GoodMsg
      <4> QED BY <1>6, <3>2, <4>2
    <3>3. CASE 1 \notin MailAbout(k)
      BY <1>6, <2>2, <3>1, <3>3
    <3> QED BY <3>2, <3>3
  <2>4. ASSUME NEW j \in MailAbout(k)', j < p, \A l \in MailAbout(k)' : l <= j \/ l >= p
        PROVE  mail'[j].kind = "dereg"
    <3>1. j \in Nat \ {0} /\ j + 1 \in MailAbout(k) /\ mail'[j] = mail[j + 1] /\ j + 1 < p + 1
      BY <1>7, <2>1, <2>4
    <3>2. \A l \in MailAbout(k) : l <= j + 1 \/ l >= p + 1
      BY <1>8, <2>1, <2>4, <3>1
    <3> QED BY <2>2, <3>1, <3>2
  <2> QED BY <2>3, <2>4
<1>13. Alternates(k)'
  BY <1>2, <1>4, <1>9, <1>10, <1>12 DEF Alternates, SendingAbout
<1> QED BY <1>6, <1>10, <1>11, <1>13

\* A restart clears the map; what the daemon knew or was told is orphaned.
LEMMA RestartFollows == ASSUME TypeInv, FollowInv, Restart PROVE FollowInv'
<1> SUFFICES ASSUME NEW n \in Clean'
             PROVE  OneSender(n)' /\ OneEntry(n)' /\ Alternates(n)' /\ View(n)' = Wanted(n)'
  BY DEF FollowInv
<1>1. n \in AppNames /\ Registrants(n) = {} /\ MailAbout(n) = {}
  BY DEF Clean, Restart
<1>2. cmds' = cmds /\ mail' = mail
  BY DEF Restart, cmdVars
<1>3. SendingAbout(n)' = {} /\ MailAbout(n)' = {} /\ Registrants(n)' = {}
  BY <1>1, <1>2 DEF Restart, SendingAbout, MailAbout, Registrants
<1>4. View(n)' = {} /\ Wanted(n)' = {}
  BY <1>1, <1>3 DEF View, Wanted, Restart
<1>5. OneEntry(n)'
  BY <1>1, <1>2, RegistrantsEmpty DEF OneEntry
<1> QED BY <1>3, <1>4, <1>5 DEF OneSender, Alternates

LEMMA FrameFollows ==
    ASSUME FollowInv, JobsFrame, restarts' = restarts
    PROVE  FollowInv'
<1> SUFFICES ASSUME NEW n \in Clean'
             PROVE  OneSender(n)' /\ OneEntry(n)' /\ Alternates(n)' /\ View(n)' = Wanted(n)'
  BY DEF FollowInv
<1>1. n \in Clean
  BY DEF Clean, JobsFrame, historyVars
<1>2. Undisturbed(n)
  BY DEF Undisturbed, JobsFrame, cmdVars, appVars, SendingAbout, MailAbout
<1> QED BY <1>1, <1>2, UndisturbedFollows DEF FollowInv

LEMMA RegNextFollows == TypeInv /\ FollowInv /\ [RegNext]_regVars => FollowInv'
<1> SUFFICES ASSUME TypeInv, FollowInv, [RegNext]_regVars PROVE FollowInv'
  OBVIOUS
<1>1. CASE App
  BY <1>1, RegisterFollows, DeregisterFollows, SendSplits, SentFollows DEF App
<1>2. CASE Jobs
  BY <1>2, JobsSteps, FrameFollows
<1>3. CASE ClidReceives
  BY <1>3, ReceivesFollows
<1>4. CASE Restart
  BY <1>4, RestartFollows
<1>5. CASE UNCHANGED regVars
  BY <1>5, FrameFollows DEF regVars, JobsFrame, boundVars
<1> QED BY <1>1, <1>2, <1>3, <1>4, <1>5 DEF RegNext

\* However calls, messages and restarts interleave (cmdRegisterImpl.cc:61,
\* 83), the daemon's view of a name is the map's, unless one of the four
\* things has happened to the name.
THEOREM DaemonFollowsInvokers == RegSpec => []DaemonFollowsMap
<1>1. FollowInv => DaemonFollowsMap
  BY DEF FollowInv, DaemonFollowsMap, Clean
<1> QED BY <1>1, RegTypeInductive, RegInitFollows, RegNextFollows, PTL DEF RegSpec
-----------------------------------------------------------------------------
(***************************************************************************)
(* Jobs find their handlers                                                *)
(***************************************************************************)
LEMMA RegInitHandlers == RegInit => HandlerInv
<1> SUFFICES ASSUME RegInit PROVE HandlerInv
  OBVIOUS
<1>1. \A w \in EntryNames : w = Unnamed
  BY DEF RegInit, CmdInit, FreeCmd, EntryNames
<1>2. \A w \in JobNames : w = Unnamed
  BY DEF RegInit, NoJob, JobNames
<1>3. MailNames = {} /\ SendingNames = {}
  BY DEF RegInit, MailNames, SendingNames
<1> QED BY <1>1, <1>2, <1>3 DEF HandlerInv, Covered

\* A call: the name it registers has a handler now, the one it deregisters
\* is withdrawn.
LEMMA ChangeMapHandlers ==
    ASSUME TypeInv, HandlerInv, NEW t \in Thread, NEW n \in AppNames,
           NEW owner \in Thread \cup {NoThread}, NEW msg \in AppMsg,
           ChangeMap(t, n, owner), sending' = [sending EXCEPT ![t] = msg],
           \/ owner # NoThread /\ msg.name = Wire(n) /\ withdrawn' = withdrawn
           \/ owner = NoThread /\ msg.kind = "dereg" /\ withdrawn' = withdrawn \cup {n}
    PROVE  HandlerInv'
<1> SUFFICES ASSUME NEW w \in (EntryNames \cup MailNames \cup SendingNames \cup JobNames)'
             PROVE  Covered(w)'
  BY DEF HandlerInv
<1>1. /\ sending \in [Thread -> AppMsg \cup {NoMsg}]
      /\ m_registeredInvokers \in [AppNames -> Thread \cup {NoThread}]
  BY DEF TypeInv, RegTypeOK
<1>2. /\ cmds' = cmds /\ mail' = mail /\ jobs' = jobs /\ lookup' = lookup
      /\ orphaned' = orphaned
      /\ m_registeredInvokers' = [m_registeredInvokers EXCEPT ![n] = owner]
  BY DEF ChangeMap, cmdVars
<1>3. CASE Covered(w)
  <2>1. \A k \in AppNames : m_registeredInvokers[k] # NoThread =>
            m_registeredInvokers'[k] # NoThread \/ k \in withdrawn'
    BY <1>1, <1>2
  <2>2. withdrawn \subseteq withdrawn'
    OBVIOUS
  <2> QED BY <1>2, <1>3, <2>1, <2>2 DEF Covered, Wire
<1>4. CASE w = Wire(n) /\ owner # NoThread
  <2>1. w \in AppNames => Wire(w) = w
    BY <1>4, RegConstants DEF Wire
  <2>2. w \in AppNames => w = n
    BY <1>4, <2>1, RegConstants
  <2>3. m_registeredInvokers'[n] # NoThread
    BY <1>1, <1>2, <1>4
  <2> QED BY <2>1, <2>2, <2>3 DEF Covered, Wire
<1>5. Covered(w) \/ (w = Wire(n) /\ owner # NoThread)
  <2>1. (EntryNames \cup MailNames \cup JobNames)' = EntryNames \cup MailNames \cup JobNames
    BY <1>2 DEF EntryNames, MailNames, JobNames
  <2>2. \A v \in SendingNames' : v \in SendingNames \/ (v = msg.name /\ msg.kind = "reg")
    BY <1>1 DEF SendingNames
  <2> QED BY <2>1, <2>2 DEF HandlerInv
<1> QED BY <1>3, <1>4, <1>5

\* A step that takes the names it leaves from those there were.
LEMMA FewerNamesHandlers ==
    ASSUME HandlerInv,
           (EntryNames \cup MailNames \cup SendingNames \cup JobNames)'
               \subseteq EntryNames \cup MailNames \cup SendingNames \cup JobNames \cup {Unnamed},
           UNCHANGED <<m_registeredInvokers, withdrawn, orphaned>>
    PROVE  HandlerInv'
  BY DEF HandlerInv, Covered

LEMMA SentHandlers ==
    ASSUME TypeInv, HandlerInv, NEW t \in Thread, Sent(t) \/ Unsent(t), SendFrame
    PROVE  HandlerInv'
<1>1. sending \in [Thread -> AppMsg \cup {NoMsg}] /\ mail \in Seq(AppMsg)
  BY DEF TypeInv, RegTypeOK
<1>2. sending[t] \in AppMsg /\ sending[t] # NoMsg
  BY <1>1 DEF Sent, Unsent
<1>3. SendingNames' \subseteq SendingNames
  BY <1>1 DEF SendingNames, Sent, Unsent
<1>4. MailNames' \subseteq MailNames \cup SendingNames
  <2>1. CASE mail' = mail
    BY <2>1 DEF MailNames
  <2>2. CASE mail' = Append(mail, sending[t])
    <3> SUFFICES ASSUME NEW k \in 1..Len(mail'), mail'[k].kind = "reg"
                 PROVE  mail'[k].name \in MailNames \cup SendingNames
      BY DEF MailNames
    <3>1. CASE k \in 1..Len(mail) /\ mail'[k] = mail[k]
      BY <3>1 DEF MailNames
    <3>2. CASE mail'[k] = sending[t]
      BY <1>2, <3>2 DEF SendingNames
    <3> QED BY <1>1, <1>2, <2>2, <3>1, <3>2
  <2> QED BY <2>1, <2>2 DEF Sent, Unsent
<1>5. EntryNames' = EntryNames /\ JobNames' = JobNames
  BY DEF SendFrame, EntryNames, JobNames, jobVars, cmdVars
<1> QED BY <1>3, <1>4, <1>5, FewerNamesHandlers DEF SendFrame

LEMMA ReceivesHandlers == ASSUME TypeInv, HandlerInv, ClidReceives PROVE HandlerInv'
<1>1. PICK msg \in AppMsg : msg = Head(mail)
  BY TailOfMail DEF ClidReceives
<1>2. /\ msg = mail[1] /\ 1 \in 1..Len(mail)
      /\ \A k \in 1..Len(mail') : k + 1 \in 1..Len(mail) /\ mail'[k] = mail[k + 1]
  BY <1>1, TailOfMail DEF ClidReceives
<1>3. MailNames' \subseteq MailNames
  BY <1>2 DEF MailNames
<1>4. EntryNames' \subseteq EntryNames \cup MailNames \cup {Unnamed}
  <2>1. cmds \in [CmdSlot -> Command]
    BY DEF TypeInv, CmdInv, CmdTypeOK
  <2>2. msg.kind = "reg" => msg.name \in MailNames
    BY <1>2 DEF MailNames
  <2>3. \/ cmds' = cmds
        \/ msg.kind = "reg" /\ \E i \in CmdSlot :
             cmds' = [cmds EXCEPT ![i] = [name |-> msg.name, mbox |-> msg.mbox]]
        \/ \E i \in CmdSlot : cmds' = [cmds EXCEPT ![i] = FreeCmd]
    BY <1>1, SlotChange DEF ClidReceives
  <2> QED BY <2>1, <2>2, <2>3 DEF EntryNames, FreeCmd
<1>5. SendingNames' = SendingNames /\ JobNames' = JobNames
  BY DEF ClidReceives, appVars, jobVars, SendingNames, JobNames
<1> QED BY <1>3, <1>4, <1>5, FewerNamesHandlers DEF ClidReceives, appVars

LEMMA JobsHandlers == ASSUME TypeInv, HandlerInv, Jobs PROVE HandlerInv'
<1>1. EntryNames' = EntryNames /\ MailNames' = MailNames /\ SendingNames' = SendingNames
  BY JobsSteps DEF JobsFrame, EntryNames, MailNames, SendingNames, cmdVars, appVars
<1>2. JobNames' \subseteq JobNames \cup EntryNames \cup {Unnamed}
  <2>1. ASSUME NEW m \in Mbox, NEW w \in jobs'[m]
        PROVE  w \in JobNames \cup EntryNames
    BY JobsSteps DEF JobNames, EntryNames, TypeInv, RegTypeOK
  <2>2. lookup' \in JobNames \cup {Unnamed}
    BY JobsSteps DEF JobNames, NoJob
  <2> QED BY <2>1, <2>2 DEF JobNames
<1> QED BY <1>1, <1>2, JobsSteps, FewerNamesHandlers DEF JobsFrame, appVars, historyVars

\* A restart orphans the names that the daemon has or will be told.
LEMMA RestartHandlers == ASSUME TypeInv, HandlerInv, Restart PROVE HandlerInv'
<1> SUFFICES ASSUME NEW w \in (EntryNames \cup MailNames \cup SendingNames \cup JobNames)',
                    w \in AppNames \ {Unnamed}
             PROVE  Wire(w) = w /\ w \in orphaned'
  BY DEF HandlerInv, Covered, Wire
<1>1. /\ SendingNames' = {} /\ JobNames' \subseteq {Unnamed}
      /\ EntryNames' = EntryNames /\ MailNames' = MailNames
  <2>1. \A v \in JobNames' : v = Unnamed
    BY DEF Restart, JobNames, NoJob
  <2>2. SendingNames' = {}
    BY DEF Restart, SendingNames
  <2>3. EntryNames' = EntryNames /\ MailNames' = MailNames
    BY DEF Restart, EntryNames, MailNames, cmdVars
  <2> QED BY <2>1, <2>2, <2>3
<1>2. w \in EntryNames \cup MailNames /\ Wire(w) = w
  BY <1>1 DEF HandlerInv, Covered
<1>3. CASE w \in EntryNames
  BY <1>2, <1>3, RegistrantsEmpty DEF EntryNames, Restart
<1>4. CASE w \in MailNames
  <2>1. PICK k \in 1..Len(mail) : mail[k].kind = "reg" /\ mail[k].name = w
    BY <1>4 DEF MailNames
  <2>2. mail[k] \in AppMsg /\ GoodMsg(mail[k])
    BY DEF TypeInv, RegTypeOK, GoodMsgs
  <2>3. mail[k].app \in AppNames /\ Wire(mail[k].app) = Wire(w)
    BY <1>2, <2>1, <2>2, AppMsgFields DEF GoodMsg
  <2>4. mail[k].app = w
    BY <2>3, RegConstants
  <2> QED BY <1>2, <2>4 DEF MailAbout, Restart
<1> QED BY <1>2, <1>3, <1>4

LEMMA RegNextHandlers == TypeInv /\ HandlerInv /\ [RegNext]_regVars => HandlerInv'
<1> SUFFICES ASSUME TypeInv, HandlerInv, [RegNext]_regVars PROVE HandlerInv'
  OBVIOUS
<1>1. ASSUME NEW t \in Thread, NEW n \in AppNames, registerCmdHandler(t, n)
      PROVE  HandlerInv'
  <2>1. RegisterMsg(n, t) \in AppMsg /\ RegisterMsg(n, t).name = Wire(n) /\ t # NoThread
    BY RegisterMsgGood, RegConstants DEF TypeInv
  <2>2. /\ ChangeMap(t, n, t) /\ sending' = [sending EXCEPT ![t] = RegisterMsg(n, t)]
        /\ withdrawn' = withdrawn
    BY <1>1 DEF registerCmdHandler
  <2> QED BY <2>1, <2>2, ChangeMapHandlers
<1>2. ASSUME NEW t \in Thread, NEW n \in AppNames, deregisterCmdHandler(t, n)
      PROVE  HandlerInv'
  <2>1. PICK w \in Names \cup {Unnamed} : sending' = [sending EXCEPT ![t] = DeregisterMsg(n, w)]
    BY <1>2 DEF deregisterCmdHandler
  <2>2. DeregisterMsg(n, w) \in AppMsg /\ DeregisterMsg(n, w).kind = "dereg"
    BY DeregisterMsgGood
  <2>3. ChangeMap(t, n, NoThread) /\ withdrawn' = withdrawn \cup {n}
    BY <1>2 DEF deregisterCmdHandler
  <2> QED BY <2>1, <2>2, <2>3, ChangeMapHandlers
<1>3. CASE App
  BY <1>1, <1>2, <1>3, SendSplits, SentHandlers DEF App
<1>4. CASE Jobs
  BY <1>4, JobsHandlers
<1>5. CASE ClidReceives
  BY <1>5, ReceivesHandlers
<1>6. CASE Restart
  BY <1>6, RestartHandlers
<1>7. CASE UNCHANGED regVars
  <2>1. UNCHANGED <<cmds, mail, sending, jobs, lookup, m_registeredInvokers, withdrawn, orphaned>>
    BY <1>7 DEF regVars, cmdVars, appVars, jobVars, historyVars
  <2> QED BY <2>1, FewerNamesHandlers DEF EntryNames, MailNames, SendingNames, JobNames
<1> QED BY <1>3, <1>4, <1>5, <1>6, <1>7 DEF RegNext

\* A job that the daemon forwarded is dropped for want of a handler
\* (cmdRegisterImpl.cc:196) only for a clipped name, a name whose handler
\* had been taken away, or after a lookup that the map's change disturbed.
THEOREM JobsFindTheirHandlers == RegSpec => JobsFindHandlers
<1>1. ASSUME TypeInv, HandlerInv, HandlerMissed
      PROVE  lookup \notin AppNames \/ lookup \in withdrawn \cup orphaned \/ disturbed
  <2>1. lookup # Unnamed /\ (~HasHandler(lookup) \/ disturbed)
    BY <1>1 DEF HandlerMissed, LookupEnds, NoJob
  <2>2. lookup \in JobNames
    BY DEF JobNames
  <2>3. Covered(lookup)
    BY <1>1, <2>2 DEF HandlerInv
  <2> QED BY <2>1, <2>3 DEF HasHandler, Covered
<1> QED BY <1>1, RegTypeInductive, RegInitHandlers, RegNextHandlers, PTL
      DEF RegSpec, JobsFindHandlers
=============================================================================
