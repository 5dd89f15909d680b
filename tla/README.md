# cli-daemon: TLA+ models, model checking and proofs

cli-daemon lets a user run commands inside running applications. A **shell**
(`sw/shell`) connects over TCP to the **clid** daemon (`sw/clid`) of a host;
clid forwards each command over ITC mailboxes to the application that
registered it through the **cmdif** library (`sw/cmdif`), and sends the
application's answer back to the shell. This directory models the system in
TLA+, checks the models with TLC and proves theorems about them with TLAPS.

Six parts are built. The *daemon* is the one process that every shell and
every application shares: its state (two arrays, two search trees, two
counters, timers and descriptors) is changed by handlers whose order nobody
controls. The shell's *session* is the other end of one connection: what it
reads after a Ctrl-C, an expiry or a lost daemon depends on what is still on
the way. The shell's *host table* is data that two threads share under a mutex.
Its *prompt* takes keys apart into characters and keeps a linked history with a
cursor. An application's *registration* is a map that several threads change,
and messages to the daemon sent after the mutex is released. Its *command
table* turns syntaxes into a graph in which arguments look for their handler.

## Inventory

| Component | State it keeps | Operations | Talks to |
| --- | --- | --- | --- |
| clid select loop (`clid.c` `main`) | `fdset` for the current pass | build the set, select, accept, one ITC message, per slot timer and socket | everything below |
| clid client table | `clients[]` (socket, timer, job), `client_tree`, `m_job_id` | accept, release, start a job, answer a job, expire a job | shells (TCP), timers |
| clid command registry | `cmds[]`, `cmd_tree`, `cmd_count` | register, deregister, look up, list | applications (ITC) |
| shell session (`shell.c`) | `m_active_fd`, `m_is_connected`, remote commands and their tree, `m_is_sigint` | connect, disconnect, execute, Ctrl-C | clid (TCP) |
| shell host table | `m_remote_hosts[]`, its tree, alive timers, a mutex | UDP thread: learn, refresh, expire; main thread: scan, connect | UDP broadcasts |
| shell history and line editor (`read_input_cmd`) | line and cursor, queue of 50 lines with a search cursor, escape counters | one character: insert, move, erase, Up, Down, Enter, Ctrl-C | the terminal |
| cmdif registration (`cmdRegisterImpl.cc`) | map of invokers under a mutex, clid's mailbox | register, deregister, handle a job | clid (ITC), threads |
| cmdif jobs (`cmdJobImpl.cc`) | job id, arguments, output | `done` | clid (ITC) |
| cmdif table and syntax graph (`cmdTableImpl.cc`, `cmdSyntaxGraph.cc`) | graph of nodes per command, handlers on nodes, a mutex | add a command's syntaxes, find a handler, print a usage text | application threads |

What makes each of them correct:

* **client table**: no descriptor leaks or gets two owners; every connected
  client can be reached through the tree; a job is never left without its
  timer; two clients never wait for the same job; an answer goes to the shell
  that asked, once.
* **command registry**: a registered command stays in the tree; the list fits
  its buffer and announces what it carries; no name is registered twice.
* **select loop**: no handler runs on a stale bit; nobody starves.
* **shell session**: the reply printed is the reply to the command typed; the
  prompt tells the truth about the connection.
* **host table**: both threads always release the mutex; a host that announces
  itself stays listed.
* **line editor**: every key does what it says, whatever was typed before it;
  the history is a list of the last lines, and the arrows stand on one of them.
* **cmdif registration**: the library's map and the daemon's registry agree
  once the messages have arrived; every job finds its handler.
* **syntax graph**: a command line is accepted exactly when some syntax of the
  command describes it, and then runs that syntax's handler; a usage text ends.

Hard behaviour: stale `fd_set` bits within a pass; descriptors, slots and job
ids that are reused; late, repeated and missing answers; timers that fire
beside answers; shells that vanish with unread data; search trees whose keys
are changed in place or searched with another comparator than the one that
built them; calls of two threads whose messages overtake each other; an
application that starts again while the daemon remembers its earlier life; a
Ctrl-C in the middle of an escape sequence; syntaxes that share nodes. `PROJECT.json` lists every hazard with its line.

## Modules

| Module | Models | Remarks |
| --- | --- | --- |
| `SearchTree` | `tfind`, `tsearch`, `tdelete` of `<search.h>` (external) | used by all four tables |
| `ClidCommands` | the command registry | has its own specification `CmdSpec` |
| `Kernel` | descriptors, timerfds and TCP connections (external) with the shell's actions on them | |
| `ClidClients` | the client table and its handlers | EXTENDS Kernel, SearchTree |
| `Clid` | the loop of `main`, the receive paths, the shells and applications around the daemon | EXTENDS ClidClients, ClidCommands |
| `JobService` | what the daemon promises its shells | `Clid` implements it |
| `ShellSession` | the shell's main thread on its connection, with the table of remote commands, and the daemon's end of it | EXTENDS SearchTree |
| `HostTable` | the table of remote hosts, the UDP thread and the main thread's scan and connect | EXTENDS SearchTree |
| `LineEditing` | what the prompt promises its user | `LineEditor` implements it |
| `LineEditor` | `read_input_cmd` and the history queue | |
| `CmdRegister` | the invoker map and its threads, the messages to the daemon, jobs on their way to a handler | EXTENDS ClidCommands |
| `CmdSyntax` | what a syntax means to its writer: a tree, its text and its sentences | the reference for the sentences of a text |
| `SyntaxGraph` | a command's graph: building, matching, usage texts, as operators | |
| `CmdTable` | the table of one command, from its registration to a call | EXTENDS SyntaxGraph |
| `CmdSentences` | the table measured by the sentences of its syntaxes | EXTENDS CmdTable |
| `MC_clid_commands`, `MC_clid`, `MC_shell`, `MC_hosts`, `MC_editor`, `MC_register`, `MC_table` | instances for the runs | |
| `SearchTree_proofs`, `ClidCommands_proofs`, `Clid_proofs`, `ShellSession_proofs`, `HostTable_proofs`, `CmdRegister_proofs`, `LineEditor_proofs`, `CmdTable_proofs` | theorems | |

### Search trees

A node is a pointer into an array, and the array's contents are the keys, so a
key can change while its node is linked. `clid.c` also searches `client_tree`,
which is ordered by socket, for job ids (line 1120) and for timer descriptors
(line 1153), and clears a key before `tdelete` (lines 662/675 and 1072/1075).
The result of such a search depends on the shape of the tree. POSIX fixes the
in-order sequence and leaves the shape open, so `SearchTree` keeps the sequence
and allows every outcome some shape has: a search can stop at any node whose
key is equal (`Hits`), and can fall into any gap whose left neighbour is
smaller and whose right neighbour is larger (`Gaps`). It is one of these two for
every path from the root. Where the tree is sorted by the key the outcome is
unique, which is the theorem `SortedSearchIsExact`. The freedom is also what
makes small instances tell something: with two or three nodes every relative
position of two clients in a large balanced tree already occurs.

`tsearch` is always called right after a `tfind` of the same key has missed, on
the same nodes, so `Inserts` can only stop at a node of the very slot that has
just been given that key (left behind by an earlier `tdelete` that missed).

### The daemon

One pass of `main`'s loop is `BuildFdSet`, `SelectReturns`, and then a run
through the *stages*: accept (1), ITC (2), and for slot i its timer (2i+1) and
its socket (2i+2). Each handler is one action, because the daemon is a single
process and a handler does not wait for anybody; the actions of shells,
applications and the clock come between them. `Selected(p)` is the `FD_ISSET`
test of stage p *as the code evaluates it*: on the current contents of the
slot, with the bits of the current pass. `At(p)` skips the stages that are not
selected. So a slot that an earlier stage released and another filled, or a
descriptor number that was closed and handed out again, is tested against an
old bit, as in the code.

Handlers include all they call. `release_shell_client_resources` does nothing
when its lookup misses, otherwise it closes both descriptors, clears the slot and runs
`tdelete` with the cleared key. `handle_receive_exe_cmd_reply` sends, and only
if that succeeded "stops" the timer by arming it for the present time, which
makes it fire (line 1139). `is_job_timer_running` (line 189) is the reason why
only *armed* timers are in `Watched`. `handle_accept_new_connection`,
`handle_job_timer_expired` and `recv` can end the daemon (`running' = FALSE`);
the results of the ITC handlers are ignored, as in lines 1002-1016.

A connection's end is the state `peer` of `Kernel`: an orderly close is read as 0
and makes the first send succeed and the second fail; a close with unread data
is a reset, reported once.

| Model | Code |
| --- | --- |
| `clients`, `client_tree`, `m_job_id` | `clid_inst.clients`, `clid_inst.client_tree`, `m_job_id` |
| `cmds`, `cmd_tree`, `cmd_count` | the fields of `clid_inst` with these names |
| `fdset`, `stage` | the local `fdset` of `main`, and where `main` is in its loop |
| `running` | FALSE after `exit(EXIT_FAILURE)` |
| `sock`, `alarm`, `peer`, `backlog`, `c2s`, `s2c` | the kernel's view of sockets and timers |
| `itc`, `atApp` | clid's mailbox, the jobs applications hold |
| `sent` | history of the environment, for a bound only |

The field `asker` of a job in `atApp` and `itc` is not in the messages; it
records which connection asked, so that `AnswerReachesAsker` can be stated. No
action of the daemon reads it.

### The shell's session

The main thread is sequential, but it shares its connection with a daemon that
sends when it likes and with a user who may press Ctrl-C. `at` is where the
thread is: at the prompt, in the `recv` for a list or for an answer, in the
loop that adds listed commands, or in the loop that drops them. One action is
one `recv`, or one round of such a loop, with all that follows up to the next
one; the actions of the daemon come between them.

| Model | Code |
| --- | --- |
| `m_is_connected`, `m_active_fd`, `m_remote_cmds`, `m_remote_cmd_tree` | the static variables of these names |
| `at`, `todo`, `drop` | the program counter, and the loops' progress |
| `link`, `c2s`, `s2c` | the connection as the shell sees it |
| `job`, `waiting`, `timer` | the daemon's slot for this connection, as in `Clid` |
| `asked`, `gaveUp`, `twice`, `overread`, and `of` of a packet | history, read by properties and by `Crash` only |

* `Connect` and `ConnectInVain`: the prompt changes whatever becomes of the
  connect (line 1042), so after a refused one it says connected while
  `m_active_fd` is -1.
* `ReadList` allows for what `ListCountIsExact` shows of the daemon: a list may
  announce entries that it does not carry, and the shell then reads beyond its
  buffer; `junk` is any entries, or the end of the process (`Crash`). Names of
  a list may repeat, since the daemon can register a name twice.
* `Exec` enters `recv` whether the send failed or not (lines 237, 238). The
  shell does not ignore SIGPIPE, so a send into a dead connection may end it
  (`KilledBySend`).
* `CtrlC`: the handler is installed without SA_RESTART, so the `recv` fails
  with EINTR and the prompt is back; the daemon is told nothing.
* `DropSlot` unlinks by name. The `tdestroy` after the loop frees what is left
  but does not reset the root; if anything is left (only after an over-read),
  later lookups use freed nodes, which is again `Crash`.

### The shell's host table

Two threads and one mutex. A critical section that cannot block is one action
guarded by `mutex = "free"`. The removal loop of the UDP thread takes the mutex
(`LockForRemoval`) and then one round per step, because the main thread may use
a pointer into the table meanwhile (`ConnectChooses` keeps it, `ConnectUses`
reads through it after the unlock). From then on the main thread is in the
network (`at = "remote"`): `connect` blocks (line 1448), and so does the `recv`
of the command list, which has no timeout (line 1511); `RemoteAnswers` is the
return from there, which may never come. `ConnectRefuses` and `TableFull` are the
two paths that return with the mutex held. `fdset` is what `select` left of the
set built at the top of the pass, so a timer restarted later in the pass still
has its bit.

| Model | Code |
| --- | --- |
| `m_remote_hosts`, `m_remote_host_tree`, `mutex` | the static variables; `m_remote_hosts_mtx` and who holds it |
| `at`, `index` | the main thread in `local_scan` and `local_connect` |
| `udp`, `fdset`, `slot` | the UDP thread in `udp_loop` and its locals |
| `alarm` | the kernel's timers: none, armed, fired |
| `inbox`, `announced` | datagrams, and how many there were, for a bound |
| `new` | history: slots filled in this pass |

Hosts are assumed to announce themselves in the gateway's format. A datagram of
another format would leave `hostname` uninitialised (line 1242 does not look at
the result of `sscanf`). `connect --ip` does not touch the table, and the
process's exit, which ends both threads, is left out.

### The shell's prompt

`PressKey` chooses a key, which is the sequence of characters a terminal sends
for it; the `Get` actions are the rounds of the `getchar` loop, one character
each. The code recognises escape sequences by counting: `arrow_count` goes
from ESC to `[` to a letter, `del_count` from `3` to `~`. A letter that ends a
sequence is also a letter the user may type, and most rounds end by clearing
the counters (`EndCounts`), but Space and Backspace go on with the next
character before that. `GetInterrupt` is Ctrl-C, which may come between any two
characters, also within a sequence; the terminal then drops what it has not
delivered. The line and the counters end with it, the position in the history
does not (lines 591-603).

| Model | Code |
| --- | --- |
| `line`, `i` | the buffer and the local of these names in `read_input_cmd` |
| `arrow_count`, `del_count`, `is_reached_tail_head` | the locals of these names (`home_end_count` is set and cleared with `arrow_count`) |
| `head`, `tail`, `search`, `m_num_hist_cmd` | `m_hist_cmd_queue` and its counter |
| `next`, `prev`, `cmd`, `allocated` | the entries on the heap, and which of them are not freed |
| `halted` | an entry that is null or freed was followed |
| `key`, `rest` | the terminal |
| `entered`, `ups` | a bound, and history for `UpGoesBack` |

`LineEditing` is the editor a user has in mind: keys, a line, a list of lines.
Its `Recall` leaves open which line an arrow shows; `UpGoesBack` says it for
Up, also for the first Up after a Ctrl-C, which goes on from the line shown last.
The promise has two exceptions, stated as actions of `LineEditing`. The
characters `3` and `~` are also the end of the Delete key's sequence (lines
480, 483): neither is ever inserted; a `3` swallows the next character, with
spaces and Backspaces between left alone, and a `~` in that place deletes.
This is at odds with the tokenizer, which accepts `3` as it does every digit
("Any characters except for 0-9, a-z, A-Z and '-' are not allowed", line 775):
`connect --idx 3` (line 874) and an address with a 3 cannot be typed. The run has
both characters among those typed, so the exceptions are all there are.

### Command registration

A call is two actions: `registerCmdHandler` (or `deregisterCmdHandler`) up to
the unlock, and `SendMessage` or `SendFails`. Between them other threads call,
the daemon receives, jobs arrive. `mail` is the daemon's mailbox, and
`ClidReceives` hands its first message to the registry's own handlers, those
`Clid` runs. A deregistration's message is allocated without room for the name
(line 109), so that the daemon reads the name, none, or whatever its own memory
holds there, which may be the name of another command: `deregisterCmdHandler`
chooses any of these, and `Misled` adds the names concerned to `unheard`. `TakeJob` and `LookupEnds`
are the start and the end of `handleExeCmdRequest`; the map is read without the
mutex, so a change in between (`disturbed`) makes either result possible.
`Restart` gives the application new mailboxes and an empty map; the daemon
hears nothing of it.

| Model | Code |
| --- | --- |
| `m_registeredInvokers`, `m_clidMboxId` | the members of these names; of the latter only whether the daemon was located |
| `sending` | a thread between the unlock and the end of its call |
| `listener` | the thread that ran `init()` and registered the job handler with its event loop |
| `cmds`, `cmd_tree`, `cmd_count`, `mail` | the daemon's registry and mailbox |
| `jobs`, `lookup` | the jobs in an application's mailboxes, and the one being looked up |
| `restarts`, `itc_current_mbox` | the application's life, and a thread's mailbox in it |
| `raced`, `unheard`, `orphaned`, `withdrawn`, `disturbed` | history; only `disturbed` guards an action |

### Command table

A syntax is a sequence of names and brackets (`getNextToken` is taken to work).
`SyntaxGraph` translates the functions of `GraphNode` and `CmdSyntaxGraph` as
operators on a record of three sequences (names, subnodes, handlers), the C++
pointers being positions. `splitOutSyntax` calls itself at every bracket; here
it is a run over the tokens, and `calls` keeps for each open bracket what its
caller's stack frame keeps, `lastNodes` and `newLastNodes`.
`appendNewNodeToLastNodes` links the nodes in the code's order. A handler stands for its `funcName`: where a node has a
handler of the same one, the code keeps the old (lines 293-296) and `Attach`
puts the new, which is the same.
`evaluateCommandArguments` recurses over the arguments: `R[n]` says where the
last n of them lead to from each node, with `Follow`'s preference for exact
names. `UsageEnds` says whether `printNextPossibleArguments`, which goes to one
node after another, has a last one. All are recursive functions, about which
can be proved. `CmdTable` adds syntaxes one by one and then takes a call.

What a syntax *means* is a set of sentences, and `CmdSentences` measures the
table by them. `Meaning` reads a text from left to right: it holds the beginnings
of sentences that end at the current token and, for each open bracket, those
before it and those through its alternatives so far. It knows nothing of graphs,
nodes or sharing, and, being a recursive function, can be proved about.
That it says what the shell's help explains is checked against `CmdSyntax`,
where a syntax is a tree of options and alternatives and its sentences a
RECURSIVE operator on trees: `TextsMeanTrees`, which TLC evaluates in
the runs of `MC_table`, compares the two for the trees of the instances and for
182 deeper ones.

The three properties about sentences speak of *plain* tables: no syntax repeats a
name or has the command's, and two syntaxes may share leading names (`show port`,
`show addr`) but no later ones. Where later names are shared, nodes are shared
too, and the code promises less: a sentence may be lost, as the run
`syntax_linked` shows, or one be accepted that no syntax has (`c d e`, of
`{ b | c } d` and `b d [ e ]`). `RunsOnlySentences` says what may run, `SentencesRun`
and `ValuesRun` what must: a sentence of names its last handler, and a sentence
with a value for each `<v>` some handler. A value may be anything but a name of
the table, since names are looked for first, and it may fit several nodes, of
which the code has to find one that leads on.

### What is abstracted

* A command name is its rank in `strcmp` order, 0 is the empty name; arguments,
  outputs, descriptions and result codes do not appear.
* A packet arrives whole. The code would block in `recv` for the rest of one;
  `send` never blocks on a full buffer.
* A line stays below the 256 characters of a history entry, and the screen does
  not appear.
* A handler is known by the thread that registered it; what it does, and the
  arguments of a job, are left out.
* Calls that fail only for lack of memory or descriptors do not fail
  (`malloc`, `timerfd_create`, `timerfd_settime`); `accept` and `select` are
  not interrupted.
* In `Clid`, applications send only what the library sends (`CmdRegister` has
  the library). They may answer a job more than
  once or never, and hold it as long as they like.
* The mailbox of an application may be gone: the forward then fails silently.

## Runs

| Run | Instance | Properties |
| --- | --- | --- |
| `cmd_register` | 2 threads, 3 names of which one is clipped, 2 slots, 3 calls, 1 restart, fairness | `RegTypeOK`, `RegisteredInTree`, `CountCoversEntries`, `ExactUntilFirstDereg`, `DaemonFollowsMap`, `JobsFindHandlers`, `Settles` |
| `clid` | 3 shells, 2 slots, 1 command, 2 requests (list or command) | `TypeOK`, `JobHasTimer`, `JobsDistinct`, `StageHasInput`, `FdsOwned`, `ConnectedInTree`, `AnswerReachesAsker`, `ExitsForCause`, `ImplementsJobService` |
| `clid_live` | 2 shells, 2 slots, 1 command with any number of deregistrations, 1 counted request and any number of lists, fairness | `Responsive` |
| `clid_list` | the registry alone: 3 slots, 4 names, 6 registrations | `ListCountIsExact` is violated |
| `clid_late_reply` | 2 shells waiting for a job each | `WaitedJobsAreFound` is violated |
| `shell_session` | 3 slots, 3 names, 4 requests, lists of up to 3 entries and 1 announced in excess | `SessionTypeOK`, `RepliesInStep`, `NoStrayPacket`, `ListedIsFound`, `LocalPromptIsClean` |
| `shell_ctrl_c` | 1 slot, 1 name, 3 requests | `GivenUpIsOver` is violated |
| `host_table` | 2 slots, 3 hosts, 2 timers, 3 announcements, fairness | `HostTypeOK`, `TableAgrees`, `NewHostsStay`, `SilentHostsLeave`, `CommandsReturn` |
| `host_connect` | 2 slots, 1 host, 1 announcement, fairness | `ListedConnects` is violated |
| `editor` | history of 3 lines, 4 lines entered, lines of up to 2 characters out of space, `A`, `3` and `~`, all keys | `EditorTypeOK`, `QueueIsList`, `ShortHistoryOnly`, `UpGoesBack`, `ImplementsLineEditing` |
| `syntax_graph` | every table of 1 or 2 out of 92 syntaxes, 2 handlers, 19 lists of arguments | `TableTypeOK`, `RunsOnlySentences`, `SentencesRun`, `ValuesRun`, `StuckOnlyInCycles`, `NeverLost` |
| `syntax_linked` | 2 syntaxes | `LinkedToAll` is violated |

**What the passing runs show.** The registry never loses a registered command,
although its deletions search with an emptied name; it is exact up to the first
deregistration, and only up to there (afterwards a lookup may miss a registered name,
and a name may be registered twice). The list buffer is always large enough.
In the daemon, client table and open descriptors agree at every moment; a
connected client keeps its node; a job has its timer and is nobody else's; an
answer reaches only the shell that asked, whatever was closed and reused in
between, although the lookup of its job is not reliable; and no handler is
ever run by a stale bit without input. It exits for a full table, a reset and
an expiry notice that cannot be sent, and for nothing else. The daemon implements
`JobService`: each connection waits for at most one job, an answer comes only
to a connection that waits and ends its wait, and one client's events never touch
another's wait. No request stays on its socket: as long as any are there the loop
goes on taking them, even if the other shell asks for lists for ever and an
application deregisters and answers for ever.

A shell that never gave up a wait, and was not sent both an answer and an
expiry for one job, reads the answer to the command it sent, although nothing
in a packet says which; a new connection starts in step again. No packet of the
wrong kind ever meets a `recv`, even after a Ctrl-C during the list (no command
can be executed then, since none is known). Every command that `help` shows is
found when typed, also with a name listed twice, and the local prompt means
that socket, table and tree are empty.

In the host table, table, tree and timers agree after every step of both
threads. A host just entered cannot be removed by the bit of an old timer with
the same number. Hosts that fall silent leave, unless the mutex was lost or the
UDP thread has ended; a scan returns and a connect gets as far as the network,
unless the mutex was lost. The exceptions are the code's, and the properties
name them. That a connect comes back from the network is promised by nothing: it
waits for the remote side as long as that takes.

At the prompt every key but `3` and `~` does what it says, also after a Ctrl-C
within an escape sequence, and these two do what `LineEditing` says instead. Up
goes back line by line from the last Enter on, also across a Ctrl-C. The history is a list of the last lines, from which the oldest is
dropped, and the arrows stand on one of its entries. They lose the end of the
list only when it has one line (a second Up or Down follows a null pointer) or
two (Down at the oldest steps behind the newest); `ShortHistoryOnly` says that
these two are all, and that longer histories are safe.

The daemon ends up with what the invoker map says of a name, although the
messages follow the unlock, unless calls about the name overlapped, a message was
not sent or was read with another name or none, the daemon's array or tree failed it, or an earlier
life of the application left an entry. A job is dropped without an answer only
for a clipped name, for one whose handler had been taken away, or when the map
changed during the lookup. The registry's own invariants hold with such messages
too.

In a table whose syntaxes repeat no name and share no more than leading names,
handlers run only for arguments that begin with a sentence of their syntax, every
sentence without values in `< >` runs the handler given for it last, and one with
values runs a handler, also where the first node that takes a value leads nowhere.
In any table, what ran when
only names were compared still runs after more syntaxes are added, and a usage
text ends unless the syntaxes disagree on the order of two or more names; then it
may go round for ever, with the mutex held.

**What the violated ones show.**
`clid_late_reply`: the answer of a waiting shell can be dropped, because the
job id is searched in a tree ordered by socket; with two clients the search
from the root goes to the wrong side as soon as the younger socket has the
older job. The comment at that place lists three other reasons for a miss.
`clid_list`: after a deregistration the announced number of commands is larger
than the number sent, against the format in `tcp_proto.h`.
`shell_ctrl_c`: the daemon keeps the job of a command that was given up, and
its answer is printed for the next command; from then on each command is
answered by the one before.
`host_connect`: a refused index returns with the mutex locked; the next connect
or scan blocks, the UDP thread blocks, and only killing the shell helps.
`syntax_linked`: a node shared by several predecessors is not linked where a
subnode of its name is already there, so the handler of `a { b | c } d`, added
after `a c d b`, cannot be reached by `a c d`.

**Behaviour without a property.** No document promises the contrary of the
following, which the models have: a shell can be sent an answer and "Expired!"
for one job; the daemon, which ignores SIGPIPE to survive broken sockets, exits
when `recv` reports a reset; a timer that fires while the daemon is not in
`select` is never watched again; only the thread that constructed the library
serves jobs, so those for other threads' commands wait for their timeout.

**Bounds.** Connections and slots: two clients are needed for an answer to go
to the wrong one and for a tree to be searched wrongly; a third connection
makes a slot and its descriptors be reused, and finds the table full. `MaxFd`
leaves one descriptor more than all slots can hold. `MaxRequests = 2` lets one shell
replace its own job, or two shells wait in either order of socket and job id.
A run that counts requests ends, so `Responsive` would speak of a quiet daemon;
in `clid_live`, with `MaxPending = 1`, a list is counted only while another
request or reply is on its connection. So both shells may ask for lists for ever,
with at most one more request in flight, against a command and its
job. Deregistrations (`Deregs`) and repeated answers are not counted anywhere.
In `clid` these are left out (`Deregs = {}`, `MaxPending = 0`) to make room for the
third shell; deregistrations are in `cmd_register` and `clid_live`.
`MaxItc = 1` bounds the mailbox; messages still arrive in every order.
`MaxRegs` bounds accepted registrations, so that `cmd_count` stays finite; the
registry's theorems hold for any number of them and of slots. In
`cmd_register`, three calls are a registration, its deregistration and another
call, of the same or the other thread, of which a deregistration may be read with
any of the names in use; with the restart they fill two
slots with old and new entries; two messages in the mailbox suffice for one to
wait while the next is sent. `JobIdMod` is one more than the number of counted requests, and only these make jobs: the 64-bit
counter does not wrap in a run (`NoWrap`), and the wrap itself is the theorem
`NextJobIdSkipsIdle`. Connections and mailboxes are symmetric (nothing compares
them); the liveness runs use no symmetry.
In `shell_session`, three slots let a duplicate lie before, between and after
other names while slots are dropped one by one; four requests are a list and
three commands, or two connections with a command each; one entry in excess
already fills a slot with anything. In `host_table`, three hosts over two slots
overflow the table, three announcements let a host come, be refreshed and come
back on a reused slot, and `MaxFd = 1` makes descriptor numbers be reused at
once. In `editor`, four lines drop the first of three, and two characters let
the cursor stand inside a line; `A` both is typed and ends the sequence of Up, `3`
and `~` are typed and end the sequence of Delete, and a space skips the end of a round. In
`syntax_graph`, the syntaxes are nine parts (names, values, options,
alternatives, one nested) and all their pairs, a syntax of three names and one whose
brackets do not fit; two of them per table meet in every way two syntaxes can
share nodes; arguments go one beyond the longest sentence of most. The two
handlers are symmetric. `CHECK_DEADLOCK FALSE` is set
because the behaviours end where these bounds or the daemon's exit end them.

**Fairness** (`FairSpec`). `WF_vars(Daemon)`: the daemon is one process that
runs as long as it has something to do, and the operating system schedules it.
`WF_vars(running /\ Clock)`: time passes. In `HostTable`, `WF_vars(Main)` and
`WF_vars(UdpThread)`: both threads run when they can. Weak fairness is all a
pthread mutex gives; it is enough because the UDP thread blocks in `select`
once the announcements, finite in a run, are handled. Nothing is fair about
`RemoteAnswers`: the network need not answer.
`WF_vars(TimerExpires(d))`: time passes. In `CmdRegister`
(`RegFairSpec`), `WF_regVars(ClidReceives)`: the daemon takes its mail; and for
each thread, weak fairness of `SendMessage(t) \/ SendFails(t)`: a call that has
released the mutex comes to its end. Nothing is assumed of shells,
applications' calls, the user, hosts and signals. In `clid_live` lists,
deregistrations and answers can go on for ever, so weak fairness of the daemon as
a whole does not by itself make any single request be read: it is the order of the
stages, every one of which is visited in every pass, that does. The mutant `AtOnce`,
which starts a new pass after the first handler, starves a shell. `Responsive`
speaks of the requests on a socket: they are read one after another for ever, or
the socket becomes empty, or the daemon exits.

## Theorems

All are for every value of the constants that satisfies the named assumptions
(`SlotAssumption`, `JobIdAssumption`, `FdAssumption`, `CmdSlotsAssumption`,
`NamesAssumption`, `MboxAssumption`, `CountAssumption`, `RequestAssumption`,
`BoundsAssumption`; for the shell `RemoteSlotsAssumption`,
`RemoteNamesAssumption`, `SessionBoundsAssumption`; for the host table
`HostSlotsAssumption`, `HostsAssumption`, `TimersAssumption`,
`AnnouncedAssumption`; for registration `ThreadAssumption`, `WireAssumption`,
`MsgAssumption`; for the editor `HistoryAssumption`, `NodeAssumption`,
`TypedAssumption`, `NoKeyAssumption`; for the command table
`SyntaxAssumption`, `HandlerAssumption`, `ArgsAssumption`, `LimitAssumption`); TLC evaluates these in the runs. `Spec` contains the bounds as
guards (`NoWrap`, `MaxRequests`, `MaxPending`, `MaxRegs`, `MaxItc`, `MaxListed`, `MaxJunk`,
`MaxAnnounced`, `MaxSyntaxes`); their values are arbitrary, so the
theorems hold for behaviours of every length up to the wrap of the job counter and of
`cmd_count`.

| Theorem | States |
| --- | --- |
| `SortedSearchIsExact` | in a strictly sorted tree, a search for a key that is there cannot miss and has one result |
| `CmdTypeCorrect`, `RegisteredStaysInTree`, `ListBufferSuffices`, `RegistryExactUntilFirstDereg` | `CmdSpec => []` of `CmdTypeOK`, `RegisteredInTree`, `CountCoversEntries`, `ExactUntilFirstDereg` |
| `NextJobIdSkipsIdle` | the next job id is never 0, also when the counter wraps |
| `ClidTypeCorrect` | `Spec => []TypeOK` |
| `NoDescriptorLeaks`, `ConnectedStaysInTree`, `JobsAreTimed`, `JobsAreDistinct` | `Spec => []` of `FdsOwned`, `ConnectedInTree`, `JobHasTimer`, `JobsDistinct` |
| `AnswersReachAskers` | `Spec => AnswerReachesAsker` |
| `StagesFindTheirInput`, `DaemonExitsForCause` | `Spec => []StageHasInput`, `Spec => ExitsForCause` |
| `DaemonImplementsJobService` | `Spec => ImplementsJobService` |
| `SessionTypeCorrect` | `Spec => []SessionTypeOK` of the shell's session |
| `ListedCommandsAreFound`, `LocalPromptsAreClean`, `PacketsAreNeverStray`, `RepliesStayInStep` | `Spec => []` of `ListedIsFound`, `LocalPromptIsClean`, `NoStrayPacket`, `RepliesInStep` |
| `HostTypeCorrect`, `TableAlwaysAgrees`, `NewHostsAlwaysStay` | `Spec => []HostTypeOK`, `Spec => []TableAgrees`, `Spec => NewHostsStay` of the host table |
| `RegTypeCorrect`, `RegistryHoldsInUse` | `RegSpec => []RegTypeOK`, and the registry's three invariants with an application at the other end |
| `DaemonFollowsInvokers`, `JobsFindTheirHandlers` | `RegSpec => []DaemonFollowsMap`, `RegSpec => JobsFindHandlers` |
| `EditorTypeCorrect`, `HistoryStaysList`, `ArrowsFailOnShortHistory` | `EditorSpec => []` of `EditorTypeOK`, `QueueIsList`, `ShortHistoryOnly` |
| `UpShowsHistory` | `EditorSpec => UpGoesBack` |
| `EditorImplementsLineEditing` | `EditorSpec => ImplementsLineEditing`, whatever is typed |
| `TableTypeCorrect`, `StuckInCyclesOnly` | `TableSpec => []TableTypeOK`, `TableSpec => []StuckOnlyInCycles` |
| `NothingIsLost` | `TableSpec => NeverLost` |
| `HandlersNeedSentences` | `TableSpec => []RunsOnlySentences` |
| `SentencesAlwaysRun`, `ValuesAlwaysRun` | `TableSpec => []SentencesRun`, `TableSpec => []ValuesRun` |

**Registry.** `CmdInv` joins the type invariant with `RegisteredInTree`, the
count, and: if the count equals the number of entries then the tree is sorted
and holds exactly the entries. It is inductive because a `tdelete` for the empty
name can remove only nodes whose slot is free at that moment, and because the
count and the entries part company at the first deregistration for ever. The lemmas
`InsertsElements`, `DeletesElements` and `InsertKeepsSorted` of
`SearchTree_proofs` say what the tree operations can do to the nodes.

**Types of the daemon.** `TypeOK` is not inductive: an action uses
`ConnOf(i)`, the connection of a slot's socket, which is a connection only if
the descriptor is open, and `Head(itc)`, which is a message only if there is
one. `TypeInv` adds both: `SocketsHeld` (a connected slot's socket is open, and
no two slots share one) and `LoopInput` (the bits that matter for the mailbox and
the backlog are only there with input behind them).

**Client table.** `TableInv` is `FdsOwned`, `ConnectedInTree`, `JobHasTimer` and
`JobsDistinct` with `JobsIssued` (no client waits for a job above `m_job_id`),
which makes a new job differ from all that are waited for. A release is the
delicate step: after the slot is cleared the tree is searched for descriptor
-1, and what is removed has key -1, hence is no connected client.

**Answers.** `AskerInv` says that any job an application holds, or an answer in the
mailbox, that equals the job some client waits for was asked by that very
client's connection, and that such jobs have been issued. With `TableInv` it gives
that the client found by job id is the asker, although the lookup may miss.

**Bits and exits.** `PassInv` has three parts. `ConnsOnce`: a connection is on one
socket or once on the backlog, so a stage that reads one shell's request takes
nothing from another. `TimersHeld`: only a connected slot has a timer, so the slot
an accept fills has none. `BitsInv`: for every slot whose stage is still to come, a
set bit of the descriptor *now* in the slot has input behind it; and until the
accept no bit belongs to a free descriptor, so the socket accepted in this pass has
none. It is the stages' order that makes it inductive: a release or a new job
changes a slot whose stages are over. The theorem on exits needs the first two parts
and `TableInv`: a slot found by its timer is connected, to a shell that connected.

**Job service.** A connection is held by one slot at most (`ConnsOnce` and
`SocketsHeld`), so `Waiting` is the job of the slot that holds it
(`WaitsAreJobs`). Each handler then changes the map of waits at one connection
(`MapMoved`) or nowhere (`MapUnmoved`): an accept fills a slot without a job, a
release empties the only slot of its connection, a new job has an id nobody waits for
(`JobsIssued`), and an answer finds a client that waits, since no job has id 0.

**Session.** `SessionInv` joins four parts that need the type invariant and
partly each other. `CleanInv`: without a socket there is no daemon behind it,
and a disconnect has cleared the slots it has passed. `TreeInv`: unless a list
was over-read, the tree is sorted, has nodes of named slots only, and, except
during a disconnect, a node for every *name*; of two slots with one name only
one need have a node, and when the name is unlinked through the other slot the
node of this one goes. `StreamInv`: until the list is read, the connection
carries nothing but the list and no command is known (`Fresh`); afterwards it
carries only execute packets (`Working`). This is why no stray packet is ever
read. `StepInv`: with no wait given up and no double answer, nothing is on the
way while the shell does not wait (`Quiet`), and exactly one thing - request,
job or reply - while it does (`Open`).

**Host table.** `TableAgrees` is inductive with the types: a name that a search
misses is not in the sorted tree (from `SortedSearchIsExact`), so entering a
host keeps it sorted; a removal by name takes the slot's own node, since names are
unique. `NewHostsStay` needs `FreshBits`: up to the handler, the bits are those of
timers that are open, so the timer of a host entered now has none.

**Registration.** `TypeInv` joins the types with `CmdInv` and with what a
message says (`GoodMsgs`); a deregistration read without a name finds free slots at
most, and one read with another name removes what that name's own would, so
`CmdInv` holds (`DeregUnnamedInv`). `DaemonFollowsMap` speaks of the last
message about a name, which is not enough to see what the daemon makes of the
ones before it: a registration that finds the name taken is ignored.
`FollowInv` therefore adds, for names to which none of the four things has
happened, that one thread at most has a message to send (`OneSender`), that the
daemon has one entry at most (`OneEntry`), and that registrations and
deregistrations alternate, from the entries through the mailbox to the message not
yet sent (`Alternates`). It uses that different names stay different on the wire
(`WireAssumption`): of two long names with one beginning only one would be
registered. `HandlerInv` follows the names from a registration's message
over the entries and the jobs to the lookup: each has a handler, or has lost it
to a deregistration or a restart.

**Editor.** `EditorInv` has four parts. The types. `KeyInv`: the counters, the key and
the characters still to come fit together; at a key's first character no escape sequence
is counted, and each later character finds the count its sequence has reached. It
holds for a Ctrl-C anywhere, since the next line starts with fresh counters. The
counter for `3` may be left over from a `3` that was typed (the hazard at line
480), but the first character of a coded key clears it. `ListInv`: the entries in the order of `next` are distinct,
are all that is allocated, and `prev` leads back over them (`Linked`). Of the head's
own `prev` it says nothing, since it is left pointing at a freed entry. Dropping the oldest
entry frees what the *second* entry calls its predecessor: that this is the head
needs a history of two lines or more, which is why `HistoryAssumption` excludes
1. `SearchInv`: where the arrows stand, and that after n Ups it is n entries
from the tail. That a walk through `next` *is* the list (`LinkedIsWalk`) is an
induction over positions, by the least position where the two differ
(`LeastElement`). The refinement then says, for each character, that it changes nothing
`LineEditing` sees unless it is the last of its key, and what it does then. Between
keys, and at a key of one character, `del_count` is what `LineEditing` calls
`swallowing` (`Swallows`); within a coded key it belongs to that key.

**Command table.** `TableInv` says of the graph that it is well formed (`Graphs`:
subnodes are nodes, and those of one node differ in name), and of its edges that
they follow the texts (`Ordered`): nothing leads back to the command's node, and an
edge between other nodes joins two names that stand in this order in some
syntax. Both must hold for every prefix of a text, with any brackets open
(`TokenRead`): each last node, also those kept in `calls`, has a name that
was read already. A recursive function is got at by `Recursion` (it exists and
stays in a set that each step stays in) and `UpTo` (what holds at 0 and is
handed on holds up to n).

`NothingIsLost` rests on `SyntaxAdded`: the graph only grows (`Extends`: names and
earlier subnodes stay where they are, a handler is replaced but never
taken away). From the last argument to the first, a node from which names lead to a
handler leads to one in the grown graph (`FollowFinds`): an exact name is preferred
and unique. `StuckInCyclesOnly`: a usage text that is
still going after as many steps as there are nodes has been at some node twice
(`WalkMeetsItself`, by counting). It is not the command's node, since nothing leads
there, and so the edges of the circle give a set of names of which each stands
behind another in some syntax.

**Sentences.** The three theorems on sentences say that building the graph and
walking through it together do what the syntaxes say. A *way* (`IsWay`) is a
list of names that leads from the command's node to another; ways to a node are
what sentences become in a graph. The invariant `CallInv` says of a plain table
(`Means`): every name in the graph but the command's comes from a text that was not refused; the
leading names of such a text lead to a node that nothing else leads to; the
node at the end of *any* way x has the handler of the last definition with the
sentence x, or none if there is no such definition; and every sentence is a way. The
third part alone is not inductive: a new text could lead an old node to a
new sentence. It cannot in a plain table, because each of its names is either
new to the graph or one of the leading names, whose node has one way only
(`TextPlaced`). A new name makes one node below all last nodes, with no handler and no way out
(`FreshNameRead`), a known one moves on to its node (`KnownNameRead`), and
so the graph grows without a new way to an old node (`Grows`, `WayGrows`). With that the
splitting and the meaning are compared token by token (`TokenStep`): the ways to
the last nodes are the sentences' beginnings (`Agree`), also for the nodes kept
in `calls` for each open bracket, at any depth. For the whole text this is
`TextRead`, and attaching the handler to the last nodes gives it to the
sentences of this text and no others (`HandlersThen`). A way has one end
(`WayUnique`), since subnodes of a node differ in name. At the call, some
first part of the arguments fits a way to the node that `evaluateCommandArguments`
returns (`EvaluatedFits`), and arguments that are a way themselves, without
values in `< >`, lead to its end (`EvaluatedNames`). With values, several ways may
fit. From each node on a way to a node with a handler, what is left of the
arguments leads to a handler (`EvaluatedFinds`, from the last argument to the
first): a name has one node; a value that is no name of the graph goes to all
nodes in `< >`, and if one of them has a handler further on, the search returns
such a one (`FollowFinds`).

**Only model-checked.** The liveness properties `Responsive`, `Settles`,
`SilentHostsLeave` and `CommandsReturn` need fairness and ENABLED, which are out
of the prover's reach. So is that `SentencesOf` agrees with the trees of `CmdSyntax` at any
depth (`TextsMeanTrees`): an induction over data with RECURSIVE operators; TLC compares them on the
trees of the instances. The violated properties are shown by TLC's counterexamples.

## Plan

Done: `SearchTree`, `ClidCommands`, `Kernel`, `ClidClients`, `Clid`,
`JobService`, `ShellSession`, `HostTable`, `CmdRegister`, `LineEditing`,
`LineEditor`, `CmdSyntax`, `SyntaxGraph`, `CmdTable`, `CmdSentences`, their runs and
the theorems above. Every safety property of a passing run is a theorem. What is left are
the hazards without a property: for each, a property that a document or test
promises, if there is one.

## Not modelled

Daemonisation, signal handlers and tracing of clid
(start-up and I/O without state that the properties depend on); the shell's
tokenizer (a sequential function of one line; nothing in it outlives the line);
the characters of a syntax's tokens and the wording of usage texts; the ITC framework and
gateway (not in this repository); `example/shell` (a stand-alone tutorial
program); makefiles and test programs.
