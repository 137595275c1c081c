# A verification project for LearningManagement

TLA+ modules of the learning management system in this repository (a
process-per-connection TCP server over a MySQL database, two client programs,
and an RPC file transfer), with the instances TLC checks and the theorems TLAPS
proves. Source lines are given as `file:line`, relative to `src/`.

## 1. Inventory of the system

| Part | State it keeps | Operations | Talks to |
|---|---|---|---|
| Accept loop (`Server.cpp` main, reaper, handleClient; `passivesock.cpp`) | listening socket, current connection, children | accept, fork, close, reap, identify the client | kernel; forks the sessions |
| Student session (`handle.cpp:27-200`) | ID entered, password fetched, database connection | login, check, help, download, END | client over TCP, database, forks a file sender |
| Instructor session (`handle.cpp:202-586`) | the same, and the grade column of the instructor | login, register, change, notice, upload, list, del, stat, help, END | client over TCP, database, file sender of an instructor client |
| Database connector (`dbconnector.cpp`) | connection, statement, result | exQuery, getresult | MySQL (external) |
| File sender (`filemanage/fsender.cpp`, `file_sif.cpp`, `file_srp.cpp`) | one static `FILE *` | register with the portmapper, checkfilename, fileread | portmapper (external), receivers |
| File receiver (`filemanage/freceiver.cpp`, `file_cif.cpp`, `file_clnt.cpp`) | RPC handle | look up, check, read until a short block | portmapper, sender |
| Message framing (`handle.cpp:618-643`, read loops of both clients) | bytes under way | padded write, partial writes, reads of 1024 | TCP |
| Client programs (`StudentClient.cpp`, `InstructorClient.cpp`, `connectsock.cpp`) | whether the next line is a password | send a line, read the answer, receive files, fork a file sender (instructor) | server |
| Encryption (`secure.cpp`) | none (fixed key) | encry, dencry | OpenSSL (external) |
| `student.h/.cpp`, `mysqltest/`, `oldstuff/`, `filemanage/test.cpp` | | not used by the running system | |

What is hard in it:

* **Processes that share descriptors.** Every session is a `fork()` of a server
  that holds sockets, and a student session forks again. A socket is released
  when the *last* process closes it. Exits arrive as signals that coalesce and
  interrupt the accept loop.
* **Many writers of one table.** Every command of an instructor is two SQL
  statements, a check and an act, in autocommit mode; any statement may fail
  before or after it has taken effect, any session may end between the effect
  and the answer, and the words of a command go into its statement unchecked.
* **A dialogue in lock step.** Both clients read until an answer has come before
  they send again; an answer that is empty, missing or doubled blocks them.
* **A registry that outlives its processes.** All file senders of a kind
  register under one program number, each first removing what the others
  registered.
* **A file sender with one file pointer** for all its receivers, which answers
  from a stack frame that is gone, and carries out the requests of calls that
  timed out.
* **Messages without an end.** Neither side marks where a line or an answer ends;
  both go by what one `read()` returns.
* **Bytes taken for text.** Ciphertexts pass through C strings.
* **Pointers that are not always set**, in the database connector.

What makes each part correct, in short: sessions never mix sockets, no exited
child is forgotten, every queued connection is served (accept loop); a login
succeeds only with the password of the ID entered, a command takes effect once
and at once and its answer says what happened, every line is answered (sessions); a
started file sender leads to a reachable one (registry); a received file is the
file that was sent (transfer); a message arrives whole and the reader knows its
end (framing).

## 2. Modules

| Module | What it is |
|---|---|
| `Reception` | abstract specification: connections are served in turn, each once |
| `Server` | accept loop, reaper, handler processes, file senders as processes, and which sockets each has open; instantiates `Reception` |
| `ServerProofs` | its invariants and the refinement of `Reception`, proved |
| `SenderRegistry` | start-up of file senders against the portmapper, and the lookup of a receiver |
| `SenderRegistryProofs` | its invariants, proved |
| `Gradebook` | abstract specification: tables that change by whole, answered commands |
| `Sessions` | student and instructor sessions, one action per SQL statement; instantiates `Gradebook` |
| `MCSessions` | the tables and boards TLC starts from |
| `SessionsProofs` | its invariants, its action properties and the refinement of `Gradebook`, proved |
| `FileCopy` | abstract specification: what is reported as downloaded is the whole file, unless its sender is shared or has run out of FILEs |
| `FileTransfer` | receivers and senders, one action per step of the loop and per RPC; instantiates `FileCopy` |
| `MCFileTransfer` | who shares a sender, the sizes of files and the lists of names, for TLC |
| `FileTransferProofs` | its invariants and the refinement of `FileCopy`, proved |
| `Dialogue` | abstract specification: whole lines and whole answers in turn |
| `Framing` | one connection as numbers of bytes; instantiates `Dialogue` |
| `MCFraming` | small buffers |
| `FramingProofs` | its invariants and the refinement of `Dialogue`, proved |
| `Secure` | a password's way through `encry()`, one `write()`, one `read()` and `dencry()` |
| `MCSecure` | a small cipher |
| `SecureProofs` | its invariants, proved |
| `DbConnector` | the objects a `dbconnector` owns |
| `DbConnectorProofs` | its invariants, proved |

How they fit together: `Server` says when sessions begin and end, `Sessions` what
they do to the tables. `Sessions` takes for granted that one line is one message;
`Dialogue` states that, and `Framing` says when it is so. `Secure` opens up the
`DecryptThrows` of `Sessions`, `DbConnector` its `Succeeds` and `Fails`. `SenderRegistry` says which sender a
receiver reaches, the constant `Reaches` of `FileTransfer`.

### Server and Reception

`pc`, `ssock` and `reaping` are main's place in its loop, its variable of that
name, and whether the signal handler is running on top of it. `mainFds`,
`handlerFds` and `senderFds` are the sockets each process has open; `Fork` copies
main's into the child and `BecomeStudent` (the `fork()` at `handle.cpp:29`)
copies the handler's into the file sender. `Exit` empties a process's set and
raises `sigchld`, one bit, because pending signals of a kind coalesce. While
`reaping` holds, main's own actions are disabled: `ReaperReturns` is enabled only
when `wait3` would return -1, that is when no child is left, dead or alive
(`Server.cpp:97`). Rounds of that loop in which `wait3` returns 0 change nothing
and are not steps. `MainFails` is `errexit()` after a failing `accept` or `fork`,
`Restart` a new start of the program, possible when nothing holds the port
(`passivesock.cpp` does not set `SO_REUSEADDR`): no process has a socket of it,
and the kernel does not keep a connection of it either. Whenever the last process
of a connection closes it, the kernel may keep the connection for a while
(`lingering`, TIME_WAIT), which depends on who closed first and is therefore open
in the model (`Linger`), until its timer runs out (`Expire`). What a session says is
abstracted to when it ends. A stranger that hangs up without a greeting leaves
`buf` unwritten (`Server.cpp:107`), so its `Greeting` may be anything.

`Reception` has no processes, descriptors or signals: connections come (`seen`),
wait in order, and are `serving` until they end. `Server!Desk` instantiates it.
What waits is the kernel's queue and, before it, the connection that main has
accepted and not yet forked for, so a reception holds one more than the queue;
`serving` are the connections with a live handler, whether its client is still
there or not. `Close` is `MainFails` and `Reopen` is `Restart`: it requires that
no session is left, which in the code is nobody's intention but a consequence of
`bind()` failing while any process has a socket of the port. How long TIME_WAIT
keeps it closed beyond that is of no concern to a reception.

### SenderRegistry

`udp` and `tcp` are the portmapper's two mappings of one program number; `st` is
the call each sender is about to make in `fsender.cpp:59-85`. Each call is one
request to the portmapper, and hence one step. A refused or failing sender exits
and leaves its mappings, and the program may start over mappings of an earlier
run. `CreateClient` is the lookup and connection at `freceiver.cpp:8-16`.

### Sessions and Gradebook

`Sessions` has one action per SQL statement, each with the alternatives that
`exQuery()` succeeds, or fails. A failing `INSERT`, `UPDATE` or `DELETE` may or
may not have been executed. A failing `SELECT EXISTS` does not stop a command:
the code falls through to the next statement, and so does the model. Reading the
line is merged with the statement it leads to, and the statement with the writing
of its answer. Other sessions cannot tell the difference, for only the statement
touches what is shared; the end of the session in between can be told, and
`Crash` has it: the statement takes effect and the answer is `"lost"`.

A command's words go into its statement unchecked (`handle.cpp:351-353`,
`378-379`, `450-451`). `OtherText` stands for words that are not all plain: an ID
that is an expression, a grade with a comma and another column, a quote. For them
`Effects` admits any table that one statement of the kind can make (`AfterRegister`
keeps all rows, `AfterChange` their number, `AfterDelete` removes rows and nothing
else), and an error, because it may be no SQL. One statement per `exQuery()`, as
the connector's default has it. The login has no such words: an ID must be a
number (`handle.cpp:63`).

`conn` is the client in step with the session: `"typing"`, waiting with its line
unread (`"sent"`) or read (`"taken"`), or gone, with an unread line (`"last"`) or
without. `answer` is the answer to the line sent last, `Pending` until it is
given. `arg` is the word of the command under way. A row has its password and a
grade per column; the columns are named by the instructors with ids 0, 1 and 2
who own them (`handle.cpp:307-313`). Any other instructor has the empty column
name: statements that name the column fail, the `DELETE` does not name it.
`pwddb` names the ID whose password was fetched, or is `Empty`: what the property
of the login asks is whose password was compared, not which. Rows tell the default
password from others (`DefaultPwd`, `OwnPwd`), and a new row takes the database's
defaults, `DefaultPwd` and `NotEnrolled`.

`Gradebook` shows only `students`, `board` and `answer`. There a command is one
step that changes the tables and answers, at most once per line; a registration
in plain words never overwrites, a refusal is justified at the moment it is
given, an error or a lost answer leaves open whether the command took effect, but
not what the effect may be. `Sessions!Book` instantiates it over the same
variables.

### FileTransfer and FileCopy

A receiver is one call of `freceiver()` that has found its sender. `pc` is
`"checking"` while it waits for `checkfilename()` and `"reading"` in the loop at
`freceiver.cpp:31-40`; `asked` is its request until the sender carries it out,
`reply` the answer until the receiver takes it. `svc_run()` handles one request
at a time, so each `Serve` action is one step. `fp` is `fpS`: null, or a FILE with
its position, open or closed; the pointer is kept after `fclose()`. `leaked`
counts FILEs that are open and that nothing points to. A call that times out
leaves its request in `late`: for `checkfilename` it still moves the pointer when
it is carried out; a process whose `fileread` fails or times out dies of the NULL,
its unanswered read included. `Encoded` is the undefined behaviour of
`file_srp.cpp:45`: the block sent may be intact, spoilt, or not encodable. Reading
a closed FILE kills the sender or returns nothing that counts. `status` is what
the receiver has said: `"whole"` and `"mixed"` are both "downloaded", told apart
by the history variable `disturbed`, which notes that another receiver's request
was carried out in between. In `FileCopy` what is reported as downloaded is one
of the `Genuine` copies of the file: all its blocks, in order, each as far as the
dead stack frame let it through. Only a receiver that shares its sender, or whose
sender has run out of FILEs (`spent`), may be told that anything else is
downloaded. A copy may be overwritten at any time, as the code does.

### Framing and Dialogue

`up` and `down` count bytes written and not yet read in each direction, `out` the
rest of an answer; `asks` says that what is under way down is the prompt for a
password and nothing else. `Padded` is `sendmessage()`'s padding; the replies of
the login and "ID not found" are `Short`, the greeting after a student's login a
`Notice`, both written as they are. `mode` is how the session writes: with one
`write()`, or in the loop that, once a write has been cut short (`"rest"`), never
ends (`"spin"`). `Reads` is what one `read()` may return, any part of what is
there included. Which answer a line gets is left open: any that `Sessions` could
give. `ReadGreeting` has the outcomes of writing past `buf[4]` (`Server.cpp:107`).
The file sender of a student session keeps the socket open, so a student's client
never sees the end of the stream.

Nothing that puts the two out of step is excluded. The history variable `turns`
becomes `"lost"` at each step that does (`Lose`), and the list of these steps is
part of what the properties say: a reader that gets part of a greeting, line or
answer; a line together with the greeting; a line longer than the session's
buffer (`handle.cpp:144`); a ciphertext that begins with a NUL
(`StudentClient.cpp:93`); a text written as it is that is empty or fills the
client's buffer (`Endless`); a `write()` cut short. `Dialogue` has the same places
of client and session, and one message under way at most, `Framing!Message`, but
for a line typed before the greeting is read (`AskEarly`).

### Secure, DbConnector

`Secure`: a string of bytes ends before its first NUL wherever the code calls
`c_str()` (`UpToNul`). The cipher is a constant function about which the module
assumes what padded AES-CBC gives: ciphertexts are whole blocks, and none is the
beginning of another one (`CipherAssumption`). It decrypts exactly the ciphertexts
of texts; passwords of control characters that look like padding are left out.
`DbConnector`:
objects are named by the query that made them, `live` is the set of those that
exist, and `undefined` notes that a pointer without an object was followed.
`createStatement()` is not made to fail: it does so on a closed connection only,
and nobody closes one.

## 3. Runs

`tlc -config <cfg> <module>`; the sizes are distinct states.

| Run | Module | Shows |
|---|---|---|
| `Server.cfg` (195,000) | `Server` | `TypeOK`, `Isolation`, `NoLostZombie`, `HandedOverOnce`, `RestartableOnceAlone`, `ImplementsReception`, `ServedIfOthersLeave`, `PortFreedUnlessSender`, with one failure anywhere |
| `ServerAccept.cfg` | `Server` | violated: `ServedWhileOthersStay` (finding 1) |
| `SenderRegistry.cfg` (3,300) | `SenderRegistry` | `TypeOK`, `LookupFindsSender`, `NoStaleMapping`, `StartedLeadsToService` |
| `SessionsGrades.cfg` (1,407,000) | `MCSessions` | `TypeOK`, `ImplementsGradebook`, `WritesAuthorized`: two instructors at one record |
| `SessionsLogin.cfg` (315,000) | `MCSessions` | `LoginSound`, `MutualWaitOnlyByNoGreeting`, `Answered`: a student tries two IDs while an instructor registers and deletes them, with or without a notification |
| `SessionsDelete.cfg` | `MCSessions` | violated: `OnlyAdministratorDeletes` (finding 3) |
| `SessionsEmptyBoard.cfg` | `MCSessions` | violated: `AskedForCommand` (finding 4) |
| `Transfer.cfg` (233,000) | `MCFileTransfer` | `TypeOK`, `UndisturbedIsFaithful`, `LeaksOnlyByFaults`, `LostOnlyInUse`, `ImplementsFileCopy`, `CallEnds`: two receivers at one sender and a third at another |
| `FramingTurns.cfg` (18,800) | `MCFraming` | `TypeOK`, `InStep`, `PromptUnderstood`, `Answered`, `ImplementsDialogue` |
| `FramingPartial.cfg` | `MCFraming` | violated: `SplitAnswerFinished` (finding 2) |
| `SecurePasswords.cfg` (186) | `MCSecure` | `TypeOK`, `NoOtherPassword`, `LostOnlyInTransit`, `SendableAnswered` |
| `DbConnector.cfg` (254) | `DbConnector` | `TypeOK`, `OneStatement`, `OwnResult`, `StrayOnlyUnset` |

**Bounds.** `Server`: three connections, one of each kind, a queue of two (the
code's QLEN is 10) and one failure. Two connections can exit together while a
third waits in a full queue, which is what signals, queue and descriptors need.
Each connection is used once. `SenderRegistry`: three senders are enough for one
to be registered while two others race; two failures allow one to leave each
mapping behind. `Sessions`: every race of the code is between two sessions over
one row, so `SessionsGrades` has two instructors with a column each, one row,
two grades, and plain and other words; with one row, `OtherText` is what reaches
beyond the own column. `SessionsLogin` has two IDs, so that a password may be
taken for another ID's, and two instructors, one with a column whom the database
does not know, let in by a failed check, and one without. Neither of them can
write a grade, so one grade is enough, and rows have one password, for whose
password is in hand does not depend on which it is. One failing statement or
crash reaches each fall-through. `FileTransfer`: a file of two blocks and one that
is missing, a stack that may spoil or refuse each reply, and one timeout or killed
process; lists of two names and one for the receivers that share a sender, for the
second name is what a late request or a kept pointer can spoil, one name each
beside a receiver with a sender of its own, and three for that one alone, which
with `MaxOpen` 2 runs its sender out of FILEs. `Framing`: a client's buffer of 4
bytes and a session's of 6 in place of 1024 and 128, with lengths up to 7: below,
at and above each, and for `Notice` and `Cipher` zero. `Room` is how much may be
unread when a line is typed ahead or an answer begun, once the two are out of step; 2
lets the greeting and a line run together. `Secure`:
blocks of two bytes out of three, with a NUL at the start, within a block and at
the start of the second block, and a ciphertext that a session cannot read at
once. `DbConnector`: five queries, each with rows, without, or failing. One write
cut short is enough for a session never to go on.
`MaxFaults`, `MaxPartial`, `Lists`, `MaxOpen`, `Room` and `MaxQueries` are the
bounds (`MaxOpen` is one of the system, too); nothing else is cut off.

**Deadlock.** The runs set `CHECK_DEADLOCK FALSE`: a system whose clients have
all come and gone really stops in the model, since a connection is not reused,
and so does a receiver at the end of its list or a connector that was destroyed.

**Fairness.** Weak fairness on the steps of the program's own processes: each is
a process the kernel keeps scheduling, and each step is a system call that
returns, a statement the database answers, or a call the portmapper answers. A
step that waits in `read()` or `accept()` is not enabled until there is something
to read or accept. The kernel's TIME_WAIT timers run out (`Expire`). Nothing is
assumed of clients, users, failures or restarts; in
particular a client may stay connected for ever, and a stranger may never send a
greeting (`Silent`). In `FileTransfer` a sender that runs gets to each of its
receivers, and a receiver that has a result goes on; timeouts and deaths are not
fair. In `Framing` and `Secure` sessions and clients read what there is to read;
no user has to type anything. `ServedIfOthersLeave` and `PortFreedUnlessSender` say in
their premise that sessions keep ending.

## 4. Findings, and what the properties leave open

Where the code does not do what the repository says of it, and a run shows it:

1. `Server.cpp:97`: `wait3` with `WNOHANG` returns 0 while a child is alive, and
   the loop goes on while it is `>= 0`. After the first session ends, main spins
   in the signal handler until *all* sessions have ended, and accepts nobody,
   although `Server.cpp:34` announces a concurrent server and `README.md:202`
   that the parent goes on to wait for the next connection.
2. `handle.cpp:636`: the loop for a message that "might be splitted by system"
   (`handle.cpp:634`) compares with the length before the split one and, after a
   write that was cut short, never ends.
3. `handle.cpp:449`: `del` is carried out for every instructor, although
   `README.md:180-187` gives it to the administrator, instructor 0.
4. `handle.cpp:118-127`: a student who gives the right password while there is no
   notification is greeted with no bytes; session and client wait for each other,
   and the student never gets to type the commands of `README.md:153-156`.

The properties that hold say under which conditions they do. Each condition is
one that the code does not ensure:

* `RestartableOnceAlone` and `PortFreedUnlessSender`: the file sender forked at a
  student's login inherits the client's socket and keeps it, and the port, after
  END (`handle.cpp:29`). Once it is gone too, TIME_WAIT may keep the port a while.
* `LookupFindsSender` needs that no sender is starting: each login of a student
  removes the registration of the sender already serving (`fsender.cpp:59`), and
  a receiver asks once and exits. And
  it finds *some* sender: with several instructor clients on a machine
  (`RMACHINE` is `localhost`), an upload fetches from the one started last.
* `ImplementsGradebook` promises what is usual of commands in plain words only. A
  command with other words may do to the table what one statement of its kind can
  (`handle.cpp:378`), and one whose answer is an error or lost may have taken
  effect. A change is answered "Change succeed" although another session has
  deleted the record since its check (`handle.cpp:380`).
* `WritesAuthorized` likewise: of other words it only says whose session wrote.
  Any instructor deletes any record (finding 3). It and `LoginSound` let a session
  in with an empty line if its password could not be fetched: neither a failing
  existence check nor a failing query ends the login (`handle.cpp:240`,
  `handle.cpp:257`). No property holds against that, for it is what the code does.
* `MutualWaitOnlyByNoGreeting` and `Answered` of `Sessions` leave out one step, the
  greeting of finding 4, and name it.
* `UndisturbedIsFaithful` and `ImplementsFileCopy`: the receivers of a sender share
  one file pointer (`filemanage/file_srp.cpp:18`), and whoever shares it with
  a transfer under way may get any mixture. A block may
  arrive spoilt (`Garbage`), for it is encoded after the function whose local
  array it is has returned (`file_srp.cpp:45`). And each interrupted transfer may
  cost the sender a FILE until it has none left (`LeaksOnlyByFaults`,
  `LostOnlyInUse`), after which no file can be read.
* `InStep`, `PromptUnderstood`, `Answered` and `ImplementsDialogue` of `Framing` hold
  until one of the listed steps has put client and session out of step (`turns`,
  section 2). Every one of them can happen: they need a slow network, a long or
  early line, a long or missing notification.
* `LostOnlyInTransit` and `SendableAnswered` are about passwords whose ciphertext
  has no NUL: `encry()` cuts at the first one (`secure.cpp:29`).
* `StrayOnlyUnset`: `res` is deleted although it was perhaps never set, and after
  a failed `connect()` so are `con` and `stmt` (`dbconnector.cpp:45`).

## 5. Proofs

For any values of the constants that satisfy the named assumptions
(`ServerAssumption`, `RegistryAssumption`, `SessionsAssumption`,
`TransferAssumption`, `FramingAssumption` and `ConnectorAssumption`, all about the
constants being distinct, of their types, and bounds being natural numbers, and
`CipherAssumption`, which also says what a cipher is), hence for any number of
connections, senders, sessions, IDs, files, lengths and failures.

* `ServerProofs`: `TypeCorrect`, `SessionsIsolated`, `ZombiesCollected`,
  `ConnectionsHandedOverOnce`, `RestartableExactly`, `ServerImplementsReception`.
  `Isolation` is about the children, but what a child gets is what main has open
  at the fork, so the inductive invariant says what main holds at each place of
  its loop (`MainHolds`), and what each child does: a live handler its own
  connection, a live file sender exactly that, an exited process nothing
  (`ChildrenHold`). From these two follows which processes can keep the port
  (`NobodyHolds`), which makes `Reopen` of the reception true of `Restart`.
  `HandedOverOnce` needs
  the queued connections to be distinct and untouched (`NotYetForked`), and so
  does the reception's order: `Accept` is a stutter there, `QueueWithHand` says
  that queue and hand together do not change, and `Fork` serves the first.
  `NoLostZombie` needs that zombies exist only while main does (`ZombiesKnown`).
* `SenderRegistryProofs`: `TypeCorrect`, `ServiceRegistered`, `MappingsFresh`.
  The invariant `OnTheWay` names, in every state, somebody
  who will serve: a sender that has yet to ask for UDP, the holder of UDP that has
  yet to ask for TCP, or the holder of TCP. `MappingsPromise` says that whoever is
  refused is refused in favour of such a one, `OldGone` that it was not in favour
  of a dead process.
* `SessionsProofs`: `TypeCorrect`, `LoginsSound`, `SessionsImplementGradebook`,
  `OnlyNoGreetingHangs`, `OnlyAuthorizedWrites`, for any table, board and words.
  `Fetched` ties `pwddb` to `who` from the
  fetch on, and `Vouched` ties both to an ID the database knows; `InStep` says
  that a session executing a statement owes an answer, without which a command
  could be answered twice, and `ReadOnly` that a student's session never has a
  statement of a command to execute. The refinement proof maps each action to a
  step of the gradebook or to a stutter; an action that fails, and a crash between
  statement and answer, map to the gradebook's `Fail`, because what a statement can
  do (`EffectsOf`) is among what a failed command may have done (`FailsCommand`).
  `OnlyAuthorizedWrites` is about steps: `EffectsLocal` says that the effect of a
  command in plain words stays in one record and column, `RecordWrites` finds the
  session behind each change. `OnlyNoGreetingHangs` rests on `WaitStep`: whichever
  step brings a session back to `read()` has answered the line it read, but for
  the empty greeting.
* `FileTransferProofs`: `TypeCorrect`, `UndisturbedFaithful`, `LeaksCovered`,
  `TransferImplementsCopy`, for senders shared or not and any state of the stack.
  `InStepOf` says of a receiver that nobody disturbed where the
  pointer stands: at the block after those it has, or after the one in the reply
  under way; that is what ties a copy to a file two processes away. `DebtOf`
  counts, for a sender with one receiver, the FILEs leaked against the calls cut
  off so far, late requests included. In the refinement a copy reported as
  downloaded is `Genuine` if nobody came between (`CopiedIsGenuine`), and a
  receiver with its own sender is disturbed by nobody; a sender runs out of FILEs
  (`RunOut`) only where no receiver is told anything (`ServeSpends`).
* `FramingProofs`: `TypeCorrect`, `TakeTurns`, `PasswordsEncrypted`, `MessagesWhole`,
  for all lengths and buffers, and reads and writes cut anywhere. The invariant
  (`Turns`, as long as `turns` is kept: `WInv`) is that bytes are under way in one place at most,
  and that an answer under way is never a multiple of the buffer: for that
  `PaddedIsUneven` proves the padding right for every length and buffer. Each of
  the steps that may break it sets `turns` (`LoseKept`), which stays lost
  (`LostForGood`); that the list of these steps is complete is what is proved.
* `SecureProofs`: `TypeCorrect`, `OnlyThePassword`, `LossesExplained`. What
  arrives is a beginning of a ciphertext (`UpToNulBegins`), and no proper beginning
  of one decrypts (`BeginningDecrypts`).
* `DbConnectorProofs`: `TypeCorrect`, `StatementsDeleted`, `ResultsOwn`,
  `OnlyUnsetStray`. `Connected` lists all that can exist between two queries.

Only model-checked: the liveness properties (`ServedIfOthersLeave`,
`PortFreedUnlessSender`, `StartedLeadsToService`, both `Answered`, `CallEnds`,
`SendableAnswered`), which need fairness and ENABLED, out of the prover's reach;
`LostOnlyInUse`, a step property that has no proof yet;
and the four violations, which are counterexamples. Every other property of every
run has a theorem.

## 6. Not modelled

* Systems the program uses: MySQL (taken as a table with a primary key and
  autocommitted statements), the portmapper (a map that refuses second mappings),
  kernel TCP (reliable and ordered, a bounded queue, TIME_WAIT), Sun RPC (a call is
  answered, fails or times out), OpenSSL (`CipherAssumption`).
* The figures of `stat` (`handle.cpp:480-527`): three statements that other
  sessions may come between, so that minimum, maximum and average can be of
  different tables, and that count the -1 of students who did not choose the
  course (`handle.cpp:501`). It changes no state, and is one reading command of
  `Sessions`.
* Which effect a statement made of other words has: `OtherText` stands for all of
  them.
* The `student` class, which `README.md:117` says is bypassed, the MySQL trial
  programs, `oldstuff/` and `filemanage/test.cpp`, and the functions nobody calls
  (`findbystuid`, `findbyinsid`, `gen_params`).
* What changes no state: host and service lookup, usage messages, layout of
  tables, the display of answers.
* The clock: whether `MAX(Time)` is the latest notification.
* Memory: results, `CLIENT` handles and the receiver's second `FILE` are never
  released; they are never used again either.

## 7. Order of the work, and what could follow

Written in this order: `Server` (with `Reception` later), `SenderRegistry`, `Gradebook` and `Sessions`,
`FileCopy` and `FileTransfer`, `Dialogue` and `Framing`, `Secure`,
`DbConnector`, each with its runs and then its proofs. What could follow:

1. `Sessions` over `Dialogue` instead of its own `conn`, so that the refinements
   compose inside TLA+ and not only in this text.
2. `Server` with the sessions of `Sessions` in place of its `SessionEnds`.
3. `FileTransfer` with `Reaches` taken from a run of `SenderRegistry`, for a sender
   that is replaced between two transfers.
4. A proof of `LostOnlyInUse`, which needs to know of each late request whose
   transfer it belongs to.
