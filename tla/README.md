# mms-svr: TLA+ models, model checking and proofs

mms-svr is a multi-threaded TCP server. Clients log in with a `yyID`, and ask
for a url to be opened; the server starts a *shell client* process for the user,
which connects back on a second (management) port and is told the url. One
event thread (libevent) does all socket work; `workthreads` worker threads
process the commands.

This directory holds the specifications of the server's own logic, the TLC
configurations that check them on small instances, and TLAPS proofs of the parts
that hold for every instance. `PROJECT.json` maps definitions to source lines and
lists runs, mutants, findings, hazards and theorems.

## The system

| Part (source) | State | Operations | Talks to |
|---|---|---|---|
| Job dispatch (`include/util.h` `Bossmultiworker`, `yymms_svr.cpp`) | per worker: job queue + mutex, semaphore, exit flag | `data_receive`, `PushJob`, `PopJob`, `work_thread`, `run`, `exit` | event thread → workers |
| Outgoing queue (`yylibevent.cpp`, `event_msgqueue.h`, `lockqueuemap.h`) | `_bufqueue_map`, socket pair, `msg_queue::fd` | `data_send`, `flag_send`/`msg_send`, `do_queue_read`, `queue_receive` | workers → event thread |
| Connections (`yylibevent.cpp`) | `fd_state` per descriptor: write buffer, events | `do_accept`, `do_read`, `do_write`, `free_fd_state` | peers, job dispatch |
| Sessions (`cmdproc.cpp`, `event_hash.h`) | `Item_data`; map fd → session; `_userData`: yyID → session | `JsonProcess`: LOGIN, LOGIN1, LOGOUT, OPENURL; `fd_close` | outgoing queue, shell manager |
| Shell manager (`mmsexecmag.cpp`) | `Item_data::shellClient_fd` | `ShellExec`, SVR_INIT, `openURL`, `ShellExit` | sessions, by `_userData`, from another worker |
| Wire protocol (`jsonprotocol.h`, `yyjson.h`) | none | `ParseCmd`, `FormatCmd`, message classes | sessions |
| Buffers (`fastbuffer.h`, `memstuff.h`) | bytes, capacity; list of blocks | `append`, `read`, `clear`; `alloc`, `clear` | everything |
| MySQL (`yylibmysql.*`) | statement, bind arrays, their memory | `Prepare`, `<<`, `Execute`, `GetRes`, `BindResult`, fetch | `CheckWhiteList` |
| Encryption (`yyssl.h`) | keys | `AESEncrypt`, `AESDecrypt`, base64 | wrapped commands |
| Redis (`yyredis.*`) | connection state, command queue | `Connect` once at start-up | event thread (no command is ever sent) |
| Configuration, logging, test client | | | wrappers and I/O |

What is hard here: the boundary between push and wake-up in both queues; the
shutdown, which can meet a worker anywhere in its loop; descriptor numbers, which
identify sessions, jobs, answers and closes and are reused as soon as a connection
closes; readiness that libevent reports once per change for connections but at every
round for the queue, whose flags are four bytes long and read one byte at a time; a
byte stream that may be cut anywhere while frames carry 16-bit lengths and keys are
replaced by each LOGIN; the event thread's `fd_close` reading session state while jobs that change
that state are still queued; and `Item_data`, which the client's worker and the
shell's worker share without a lock. The `hazards` in `PROJECT.json` list these at
their lines.

## Modules

### BossWorker, SocketJobs, BossWorkerProofs

`BossWorker` has one action per step that another thread can see: `PushJob` and
`PostJob` are the two halves of `data_receive`; `SemWait`, `TestExit`, `PopJob`,
`ProcessData` are the loop of `work_thread`; `RequestExit` (signal handler),
`LoopEnds`, `SetExitFlag`, `PostExit`, `Join` are `exit` and `run`. A job is a
descriptor and the serial number of its buffer. `ProcessData` is the return of
`_process_data`, which may also never come. `SocketJobs` says what the hand-over promises
each socket: first in, first out, one buffer at a time. Serial numbers grow, so it keeps
a socket's waiting buffers as a set and takes up the least. `BossWorker` maps itself to it
(`PerSocket`, `PerSocketOrder`): a socket's waiting buffers are its jobs in the queue of its
thread, its active ones what some worker is processing.

### OutQueue, OutQueueProofs

`DataSend` pushes the buffer, `MsgCall` is the call of `send()` with the descriptor
`msg_queue` then has, `MsgSend` writes the flag, `ReadFlag`/`ReadPad` are
`do_queue_read` on the flag byte and on the zero bytes of the int it was written as.
The socket pair is kept as the number of whole flags and the zero bytes in front of
them. `MsgSend` blocks while there is no room (the writing end is a blocking
socket), and goes on with the descriptor it was called with; `MsgSendFails` sets the
descriptor to -1 for good, as `msg_send` does, so that every later `MsgCall` fails at once.
Only `WRITE_EVENT_FLAG` is modelled: `REDIS_EVENT_FLAG` is never sent, because every
call of `AsyncSendCommand` is commented out.

### EventLoop, EventLoopProofs

Extends `OutQueue` by the loop around it. `Poll` is `epoll_wait`: it collects the
callbacks of one round (`active`), which then run in any order: `DoAccept`,
`DoQueueRead`, `DoRead`, `DoWrite`, one action per callback, with `FreeFdState` and
`QueueReceive` inside them. The queue and the listener are level-triggered and handle
one byte, one connection per round; connections are edge-triggered: `edge` is an
unreported change, set by the peers' actions, by `event_add` and by `event_del`
(libevent changes the epoll entry, and `epoll_ctl` reports what is ready already).
Bytes of an answer are counted and a send may be short, in which case `do_write` drops
the rest of the buffer as the code does. `LoopSpec` is shown to implement
`OutQueue`'s `FairSpec` (`QueueServed`), so what is shown about the queue on its own,
liveness included, holds inside the loop.

The most delicate property is `AnswersBeforeClose`. `LoginCmd` queues the refusal and then
an empty buffer that closes the connection. Nothing in the code waits for the refusal to be
written; it is written because the second flag lies three zero bytes, so at least
three rounds, behind the first, and the write event fires in the next round. The
mutant that reads the queue until it is empty breaks it. The property is restricted to
connections whose send buffer has never been full: behind a full buffer the code
loses answers (short sends).

### MmsServer, MmsServerProofs, MmsSessionProofs

Composes connections, dispatch, sessions, shell manager and outgoing queue.
The two queues are taken at what `BossWorker` and `OutQueue` show: no wake-up is
lost, order is kept. Connections are numbered as accepted and sit on reusable
descriptors (`open`); the kernel may hand out any free one. The workers run
`JsonProcess` and `ProcessMmsExecData` one shared access at a time:

* `LoginNew` → `LoginAccount` → `LoginCmd` (→ `LoginRefused`): `add_state(fd)`,
  `_userData.add_state` and the fields, the answer, the close after a refusal;
* `Logout` → `ShellExit` → `LogoutDelUser` → `LogoutDelFd`;
* `OpenUrl` → `OpenUrlRoute` → `OpenUrlTell` or `ShellExec` → `OpenUrlAnswer`, with
  `UrlVisible` the moment the unlocked store to `url` reaches other threads;
* `SvrInit` → `SvrRegister` → `SvrTell`, on the worker of the shell's connection;
* `NotLogin`: a command without a session is not consumed, and the worker parses it
  for ever (`pc = "spin"`);
* `BadFrame`, `OtherCmd`, `Login1`.

The event thread: `Accept`, `DoRead` (everything that has arrived becomes one job),
`PeerGone` (what was read with the end of the stream is dropped), `QueueReceive`,
`DoWrite` (a partial send drops the rest; `got` counts whole answers, so a frame that a
short send cuts in two counts as dropped, and what is shown of the order of answers is of
the whole ones), `FreeFdState` with `FdClose` inside it.
`fd_close` reads the map and pushes in one step: the push commutes with everything
a worker can do before it could see the job.

Abstractions. Commands are kinds; `OTHER` is anything that parses and is not
handled or cannot be decrypted, `BAD` anything `ParseCmd` rejects, a frame split
between two reads included. `COMPRESS_RSA` is left out (`assert(false)`). The url of
an OPENURL is the number of the command; `channelID`, `subChannelID` and `url` count
as one datum. Data races: a store to `url` may be delayed up to the next
locked instruction (the copy of the `shared_ptr` argument), which is what x86
allows. `openURL(state->shellClient_fd, state)` (`cmdproc.cpp:159`) is taken to read
`shellClient_fd` after that copy: GCC and MSVC evaluate these arguments from right to left,
C++ leaves the order open, and with the other order `AnsweredUrlReachesShell` is not
shown. A read of a `std::string` during its assignment is undefined and not
modelled further. `CheckWhiteList` is
whether the worker has a database handle: the code fetches the rows of its query and
returns true whatever they are (`jsonprotocol.h:61` speaks of a success "if YYID is in
whilelist"). Starting a shell may fail unnoticed. On Linux `execl` without
`fork` would replace the server; the model follows the Windows branch. `rude`,
`clean`, `org`, `ok`, `told` are recorded for the properties and read by no action's
guard.

History variables of this module also serve `StateRegistered` (`gone`) and
`LastShellExits` (`left`, `late`): descriptors that registered and were not told to
exit, and registrations behind `ShellExit`. Two shell clients of one session are
possible (two OPENURLs before the first SVR_INIT), and only the one registered last is
told to exit; `LastShellExits` claims no more than that. In the same way `StateRegistered`
says that a worker's pointer to a session is stale only behind its own LOGOUT: it delimits
what a LOGIN in the same buffer then meets, and does not rule it out.

### Codec, CodecProofs

The conversions as operators: the frame (`FormatCmd`, `ParseCmd`, with the length word
modulo its range), the block cipher's framing (`AESEncrypt`, `AESDecrypt`; one block
under OpenSSL is any permutation, here reversal and shift by the key), the sizes
of base64, and `fastbuffer`. `ParseCmd` knows the texts and which of them have an id in
`LookforMap`'s table: another id is `UNKNOWED`. `ParseCmd` on a length word below 3 is `THROW`:
`std::string::append` gets a negative count as a huge one, and nobody catches the exception.

### Wire, MCWire, WireProofs

One connection end to end in bytes: `PeerSend` formats a command, wrapped ones through
`Sealed`; `RecvFull` and `RecvLast` are the turns of `do_read`'s loop, and what one
callback read is a job; `TakeJob`, `Parse`, then one action per case of `JsonProcess`.
`buf` is the session's `readbuffer` or, without a session, the job's own. The other
threads and connections are left to the other modules. A LOGIN is accepted when the worker
is connected to MySQL (`sql`) and refused otherwise, with `closefd` and the key left as it was
(`LoginCmd`). `AESLOGOUT` is a LOGOUT in a wrapped frame: it ends the session behind
`goto NextRun` as a plain one does.

`Radix` and `BlockSize` stand
for 256 and 16, so that the overflow of the length word and every fill of the last
block happen with texts of a dozen bytes. A text's bytes say whose text they belong to and
whether it begins there: the first byte of text n is `FirstByte(n)`, above every header byte,
the others are that plus one. This stands for what json-c can tell from a `{` and the tag of
a command; json-c is "the command whose text the string begins with". A JSON text is never
empty (`SendsAssumption`). `toCmd` escapes nothing, so a text may hold the value of `PRE_CHAR`:
`Escs` are the places where it does, any but the first and the two braces that end a text.
A job that begins at such a byte takes the two bytes behind it for a length word, and these are text.
A text is taken to hold no NUL (`ParseCmd` hands it to json-c as a C string, so one with a NUL is no
command), hence the high byte is not zero and the word is not below 3: this is why a cut in a text
closes the connection and never throws. Streams that are not the frames of commands at all are not
modelled.

A frame decrypted under a key that is not its own could be anything. `Garbled` are the outcomes
`ParseCmd` can have on it: any failure, `THROW` included, since the bytes may begin with `PRE_CHAR`
and a small word. Only success is left out, which is the assumption on the cipher: it would take a
JSON text of a command to appear by chance.

### MemStuff, Stmt, MCStmt, StmtProofs

`MemStuff` is the allocator as operators on a list of blocks. `Stmt` has one action per call:
`Prepare`, `BindNumber`, `BindString`, `BindIgnored` (the operators for a stream and a time, which do
nothing), `Execute`, `GetRes`, `AddColumn` (a turn of the
constructor's loop), `BindResult`, `Fetch`. Values are written into and read from the
bytes of the blocks, so a piece handed out twice would show as a wrong row or a wrong
column. The client library reads `row` at `Execute` and stores columns at
`Fetch`; both are external. A NULL column has its flag set and its bytes left alone. Columns are
assumed to fit the display length in their metadata (`StmtAssumption`). The schema in
`src/doc/mmsdb.sql` (two integers, two `VARCHAR`s that may be NULL) satisfies this.

## Runs

| Run | Instance | Shows |
|---|---|---|
| `boss_worker` | 2 workers, 3 sockets (two of them on one thread), 4 buffers, exit at any time | `WakeupsMatchJobs`, `PopFindsJob`, `OneThreadPerSocket`, the refinement `PerSocketOrder`, `JobsAreProcessed`, `ShutdownCompletes` |
| `event_loop` | 2 workers, 3 buffers, room for 2 flags, failing sends, 1 descriptor, 2 connections, 3 bytes of send buffer, exit at any time | the queue: `FlagsMatchBuffers`, `FlagFindsBuffer`, `Delivered`, `SendersResume`; the loop: `AnswersBeforeClose`, `WritesDrain`, `InputTaken`; the refinement `QueueServed` |
| `sessions` | 1 descriptor, 2 connections in turn, 3 commands of all kinds but OPENURL, logins accepted or refused | `NoInheritedSession`, `ClosedSessionEnds` |
| `answers` | 2 workers, 2 descriptors, 2 connections, 3 commands | `AnswersInOrder`, `StateRegistered` |
| `shells` | 1 client and up to 2 shells on 3 descriptors and 2 workers, 3 commands, one connection closed by its peer | `AnsweredUrlReachesShell`, `LastShellExits` |
| `wire` | 3 commands (10 kinds and lengths), `PRE_CHAR` in the long texts, length word up to 15, blocks of 5, reads of 7 bytes, one read that ends inside a frame, MySQL connected or not | `BuffersFit`, `CommandsInOrder`, `RefusedForCause`, `OverlongNeverRuns`, `Base64Fits`, `CommandsExecuted` |
| `stmt` | 8 calls, blocks of 4 bytes, 2 parameters, 2 columns, NULL or not | `PiecesApart`, `RowAsGiven`, `ColumnsAsFetched` |
| `out_queue_fails` | violation | a failed send strands buffers: `DataSendDelivers` fails |
| `ghost_session` | violation | disconnect with LOGIN still queued leaves a session: `DisconnectEndsSession` fails |
| `late_logout` | violation | LOGOUT followed by a disconnect: the simulated LOGOUT catches the worker in a loop |
| `user_map` | violation | a second LOGIN leaves `_userData` under the old yyID |
| `login_steps` | violation | the predecessor's LOGOUT answer reaches a new client first |

Bounds. Two workers and sockets that share one as well as sockets that do not cover
both relations two sockets can have; four buffers let a worker be busy, backlogged
and idle at the exit. Room for two flags makes senders block; with a third buffer one
is still to be written. Two connections on one descriptor let a late answer or close meet the
next owner; a send buffer of three bytes and answers of two make sends whole, short and
impossible. In `MmsServer` one descriptor with two connections gives a session and its heir;
three commands are enough for LOGIN, LOGOUT, LOGIN or LOGIN and two OPENURLs. In `Wire`
three commands give a LOGIN, a second one that replaces its key, and a command wrapped
under either (466,251 states). Blocks of
four bytes make pieces share a block, just fit, and need a block of their own. `MaxJobs`,
`MaxSends`, `MaxConns`, `MaxIn`, `MaxClients`, `MaxCloses`, `MaxMsgs`, `MaxCmds`, `MaxCuts`,
`MaxCols`, `MaxOps` are the bounds, all in guards.

Deadlock is checked in `BossWorker`, whose only final state is the end of `run()`.
In the other modules the system may stop when the bounded input is used up;
`MmsServer` also stops all its work of a thread in `NotLogin`.

Fairness. The operating system schedules every runnable thread. In `BossWorker`: weak fairness of the
boss and of each worker's own steps, but not of `ProcessData`. A worker may stay in `_process_data`
for ever: in the loop at `cmdproc.cpp:103` (run `late_logout`), or blocked in `send()` after the event
loop has ended. `JobsAreProcessed` therefore speaks of sockets whose worker always returns (`Returns`),
whatever the others do, and `ShutdownCompletes` of all workers returning: one that does not
keeps `pthread_join`, and so `run()`, from returning. In `EventLoop` of the event thread as a whole, not of each
callback (libevent runs every callback of a round, in an order the model leaves open),
and of each sender; in `MmsServer` of each worker, where
a worker in that loop is a state of its own (`spin`); in `Wire` of reading what has arrived and of the worker. Peers,
failing sends and the exit request are not fair.

## Proofs

Every safety invariant and every action property that a run expects to hold is also a theorem,
for every value of the constants that the named ASSUMEs allow.

`BossWorkerProofs`, for every number of threads, sockets and jobs:

* `TypeCorrect`;
* `WakeupsCorrect` (`WakeupsMatchJobs`) and `PopCorrect` (`PopFindsJob`). The balance of
  wake-ups and jobs is not enough for the second: at the shutdown one wake-up more than jobs
  is around. The inductive invariant `WakeInv` adds `ExitTokenPending`: once the exit
  post of a worker is made its flag is set, and while the worker has not taken that
  post it is still in the semaphore, so the wake-up a worker at the pop has taken
  stands for a job;
* `SocketHasOneThread`: from `HashInv`, every job queued for or processed by a worker
  is of a descriptor that is hashed to it;
* `RefinesSocketJobs`: `Spec` implements `SocketJobs`. Every step is a step of the abstract
  specification or leaves it alone, given `OrderInv`: the three invariants above, which give the
  head of a queue to pop and nobody else at work for its socket, and `SerialInv`, by which serial
  numbers grow along a queue, so that the head is the least of its socket.

`OutQueueProofs`, for every finite set of workers and every capacity: `TypeCorrect`
and `FlagsCorrect` (`FlagsMatchBuffers`, `FlagFindsBuffer`), with lemmas on the number
of workers between push and write.

`EventLoopProofs`, for every finite set of workers and descriptors, every size of answers,
send buffers and socket pair:

* `LoopImplementsQueue`: `LoopSpec` implies the safety part of `OutQueue` (every step of
  the loop is a step of the queue or leaves it alone), hence `LoopFlagsCorrect`;
* `LoopTypeCorrect` and `AnswersCorrect` (`AnswersBeforeClose`), from `LoopInv`.
  The property alone is not inductive: whether a close finds the writebuffer empty depends on how
  far the queue has been read since the answer. `Waiting` ties the two: an answer on a
  connection that was never full is either due at the next poll, with all three zero bytes
  of its flag unread, or its write callback is in the running round, in which at most one of them is
  read. When a flag byte is read no zero byte is left, so nothing is waiting. `Settled` supplies
  that such a connection has space and that `event_add` therefore raises an edge.

`MmsServerProofs` and `MmsSessionProofs`, for every number of workers, descriptors, users,
connections and commands. None of the properties is inductive, and most of what is missing is
the same for all: what lies unread, queued or in a worker's hands belongs to which connection.
`Core(at, from)` says it with two maps of history, at[c] the descriptor connection c was accepted
on and from[n] the connection command n came from, whose existence is part of the invariant.
On top of `Core`:

* `TypeCorrect` follows from `Core`;
* `RegisteredCorrect` (`StateRegistered`) is inductive with `Core`: two workers that hold
  one session serve one descriptor, hence are one worker (`OneClient`);
* `ExitCorrect` (`LastShellExits`) from `ShellInv`, which follows LOGOUT between
  `ShellExit` and the two removals from the maps;
* `UrlCorrect` (`AnsweredUrlReachesShell`) from `UrlInv`. A worker at OPENURL past its store has
  its own url in the session (`UrlStored`); and a registered shell client has been sent the url of
  an answered OPENURL, or of one whose success is about to be answered (`Answering`), unless
  the shell's own worker is between its registration and the send (`Told`, `Telling`);
* `InheritedCorrect` (`NoInheritedSession`) from `Heirs`: for the connection open on a descriptor
  and for every job queued for it, whatever an earlier connection left, a session or data that may
  still make one, is followed by the LOGOUT that `fd_close` pushed, which stands in the queue before
  the successor's first job or is being processed (`Closed`, `Ended`, `Ending`);
* `AnswersCorrect` (`AnswersInOrder`, for clients accepted when nothing was pending for their
  descriptor, `Tidy`) from `CleanInv`: what is processed for the descriptor is of its connection
  (`Own`), and an answer on its way in the outgoing queue or the write buffer is younger than
  those before it and older than every command still to be answered (`Line`).

`CodecProofs`, for every radix and every block size:

* `WordRoundTrip` and `FrameRoundTrip`: a frame whose length the word can hold is parsed
  back to its command, and exactly the frame is consumed, whatever follows it;
* `AESRoundTrip`: decryption undoes encryption for every length of text and whatever
  the unfilled end of the last block holds. The argument goes byte by byte: position p
  lies in block (p-1) div B at place (p-1) mod B + 1 (`Place`, `PlaceUnique`), and the
  blocks cover the text with less than one block to spare (`BlocksCover`);
* `Base64Fit`: the two sizes of the base64 helpers suffice for every length;
* lemmas that each operation of `fastbuffer` keeps the bytes inside the memory, on the range
  of the length word (`WordBounds`), and on decryption under the key of the encryption (`AESUndone`).

`WireProofs`, for every set of commands, every size of reads and every cutting of the stream:

* `BuffersAlwaysFit` and `Base64AlwaysFits`, from `WireInv`, which says that every
  buffer anywhere on the way (read, queued, kept by the session, being parsed) is a
  sequence of bytes within its memory. The types of the stream, the session and the parsed size
  belong to it, because what is appended or consumed comes from them;
* `WireTypeCorrect` (`WireTypeOK`), `OrderCorrect` (`CommandsInOrder`), `RefusalCorrect`
  (`RefusedForCause`) and `OverlongCorrect` (`OverlongNeverRuns`), from `StreamInv`. The variables
  do not keep what was sent, only what is still on the way, so the invariant says that there
  are h, all the bytes ever sent, st, the places where the frames begin, and jp, the places where
  the jobs begin, with: h is the frames of the commands one behind the other
  (`Hist`); stream, read buffer, jobs and the buffer of `JsonProcess` are consecutive windows of
  h (`Flow`); what was executed lies behind the place where `JsonProcess` is (`Did`); what
  was parsed is the frame at that place, and an exception has its cause (`Read`, `ThrowCause`); and while
  no read ended inside a frame and no command is overlong or unknown that place is between two frames, nothing
  before it was left out, and the connection was given up only by a refused LOGIN (`Whole`). The core of the argument is `FirstByteAt`: the first byte of a text stands in h only
  where that text begins. Hence `ParseCmd`, which knows nothing of frame boundaries, succeeds only on
  the frame its buffer begins with, and only when that is not overlong (`ParsedFrame`); it
  throws only after an overlong one, also where the buffer begins with a `PRE_CHAR` inside a text
  (`ParsedThrow`); a wrapped command throws only under a key the server has replaced; and a whole frame that fits its length word
  is parsed (`WholeFrame`).

`StmtProofs`, for every block size, every length of values and columns and every sequence of calls:
`StmtTypeCorrect`, `PiecesCorrect` (`PiecesApart`), `RowCorrect` (`RowAsGiven`) and `ColumnsCorrect`
(`ColumnsAsFetched`). The lemmas about `MemStuff` say what one `alloc` does: the memory stays well formed
(`Mem`), what was handed out before stays and keeps its bytes (`Keeps`), and the new piece overlaps
none of it (`Fresh`). `StmtInv` carries them through the calls: the pieces behind the pointers are handed
out, lie apart, and hold the values. `alloc` takes the first block with room; that there is a first one
(`LeastNat`) comes from the well-foundedness of the naturals.

The two most intricate invariants, `LoopInv` and `StreamInv`, were checked with TLC on the bounds of their
runs before they were proved.

What is model-checked only: the properties under fairness (`JobsAreProcessed`,
`ShutdownCompletes`, `Delivered`, `SendersResume`, `WritesDrain`, `InputTaken`, `ClosedSessionEnds`,
`CommandsExecuted`, and the fairness part of `QueueServed`), because the prover does not reason about
fairness, and the violations.

## Not modelled

* Third-party code: `tinyxml2`, `hiredis`, json-c, libevent, MySQL, pthread and OpenSSL
  headers under `include/` and `src/`. They are more than nine tenths of the lines in the repository;
  the server's own code is a few thousand lines, and the map covers most of what of it
  changes state. The models take from these libraries only what the server's code uses,
  marked external.
* `YYRedis`: it connects once at start-up; every call of `AsyncSendCommand` is commented
  out, so neither the command queue nor the reconnect delay is ever reached.
* `yylibmysqlpp` (not built); the single-queue `Bossworker` (not instantiated).
* Configuration, logging and profiling helpers (I/O only); the test client.
* The fields of the messages; RSA key import and export.
* In `Wire`, what a wrapped frame may hold besides a plain command or a LOGOUT: another wrapped command (unwrapped
  in turn), a LOGIN (ignored) or an unknown id (passed over). A `COMPRESS_RSA` from a client meets `assert(false)`.
* The Linux branch of `ShellExec`, in which a successful `execl` ends the server, and every behaviour with it.
* `connect` of MySQL, once per worker before it serves jobs; a failing `malloc`.

## Plan

1. A theorem that `MmsServer`'s job queues and outgoing queue are what `BossWorker` and
   `OutQueue` provide, in place of the argument in the text above.
2. The parts of the liveness properties that are safety: that a worker with a job is never
   without a wake-up is proved; the same for `WritesDrain` and `InputTaken`.
