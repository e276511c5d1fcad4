# TLA+ models of linux-programing-demo

The repository is a collection of small C programs, each showing one Linux
interface. They share no code, but many of them are concurrent systems in their
own right: several processes or threads that meet in a file, a semaphore, a
segment, a lock, a socket or a timer. This project models those programs,
model-checks them with TLC, and proves what TLC checks of safety for any
number of processes with TLAPS.

    tlc -workers 2 -config Semaphore.cfg Semaphore     # a run (see "Runs")
    tlapm SemaphoreProofs.tla                          # the proofs of a module

## Inventory

State, operations and dangers of the parts that are modelled. All paths are
under `src/`.

| Part | State | Operations | How its actors meet, what is hard | What makes it correct |
|---|---|---|---|---|
| `thread/semaphore` | a file with mutex, condition, unsigned count; its path | create, open, wait, post, close, unlink | processes through a mapped file; an opener may come while the file is being built; barging, spurious wake-ups, deaths; the path is unlinked while in use | at most one holder, no lost wake-up, only the creator unlinks, everybody returns |
| `thread/cond` | counter, producerExit, mutex, condition | produce, signal, wait, drain, the unlocked exit test | two threads; signal after unlock; exit flag without lock or signal | no lost wake-up, nothing left behind, main returns |
| `process/system-v-ipc/semaphore` | set, value, sem_otime, adjustments | create or get, wait, post, try, exit | processes race to create and initialise; die anywhere, undone by the kernel | never used early, unit conserved, everybody ends |
| `io/file_lock/fcntl` | record locks per process | _otherTest, argument parsing, F_GETLK/F_SETLK/F_SETLKW, close | waiting while holding; close drops everything | no cycle of waits, descriptors share a lock |
| `io/file_lock/flock` | descriptors, open file descriptions, locks | lock, unlock, three tests with dup and close | two descriptions of one process conflict; early returns | tests start clean, outcome as the lock's owner implies, no self-wait |
| `thread/mutex`, `thread/spin-lock` | counter, lock | lock, counter++, unlock; main's double lock | two threads; load and store; destruction | exact count, destroyed idle |
| `thread/rw-lock` | counter, rw-lock | writers add, readers look without the lock | equality test on a racing counter | readers leave last, and do leave |
| `socket/internet_tcp` | two byte streams per connection, one server buffer | connect, write, write, readLine, accept, reply, close | one connection at a time; clients die; close with unread bytes resets | own first line comes back, one-line clients never fail, all served |
| `timer/posix` | timer, callback threads, unlocked count | settime, expiry, callback, poll, delete | callbacks overlap; lost updates; time | never exits early, does exit |
| `process/posix-ipc/shared-memory`, `.../semaphore/unnamed.c` | named object, int, semaphore | create or open, size, set up, add, unlink | opening too early; unlinking while in use | no addition lost, everybody ends |
| `process/system-v-ipc/shared-memory` | key, segment, attachments | shmget, shmat, add, shmdt, IPC_RMID | everybody removes, at any time; deaths | exact, no leak |
| `socket/internet_udp` | datagrams on the way, ports | sendto, recvfrom | loss, copies, reordering, reused ports, no numbering | which answers can be trusted, who can hang |
| `socket/unix_domain_udp` | socket queues, value-result length | bind, sendto, recvfrom, remove | full queues both ways; address cut off; server dies of a failed sendto | answers in step, what kills the server, no mutual waiting |
| `socket/unix_domain_tcp` | path, connection queues, byte streams | connect, copy stdin; remove, bind, listen, accept, copy | servers take the path from each other; chunks of any size; full queues; deaths on both sides | inputs whole and unmixed, all copied |
| `socket/http_client` | addresses, buffer, index | try addresses, request, read up to the blank line | server stops, closes or resets anywhere; EOF costs iterations | stops at the first blank line, ends, one socket open |
| `io/fifo` | path, ends, bytes in the pipe | access, mkfifo, open, write, read | access and mkfifo race; open() waits for the other end; readers share bytes | EOF only for those who shared, nobody waits without reason |
| `io/select`, `io/poll`, `io/epoll/base` | pipe, stdin, timeout count | wait, read, close after hang-up | bytes and hang-up together; a hang-up that stays ready | read before closed, closed once, loops end |
| `io/epoll/et-read` | FIFO, edge | write, epoll_wait, read one byte | events merge; read() that finds nothing indexes buffer[-1] | every event finds a byte |
| `io/bigfile` | hadWrittenSize, offset, hadError | write, compare with lseek | short and failing writes counted as -1 | hadError tells the truth about the file |
| `memory/mmap_file` | file, pages, child | truncate, write, map, change, read back | copy on write; another instance truncates the file under the mapping | shared and private shown as promised |
| `timer/linux` | timerfd, loop count | settime, epoll_wait, read | EINTR and timeouts cost iterations; expiries merge | handled at most once per expiry, ends |
| `time/sleep` | request, remaining time, deadline | eight ways to sleep, SIGINT | interruptions at any time, rounding at every restart, delays, carry of nanoseconds | never shorter than asked where restarted, and longer only by delays and rounding |
| `thread/cancel` | cancellation state, pending request | disable, sleep, enable; cancel, join | the request may come at any point | no request lost, both end |
| `process/posix-ipc/msg-queue` | queue, its count | open, mq_getattr, send or receive | count is stale when used; full and empty queue block | who waits, and for what |
| `process/posix-ipc/semaphore/named.c` | name, value | sem_open, trywait, post, trywait, close, unlink | units taken by others between post and trywait; deaths; name removed while in use | units match their posts |

PROJECT.json lists every part, and the hazards of the code line by line.

## Modules

`Exclusion` is the abstract lock: a resource has at most one holder and changes
hands only through being free. `Semaphore`, `SysVSem` and `LockedCounter` are
shown to implement it (`IsExclusive`, an INSTANCE with the set of processes
between wait and post, or of threads inside the loop body, as `holder`).

Each component module has the program's shared objects as variables, a `pc`
per process, one action per atomic step, and keeps the source's names. A step
is atomic when the kernel or a held lock makes it so: an unlocked `counter++` is a
load and a store (`Load`, `Store`), `__sync_fetch_and_add` is one step,
`pthread_cond_wait` releases and sleeps in one step and relocks in another.
PROJECT.json maps every definition to its lines. Kernel, libc and network are
modelled as these programs use them and marked external in the map.

* `Semaphore`. The file created by process o is called o and outlives its
  path. `CreateExcl`, `Ftruncate`, `StoreCount`, `MutexInit`, `CondInit` are the
  steps of semaphore_create; `Open` may come between any two of them, and then
  the file joins `raced`. POSIX promises nothing for a raced file: its mutex is
  what was last written to it, and sleepers of a re-initialised condition become
  "lost" (a later signal may still reach them). `Take` and `Post` compute
  modulo the width of the unsigned count. `Kill` leaves the process where it
  is, with whatever it holds.
* `CondQueue`. `left[t]` counts down the seconds of a sleep(). `prompt` is
  chosen once: TRUE is a scheduler that lets no second pass while a thread can
  run; FALSE lets threads be late without limit.
* `SysVSem`. `adj[p]` is the SEM_UNDO adjustment the kernel applies in `Exit`
  and `Kill`; SETVAL clears it. semget may also fail for want of space.
* `FcntlLock`. Block 0 is bytes 0..9, which _otherTest locks; block 1 is what
  lies behind. A request that waits is a disabled `Lock`; the kernel's EDEADLK
  is not an outcome, because `NoWaitCycle` shows it cannot arise.
* `Flock`. `fds[p]` (`fdTable` in `MCFileLock`) maps descriptors to open file
  descriptions, `lock[p]` descriptions to locks; a description without descriptors loses its lock.
* `LockedCounter` is the mutex program (Recursive = TRUE) and the spin-lock
  program (FALSE). `RwCounter` is the rw-lock program, with glibc's default
  preference for readers.
* `TcpEcho`. Streams of bytes over a small alphabet; `Store` and `LineEnds` are
  the body of readLine. Closing with unread bytes, or writing to a closed
  connection, resets it.
* `PosixTimer`. `Notify` is glibc's helper thread; an expiry that comes while one
  is pending is only an overrun. `prompt` as in `CondQueue`.
* `PosixShm`. `withSem` selects shared-memory/main.c or semaphore/unnamed.c.
  Objects and `raced` as in `Semaphore`. `Additions(o)` is the set of additions made
  to an object, one (process, turn) pair for each.
* `SysVShm`. A removed segment leaves its key at once and is freed with its
  last detach; until then its identifier can still be attached.
* `UdpEcho`. `up` and `down` are sets (no order); `Lose`, `Duplicate` are the
  network. A datagram remembers the client and argument it stems from, which
  the programs cannot see; the properties use it. `Cut` is the truncation to
  g_buffSize.
* `UnixDgram`. socketSize is room on the way into recvfrom and length on the
  way out. An address that does not fit yields an arbitrary `cltAddr` (stack
  bytes that were never written).
* `UnixStream`. Bytes are known only by the client they come from. `RemovePath`
  and `BindPath` are two steps, so that a second server can take the name in
  between or later; the first goes on with the connections it has. `Stop` is
  SIGINT, the only end of a server.
* `HttpHead`. Bytes are CR, LF or another. The server is external and sends,
  closes or resets when it likes. `old` selects old.c, which tries one address.
* `Fifo`. An end counts from the beginning of open(), which is how the kernel
  lets two waiting open() release each other; bytes go with the last end.
* `FdLoop` is three programs (`api`). `Report` is what the kernel says of a
  descriptor; a regular file is always ready for select and poll, and refused by
  epoll.
* `EdgeRead`. `edge` is the one pending event into which several writes merge.
  `EpollWait` may report it for a FIFO that is already empty, where the kernel
  would look again; `NeverShort` holds even so.
* `WriteLoop`. `hadWritten` and `offset` are the program's and the kernel's idea
  of the size; they part for good when a write() returns -1. A file that EFBIG
  cuts off and a disk that is full for a while are different failures.
* `MapFile`. A byte is the number of times it was changed. `own` is the private
  copy of the page. O_TRUNC by another instance takes all pages away, and the
  child dies of SIGBUS.
* `TimerFd`, `Sleep`. Time in seconds and in ticks. `Sleep` goes through the eight
  cases one after the other like main, with any argument of a set; `late` counts
  the ticks in which the process could have run and did not. `Call` adds up to
  `Rounding` ticks to every call, the kernel's rounding to its clock interval; a
  call that is restarted with its remaining time is rounded again, which
  time/sleep/README.md:15-16 names as the weakness of nanosleep, and one with an
  absolute deadline is not.
* `ThreadCancel`. `inTime` remembers whether the request came before the last
  sleep was over.
* `MsgQueue`. `seen` is the count mq_getattr told, `since` what others have
  received after that. The queue may be left over from an earlier run.
* `NamedSem`. sem_open creates and initialises at once; semaphores are named by
  their creator and outlive their name.
* The MC modules put programs of one kind into one run: `MCFileLock`, `MCThread`,
  `MCStream`, `MCIpc`, `MCDatagram`, and `MCIo` for descriptors, files and clocks.
  A variable that the initial state chooses (`medium`, `which`, ...) selects the program; only that
  one moves, the others stay in one initial state. Nothing is lost by this: the
  programs do not interact. `MCFcntlLock` gives the argument lists.

Definitions marked "Mutant" are not part of any specification. They are the
plausible mistakes with which each property is tried out: with the mutant in
place of the definition below it, the run must fail.

## Runs

Every program here comes to an end, so all runs have CHECK_DEADLOCK FALSE;
that nobody is stuck instead is stated as a liveness property. Distinct states
in parentheses.

| Run | Bounds | Shows |
|---|---|---|
| semaphore (63116) | 3 processes, count modulo 4, 1 death, 1 spurious wake-up | `NoLostWakeup`, `IsExclusive`, `Terminates` |
| semaphore_init_count | 3 processes | violation: "init count is 1" (below) |
| cond (9905) | the program's own 10 items, 2 s and 3 s; 2 spurious wake-ups | `NoLostWakeup`, `DoneMeansDrained`, `Terminates` |
| sysv_sem (13532) | 3 processes, any of them killed, the program's 3 polls | `UsedInitialised`, `UnitConserved`, `AllEnd` |
| file_locks (124760) | fcntl: 3 processes, 7 argument lists; flock: 2 processes, all argument lists | `NoWaitCycle`, `TwiceGranted`; `FlockTests`; `LockersEnd` |
| flock_close | 1 process, all argument lists | violation: "close fd1, will not unlock fd1" (below) |
| fcntl_whence | 2 processes, all commands and whence letters | violation: whence overwrites cmd (below) |
| threads (2698) | 3 iterations per thread, 3 sleeps | mutex: `FinalCount`; rw-lock: `RwReaderLeavesLast`; cancellation: `CancelKept`; `ThreadsEnd` |
| streams (247975) | TCP: 2 clients, buffer of 3, 5 messages; HTTP: 3 addresses, buffer of 6; UNIX: 2 servers, 2 clients, inputs of 0 or 2 bytes, room for 1, backlog 1; FIFO: 2 readers, 2 writers, 2 bytes | `EchoCorrect`, `OneLineSucceeds`; `HeadOnly`; `WholeInputs`; `EofOnlyShared`; `StreamsEnd` |
| ipc (184949) | 3 processes; 2 additions each; 1 death (System V, named semaphore); queue of 2 | `NothingLost`; `SysVLifetime`; `WaitsForTaken`; `UnitsMatch`; `IpcEnds` |
| datagrams (344225) | UDP: 2 clients, 2 ports, 2 arguments, 1 copy; UNIX: 3 clients, 3 arguments, queues of 1 | `InetInStep`; `UnixInStep`; `AnswersCome` |
| io (117775) | 3 bytes of input, 5 and 3 timeouts, reads of 2; 4 writes of up to 3 bytes to the FIFO; 5 bytes in blocks of 2, limits 3, 4, 5, 9, disk full twice; 2 instances mapping 2 bytes; POSIX timer: the program's own times, 2 callbacks to count, 5 threads; timerfd: 3 s, 4 iterations, timeout 2 s, 2 expiries unread; sleeps: 2 ticks a second, 0, 1, 3 or 4 ticks, rounding by up to 1 tick, 2 signals and 2 late ticks per sleep | `DrainedBeforeClose`; `NeverShort`; `SizeReported`; `ShowsMapping`; `ExitAfterMax`; `CallbackPerExpiry`; `SleepsAsAsked`; `LoopsEnd`; `TimersEnd` |

Why the bounds are enough. Three processes are a creator, an opener and a
newcomer after the unlink; or a holder, a woken sleeper and a barger. Two
iterations already lose an update; the count only has to be able to wrap. The
fcntl argument lists hold each command, a shared, an exclusive and an unlock
request, ranges with and without the block _otherTest holds, arguments main
refuses and an unknown command. The TCP messages are empty, fill the
buffer exactly with and without their newline, overflow it, and span two lines.
Five callback threads are all
that start before main leaves when threads are prompt (at seconds 2, 4, 6, 8 and
10, for a main that sees the second count at 9 or 10); in other behaviours the
bound only keeps further threads from starting. UDP ports are as many as clients,
so that a port freed by one is taken by the other. Addresses of three and four
digits are the shortest pair that cuts one off. An HTTP buffer of 6 has a blank
line at its beginning, in its middle, at its end or cut off by it. Two UNIX
servers are one that has lost the path and one that has it; inputs of two bytes with
room for one make the writer wait. Two readers of a FIFO can share a message of
two bytes, two writers can hand over a pipe whose readers leave. The epoll timeout
is shorter than the interval, so that timeouts happen. Two ticks a second are
enough for a carry, and 3 ticks for a second and a fraction. The limits of the
big file are below, at and above its size, and at an uneven place.

Fairness is weak fairness of each process or thread (`Run(p)`, `Server`,
`Producer`, ...): the kernel's scheduler runs whatever can run, sooner or
later, and a blocked action whose lock keeps becoming free is only claimed to
be taken when it stays enabled. Killing, signals, EINTR, spurious wake-ups, loss,
copying, what an outside server or writer does, and a disk that is full are
never fair. `Tick`, `TimerTick` and `SleepTick` are fair because clocks advance. Liveness is stated with
the exceptions the code really has:

* `Terminates` of `Semaphore` and `AllEnd` of `PosixShm` except behaviours in which
  somebody opened too early or (Semaphore) was killed.
* `Terminates` of `CondQueue`: a consumer that is late may test producerExit just
  before it is set and wait for ever; only the lengths of the sleeps keep the
  program from it. With prompt threads main always returns; otherwise being
  stranded there is the only way not to.
* `Terminates` of `PosixTimer` assumes prompt threads (the bound on
  threads would cut other behaviours short).
* `RwReadersNotice` starts when the writers are done: readers that overlap can
  keep them out for ever.
* `AllAnswered` of `UdpEcho`: a client hangs if a datagram of its own was lost,
  and only then.
* `AllEnd` of `UnixDgram` except when the server died or an address was cut off.
* `HeadEnds` of `HttpHead` except with a server that neither sends the blank line
  nor closes.
* `FifoEnds` of `Fifo`: open() waits for ever when all the others are gone.
* `LoopEnds` of `FdLoop`: the poll program spins for ever on a standard input that
  is a file or has hung up, and never sees the timeouts that would end it. The
  program's pipe, hung up by epoll's own program, has no such effect there.
* `MqEnds` of `MsgQueue`: those wait for ever whose count had become stale, at an
  empty or a full queue.
* The writing loop of `WriteLoop` ends if the disk is not full for ever (`MaxFull`
  failures at most); the code itself would go on trying.
* The timerfd loop and the sleeps end without exception; `Sleep` allows finitely
  many signals per call.

### Disagreements between the code and what it says

* `semaphore_init_count`: sem.h:11 says "init count is 1". Between open() and
  the return of semaphore_create another process can open the file, lock the
  mutex that is about to be initialised, and take the unit twice over; when
  semaphore_create returns, count and holders do not add up to 1.
* `fcntl_whence`: main.c:186 stores the sixth argument, which the usage text
  calls whence, in the command letter.
* `flock_close`: flock/main.c:51 prints "close fd1, will not unlock fd1". In that
  test fd1 is the only descriptor of its open file description, so the close in
  line 49 does unlock it, and fd2 gets the lock. `FlockTests` says what
  the code does.

One more was met and not given a run of its own: timer/posix/main.c:13 calls
g_maxCallbackCount the most callbacks that are executed ("最多执行几次回调"),
while with the program's own times several more are under way when main leaves
(`ExitAfterMax` says "at least").

## Proofs

TLAPS checks the following for every value of the constants: every invariant
that a run checks, and every refinement, has a theorem. Each component has an
inductive invariant (`IInv` where a module is about one component, else
`FdInv`, `TcpInv`, ...), a lemma that the initial states satisfy it, lemmas that
every action preserves it (one step per action), and the theorems derived from it.
The invariants are stated of the program's own specification (`Spec`, `HttpSpec`,
`Fl!Spec`, ...), not of the composed run.

* `SemaphoreProofs`: `TypeCorrect`, `NoWakeupLost`, `UnlinkOwnOnly`, `Exclusive`,
  for any set of processes, any width of the count, any number of deaths and
  spurious wake-ups. `IInv` adds to the types: who has which file
  mapped, and that the path names its creator's file until the creator is done
  (`Mapped`); what an unopened file looks like while it is built (`Fresh`); and
  for files nobody opened too early, that the count is 0 or 1, that whoever is
  between lock and unlock owns the mutex and nobody else does, that a process
  about to decrement sees 1, and that a holder means 0 (`Guarded`); and that a
  sleeper beside a positive count has somebody, alive or dead, on the way to the
  test (`Signalled`). Without the mutex's ownership the
  step from the test to the decrement is not provable: somebody could take the
  unit in between. `NoLostWakeup` follows: a dead owner of the mutex is on the
  way itself or holds the unit, and then the count is 0. Its exception for
  processes that die in semaphore_wait is needed. A holds; B and C sleep; B is
  killed in pthread_cond_wait and A's signal is spent on B, which the condition
  variable still counts, or B is woken and killed before it relocks; A's post
  makes the count 1, and C sleeps on beside it with nobody on the way, until
  another process comes and posts. TLC finds
  this trace when the exception is left out. `Exclusive` is a step-simulation proof: every step maps to
  an Acquire, a Release or a stutter of `Exclusion`, including the step in which
  a file becomes raced and drops out of the mapping.
* `CondQueueProofs`: `TypeCorrect`, `NoWakeupLost`, `Drained`, for any number
  of items, any sleeps and any scheduling. `Accounts` says that produced items are
  in the counter or consumed, and that what the consumer read first
  (producerExit) stays true while it reads the counter.
* `SysVSemProofs`: `TypeCorrect`, `NeverUsedEarly`, `UnitKept`, `TryLogTrue`,
  `Exclusive`, for any processes killed anywhere and any number of polls.
  `Building` (one creator, no unit before its semop) and `Adjusted` (a holder and
  nobody else has an adjustment of 1) carry the argument.
* `LockedCounterProofs`: `TypeCorrect`, `CountIsExact`, `NoUseAfterDestroy`,
  `Exclusive`, for every maxTestNumber, mutex and spin lock. `Ownership` ties the
  lock's owner to the thread inside, `Counted` the counter to the loop variables.
  `ReadersLeaveLast` for the rw-lock program: `RwShares` says that the counter is
  the sum of the writers' progress, so that it equals 2 * maxTestNumber only when
  both are past their last store, and that it stays there. `RequestKept` for the
  cancellation, for any number of sleeps.
* `IoProofs`, the programs around one descriptor, file or clock:
  * `NothingUnread`, `ByteFound`, `SizeIsReported`, for any sizes, counts, limits
    and arrivals. `FdInv` says that what the call reported is still true when it
    is handled (`Reported`: bytes only become more before the one read, and a
    hang-up that was reported without bytes stays without), and that the pipe is
    read in the first round (`PipeRead`). `EdgeInv` bounds the bytes from below by
    the events and reads outstanding. `WriteInv` keeps offset = hadWritten + the
    number of failed writes.
  * `MappingShown`, for any number of instances and any size. `MapShape` says what
    the file and the private page of an undisturbed instance hold at each place:
    the bytes below the loop variable are changed, the others are not yet.
  * `LockTypesCorrect`, `TwiceAgrees`, `NoDeadlock`, for any processes and
    arguments. `Locks` says that a process that has not reached its own request
    holds at most the write lock on block 0, which excludes every other holder of
    that block; hence two processes cannot both wait and hold.
  * `TestsAsOwned`, for any number of processes. `FlShape` says which descriptors
    are open and which descriptions locked at each place of the flock tests.
  * `NeverLeavesEarly`, for all times and any number of threads. `CallbackInv` says
    that no callback between its load and its store has read more than the callbacks
    that worked before it, so a lost update can only make the count too small.
  * `OnePerExpiry`, `AsLongAsAsked`, for any intervals, times, resolutions, signals,
    roundings and delays. `OnTime` says that the moment the call will wake lies
    between the asked time after entry and that plus the delays and `Drift`: the
    rounding of every call so far where the remaining time is passed on
    (`Passed` and one more), of one call where the deadline is absolute. The absolute deadline needs
    the carry lemma `CarryValue` (the value of a timespec is unchanged and its
    nanoseconds are in range) and division with remainder (`DivMod`).
* `IpcProofs`: `OnlyForTaken`, `UnitsAreMatched`, for any number of processes,
  messages and deaths. `Balance` says of each semaphore that its value and the
  units taken first equal the processes about to try again and those that missed,
  as cardinalities; `OneMore`, `OneLess` and `SameBalance` say how these sets change
  when one process moves. `SegmentsLive`: `SysVLife` says that a removed segment is
  freed unless one of its users is attached, `SysVCount` that its int is the number
  of additions. `NoAdditionLost`: `Mutex` says that in an object nobody opened too
  early one process at a time is between sem_wait and sem_post and what it has
  loaded is still the int, `Shares` that the int is at least each user's own
  additions, `AddedUp` that it is the number of all of them. Additions are a set of
  pairs (process, turn), so that one more addition is one more element and no sum is needed.
* `DatagramProofs`: `AnswersInStep`, `UnixAnswersInStep`, for any clients, arguments,
  ports, losses and queue lengths. For UDP, `Turns` ties answers to arguments,
  `Ports` says that a running client shares its port with nobody unless the port was
  reused, and `Single` that at most one datagram of a client is on the way as long
  as none was copied, which is why the next answer can only be the one that is due.
  For the UNIX sockets, `InQueue`, `InHand` and `InBox` say that a client's latest
  request is in one place only: the server's queue, its buffer or the client's inbox.
* `StreamProofs`, the programs that talk over byte streams:
  * `NothingAfterHead`, for any number of addresses and any buffer. `NoBlankYet`
    says that a client that still reads has not stored a blank line.
  * `EofIsShared`, for any readers, writers and length of message. `Arriving` says
    that a reader whose open() has seen a writer still has an x before it (with a
    writer, or in the pipe) or another reader has taken bytes.
  * `InputsStayWhole`, for any servers and clients. `Places` says that a connection
    is in one queue, at one server or done with; `Unmixed` that the connection being
    copied is the last one in the output; `Drained` that nothing is on the way of
    a connection that is done with; `Balance` that what a client took from its input
    is in the output, on the way or about to be written (as cardinality of the
    positions in the output).
  * `EchoesFirstLine`, `OneLineNeverFails`, for any clients, messages and buffer of at
    least 2. `TcpInv` says of every connection that the bytes on the way up are the
    text without the n bytes the server has read, none of which was a newline, and
    that the server has stored those that fit (`Upstream`); that what a client has
    read and what is on the way down make up the expected line (`Downstream`); and
    that nothing is unread when the server closes a one-line connection (`OneLine`).
    Sequences are compared position by position, so that no induction is needed.

The assumptions are the named ASSUMEs of the modules: `None`, `Nobody` and `NoSem`
are no process, client, server or port; the count has at least the values 0 and 1;
bounds and times are naturals; an opener polls at least once; argument lists are
well formed; one read takes at least what the pipe was filled with; the sets of processes that
share a semaphore or a segment are finite; a second has at least one tick; rounding is by a natural number of ticks; the timer's times
are positive; the mapped file and the FIFO's message have at least one byte; no
process is both a reader and a writer of the FIFO; a server reads at least one byte at a
time; readLine's buffer has room for a byte and the NUL; TCP messages are sequences of
bytes. TLC evaluates them in the runs.

Not checked in a run as well, because the theorem says more: the types
(`TypeCorrect`, `LockTypesCorrect`), `UnlinkOwnOnly`, `TryLogTrue`,
`NoUseAfterDestroy`, and `Exclusive` of `SysVSem` and `LockedCounter`.

Only model-checked: all liveness (`Terminates`, `AllEnd`, `LockersEnd`, `ThreadsEnd`,
`StreamsEnd`, `TimersEnd`, `IpcEnds`, `AnswersCome`, `LoopsEnd`), because the
prover has neither fairness nor ENABLED.

## Not modelled

* `other/fread`: a loop over stdio; what is written and when an error shows is
  decided by libc's buffer, whose rules the repository does not hold.
* `io/inotify`: prints what one read() returns; the records are the kernel's and the
  program keeps nothing between two reads.
* `thread/basic`, `thread/tls-tsd`: threads that share nothing, so that no order of
  their steps matters.
* `signal`, `process/basic`: handlers that only print, one fork and wait.
* `time/posix`, `time/unix`: calls that read, set, convert (in libc) and print clocks.
* `directory`, `memory/base`, `other/cmake`, and the single-call programs
  `io/base`, `io/open_to_fopen`, `io/pipe`, `io/popen`, `io/pwrite`, `io/redirect`,
  `io/stat`, `io/syslog`, `io/tmpfile`: straight-line programs without state of
  their own.
