# c_lib in TLA+

A verification development beside the C sources of `src/`: TLA+ modules of its
concurrent and stateful programs, instances of them for TLC, and proofs for
TLAPS. `PROJECT.json` says which definition stands for which lines, lists the
runs, the mutants, the hazards and the theorems.

1. [The system](#1-the-system)
2. [Modules](#2-modules)
3. [How the models correspond to the code](#3-how-the-models-correspond-to-the-code)
4. [Runs, bounds and what they show](#4-runs-bounds-and-what-they-show)
5. [Fairness](#5-fairness)
6. [Proofs](#6-proofs)
7. [Findings](#7-findings)
8. [What is false, and therefore not stated](#8-what-is-false-and-therefore-not-stated)
9. [What is not modelled](#9-what-is-not-modelled)
10. [Plan](#10-plan)

To run a check: `tlc -config MCIdsReconnect.cfg MCIdsServer`; to check the
proofs: `tlapm ServersProof.tla`.

## 1. The system

The repository is a collection. Its one large program is an intrusion detection
system for databases (`src/midwares`): beside every *davinci* host an **agent**
sends the host's SQL log to one **server**, which assembles the log into SQL
records and has a **rule engine** judge them. Around it are the samples the
author learned from (threads, locks, sockets, a shell) and the sources of a
textbook (APUE), two of which are programs of their own: a database library and
a print spooler.

| component | state it keeps | operations | talks to |
|---|---|---|---|
| IDS server, `midwares/socket_server/server.c` | slots of connected hosts and their count, name of today's log, the downloaded files, the queue of records and its count, one mutex | accept or refuse a connection; per connection a download thread and an enqueue thread; one dispatch thread; console commands | agents and console over TCP, files between the download and the enqueue thread, the SQL queue between enqueue and dispatch, the rule engine by calls |
| SQL queue, `midwares/queue/queue.c` | linked list with a dummy first node | create, enqueue, front, dequeue, front_and_dequeue, make_empty, dispose | called by the server under its mutex |
| IDS agent, `midwares/socket_server/agent.c` | position in the log, what is read and unsent, retry and waiting counters, errno | connect, be told a day, send the day's log as it grows, reconnect, exit at midnight | the server over TCP, the log on disk, a supervisor that starts it again |
| Rule engine, `midwares/mysql/mysql_wrap.c` | four hash tables (normal, reported, suspect, exception), the rules' level, a MySQL transaction | judge a statement, report it, add an exception, change the level, load the tables at start | dispatch and console thread, MySQL, machine learning server, parser and regular expression libraries |
| Multi-threaded server sample, `APUE/11.threads/sample/multi_thread_server.c` | two files written in turn, five flags, a queue | talk thread per client, one enqueue, one dispatch thread | clients over TCP; threads by flags under one mutex |
| Reference-counted tables, `os/01.mutex/mutex3.c`, `mutex2.c` | lists of objects with counts; one lock, or one lock plus one per object | alloc, hold, find, rele | threads of their callers |
| Database library, `apue.3e/db/db.c` | an index file (free list, hash chains, records) and a data file | open, close, rewind, fetch, store, delete, nextrec | the processes that share the files, by byte-range locks of `fcntl` |
| Print spooler, `apue.3e/printer/printd.c` | the spool directory (data files, request files, job file), the list of jobs in memory | accept a document, print it, build the list again at the start, read its configuration again | clients over TCP, a thread per client and the printer thread by a mutex and a condition variable, the printer over HTTP and IPP, SIGHUP and SIGTERM |
| System V semaphores, `APUE/lib/semaph.c` | a set of three semaphores in the kernel: value, users, lock | create, open, close, remove, wait, signal | processes; the kernel undoes what a process that exits has done |
| Socket server course, `linux_system_programming/12.high_concurrency_server` | a table of clients, beside it `maxi`, `maxfd`, a set of descriptors or epoll's | wait with select, poll or epoll, accept, read and answer a line, close | clients over TCP |
| Thread synchronisation course, `linux_system_programming/09.thread_sync`, and the condition variable samples of `os` | a ring buffer with two semaphores; a list with a condition variable | put, take | producer and consumer threads |
| Configuration, Logger, Console client (`midwares/config`, `logger`, `console`) | option values; one log file | load; write; send a command | server |
| Shell course, the rest of `os`, `linux_system_programming`, `basic` and APUE | little or none beyond a call | | |

### Where it is hard, and what makes it correct

**IDS server.** The hard part is not any one thread. `main` reads the slots
without a lock while the talk threads write them; each connection starts an
enqueue thread and the one of the previous connection lives on and polls the
same file name; the file is truncated by `fopen("w")` at reconnection while
they read it at an offset; log lines arrive in pieces, so that `fgets` sees
half lines; the queue's count is polled outside the mutex that protects it; the
date changes in the middle of everything. Correct means: every record that
reaches the rule engine is a whole record of a log, those of one thread arrive
in order and once; one thread serves a slot; the count is the length of the
queue, which stays bounded though test and enqueue are separate; whoever holds
the mutex will release it; the queue drains, and the slot of a lost agent is
given back.

**SQL queue.** Dequeuing the last text frees the node `Rear` points to. Correct
means: it never leaks, never dangles, and is a FIFO.

**IDS agent.** It reopens its log at an offset, decides by `errno` and by an
unsigned return value, learns of a lost connection only from its second send,
and gives up on several counters. Correct means: what arrives is a prefix of
the log it was asked for, and today's log arrives in the end.

**Rule engine.** A report is a row, a cache entry and a commit, in that order,
on a connection that the console's thread commits on as well, and any of them
may fail or be the last thing the process does. Correct means: what is in the
black list is what is in the database, nothing is reported twice, exceptions
are honoured and survive a restart.

**Multi-threaded server sample.** Talk threads wait for one flag of a file, the
enqueue thread for the other one. Correct means: they never all wait; every
client is served; the last file is read.

**Reference-counted tables.** Between counting off what looks like the last
reference and taking the list lock, another thread may find the object. Correct
means: no deadlock, no use after free, an object is listed exactly as long as
it is referenced, and the two-lock table behaves as the one-lock table.

**Database library.** Every call is a dozen reads and writes of two files that
another process reads and writes meanwhile. Chains are locked one by one, the
free list is shared by all of them, and `db_nextrec` walks through the records
without the lock of any chain. A deletion saves a pointer before it overwrites
it, and a store that replaces a record by one of another length deletes and
inserts. Correct means: a record is on one list, and on the one its key belongs
to; no record is written over its neighbour; nobody waits for ever; and to its
callers the whole is a map from keys to data in which each call takes effect at
one instant.

**Print spooler.** A client is told its job number before the job is on the
list in memory; the number is saved only when a job is picked up; the signal to
the printer thread comes after the mutex has been released; a job the printer
refuses goes back on the list; the daemon may die between any two of these and
builds its list again from the directory. The printer's answer comes in pieces
of any size. Correct means: a document whose client has been told a number is on
disk until it has been printed or dropped, and is printed in the end, in order;
no request is queued twice or forgotten; the printer thread never sleeps over a
job; an answer is taken for a success only if it is one.

**System V semaphores.** Creation and initialisation are separate system calls,
any process may exit between two of them, and whoever closes the semaphore last
removes it while others try to open it. Correct means: the counter is the number
of users, the value is what the users have left of it, a removed semaphore is
one that nobody uses.

**Multiplexing servers.** Four descriptions of the same clients (`client[]`,
`maxi`, `maxfd`, the set of descriptors) change at different places while slots
and descriptors are used again. Correct means: they agree, and every line is
answered though other clients are silent or disappear.

**Producers and consumers.** Correct means: every item is taken once and (in the
ring buffer) in order, nothing is written over, nobody sleeps over an item.

## 2. Modules

| module | role | relation |
|---|---|---|
| `IdsServer` | the IDS server, all its threads | |
| `MCIdsServer` | its instances: addresses, logs, sets of faults | EXTENDS `IdsServer` |
| `SqlHandoff` | what the threads promise each other about the queue: bounded, in order, one record in hand | abstract |
| `SqlQueue` | `queue.c` over an explicit heap | |
| `Fifo` | what `queue.h` promises | abstract; `SqlQueue` implements it |
| `IdsAgent` | the agent composed with the thread of the server that serves it | |
| `IdsAgentProof` | that it sends a prefix of the log | EXTENDS `IdsAgent` |
| `RuleCache`, `MCRuleCache` | the rule engine's tables and transaction | |
| `RuleCacheProof` | its four safety properties | EXTENDS `RuleCache` |
| `PingPong` | the multi-threaded server sample | |
| `PingPongProof` | its type correctness and `NoStandoff` | EXTENDS `PingPong` |
| `FooTable` | the one-lock table (`mutex3.c`) | detailed and abstract at once |
| `FooTableTwoLocks` | the two-lock table (`mutex2.c`) | implements `FooTable` |
| `FooTableProof` | its invariant, and that it implements `FooTable` | EXTENDS `FooTableTwoLocks` |
| `Dictionary` | what the processes that share a database may rely on | abstract |
| `Db`, `MCDb` | `db.c`: every file access and every lock | implements `Dictionary` |
| `DbProof` | its four safety properties, and that it is a `Dictionary` | EXTENDS `Db` |
| `Printd` | the spooler: directory, list of jobs, threads, restarts | |
| `PrinterStatus` | the parsing of the printer's answer | |
| `Semaph` | `semaph.c` and the kernel's part of it | |
| `SemBuffer` | the ring buffer over semaphores | |
| `CondQueue` | the list with a condition variable | |
| `Multiplex` | the servers with select, poll and epoll, and their clients | |
| `Tables`, `MCTables` | `Semaph`, `RuleCache`, `SqlQueue`, `SemBuffer`, `CondQueue`, `FooTableTwoLocks` side by side | EXTENDS `Semaph`, instantiates the others |
| `TablesProof` | the safety properties of all of these, the last from `RuleCacheProof` and `FooTableProof`; that `SqlQueue` implements `Fifo` | EXTENDS `Tables`, instantiates those two proofs |
| `Services`, `MCServices` | `Printd`, `PrinterStatus`, `IdsAgent` side by side | EXTENDS `Printd`, instantiates the others |
| `ServicesProof` | the safety properties of the spooler, of the reader of the printer's answer and, from `IdsAgentProof`, of the agent | EXTENDS `Services`, instantiates that proof |
| `Servers`, `MCServers` | `IdsServer`, `PingPong`, `Multiplex` side by side | EXTENDS `IdsServer`, instantiates the others |
| `ServersProof` | of `IdsServer`: types, mutex, count, bound, that it implements `SqlHandoff`; slots, names, files, and what the records contain; of `Multiplex`: that its tables match and what was found is there | EXTENDS `Servers` |

`Tables`, `Services` and `Servers` let programs that share nothing share a run: a variable (`part`,
`program`, `server`) chosen in the initial state says which of them runs, the
others stand still in one initial state, so that the states of a run are the sum
of theirs and not the product. A property of one of them says so
(`part = "rules" => ...`): of the ones that stand still there is nothing to ask.
To prove something of a part is to prove it of the part alone: a behaviour of
`Tables` is, seen through the part's variables, one of the part's `Spec`
(`PartsRun`, `ProgramsRun` and `ServersRun` of the proofs), since the part that does not run
stays where its `Init` has put it.

`IdsServer` models the queue as the sequence that `Fifo` promises (`SqlQueue`
shows that the list keeps the promise when its calls do not overlap, and they
do not: every one is made with `s_queue_mutex` held). `IdsAgent` models the
server by one slot of `IdsServer`; `IdsServer` models an agent by a connection
that delivers the log it was asked for from its first byte on, which is what
`DownloadIsPrefix` of `IdsAgent` says. `RuleCache` is what `DispCheck` and the
console's commands of `IdsServer` call, and is not seen by it: a record's
verdict changes nothing in the server. `Printd` models `printer_status` by its
result, of which `PrinterStatus` shows that 1 is never returned for a job that
has not been printed.

No module uses PlusCal or a RECURSIVE operator.

## 3. How the models correspond to the code

A step is what a thread does between two points at which another thread can
see or change what it works with: a critical section in which nothing is waited
for is one step, a critical section that contains a test whose result is acted
on in a later one is two; a read without the lock is a step of its own. A
library call that can fail has a step for each outcome, enabled when its name is
in the constant `Faults`.

### IdsServer

`main` is a program counter (`accept`, `count`, `spawn`): the refusals at
server.c:805-834 are `Refuse`, which keeps the socket in `fds` as the code
does; `AcceptAgent` writes `g_wa_array`, `CountAgent` changes the count, `Spawn`
starts the two threads, and between them every other thread may run.

`talk[c]` is the thread `talk_to_client` of connection `c`, `enq[c]` its
`enqueue_func`, `disp` the one `dispatch_func`. The important program counters:

| | stands before | actions |
|---|---|---|
| talk `start` | marking the slot, 171 | `TalkStart` |
| talk `send`, `open` | the two unprotected reads of `g_file_name`, 192 and 200 | `TalkSend`, `TalkOpen` |
| talk `recv`, `write` | the download loop, 205-268 | `TalkRecv`, `TalkRecvEnds`, `TalkWrite` |
| talk `timeout`, `rename` | the check of the date after errno 104, 218-258 | `TalkTimeout`, `TalkRename` |
| talk `exit`, `uncount` | giving back the slot, then the count, 286-291 | `TalkExit`, `TalkUncount` |
| enq `fopen`, `retry` | reading the name and opening the file, 328-353 | `EnqName`, `EnqFopen` |
| enq `read` | `fgets`, 358 | `EnqGetLine`, `EnqGetEof`, `EnqFgetsFails`, `EnqEbadf` |
| enq `eof`, `reopen` | end of file: give up, remove an old log, or open again, 411-445 | `EnqEof`, `EnqReopen` |
| enq `room` | assembling the record, polling for room, 446-545 | `EnqAssemble` |
| enq `put`, `count` | the enqueue and the count, in one critical section, 537-545 | `EnqPut`, `EnqCount` |
| disp | the poll, the pop, the count and the call of the rule engine, 568-676 | `DispPoll`, `DispPop`, `DispUncount`, `DispCheck` |

A file is its content (`data`), named by the connection that created it; a
directory entry (`dir`) maps a name and a slot to a file, so that a thread
keeps reading a file that has been removed, and a file truncated by a
reconnection is read by both enqueue threads. A write beyond the end leaves a
`Hole`. A log is a sequence of line kinds, a line is two units of which the
second holds the newline: this is the least that lets `fgets` see half a line,
and a larger read or write is several small ones.

### SqlQueue

`heap` maps nodes to `[Element, Next]`; `malloc` takes any free node and `free`
leaves its stale contents, so that a dangling pointer would be seen.
`make_empty` and `dispose_queue` are loops: one step per node.

### IdsAgent

One action per call that blocks or fails: `Connect`, `RecvName`, `Open`, `Read`,
`ReadEof`, `Wait`, `Reopen`, `Send`, `Close`, and their failing twins. `errno` is
a variable because the code tests it after calls that do not set it (216, 375).
`talk`, `peer`, `wire`, `file` are the server's side: what is under way, what is
written, and how the agent's end looks. The connection's states are those TCP
has for a sender that never receives: `open`, `dead` (the peer has closed; a send
still succeeds and is lost), `broken` (the next send fails).

### RuleCache

`disp` is where `sql_check_sql` is (`parse`, `ask` the machine learning server,
`record` a suspect, `report`, `blacklist`, `commit`), `cons` where
`insert_exception` is. `db` are the committed rows, `txn` those of the open
transaction; both threads use one connection, so the console's commit commits
the dispatch thread's row as well. `Start` is `sql_init` after a `Killed`:
tables are loaded from `db`. Keys are texts `"%s%u"`, so the instance has two
statements with one key. A table entry made by `insert_exception` points to
that function's stack frame (`mem = "frame"`): whether a later lookup finds it
is arbitrary.

### PingPong

Flags are functions from files to BOOLEAN; all critical sections of
`flag_ping_mutex` are single steps. How many lines the enqueue thread finds in a
file is arbitrary, since it may read it while it is written.

### FooTable, FooTableTwoLocks

A list is the sequence of its objects. `refs` is who may use what: callers hold
and release only what they have a reference to, as the functions require. In the
two-lock table every point at which a thread waits for a mutex with another one
held is a step; the refinement mapping counts an object that is being unlinked
as 0 and a waiting thread as not having begun.

### Db

A step is one `read` or `write` of a file or one lock; appending a record
(lock, seek, write, unlock, db.c:563-583, 638-690) is one step, since nobody
else can see the inside of it. `ptr` holds every pointer of the index file, by
the place it is at (the head of the free list, a chain of the hash table, a
record), `idx` the records without their pointers, `dat` the data. `h[p]` is
the `DB` structure with the locals of the functions that are on the stack. The
program counters are the functions: `Create`, `Initialize`, `Open` (`db_open`),
`FindAndLock` to `Walk` (`_db_find_and_lock`), `ReadDat`, `DeleteLock` to
`DeleteUnlock` (`_db_dodelete`), `FreeLock` to `FreeUnlock` (`_db_findfree`),
`Store...` and `Overwrite` (`db_store`), `db_nextrec` and `Nextrec...`. `out` is
the result of a call, fixed at the step at which the call takes effect.
`Contents`, the map the files stand for, is the refinement mapping to
`Dictionary`; a replacement by data of another length counts from the moment the
old data is blanked, since no other process can look until it is finished.

### Printd

`client_thread` is a program counter per client (`header` to `done`), the
printer thread one (`check` to `defer`); each `creat`, `write`, `unlink` and each
critical section of `joblock` is a step. `disk` survives `Dies`, the rest is
built again by `Start` (the job file, 253-265) and `AddOnStart`
(`build_qonstart`). A request file is created and written in two steps, so that
a death in between leaves it `"short"`. `signals` are calls of
`pthread_cond_signal` that are due: they come after the unlock (295, 309). A job
number may be given twice, because the job file is written when a job is picked
up and not when its number is given: `Renumbered` names those, and what is
promised excepts them.

### PrinterStatus

The answer is a sequence of the units the parser looks for, `Arrive` reads any
number of them to the offset the code gives. Each search (`MoveOn`,
`FindLength`, `FindBlank`) has the bounds of the code's loops, each `readmore`
the condition under which it is called.

### Semaph

`kernel` is what the operating system keeps: the set the key stands for, its
values, and per process what `SEM_UNDO` would add back (`adj`, forgotten by
`SETVAL`). Each system call of `sem_create`, `sem_open`, `sem_close`, `sem_wait`
and `sem_signal` is a step; `Exits` may come between any two, and undoes what
the process has done.

### SemBuffer, CondQueue

A step is one access to what the threads share. `locks` says whether the program
uses its mutex, `wakes` whether a producer wakes one consumer or all. In
`CondQueue` a waiting consumer may wake up by itself, as POSIX allows, and
messages are nodes linked by `next`.

### Multiplex

A step is one system call of a server or a client. The three servers share
their actions, as their code does; `api` says where they differ: which
descriptors are asked about, in which order what has been found is looked at,
and what a reset does. With poll, `revents` of the slots beyond `maxi` is
arbitrary at first and then what it was. A client sends a line when the last one
has been answered, or disappears.

## 4. Runs, bounds and what they show

The code's constants are 10 agents and a console (`THREAD_MAX` 11), a queue of
1,000,000 records, 86,400 waits and 30 retries; a hash table of 137 chains; 10,000
users of a semaphore; 1,024 clients of a server. The behaviours these bound need
far less: a slot that is contested, a queue that is full with one record, one
wait that is too long, two keys on a chain, a table that is full with two.

| run | instance | distinct states | what it asks |
|---|---|---|---|
| `ids_reconnect` | one host or the console, two connections, a log of two records, a queue of one | 3,472,459 | the connection is lost at any byte and made again: the second download truncates the file under the first enqueue thread. Records stay whole and in order, one thread serves the slot, the count of agents is right, the queue overshoots by at most one per enqueue thread |
| `ids_rotation` | one host, two connections, two days, a log of one record, `fgets` may fail with errno 9 or another | 3,105,678 | midnight at any point of the two downloads: the log asked for is the log written, a removed file is not being downloaded, the count is the length, the queue is `SqlHandoff` |
| `servers` | the IDS server with one connection of an agent or of the console, a log with every kind of line, failing `pthread_create`, `fopen`, `fwrite` and machine learning connection; the sample with two files and three clients in turn; the echo servers with three clients and a table for two; fairness | 127,828 | where records are cut; the mutex is always released; the queue drains; a lost agent's slot is given back. Each client of the sample gets a file, the last file is read. The echo servers' tables agree, and every line is answered |
| `ids_two_talkers` | two connections, reconnection not slow | 253 when found | **violation**, see findings |
| `ping_pong` | three clients at once, `accept` and `fopen` may fail | 5,031,600 | no standoff. Three clients: one writing, one waiting to swap, one coming |
| `ping_pong_swap` | one client | 161 when found | **violation**, see findings |
| `db` | two processes, two keys on one chain and a third on another, data of two lengths, three index records | 1,074,237 | each record is on one list, and on that of its key; none runs into its neighbour; no deadlock; the library is a `Dictionary` |
| `tables` | semaphores: three processes, one of which opens and two of which create, two sets, one exit without closing. Rule engine: three statements of two hosts, of which two share a key and two an id; two levels; kills, lost connections, failing calls without bound. List: four nodes, two texts, `malloc` may fail. Ring buffer of two and list with a condition variable: two producers and two consumers with two items each. Reference-counted tables: three threads, two objects in one list | 352,887 | values, counters and locks of the semaphores mean what they should; black list and database agree, nothing is reported twice, exceptions are honoured and durable; the list is the heap and implements `Fifo`; both queues hand over every item once, and nobody sleeps over one; no use after free, counts are right, two locks implement one; no deadlock anywhere |
| `services` | spooler: two clients, one restart. Printer's answer: with and without an interim answer, failing reads. Agent: two days, logs of up to two buffers, two retries, three waits, three faults; fairness | 166,706 | what a client was told is spooled and printed, in order, once; the printer's answer is never taken for a success it is not; what the agent sends is a prefix of the log asked for, and today's log arrives |
| `rule_level` | as in `tables` | 534 when found | **violation**, see findings |
| `semaph_open` | as in `tables`, without exits | 3,070 when found | **violation**, see findings |
| `printd_status` | one answer, every read succeeds | 790 when found | **violation**, see findings |

Bounds that are not in the code, and why they may be there:

- `LastDay`, `MaxConn`: a connection and a day interact with the previous one
  (its enqueue thread, its file), so two of each. That an agent which misses a
  whole day stays in order is part of `AgentSendsPrefix`, for any number of days.
- `FdLimit`: refusals of connections keep their sockets; two is enough for
  `accept` to fail.
- `SlowReconnect` (TRUE in all passing runs of the server): an agent sleeps 30
  seconds before it connects again (agent.c:377), and a host runs one agent: it
  connects only when its last connection is closed at its end and the thread of
  that connection has started. Whether that thread has ended is left open.
  `ids_two_talkers` drops the assumption.
- `OneAtATime` (`servers`, `ping_pong_swap`): with clients at the same
  time one that never closes keeps another one waiting, and with two the
  flag that says that a client is connected is wrong (section 8).
- `MaxFaults` in `IdsAgent`: with infinitely many faults nothing ever arrives.
- `FileLines`, `MaxQueued`: the number of lines in a file and in the queue
  matters only in being zero or not, and full or not.
- `Prompt` in `IdsAgent`: the server takes what was sent while the agent sleeps
  ten seconds.
- `CHECK_COUNT`: ends of file between two looks at the date, 2 for 6.
- One host in all server runs: with two, the instances are beyond a few minutes.
  The theorems of section 6 hold for any number of hosts where they do not say
  otherwise, and what is false with two of them is in section 8.
- `MaxRec` in `Db`: three records are a first, a middle and a last one on a chain,
  and a free list of two beside a record in hand.
- `MaxRestarts` in `Printd`: one restart meets whatever the first life has left,
  and the second leaves nothing else. The theorems hold for any number.
- `MaxSets`, `MaxExits` in `Semaph`: a removed set and the next one; a process
  that has left its part behind.
- `Interim`, `MayFail` in `PrinterStatus`: which answers and failures there are.
- `Items`: in a buffer of two, two items of two producers fill it and make the
  indices come round.

`CHECK_DEADLOCK FALSE` stands where the system can stop: the server and the
samples once their connections are over or the process has exited, the agent
after `LastDay`, the spooler when every document is printed. `db`, `tables` and
`rule_level` check deadlock; in `tables` the parts that do stop (the list once it is disposed of, the
processes that have closed the semaphore, the threads that are joined) stutter
explicitly, in just those states.

Every property of a passing run has a mutant in `PROJECT.json`: a definition
replaced by a form a plausible bug would give it (a file read again from its
start, a test for room that is off by one, a lock that does not wait, a failed
report that is only logged, a pointer not saved before it is overwritten), under
which TLC finds the property violated. The mutated forms stand above the
definitions in the modules.

## 5. Fairness

`IdsServer!FairSpec`: weak fairness of `main`, of every talk, enqueue and
dispatch thread: the operating system runs threads that can run. Nothing is
assumed of the peers (an agent may never send, and never close), of midnight, or
of the console (its wrong command that makes the talk thread end is not
forced). A thread that waits for the mutex is enabled only while it is free, so
weak fairness does not promise it the mutex; `QueueDrains` and `SlotReleased`
hold without that, because the critical sections that last longer than a step
each take a record or a day further: a thread that goes round its loop without
input, at the end of its file or waiting for room, leaves the mutex free.

`PingPong!FairSpec`: the waiting talk threads, the enqueue and the dispatch
thread run; a client need not send or close.

`Multiplex!FairSpec`: the one thread of the server runs. A client need not do
anything. `LineAnswered` has a premise: the server is not blocked for ever in a
`read` of a connection that has nothing to say, which the server with poll can
be (section 8).

`IdsAgent!FairSpec`: the agent runs and is started again when it has exited (it
is a daemon with a supervisor: it exits at midnight for this purpose, agent.c:291),
and the server's thread receives. Faults are not fair, only bounded.

`Printd!Fairness`: every thread of the daemon runs and every signal that is due
is sent; the daemon is started again after its end. Strong fairness of `Send`
and `StatusOk`: the printer is reached, and reports success, if that is tried
again and again, as the code does for ever (a printer that never answers prints
nothing, whatever the daemon does). Clients, the death of the daemon and SIGHUP
are not fair.

`PrinterStatus!FairSpec`: the thread runs and the printer sends its answer.

In `services` and `servers` a promise has the fairness of its own program, and
no other, as its premise (`PrintdFair => AnsweredIsPrinted`): no promise can rest
on the fairness of another program's steps. The other modules are checked for
safety alone.

## 6. Proofs

TLAPS proves, for every value of the constants that satisfies the module's
assumption:

| theorem | states |
|---|---|
| `ServersProof!TypeCorrect` | `Spec => []TypeOK` |
| `ServersProof!CountCorrect` | `Spec => []CountIsLength` |
| `ServersProof!QueueIsBounded` | `Spec => []QueueBounded` |
| `ServersProof!OwnerAlwaysRuns` | `"ebadf" \notin Faults => (Spec => []OwnerRuns)` |
| `ServersProof!ImplementsHandoff` | `Spec => IsHandoff` |
| `ServersProof!CountOfAgents` | `AgentsFit /\ "pthread_create" \notin Faults => (Spec => []ConnectedIsCounted)` |
| `ServersProof!OneTalker` | `HostsDiffer /\ SlowReconnect => (Spec => []OneTalkerPerSlot)` |
| `ServersProof!NamesAgree` | `OneAgent => (Spec => []AskedIsOpened)` |
| `ServersProof!OldOnesRemoved` | `OneAgent => (Spec => RemovedIsOld)` |
| `ServersProof!RecordsWhole` | `OneAgent => (Spec => []CheckedAreWhole)` |
| `ServersProof!RecordsOrdered` | `OneAgent => (Spec => []CheckedInOrder)` |
| `ServersProof!EchoIsSound` | `ServersSpec => []EchoSound` |
| `PingPongProof!TypeCorrect` | `Spec => []TypeOK` |
| `PingPongProof!NeverStandoff` | `Spec => []NoStandoff` |
| `ServicesProof!TypeCorrect` | `Spec => []TypeOK` |
| `ServicesProof!SpoolKeepsAnswered` | `Spec => []AnsweredIsSpooled` |
| `ServicesProof!RequestsPendOnce` | `Spec => []PendingOnce` |
| `ServicesProof!NoJobSleeps` | `Spec => []NoLostWakeup` |
| `ServicesProof!FirstComeFirst` | `Spec => FirstComeFirstPrinted` |
| `ServicesProof!JobnoNeverBack` | `Spec => JobnoGrows` |
| `ServicesProof!AnswersUnderstood` | `ServicesSpec => []StatusTruthful` |
| `ServicesProof!AgentSendsPrefix` | `ServicesSpec => []DownloadIsPrefix` |
| `TablesProof!SemaphoreIsSound` | `Spec => []SemaphoreSound` |
| `TablesProof!OnlyOpenersLose` | `Spec => RemovedIsUnused` |
| `TablesProof!NothingLeaks` | `Sql!Spec => [](Sql!TypeOK /\ Sql!ListIsHeap)` |
| `TablesProof!EmptyTestHolds` | `Sql!Spec => []Sql!EmptyMeansNoNext` |
| `TablesProof!ImplementsFifo` | `Sql!Spec => Sql!IsFifo` |
| `TablesProof!RingIsFifo` | `Ring!Spec => []Ring!FirstInFirstOut` |
| `TablesProof!CondKeepsMessages` | `Cond!Spec => []Cond!MessagesKept` |
| `TablesProof!TablesAreTyped` | `TablesSpec => []TablesTypeOK` |
| `TablesProof!QueuesAreSound` | `TablesSpec => []QueuesSound` |
| `TablesProof!ListIsFifo` | `TablesSpec => IsFifo` |
| `TablesProof!TablesReportsMatch` | `TablesSpec => []ReportsMatch` |
| `TablesProof!TablesExceptionsHold` | `TablesSpec => []ExceptionsHold` |
| `TablesProof!TablesReferencesSound` | `TablesSpec => []ReferencesSound` |
| `TablesProof!TwoLocksAreOne` | `TablesSpec => IsFooTable` |
| `IdsAgentProof!AgentSendsPrefix` | `Spec => []DownloadIsPrefix` |
| `RuleCacheProof!ReportedExactlyOnce` | `Spec => []ReportsMatch` |
| `RuleCacheProof!ExceptionsAlwaysHold` | `Spec => []ExceptionsHold` |
| `FooTableProof!ReferencesAreSound` | `Spec => []ReferencesSound` |
| `FooTableProof!ImplementsFooTable` | `Spec => IsFooTable` |
| `DbProof!TypeCorrect` | `Spec => []TypeOK` |
| `DbProof!EveryRecordPlaced` | `Spec => []RecordsPlaced` |
| `DbProof!KeysPlaced` | `Spec => []KeysOnTheirChain` |
| `DbProof!NeighboursKept` | `Spec => NeighboursIntact` |
| `DbProof!ImplementsDictionary` | `Spec => IsDictionary` |

The assumptions are `DbAssumption` (finitely many processes, places that are not
record numbers, `Blank` and `None` that are no keys or data), `PendingAssumption`
(what stands for no result yet is not a result), `PrintdAssumption`
(finitely many clients, any number of restarts), `SemaphAssumption` (fewer processes than `BIGCOUNT`, 10,000: the
counter counts down from it), `SqlQueueAssumption` (finitely many nodes, `NULL`
is none), `SemBufferAssumption` (thread 1 of each kind exists, the buffer has a
place), `CondQueueAssumption` (finitely many producers, at least one consumer,
`NULL` is no message and no thread), `MultiplexAssumption`
(finitely many clients, a table of any size) and the `ConstantsAssumption` of the other modules
(numbers are naturals, a log is a sequence of line kinds, faults are among those
the model knows, addresses are not threads). TLC evaluates them on the instances.

Each proof has the same three parts: an invariant that is inductive, one lemma
per action that preserves it, and the property as its consequence. What has to
be added to a property to make it inductive says why the code works.

**The IDS server.** `TypeOK` is not inductive: a thread that reads
`g_wa_array[Slot(c)]` must know that the slot exists, and one that reads a file
that it has one. `Shape` says what each program counter implies for the values
its thread works with; `TypeInv == TypeOK /\ Shape` is inductive. It is about the
code as well: a refused connection has no thread that would use slot -1, and no
thread reads a file it has not opened.

The queue's invariants are proved from four *effect* lemmas, which reduce every
step to what it does to the mutex, the queue and the thread's own counter:

- `Locked`: a thread inside a critical section that spans steps holds the mutex.
  From it follows that at most one thread is.
- `Counted`: the count is the length of the queue, plus one while the dispatch
  thread has taken a record and not counted it, minus one while an enqueue
  thread has put one and not counted it. When the mutex is free neither is the
  case: `CountIsLength`.
- `RoomKept`: the records queued, and the threads that have seen room and not
  used it yet, together are at most `MAX_QUEUE_SIZE - 1 + MaxConn`.
  `QueueBounded` itself is not inductive, because a thread that has passed the
  test enqueues whatever the others have done in between. A thread passes the
  test on a count that may be one too small (`Counted`) for a record that
  another enqueue thread has put but not counted; that thread is then in its
  critical section and not waiting to put, which is the one that is gained.
- `OwnerRuns` is inductive with `TypeInv`, unless `fgets` reports a bad
  descriptor: then the loop is left with the mutex held (server.c:368, 385,
  393). The assumption is necessary.

`ImplementsHandoff` maps `queue` to `g_sql_queue` and `inHand` to the
dispatch thread's record: an `EnqPut` is a `Put` (its room by `RoomKept`), a
`DispPop` a `Take`, the return of the rule engine a `Finish`, everything else a
stutter.

**A download, from the accept to the rule engine.** These theorems have
hypotheses about the site, because the code does not promise more (sections 7
and 8): `AgentsFit`, the table of hosts leaves the console its slot; `HostsDiffer`,
no slot belongs to two addresses (hosts are compared as prefixes, server.c:68);
`SlowReconnect`, as in section 4; `OneAgent`, these and a table of one host. The
numbers of connections, days and log lines, the header, the bounds of the queue
and of the waits, and the faults are arbitrary. The invariants stand on each
other:

- `SlotsGiven`: whoever has a slot came from its address; the console's slot and
  the agents' are served by different code. With `AgentsFit` this is enough for
  the count of agents, of which every increment and decrement is one connection.
- `SlotsClaimed`: a slot is claimed from the accept on, although the code marks
  it only in the new thread. It is here that `SlowReconnect` is needed.
- `NameAsked`: between its two reads of `g_file_name` nobody but the thread
  itself can change it. It is here that `OneAgent` is needed.
- `FilesNamed`: whoever has a file open, be it a later connection or the enqueue
  thread of an earlier one, has it under the name its log was asked for by.
- `FilesWhole`: a file is the beginning of the log it is named after; a thread
  writes at its end. Truncation at a reconnection makes the file shorter, never
  different: the enqueue threads of earlier connections read at offsets that are
  beyond the end for a while, and find what they expect when it has grown again.
- `Assembling`: what an enqueue thread has assembled is a piece of its log from a
  head on, of whole lines, ending where its offset says.
- `RecordsGood`, `RecordsInOrder`: a record was assembled so, and lies before what
  its thread assembles now.

An action touches one or two of these. The lemmas `TalkDoes`, `EnqDoes`,
`DispDoes` and `OtherDoes` say what a thread's step can do to the state at all,
and the invariants are proved from them and not from the actions.

**The ping-pong server.** `NoStandoff` is inductive with `TypeOK`: a talk thread
takes `g_enqueue_done` of a file only when it gives the other file away, and the
enqueue thread takes `g_writing_done` only to begin to read, after which it
gives `g_enqueue_done`.

**The multiplexing servers.** `TableMatches` is inductive only with the types and with
`Connected`: a client waits once to be accepted or has a descriptor of its own. A new
descriptor is one nobody has because there are as many numbers as clients and the
one that waits has none (`FreshFd`, the pigeonhole principle). What the loops rest
on is `Waits`: at least as many as `nready` says have still to be dealt
with, and are behind `place`. It survives whatever clients do meanwhile, since
what can be read can be read until the server reads it, and a client that
disappears leaves an end to be read. With select and epoll these are all to be
read (`ready \subseteq Readable`); with poll there may be one more, the slot that
`Accept` has just filled and poll has not looked at, whose `revents` are old. That
is all that `ScanFinds` can say of poll.

**The print spooler.** Three invariants, each proved with the help of the ones
before it. `TInv` is about numbers: none is beyond what the clients that have
one account for, so that a job number never leaves its range, whatever the
restarts repeat. `SpoolInv` is about files: which of a client's two files exist
at each point of its thread and of the printer thread, for those whose number is
their own. `PendInv` is about the places of a request: with its client thread, in
the directory to be scanned, on the list, or in the printer thread's hand.
`AnsweredIsSpooled` follows from the second and `PendingOnce` from the third.
`JobnoGrows` and `FirstComeFirstPrinted` need the first only: the order of the jobs
is the one in the printer thread's hand and then the list, and a deferred job goes
back to where it came from. `NoLostWakeup` is inductive as it stands: whoever
makes the list non-empty leaves a signal that is due.

**The semaphore.** The three values are about sets of processes, so the
invariant is: `Undone`, what the kernel would give back for a process is what the
process has taken; `Valued`, the values are the sizes of these sets; `Staged`, what
a process in the locked section has found stays so; `Identified`, identifiers are
not used again. An exit is then one more operation with three summands, and
`Operate`, one lemma about the sizes of the sets under any operation, serves
every action.

**The printer's answer.** The parser decides by what stands at places it has
counted out, of a buffer that a short read may have filled elsewhere than it
thinks. Two things are said of it. `Received`: what is in the buffer, in whatever
order, has been sent, and behind the status line a good one has been; so that 1
is never returned for a job that has not been printed, however the pieces fall.
`Waiting` and `Understood`: when every read has returned one message, the buffer
is that message, and each label of the parser stands at the place of it that the
code looks for; so that a printed job is recognised. What happens in between is
the finding `AnyPiecesUnderstood`.

**The linked list.** The chain of `Next` pointers is held by no variable:
`ListInv` says that some sequence of nodes, each once, is what is allocated, begins
with `Front`, is linked, and ends, until the disposal, with `Rear`. Every operation
makes a sequence of this kind out of the old one: one node longer, without its
second (the first text; `Rear` goes back to the dummy if it was the last), or, in
the disposal, without its first. The empty test compares two pointers, which in
such a list says that there is one node. `Fifo`'s queue is read off the
list by following it `n` times (`NodeAt`, a recursive function); `NodeAtIsList`, by
induction over the places, shows that this is the n-th of the sequence.

**The ring buffer.** `Tokens`: a unit of `empty` or `full` is on the semaphore or
with a thread that has taken it and not given it back, so that what is held, put
less got, is never above the size nor below zero. `Exclusion`: one thread at a time
moves `in` or `out`. `Contained`: the places from `out` on hold what was put, in
order; a producer writes the place before it moves `in`, and for that moment the two
disagree by one (`Advancing`). `Turns` counts what the threads have put and got, from
which the end follows: all is taken.

**The list with a condition variable.** A message is in one place: with its producer,
linked (`Linked`, a sequence as in the linked list), with its consumer, or freed
(`TakenOnce`). `Noticed`: while the list is not empty not all consumers are asleep,
or a producer is about to signal. It is inductive since a consumer goes to sleep
only having found the list empty with the mutex held; that several producers signal
late, or one signal wakes a consumer that finds nothing, takes nothing from it.

**The agent.** `DownloadIsPrefix` follows from `Contiguous`: what the server has
and what is under way are the beginning of the log, without gap. It is kept
because of `InStep`: as long as the connection is open, their length is the
agent's position while it reads, one less while it has a buffer unsent, and 0
before it begins; after a reopen at an offset as well. `Connected` says that an
open connection has a thread that downloads the very log the agent reads.

**The rule engine.** `Agreed`: the ids in the database and in the open
transaction are those on the black list, and the one a report has inserted but
not noted. `UnderWay`: the transaction has an event only between the insert and
the commit of the dispatch thread, so that the console's commit, which may come
anywhere, changes nothing of this. `Unknown`: nobody notes a statement while it
is judged, which is why it is inserted once. `Durable` is the same for the
console's own insert.

**The tables.** `Placed`: each list holds allocated objects of its hash value,
none twice. `Referred`: an object is listed exactly while it has references, as
many as it counts. `Busy`: at every point at which a thread waits for a mutex,
what it works with has a reference that cannot go away, or is what a thread with
`hashlock` has found. `Apart`: an object that is not yet or no longer listed
belongs to one thread. For the refinement the call takes effect at the insertion,
at the count, or at the unlinking; the steps at which `foo_find` and `foo_rele`
wait change nothing that `FooTable` sees.

**The database library.** The properties speak of pointers followed to the end of
a list (`Met`), and no step of a proof can follow them. `DbInv` says the same of
two functions that exist at every moment, though no variable holds them: `on[l]`,
the records of list `l`, and `rank[l]`, by which they follow each other. A write at
the head of a list gives the record a rank above the others, an unlinking removes
it from `on[l]` and changes no rank; `MetIsList`, by induction over the places met
(the library's well-founded order on the naturals, used through sets), shows that
the records met are those of `on[l]`. For some such functions

- `Structure`: every record is on a list or in one hand; the chains are disjoint;
  one record, while it is unlinked, is on a chain and on the free list;
- `Keys`: a key is on the chain it hashes to, once; a free record is blank;
- `Lengths`: no two index records share data, and data fit `datlen`;
- `Knows`: at every label, what the process has read is still so. This is where the
  locks come in (`LockInv`): `ptrval` and `saveptr` are read many steps before they
  are written back.

A step that writes is proved in two halves: what it does to the records that are
its process's own (`Own`: its chain, the free list if it has it, what it has in
hand), and, once for all such steps, that the rest is left alone. That a record is
never overwritten by another length (`NeighboursIntact`) follows from `Reusing`,
what `_db_findfree` has compared, and holds until `_db_writeidx` although the free
list has been unlocked in between: the record is in hand.

`ImplementsDictionary` says that every call takes effect at one step. `Contents`
is the map of the refinement; `RefInv` adds to `DbInv` at which labels a call has
its result (`OutIs`) and that the record a scan has read stays until its data are
read (`Scanned`: blanking it takes the write lock of the free list, which the scan
holds for reading). Three steps change the map, each at one key, which its process
has to itself (`Alone`): the blanking of `_db_dodelete`, by which an entry is
deleted or, for a `db_store` of another length, already has the new data; the
overwriting in place; the index record of a new entry. `KeptStep` shows that the
other six writes leave `Contents` as it is: what a record holds that is blank or
in hand does not show. The results of the calls that write nothing are those of
the map at the step that fixes them: a walk that ends has shown the key absent
(`WalkEnds`, `IsAbsent`), a record found by a walk or a scan is the one the map
means (`IsPresent`, `IsScanned`).

**Model-checked only.** Liveness (`QueueIsDrained`, `SlotIsReleased`,
`ClientsAreServed`, `LinesAreAnswered`, `DocumentsArePrinted`,
`TodayIsDownloaded`) and the absence of deadlock, since neither fairness nor
ENABLED is within the prover's reach. Facts about sequences are lemmas about `SubSeq`,
`Len` and indices, or the library's theorems; the inductions, those of `MetIsList`
and `NodeAtIsList`, go over a set of naturals that is shown to have no least
exception.

## 7. Findings

- **`OneTalkerPerSlot`** (run `ids_two_talkers`). "there is already a socket from
  this ip. refuse the connection" (server.c:832) is decided on an array that the
  new thread sets (171), not `main`: a second connection accepted before that
  thread runs is served too, and two threads write one file.
- **`SwappedIsRead`** (run `ping_pong_swap`). The files are swapped
  `if (g_writing_done && g_enqueue_done)` (multi_thread_server.c:111), but
  `g_enqueue_done_ping` is initially 1 (35) and first cleared by a swap back
  (138): the second swap can truncate the file that is being read.
- **`NewLevelTakesEffect`** (run `rule_level`). "Reload the config rules, the new
  level will take effect." (server.c:110), but statements found normal at the old
  level stay in the cache of normal statements (mysql_wrap.c:258) until the
  process is started again.
- **`ExclusiveUse`** (run `semaph_open`). "Decrement the process counter. We don't
  need a lock to do this." (semaph.c:189), but `sem_close` decides under the lock
  that nobody has the semaphore open (243) and removes it (249): a process counted
  in between has the identifier of a set that is gone. In the run it is already
  in its critical section when the next `sem_create` makes a new set and another
  process enters its own.
- **`AnyPiecesUnderstood`** (run `printd_status`). The headers "can be returned in
  multiple read attempts" (printd.c:885), but the second piece is read to where
  the body starts (991) and not behind what is there: the IPP header is
  overwritten, its request id is another, and a job that has been printed is
  printed again. When the first piece ends within the HTTP header, the search
  for its end stops two bytes early (969) and reads more only at the end (980):
  the thread spins.

## 8. What is false, and therefore not stated

The models, or the code beside them, contain these behaviours; no passing run
claims their absence.

IDS:

- With two slots, `AskedIsOpened` is false: `g_file_name` is read twice without
  the mutex (server.c:192, 198; the lock of 187 is commented out) while another
  talk thread clears and rewrites it. `RemovedIsOld` is false as well: the first
  thread past midnight changes the name for all slots, and the enqueue thread of
  the other one removes a file that is still being downloaded.
- An address that is a proper prefix of an entry of the table gets that entry's
  slot (server.c:68).
- Refused sockets are never closed (805, 828, 833).
- A `pthread_create` that fails leaves an agent counted that has no thread (848).
- One reset while a log's name is sent ends the whole server, because `fopen` is
  judged by `errno` (201).
- What is written between the end of file and the look at the date is removed
  with the file (414, 423).
- An agent started just after midnight is asked for the log of the day before
  when the server's name has not been changed yet, and waits for more of it until
  `MAX_WAITING_COUNT` ends of file, ten days, are over, unless the server's end
  closes: it compares the date with the one it was started at (agent.c:291).
- A suspect is in its table before its insert, whose failure is only logged: it
  is skipped from then on and recorded nowhere (mysql_wrap.c:441, 751).
- Two statements of different hosts can share a key (mysql_wrap.c:252), and one
  then hides the other.

The samples and the courses:

- With two clients, the flag of the ping-pong sample no longer names the file
  that every client writes, and the first client to leave clears
  `g_socket_is_active` for both (multi_thread_server.c:229).
- The server with `poll` looks at `revents` of a slot it has just filled, which
  `poll` has not written (poll/server.c:84): it may block in a `read` of a client
  that says nothing, and no other client is answered.
- The child of `multi_process/server.c` does not leave its loop at the end of
  file (51-61).
- `main` of `producer_and_consumer.c` destroys the mutex its threads use (88).

APUE:

- `add_worker` links a second worker before the first one but does not make it the
  head of `printd`'s list (printd.c:544-547): it is never found again, neither to
  be cancelled nor to have its socket closed, and when the first worker goes
  (580-583) `workers` keeps pointing to what has been freed.
- A process that waits for a semaphore whose set is removed gets `EIDRM`, which
  ends the process (semaph.c:289-290).
- A process killed in the middle of `_db_dodelete` or `_db_findfree` leaves a
  record on both lists or on none (db.c:502-514): there is no journal.

## 9. What is not modelled

Within the modelled components:

- Configuration values, log messages, wording; signals that end the process
  (`SIGPIPE` of the agent is its failing send).
- In the IDS server: the filters by size and pattern before the rule engine
  (server.c:653-666), the cut of records beyond 1 MB (501), statistics, and the
  buffering of `stdio`, except that what is flushed under the mutex is seen by
  who reads under the mutex.
- Peers that vanish without a reset (a `recv` then waits for ever, 212), and the
  choice of the agent among several servers.
- Descriptors: the agent's and the rule engine's leaks, and the close of
  descriptor 0 by every check that does not ask the machine learning server
  (mysql_wrap.c:1036), whose number the next accepted socket or opened file gets.
- What two threads do inside one MySQL connection or one GHashTable at the same
  time, hash collisions (taken not to happen), and the time: up to 600 receives
  of 15 seconds with the mutex held (mysql_wrap.c:392) are one step. The SQL
  parser, the normalisation of statements and the regular expressions are one
  verdict per statement.
- The contents of files in the ping-pong sample, which is why what is lost when
  `g_writing_done` is set before `fclose` has flushed (232, 263), or when a file
  is truncated while it is read, is not counted.
- `f_next` pointers of the tables: lists are sequences. Calls against the
  contract of the interface.
- In `db.c`: system calls that fail (they end the process), and a kill in the
  middle of a call (section 8).
- In `printd.c`: the list of workers, by which SIGTERM cancels the client
  threads; the headers of HTTP and IPP that are sent to the printer.

Components without a module:

- **Configuration**: a file read once, before the threads start.
- **Logger**: a line formatted and appended. The rotation by size
  (`log_checksize`) has no caller.
- **Console client**: one message; its effect is in `IdsServer`.
- **Shell course**: sequential, every stage of a pipe is waited for before the
  next one is started.
- **Queue with a rwlock**: an empty `main`, no callers.
- The servers with a process or a thread per client, which share nothing, and the
  broadcast samples of the socket course; the other files of the thread course:
  one lock around one counter, a lock of a file.
- **The rest of APUE**, by far the greatest part of the repository's lines: one
  page per system call, the same file in up to five copies of the book's source
  tree, generated programs that print options. They have no state beyond a call,
  and a module about them would restate the manual. This is why the modules
  stand for about a tenth of the repository's lines while they cover the
  programs that have a behaviour of their own.

## 10. Plan

The order was that of what can go wrong: first what runs unattended and loses
data, then the small protocols. Done are the modules of section 2 and the proofs
of section 6. What is left:

1. Models:
   - the process's descriptors: lowest free number on `accept` and `fopen`,
     `close(0)` by the rule engine, `fgets` failing with errno 9 as the
     consequence; `"ebadf"` is then derived and no longer a fault;
   - the workers of `printd.c`: `add_worker`, `client_cleanup` and `kill_workers`
     over an explicit heap, as in `SqlQueue`;
   - the loops of the `opend` servers (`ipc2/opend`), whose table of clients is
     that of `Multiplex` with descriptors passed to the client;
   - `db.c` with a process killed between two writes: which of the promises
     survive.
2. Runs: related questions share a run, so that a new module joins one of
   `tables`, `services` and `servers`, and the instances stay within a few minutes
   each.
