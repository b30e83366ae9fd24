# A verification of libskid

`sketchy-idea` is a C library of wrappers around Linux system calls (`code/src/skid_*.c`)
with a set of small programs that exercise them by hand (`code/test/test_*.c`). This
directory holds TLA+ models of the parts in which something can go wrong that a unit test
would hardly reach, the TLC configurations that check them on small instances, and proofs,
checked by TLAPS, of what holds for every value of their constants.

Contents: [the system](#1-the-system) - [the models](#2-the-models) - [what TLC checks](#3-what-tlc-checks) -
[what is proved](#4-what-is-proved) - [what the code does not do](#5-what-the-code-does-not-do) -
[what is not modelled](#6-what-is-not-modelled) - [plan](#7-plan) - [running it](#8-running-it)

## 1. The system

The library has no state of its own except the variables its signal handlers write. Its
functions validate their arguments, make one or several system calls and return an errno.
What makes them hard is that the state is somewhere else - in files, locks, sockets, shared
memory, the kernel's signal queues - and other processes change it between two calls.

| component | state | operations | interacts with | hard behaviour | correct when |
|---|---|---|---|---|---|
| file locks `skid_file_control` | record locks of a file, per process | `get_read_lock`, `get_write_lock`, `release_lock`, `read_locked_fd`, `write_locked_fd` | `read_fd`, `write_fd`; the three locking programs | a message is written and a file is read in several system calls; calls fail half way; processes die or get SIGINT | nobody sees half a message; a read is a snapshot; locks are dropped again |
| queued signals `skid_signal_handlers`, `skid_signals` | the `skid_sig_hand_*` variables; the kernel's pending signals | `handle_ext_read_queue_int`, `block_signal`, `unblock_signal` | the queue reader; the echo client and server | a handler runs between any two accesses of the program it interrupts; a signal that is pending already is lost | what is read was sent, once, in order; no character is acknowledged more often than it was read |
| descriptor reads `skid_file_descriptors` | a heap buffer that doubles | `read_fd`, `write_fd`, `open_fd`, `close_fd` | files, pipes; `skid_file_control`, `skid_poll` | partial reads, full buffers, embedded NULs, O_NONBLOCK, no memory | the text fits, is terminated, is what was read; the call ends |
| socket receives `skid_network` | a heap buffer that doubles | `recv_socket`, `receive_socket`, `recv_from_socket` | sockets; stream and datagram programs | a -1 that becomes a `size_t`; datagrams larger than the buffer; peek, then receive | the terminator fits; datagrams stay in order and whole |
| socket sends `skid_network` | how much of a message the kernel has | `send_socket`, `send_to_socket`, `send_to_chunk`, `send_to` | sockets; datagram client | partial sends, failures after partial sends, chunks | what is sent is a beginning of the message and is counted right |
| shared memory `skid_memory`, named semaphores `skid_semaphores` | two names, the objects behind them, a value | `open_shared_mem`, `delete_shared_mem`, `create_named_sem`, `release_sem`, `remove_named_sem` | the shared memory server and clients | any order of starts, ends, deaths and SIGINTs; names that outlive programs | the value is accounted for; no name is left; a server can be stopped |
| directories `skid_dir_operations` | a growing array of paths | `create_dir`, `delete_dir`, `destroy_dir`, `read_dir_contents` | the file system, other processes | recursion into one array that is freed when one directory fails; paths that come and go | parents precede contents; the array ends; nothing behind a link is deleted |
| polling `skid_poll`, `skid_select`, pipes `skid_pipes` | the descriptors that are watched | `create_pipes`, `close_pipe`, `call_poll`, `read_pollfd`, `call_select`, `copy_fd_set` | children that write to pipes, SIGINT | data that arrives with a hang-up; a signal between a check and a wait; which ends a child inherits | nothing written is lost; the parent ends and no child is left |
| files by their names `skid_file_operations`, `skid_file_metadata_read/_write`, `skid_file_link` | files, links, permissions, owners, times | 50 functions that take a pathname | other processes | look, then open; read, change, write back; two reads of one time stamp | what is read was there; a link is not followed; what was appended stays |
| logging server `skid_network`, `skid_time` | a socket file, a queue of clients, a log | `bind_struct`, `accept_client`, `receive_socket`, `append_to_file`, `timestamp_a_msg`, `delete_file` | clients; other servers on the same path | a socket file that outlives its socket; clients that die; calls that fail in the loop | every client is in the log with what it wrote; no socket file is left |
| mapped memory `skid_memory` | a pointer and its length | `map_skid_mem`, `map_skid_struct`, `unmap_skid_mem`, `unmap_skid_struct` | parent and child, a semaphore or a signal | a pointer and a length that must agree; a file that changes between measuring and reading it | what was mapped is unmapped, and no more; the child prints what the parent read |
| processes, assembly, validation | none | wrappers of one call | - | none a model would show | - |

`PROJECT.json` lists every component with its status, and under "hazards" each of the hard
behaviours at the line where it bites.

## 2. The models

A step is one system call, one access to a variable a handler may change, or one round of a
loop that touches nothing shared. Failure of a call is always an alternative; what the
kernel may do (how much it reads, which datagram comes first, when a signal arrives) is a
choice. Data is abstract: a byte is the number of its place in its stream, a message is
who sent it and its number, a path is a node of a tree.

| module | models | state and actions in terms of the code |
|---|---|---|
| `LockedFd` | `skid_file_control`, the loops of `read_fd` and `write_fd`, the programs `test_sfc_read_locked_fd`, `test_sfc_write_locked_fd`, `test_sfc_lock_and_write_fd` | `file` is the file, cell by cell; `lock` the kernel's record locks; `pos` and `left` the loops' counters. `OpenForRead`/`TryToWrite`/`AskToHold` begin a call, `Granted`/`Refused`/`LockFails` are `fcntl(F_SETLK)`, `ReadSome`..`WriteFails` single `read(2)`/`write(2)` calls, `Release`/`ReleaseFails` the unlock; `Interrupt` is SIGINT, `Crash` a death. `settled` is a history variable: the file without the write that is under way (`Settle`) |
| `AtomicFile` | the promise of `read_locked_fd` and `write_locked_fd` | a file that is read in one step, and written in one step at the offset of each writer's descriptor |
| `SignalQueue` | `sigqueue()`, pending signals, `handle_ext_read_queue_int` | `flags[p]` are the variables, `pending`, `blocked`; `Handle` is the handler. Which signals are queued and which are merged (`Realtime`) is a constant |
| `QueueReader` (extends `SignalQueue`) | `test_ssh_handle_ext_read_queue_int` | parent and child; every access to a variable is a step; the parent may end by an error (`ParentFails`). `lapse` counts the parent's steps since the last value: a child that is `paced` sends the next one after `Pace` of them (its `sleep(1)`) |
| `AsyncEcho` (extends `SignalQueue`) | `test_ssh_handle_ext_async_client`, `_server` | registration with retries, typing, receipts; clearing the variables one by one. `taken` is what the server read: the registration it answers without printing it, then what it prints; `acked` pairs what a client waited for with what it took as the receipt |
| `GrowBuffer` | the buffers of `read_fd_dynamic` and `recv_socket_dynamic` | `strncat` with what lies behind `local_buf` and with the NUL it writes, the doubling, the last copy: operators used by the next two |
| `ReadFd` | `read_fd` | one action per round of its loop and per way out of it; the peer writes and closes. `behind` counts the bytes written behind the heap buffer |
| `RecvSocket` | `recv_socket` | the same for datagrams; `spins` marks the round that the -1 of a failed `recv()` takes part in |
| `SharedMem` | `open_shared_mem`, `delete_shared_mem`, the semaphore calls, the server and client programs | names stand for numbered objects, so a name may be removed and made again while others still use the old object |
| `DirTree` | `read_dir_contents`, `destroy_dir` | `stack` is the recursion, `list` and `capacity` the array, `strayed` that a path was stored under a name in freed memory; `kind` is what each path leads to, which another process changes when it makes or removes paths or puts a link in the place of a directory (`raced`: after `readdir()` had returned it) |
| `SendTo` | `send_socket`, `send_to_socket`, `send_to_chunk`, `send_to` | `i` the chunk, `done` what was sent of it, `depth` the nested calls; an error closes all those of `send_socket` (`plain`) and two of `send_to` |
| `FileSystem` | the kernel's: names, inodes, links, time stamps | `dir`, `inode`, `now`; external, from how the library uses it |
| `PathCalls` (extends `FileSystem`) | every function that takes a pathname: `skid_file_operations`, `skid_file_metadata_read`, `skid_file_metadata_write`, `skid_file_link`, named pipes | a call is a record whose `steps` name the system calls it makes (`AddMode` is `stat`, then `chmod`); `todo` is what is left of them, one action per system call; `disturbed` that another process changed what the path leads to |
| `ChildSwarm` | `test_sp_child_swarm_poll` and `_select` with `skid_poll`, `skid_select`, `skid_pipes` | `readers` and `writers` are who has an end of each pipe open, as `fork()` hands them on; `watched` and `revents` what the parent polls and what came back; the flag is tested, then `poll()` blocks |
| `LogServer` | `test_sn_socket_logging_server`, its two clients and the library calls they make | `path` is whose socket the file stands for; `backlog`, `serving`, `taken` what was accepted and read; `log` the entries |
| `MappedRegion` | `map_skid_mem`, `map_skid_struct` and what undoes them | cells in pages; `region` is the struct, `own` what `mmap()` gave it |
| `MappedFile` (extends `MappedRegion`) | `test_sm_mapped_memory`, `test_sm_handle_ext_read_queue_ptr` | parent and child, with a semaphore or with a signal that carries the address; somebody else writes the file |
| `DgramLink` (extends `SendTo`) | the datagram client and server, `recv_from_socket`, the network | `net` loses and reorders; `SizeIt` peeks, `Receive` removes |

`MC*.tla` and `MC*.cfg` give the constants values for TLC; `*_proofs.tla` hold the proofs.
`PROJECT.json`, "map", gives the lines of the source that each definition stands for.

Code that is not the repository's - `sigqueue(3)`, `fcntl` locks, UDP, the C library's
buffers - is modelled from how the repository uses it: a conflicting `F_SETLK` is refused, a
process that closes the file loses its locks on it, a standard signal that is pending is not
queued again, a datagram is taken whole, `readdir()` returns what stays and may return what comes.

## 3. What TLC checks

| run | module | properties | what it shows |
|---|---|---|---|
| `locks` | `MCLockedFd` | `ReadIsSnapshot` `AckedIsWhole` `LocksAreReleased` `ImplementsAtomicFile` | a reader, a writer and a holder that open the file as the programs do, without O_APPEND, with partial reads and writes, failing calls, SIGINT and deaths: no torn read, a message is in the file whole when its write returns success, and every behaviour is one of a file with atomic reads and writes at offsets |
| `queue` | `MCQueueReader` | `ReceivedInOrder` `AtMostLastMissed` | whatever the relative speed, what the parent reads was sent, in order; if the parent makes nine steps in the child's second only the last value can be missed, however the parent ends |
| `echo` | `MCAsyncEcho` | `PrintedWasSent` `AckedWasRead` `RegistrationAgrees` | two clients race, retry, and may type the registration character itself: nothing is read that was not sent, no character is acknowledged more often than the server read it, at most the server's client believes it is registered |
| `read` | `MCReadFd` | `StringFits` `ReturnsWhatWasRead` | every split of a stream into reads, every failure, with or without O_NONBLOCK |
| `recv` | `MCRecvSocket` | `TerminatorFits` `DatagramsInOrder` | datagrams of every length around the buffer's, in every order of arrival, loss of the connection and failure |
| `shm` | `MCSharedMem` | `NoReleaseLost` `NoNameLeft` `ServerStops` | two servers and a client start, fail, stop and die in any order |
| `tree` | `MCDirTree` | `EndsWithNull` `ParentsFirst` `ListingIsComplete` `CalmDestroys` `OutsideIsKept` | every subtree of a tree with a pipe, a link to a directory and a link to a file of the tree, every order of entries, every failure, two changes by another process |
| `send` | `MCDgramLink` | `PiecesFollow` `CountIsRight` `ChunksAreSent` `PrintedWasSent` `QueueIsPrinted` | two senders, by `send_socket` or `send_to_socket`, chunked or not, over a network that loses and reorders, to the server |
| `files` | `MCPathCalls` | `QuietReadsAreTrue` `ModesAddUp` `LinkTargetIsKept` `AppendedIsKept` | two processes call any of the path functions on a file, a link and a free name, each call in as many steps as it makes system calls, one of which may fail |
| `swarm` | `MCChildSwarm` | `NothingLost` `DeadParentIsNoticed` `NoChildLeft` `ShutsDown` | a parent of two children, with `poll()` or `select()`, under SIGINT, SIGKILL and failing calls: nothing a child wrote is lost, children notice that the parent died, and SIGINT ends the parent after its children |
| `log` | `MCLogServer` | `LogIsComplete` `NoSocketLeft` `ClientIsLogged` | two servers and two clients on one path, with restarts, deaths, SIGINT and failing calls: what a log holds, what is left behind, and that a connected client is logged |
| `mapped` | `MCMappedFile` | `PrintsWhatWasRead` `BothEnd` `UnmapsItsOwn` | a parent hands a file of 0 to 4 bytes to its child while the file is written and processes are killed |

**Bounds, and why they are enough.** Each bound is large enough for the case it could hide to
happen more than once.

- `locks`: one process per role, messages of 2 cells (so that a write can be cut), `MaxRounds` 1.
  A second reader or writer adds no conflict between locks that the holder does not make
  already; the proofs are for any number.
- `queue`: 5 values, more than a pending signal, an overwritten and a received one together.
  `Pace` is 9, the steps in which a value is noticed, read and cleared, if it came when the parent had
  just looked; with 8 TLC refutes `AtMostLastMissed`. A child that is not paced sends at any time.
- `echo`: 2 clients, 2 registrations each, one typed character each: the smallest instance in
  which one client's retry meets the other client's message.
- `read`, `recv`: a local buffer of 2 that doubles to 8, and streams of 9 bytes or 5 datagrams:
  every doubling and the refusal at the end occur. `Stacks` is what lies behind `local_buf`:
  nothing, or three bytes of it. `WordSize` 16 makes `size_t` wrap.
- `shm`: 2 servers and a client, SIGINT for both servers, two deaths, and two semaphore calls that
  fail after the start. A semaphore can be made, removed and made again with users of the old one
  still there, and a client can go on twice after a `sem_wait()` that failed.
- `tree`: depth three, with a nested directory, files, a pipe, a link to a directory that has a
  file in it, and a link to a file of the tree, which dangles when the file is missing or was deleted
  first; `ArraySize` 2, so the array doubles twice; two changes by another process (`MaxChanges`) at
  any moment, enough to put a link in a directory's place and to remove something besides.
- `send`: 2 senders, messages up to 3, chunks of 2, and send buffers of 0 (no chunk fits), 1
  (smaller than the chunk) and 9. A remainder of 0 and of 1 both occur.

- `files`: a file, a symbolic link to it (dangling in some starts) and a third name; one process
  makes two calls, the other one; four scenes, so that calls meet that touch the same thing: modes,
  times, owners and links, contents. A second has 4 instants, so that a time stamp can carry over
  between its two reads. One system call may fail. Reading does not change the access time
  (`noatime`); the arguments are valid, or NULL in two calls; a FIFO is made but not opened.
- `swarm`: two children: the second inherits the first one's read end. 2 messages of each, a pipe
  of 1, two signals: one may come while the first is being handled.
- `log`: two servers (one of them can meet the other's socket file), 2 starts, 2 faults in all, 2
  clients with messages of 2 pieces; the queue of connections is never full.
- `mapped`: pages of 3 cells and a header of 1, so that a file of 2 fills a page and one of 4 reaches
  into the next; one write to the file and one death at any moment.

`CHECK_DEADLOCK FALSE`: all these programs end, and a peer may stop for good.

**Fairness.** Weak fairness says that a process that can run does: `WF_vars(Call)`,
`WF_vars(ServerStep(s))` and so on, which the operating system's scheduler justifies. It is
never stated of an action that is a user's (typing, SIGINT, starting a program), of a peer, of
a death or of a call that fails. In `RecvSocket` the failure of a broken socket is part of
`Call`, since a broken socket does nothing else. Delivery of a pending signal
(`WF_vars(Handle)`) is the kernel's; that a datagram arrives is assumed only when it is not
lost (`WF_vars(Arrive)`). `LockedFd` assumes nothing between two calls, where a user types.
`ChildSwarm` and `LogServer` have one
condition for the parent or server and one for each child or client: a sleep ends, and a client
that was started writes and closes, or dies. In `MappedFile` the child polls for the semaphore:
`BothEnd` starts when the parent has posted it.
`DirTree` assumes that `readdir()` does not fail for ever ([section 5](#5-what-the-code-does-not-do)).

## 4. What is proved

TLAPS checks every proof from nothing; the assumptions are the named `ASSUME`s of the modules
(`TLC` evaluates them in the runs), which only say that sizes are positive, roles disjoint (and
finite, in `SharedMem`, which counts its processes), that every path of a tree is below its root
(`above` being what it is below) and its links lead to files of the tree or nowhere, that there are names,
finitely many, that a semaphore fits a page, and that each scene of `PathCalls` starts from a disk and makes calls of the library, that a paced parent of `QueueReader` makes at least
`WorkSteps` steps in a second (`PaceOK`), and that `Nothing`, `NoOne`
and `Somebody` are none of the values or processes.

| module | theorem | statement |
|---|---|---|
| `LockedFd_proofs` | `TypeCorrect`, `WritersAreAlone`, `ReadsAreSnapshots`, `AckedWritesAreWhole`, `CallsAreAtomic` | `Spec => []TypeOK`, `[]WriterAlone`, `[]ReadIsSnapshot`, the action property `AckedIsWhole`, and `Spec => ImplementsAtomicFile` |
| `ReadFd_proofs` | `TypeCorrect`, `StringAlwaysFits`, `WhatWasReadIsReturned`, `RefusalIsRight` | `[]TypeOK`, `[]StringFits`, `[]ReturnsWhatWasRead`, and the action property `RefusedOnlyWhenFull` |
| | `ReceiverTypes`, `TerminatorAlwaysFits`, `ReceivedInOrder`, `ReceiverRefusalIsRight` | of `RecvSocket`: `[]TypeOK`, `[]TerminatorFits`, `[]DatagramsInOrder`, and the action property `RefusedOnlyWhenFull` |
| `AsyncEcho_proofs` | `TypeCorrect`, `PrintedWereSent`, `AcksAreTrue`, `RegistrationsAgree` | `[]TypeOK`, `[]PrintedWasSent`, `[]AckedWasRead`, `[]RegistrationAgrees` |
| | `ReaderReceivesInOrder`, `ReaderMissesTheLast`, `ReaderProcessesFirst` | of `QueueReader`: `[]ReceivedInOrder`, `[]AtMostLastMissed`, and the action property `DataIsProcessedFirst` |
| `SharedMem_proofs` | `TypeCorrect`, `ReleasesAreCounted`, `NamesAreRemoved` | `[]TypeOK`, `[]NoReleaseLost`, `[]NoNameLeft` |
| | `PrintsTheCopy`, `UnmapsOwnRegion` | of `MappedFile`: `[]PrintsWhatWasRead`, and the action property `UnmapsItsOwn` |
| `DirTree_proofs` | `TypeCorrect`, `ArrayEndsWithNull`, `DirectoriesComeFirst`, `LinksAreNotFollowed`, `NothingIsMissed`, `AllIsDestroyed` | `[]TypeOK`, `[]EndsWithNull`, `[]ParentsFirst`, the action property `OutsideIsKept`, `[]ListingIsComplete`, `[]CalmDestroys` |
| `DgramLink_proofs` | `TypeCorrect`, `BeginningIsSent`, `CountIsKept`, `SuccessLacksOneChunk`, `DatagramsArePrinted` | `[]TypeOK`, `[]PiecesFollow`, `[]CountIsRight`, `[]ChunksAreSent`, `[]PrintedWasSent` |
| `ChildSwarm_proofs` | `TypeCorrect`, `MessagesAreKept`, `OrphansAreTold`, `ChildrenAreReaped` | `[]TypeOK`, `[]NothingLost`, `[]DeadParentIsNoticed`, `[]NoChildLeft` |
| | `LogsAreComplete`, `NoSocketIsLeft` | of `LogServer`: `[]LogIsComplete`, `[]NoSocketLeft` |
| `PathCalls_proofs` | `Invariant`, `QuietReads`, `AppendedKept`, `ModesAdd`, `TargetIsKept` | `[]IInv` (with `TypeOK`), `[]QuietReadsAreTrue`, `[]AppendedIsKept`, and the action properties `ModesAddUp`, `LinkTargetIsKept` |

Every safety property that a run checks, invariant or action property, is proved, and so is the
refinement. Four modules are proved about as instances, each in the second part of another's
`_proofs` module: `QueueReader` and `RecvSocket` because they rest on the same lemmas, on
`SignalQueue` and on `GrowBuffer`, as `AsyncEcho` and `ReadFd`; `LogServer` stands with
`ChildSwarm` and `MappedFile` with `SharedMem`, whose subject is theirs: who outlives whom, and memory
that processes share. The hypotheses of those theorems
(`ReaderConstants`, `ReceiverConstants`, `LogConstants`, `MemoryConstants`) are among what the
instance's module assumes of its constants.

Each theorem rests on an inductive invariant, which TLC checked on the small instance before it
was proved. Why the properties alone are not inductive:

- *LockedFd.* `WriterAlone` follows from two facts about locks: a write lock excludes every
  other lock (`ExclusiveLock`), and a process is inside a call's loop only with the lock of its
  role (`CallHoldsLock`). A reader's snapshot survives the steps of others because none of them
  holds a write lock then, and a read continues where it stopped because no offset passes the
  end of the file (`NoHole`). A message is whole when it is acknowledged because the file is, while
  a call writes, the one it found with the cells it sent over it in one piece (`FileIsOverlaid`), which
  nobody else could write to (`WriterLock`), and success is reported for nothing less than all of
  them (`MessageProgress`).
- *The refinement of AtomicFile.* The abstract file is the history variable `settled`, the file without
  the message that is being written; the abstract offset of a writer is where its open call began
  (`Start`). A call takes effect when it has released its lock, or when its process dies, and
  `CallsAreAtomic` shows step by step that every other action is a stutter. That a message is
  written once needs to know which messages the file may have cells of (`CellsAreKnown`). A history
  variable is needed because a write overwrites: what the file was before cannot be computed from what it is.
- *ReadFd, RecvSocket.* The doubling keeps `BuffSize <= size`, so one more chunk always fits
  after it (`SizeInRange`); what is in the buffer is a prefix of the stream until an error is
  set (`ReadSoFar`), and the loop is left without an error only at its end or with O_NONBLOCK
  (`SawTheEnd`). In `RecvSocket` a buffer of the first size never holds a full chunk (`TextFits`),
  which is what leaves the terminator its byte when text from the stack was copied later.
  The lemmas on the operators of `GrowBuffer` come first and are used for both (`SameBuffer`).
  `DatagramsInOrder` is kept because a later datagram's bytes have greater numbers than all that were
  received before it, and a round that does not append them ends the call with an error (while the
  call runs there is none, `NoErrorYet`).
- *AsyncEcho.* A signal may come between any two accesses to the variables, so the invariant
  follows each message from pending through the variables to the hand of the reader and `taken`, in
  the order it was sent (`Ordered`). Variables that are half cleared count as
  empty because `signum` is cleared last (`WholeSignal`). The receipt of a character that no registration
  carries is on its way only for a message that was read, while its client waits (`OnTheWay`), and
  there is one (`OneReceipt`). For the others, receipts of repeated registrations among them, a second
  invariant says that all that may still be taken as receipts are different messages, none of which
  was one before (`ReceiptsDiffer`): the server reads nothing twice, by the first invariant.
- *QueueReader.* What is sent is pending, in the variables or received, in this order
  (`InOrder`); the variables hold a value of one signal, not of two (`WholeValue`). If the parent is
  fast enough, at most one value is outside of what was received (`OneAtATime`), because the parent
  is never more steps into its work on it than it takes (`InTime`): when `Pace` of them have passed
  the value is processed. `WorkSteps` counts the longest way, from a value that comes when the parent has
  just found no data, over `waitpid()`, the tests, the read and the clearing of each variable.
- *SharedMem.* A semaphore's value and those who hold it are together 1, what it was created with,
  plus the releases that nobody paid for with a wait (`Balanced`, as cardinalities of a set of
  processes and one of numbered releases). Who releases without holding depends on where a process is
  (`ServerInv`, `ClientInv`), on SIGINT, and on the `sem_wait()` calls of a client that failed: it
  writes and posts all the same, which it does at most once for each (`UnpaidExplained`). The numbers of the objects do not run out because a server that made one is past
  that point (`ObjectsCounted`), and a name that exists has a server that has yet to remove it
  or died (`NamesHaveServers`).
- *DirTree.* A nested call's directory is in the array as long as its name was not freed
  (`FramesInv`): so an entry's directory is always stored before it. Until a name is lost, or a
  directory that the listing has got to is replaced, no open directory is a link and nothing in the
  array is behind one (`LinksInv`). For the listing (`CalmInv`): while nothing fails and
  nobody interferes, a stored directory is open or all of its entries are stored; when none is
  open, all that is below the root is stored, by the assumption `TreeIsRooted`. For the deletion:
  what the loop went past is no file, no link and no empty directory (`Passed`), which later deletions
  keep because a path's directory comes before it, and a stored path that `stat()` does not find is a
  link that dangles.
- *DgramLink.* What the runs before this one sent is exactly where this one starts (`RunInv`):
  this needs that runs lie inside the message, which is division with remainder (`RunsFit`),
  that an error after a partial send unwinds two calls (`depth`), and that the first call of a run has
  sent nothing of it (so -1 means that nothing was sent). Datagrams are in one place
  only (`DatagramsInv`), and what was peeked at is still first (`PeekInv`).
- *ChildSwarm.* A child that runs holds its own write end (`WriteEndsHeld`), so a pipe without
  writers is one whose child is gone, and what the parent closes as hung up is empty; the parent
  keeps the read end otherwise, unless reading failed (`ParentReads`); a buffer has contents only
  between a read and its print (`BufInUse`). Who inherited a read end is still there
  (`ReadEndsHeld`), and the wait goes over all children in order (`WaitedFor`).
- *LogServer.* Who waits at a server or was accepted by it is connected to that one and was never
  accepted before (`Waiting`, `Accepted`), and whoever is in its log was accepted, has closed and is
  not the one it serves now (`Logged`), so that nothing can be added to an entry. Only a
  client that was connected can be lost (`LostOnes`): without this part the invariant was not
  inductive, since a client that has yet to connect could be lost already. A path that is bound has an owner that has still to unlink it, unless one was killed
  (`PathHasOwner`), which is all of `NoSocketLeft`.
- *MappedFile.* What a process has mapped starts on a page and is where its struct says (`Shapes`); the
  child has what the parent had when it forked (`Places`). Nobody is told of the memory before
  the copy is made (`NotCopied`), and whoever is told finds the copy, in pages that both have
  (`HandedOver`). What a struct maps is one page, by arithmetic (`OnePage`), so that
  `munmap()` with the length it keeps gives back just that, if the file is not too long.
- *PathCalls.* The invariant says, of each call that is under way, what may be left of its steps and
  what it has fetched so far (`CallInv`), and that what it fetched is still true unless another
  process `disturbed` it (`ReadInv`, `ModeInv`, `LinkInv`). What an unfinished append has written is
  in the file it opened (`AppendInv`), and bytes of a call are in no file but the one it opened
  (`CellsInv`), so that a later call's cannot be taken for them.

The type invariants, `WriterAlone`, `DataIsProcessedFirst` and the action property
`RefusedOnlyWhenFull` are proved and no longer part of a run: they hold for every value of the
constants.

**Only model-checked.** Liveness: `LocksAreReleased`, `ServerStops`, `QueueIsPrinted`, `ShutsDown`,
`ClientIsLogged`, `BothEnd`. It needs fairness and `ENABLED`, which these provers do not have. The safety
properties are all proved because they are stated with quantifiers over places (which byte is where,
which entry comes before which) and not with a function that walks through a sequence, of which
nothing could be proved without induction over data.

## 5. What the code does not do

TLC refutes each of the following statements; all are definitions of the modules, and adding one
to the module's `.cfg` (as an INVARIANT, or as a PROPERTY if it speaks of steps or of the future)
shows the behaviour. Six contradict what a header or a comment of the code says:

- `RecvSocket!ErrorEndsTheCall` (`skid_network.c:1382`): `recv_socket_dynamic` compares `num_read`
  with 0; the -1 of a failed `recv()` becomes the largest `size_t`, whose sum with 1 is 0, so the loop
  goes on for ever; `skid_network.h:272` says "NULL on error".
- `SharedMem!PrintsWhole` (`test_sm_shared_mem_server.c:139`): the server releases a semaphore that
  was created with the value 1, so it is inside together with a client and prints part of a message;
  `test_sm_shared_mem_client.c:8` says "Writes a message (safely)".
- `DirTree!SuccessIsComplete` (`skid_dir_operations.c:680`): when one subdirectory cannot be opened
  the whole array is freed, the caller goes on, and what was found before is missing from a listing
  that is returned with `ENOERR`; `skid_dir_operations.h:90` says "On failure, NULL will be returned".
- `SendTo!SuccessIsWhole` (`skid_network.c:1561`): the last chunk of a message that is a multiple
  of the chunk size is empty; the message's end is not sent and `ENOERR` is returned.
- `SendTo!MinusOneOnError` (`skid_network.c:1568`, `:1588`): `send_to_chunk()` returns 0 when it has no send
  buffer, and what earlier chunks sent when a later one fails, with the errno; the comments on both
  functions, `skid_network.c:226-229` and `:250-252`, say "Otherwise, -1 shall be returned and errnum set".
  `CountIsRight` says what can be relied upon: -1 means that nothing was sent, and any other count is
  that of the characters sent.
- `MappedRegion!RegionIsMapped` (`skid_memory.c:324`): `map_skid_struct` maps `sizeof(total_len)` bytes,
  which is one page, whatever the length; `skid_memory.h:183` says "The struct's addr pointer will be
  of length bytes". A longer file is copied into the neighbouring mapping, or kills the parent; the
  properties of `MappedFile` are stated of files that fit (`TooLong`).

The others are promised by no line of the repository: `LockedFd!NullOnError` (a buffer and an errno
when the unlock fails), `LockedFd!AckedStays` (the programs open the file without O_APPEND,
`test_sfc_write_locked_fd.c:44`, `test_sfc_lock_and_write_fd.c:47`: each writes at an offset of its own,
over what others wrote, acknowledged or not; the locks say when a process writes, not where), `QueueReader!AllReceived`, `AsyncEcho!ReceiptComes`, `PrintsFromSrcPid` and
`TypedIsRead` (a client that registered twice takes the late second receipt for that of the newline its
user types, which the server may never read: the receipts carry the character and nothing else,
`test_ssh_handle_ext_async_client.c:220`),
`ReadFd!ReturnsTheContents` (text from behind `local_buf` when a chunk fills it), `ReadFd!NoWriteBehind`
(`check_for_space`, `skid_file_descriptors.c:325`, has no byte to spare for the NUL that `strncat()` at
`:439` writes, so a read that fills the heap buffer writes one NUL behind it - in `RecvSocket` only text
from the stack can do that; `StringFits` says that it is
never more than that, and that the next buffer, or the last copy, takes the NUL in),
`RecvSocket!WholeMessage` (what does not fit `local_buf` is lost), `SharedMem!LockedAtFirst`
(a client maps the memory before it has a size), `DgramLink!NeverStuck` (an empty datagram is
never removed), `DirTree!DestroysAll` (`is_regular_file()` and `is_directory()` use `stat()`,
`skid_file_metadata_read.c:741`: a link that dangles, or whose target the loop deleted a moment ago, ends
the loop at `skid_dir_operations.c:306`; `CalmDestroys` says that what is left is what comes before it),
`DirTree!NothingBehindLinks` (a directory that is replaced by a link between `readdir()`,
`skid_dir_operations.c:646`, and `opendir()`, `:632`, is followed, and so is a path that is replaced before the
loop deletes what is stored below it; or a name that was lost, `:665`, spells a link).

What the premises of the properties stand for, seen by leaving them out:

- `PathCalls`, without `disturbed`: a mode that another process adds between `stat()` and `chmod()` is
  undone (`skid_file_metadata_write.c:184`); a link made after `is_sym_link()` looked is followed
  (`skid_file_metadata_write.c:512`); the seconds and the nanoseconds of a time stamp are of two
  changes. `create_file` with `overwrite` false truncates a file that was made after it looked
  (`skid_file_operations.c:167`) and one that is not regular, and ignores that `fclose()` failed;
  `append_to_file` with `create` fails with ENOENT if the file is deleted in between, or is a dangling
  link; `read_file` of an empty file is EINVAL.
- `ChildSwarm`: SIGINT that comes between the check of the flag and `poll()`, once all pipes
  are closed, leaves the parent waiting until the next one; a second SIGINT during
  `waitpid()` ends the wait before all children are dead (`test_sp_child_swarm_poll.c:92` says "Wait
  for all the children to die"). The `select()` variant keeps descriptors that hung up and spins.
- `LogServer`: a server that cannot bind deletes the socket file of the one that runs; a
  killed server's file makes the next start fail, which removes it. SIGINT between the check
  and `accept()` waits for a client.
- `MappedFile`: a parent whose `read_file()` fails, or that is killed before it posts, leaves its
  child polling for ever; a file that shrinks between `get_size()` and `memcpy()` is read past its end in
  the heap.

Seen while reading and not modelled: text behind an embedded NUL is dropped
(`read()` counts bytes at `skid_file_descriptors.c:396`, `strncat()` copies up to the NUL) - `ReadFd` has the
NUL and states its properties of texts only; `d_type` is `DT_UNKNOWN` on some file systems
(`skid_dir_operations.c:454`); a `readdir()` that fails for good keeps its loop going
(`skid_dir_operations.c:651`); the datagram server leaks a message
(`test_sn_simple_dgram_server.c:132`); the shared memory client's `virt_mem` is used before it is
set on one path (`test_sm_shared_mem_client.c:158`); a partial send of a stream is a success
of `send_to_socket()`, which does not return the count (`skid_network.c:1476`, `:946`);
a descriptor that reports POLLERR or POLLRDHUP is closed unread (`skid_poll.c:211`), which a pipe
never does with data in it; an empty message makes `add_newline()` look at `msg[-1]`;
`test_sm_mapped_memory` spins when `waitpid()` returns -1 (line 199);
a writer that retries without a limit can be kept out by overlapping readers (`test_sfc_write_locked_fd.c:110`);
`skid_signal_handlers.h:98` says the handler blocks further signals, which it does only while
it runs.

## 6. What is not modelled

- Argument validation: in the models the arguments are those that pass it.
- Joining, copying and comparing path names (`skid_dir_operations`): a path is a node.
- `skid_clone`, `skid_assembly`: one system call each, with no state. `skid_random`, `skid_time`: what
  a program observes of them (a sleep that ends, a stamp that may fail) is in `ChildSwarm` and
  `LogServer`; their numbers and texts are not.
- The names of signals and of signal codes (`translate_signal_code` and its tables): wording.
- `devops_code.c` and `unit_test_code.c`: support for the unit tests.
- The stream programs and the sniffers; the lookup of addresses and protocols.
- `handle_all_children`; opening a FIFO; allocation from the heap beyond its failure; what happens
  when deleting the socket file fails.

## 7. Plan

All subsystems with state of their own have a module. What is left, in the order of what matters:

1. `LogServer` as an implementation of an abstract log that takes one entry per client, in one step.
2. `handle_all_children` in a variant of `ChildSwarm`.

## 8. Running it

    tlc -workers 2 -config MCLockedFd.cfg MCLockedFd
    tlapm LockedFd_proofs.tla

Every run takes less than two minutes; `echo`, `files` and `shm` are the largest (about a million states).
