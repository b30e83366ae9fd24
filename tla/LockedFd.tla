------------------------------- MODULE LockedFd -------------------------------
(***************************************************************************)
(* Processes that share one file through skid_file_control's record locks *)
(* and skid_file_descriptors' read_fd() and write_fd().                   *)
(*                                                                         *)
(* One step is one system call.  A read or a write moves some, not         *)
(* necessarily all, of the cells asked for, so a message is on disk a part *)
(* at a time and a reader collects the file a part at a time: the lock is  *)
(* all that keeps the two apart.  The kernel refuses a conflicting lock    *)
(* (EAGAIN or EACCES), drops every lock of a process that closes the file  *)
(* or dies, and may fail any call (EIO stands for every other errno).      *)
(* Nobody opens the file with O_APPEND: a write goes where the descriptor  *)
(* of its process is, over what others may have written there.             *)
(*                                                                         *)
(* Readers, Writers and Holders run the loops of the repository's three    *)
(* locking programs: test_sfc_read_locked_fd, test_sfc_write_locked_fd and *)
(* test_sfc_lock_and_write_fd.                                             *)
(***************************************************************************)
EXTENDS Integers, Sequences

CONSTANTS
    Readers,   \* processes that loop over open, read_locked_fd, close
    Writers,   \* processes that loop over write_locked_fd
    Holders,   \* processes that hold get_write_lock over several write_fd
    MsgLen,    \* cells in a message
    MaxRounds, \* bound on the messages (or reads) of one process
    NULL       \* the NULL buffer

Proc == Readers \cup Writers \cup Holders

ASSUME RolesDisjoint ==
    /\ Readers \cap Writers = {}
    /\ Readers \cap Holders = {}
    /\ Writers \cap Holders = {}
ASSUME SizesPositive == MsgLen \in Nat \ {0} /\ MaxRounds \in Nat \ {0}

VARIABLES
    pc,          \* where each process is
    lock,        \* the record lock each process has on the file
    file,        \* the file's cells; a cell is <<writer, message, index>>
    pos,         \* the offset of each process's open file description
    left,        \* cells of the current message write_fd has yet to write
    round,       \* messages written (or reads made) by each process
    buf,         \* what read_fd collected, NULL once it is freed
    result,      \* the errno the current call will report
    interrupted, \* skid_sig_hand_interrupted
    returned,    \* the buffer and errno read_locked_fd last returned
    acked,       \* messages whose write call returned ENOERR
    settled      \* history: the file without the write that is under way

vars == <<pc, lock, file, pos, left, round, buf, result, interrupted,
          returned, acked, settled>>

Locks == {"F_UNLCK", "F_RDLCK", "F_WRLCK"}
Errno == {"ENOERR", "EAGAIN", "EIO"}
Places == {"idle", "typing", "waiting", "locking", "reading", "writing", "unlocking",
           "closing", "done"}
Cell == (Writers \cup Holders) \X Nat \X Nat

Init ==
    /\ pc = [p \in Proc |-> "idle"]
    /\ lock = [p \in Proc |-> "F_UNLCK"]
    /\ file = << >>
    /\ pos = [p \in Proc |-> 0]
    /\ left = [p \in Proc |-> 0]
    /\ round = [p \in Proc |-> 0]
    /\ buf = [p \in Proc |-> NULL]
    /\ result = [p \in Proc |-> "ENOERR"]
    /\ interrupted = [p \in Proc |-> FALSE]
    /\ returned = [p \in Readers |-> [buf |-> NULL, errnum |-> "ENOERR"]]
    /\ acked = {}
    /\ settled = << >>

Goto(p, place) == pc' = [pc EXCEPT ![p] = place]
Fail(p, errno) == result' = [result EXCEPT ![p] = errno]

(***************************************************************************)
(* Starting an iteration of a program's loop.                              *)
(***************************************************************************)

\* The reader opens the file afresh for every read, or fails to.
OpenForRead(p) ==
    /\ p \in Readers
    /\ pc[p] = "idle"
    /\ ~interrupted[p]
    /\ round[p] < MaxRounds
    /\ \/ /\ Goto(p, "locking")
          /\ Fail(p, "ENOERR")
       \/ /\ Goto(p, "done")
          /\ Fail(p, "EIO")
    /\ round' = [round EXCEPT ![p] = @ + 1]
    /\ pos' = [pos EXCEPT ![p] = 0]
    /\ buf' = [buf EXCEPT ![p] = NULL]
    /\ UNCHANGED <<lock, file, left, interrupted, returned, acked>>

\* A writer has typed its next message; a holder starts to, under its lock.
NextMessage(p) ==
    /\ pc[p] = "idle"
    /\ ~interrupted[p]
    /\ round[p] < MaxRounds
    /\ \/ p \in Writers /\ Goto(p, "waiting")
       \/ p \in Holders /\ lock[p] = "F_WRLCK" /\ Goto(p, "typing")
    /\ round' = [round EXCEPT ![p] = @ + 1]
    /\ left' = [left EXCEPT ![p] = MsgLen]
    /\ Fail(p, "ENOERR")
    /\ UNCHANGED <<lock, file, pos, buf, interrupted, returned, acked>>

\* The input ends, which SIGINT makes it do as well: the holder writes what it
\* has without another look at the interruption.
InputEnds(p) ==
    /\ pc[p] = "typing"
    /\ Goto(p, "writing")
    /\ UNCHANGED <<lock, file, pos, left, round, buf, result, interrupted,
                   returned, acked>>

\* The head of the writer's inner loop: before the first attempt to write the
\* message, and again after the sleep that follows a refused lock.
TryToWrite(p) ==
    /\ p \in Writers
    /\ pc[p] = "waiting"
    /\ Goto(p, IF interrupted[p] THEN "closing" ELSE "locking")
    /\ UNCHANGED <<lock, file, pos, left, round, buf, result, interrupted,
                   returned, acked>>

\* The user presses <ENTER>: the holder asks for the write lock.
AskToHold(p) ==
    /\ p \in Holders
    /\ pc[p] = "idle"
    /\ lock[p] = "F_UNLCK"
    /\ ~interrupted[p]
    /\ Goto(p, "locking")
    /\ Fail(p, "ENOERR")
    /\ UNCHANGED <<lock, file, pos, left, round, buf, interrupted, returned,
                   acked>>

(***************************************************************************)
(* fcntl(F_SETLK) with a read or a write lock: it never waits.             *)
(***************************************************************************)
LockTypeShared(p) == "F_RDLCK"
LockType(p) == IF p \in Readers THEN "F_RDLCK" ELSE "F_WRLCK"

Conflicts(p, q) ==
    /\ p # q
    /\ lock[q] # "F_UNLCK"
    /\ "F_WRLCK" \in {LockType(p), lock[q]}

Granted(p) ==
    /\ pc[p] = "locking"
    /\ \A q \in Proc : ~Conflicts(p, q)
    /\ lock' = [lock EXCEPT ![p] = LockType(p)]
    /\ Goto(p, IF p \in Readers THEN "reading"
               ELSE IF p \in Writers THEN "writing" ELSE "idle")
    /\ UNCHANGED <<file, pos, left, round, buf, result, interrupted, returned,
                   acked>>

\* What the caller of read_locked_fd is told when there is no lock.
NotRead(p, errno) ==
    returned' = IF p \in Readers
                THEN [returned EXCEPT ![p] = [buf |-> NULL, errnum |-> errno]]
                ELSE returned

\* The reader closes and comes back later, the writer sleeps and retries the
\* same message, the holder waits for another <ENTER>.
Refused(p) ==
    /\ pc[p] = "locking"
    /\ \E q \in Proc : Conflicts(p, q)
    /\ Goto(p, IF p \in Readers THEN "closing"
               ELSE IF p \in Writers THEN "waiting" ELSE "idle")
    /\ Fail(p, IF p \in Readers THEN "EAGAIN" ELSE "ENOERR")
    /\ NotRead(p, "EAGAIN")
    /\ UNCHANGED <<lock, file, pos, left, round, buf, interrupted, acked>>

\* Any other errno ends the reader and the writer; the holder tries again.
LockFails(p) ==
    /\ pc[p] = "locking"
    /\ Goto(p, IF p \in Holders THEN "idle" ELSE "closing")
    /\ Fail(p, IF p \in Holders THEN "ENOERR" ELSE "EIO")
    /\ NotRead(p, "EIO")
    /\ UNCHANGED <<lock, file, pos, left, round, buf, interrupted, acked>>

(***************************************************************************)
(* read_fd: read(2) until it returns 0 or fails.                           *)
(***************************************************************************)

\* Some more cells of the file, from the descriptor's offset.
ReadSome(p) ==
    /\ pc[p] = "reading"
    /\ \E n \in 1 .. Len(file) - pos[p] :
          /\ buf' = [buf EXCEPT ![p] =
                        [i \in 1 .. pos[p] + n |->
                            IF i <= pos[p] THEN buf[p][i] ELSE file[i]]]
          /\ pos' = [pos EXCEPT ![p] = @ + n]
    /\ UNCHANGED <<pc, lock, file, left, round, result, interrupted, returned,
                   acked>>

\* End of file: the buffer (allocated before the first read) is complete.
ReadEof(p) ==
    /\ pc[p] = "reading"
    /\ pos[p] = Len(file)
    /\ Goto(p, "unlocking")
    /\ buf' = [buf EXCEPT ![p] = IF pos[p] = 0 THEN << >> ELSE buf[p]]
    /\ UNCHANGED <<lock, file, pos, left, round, result, interrupted, returned,
                   acked>>

\* read(2) fails: read_fd frees what it has.
ReadFails(p) ==
    /\ pc[p] = "reading"
    /\ Goto(p, "unlocking")
    /\ Fail(p, "EIO")
    /\ buf' = [buf EXCEPT ![p] = NULL]
    /\ UNCHANGED <<lock, file, pos, left, round, interrupted, returned, acked>>

(***************************************************************************)
(* write_fd: write(2), and itself again on what a partial write left.      *)
(***************************************************************************)

\* How many cells one write(2) may take of the message, or of what is left.
PartialWhole(p) == 1 .. MsgLen
Partial(p) == 1 .. left[p]

\* A partial write is not the end of the call.
FinishedAnyhow(p) == TRUE
Finished(p) == left[p] = 0

AfterWriteNoRelease(p) == "idle"
AfterWrite(p) == IF p \in Holders THEN "idle" ELSE "unlocking"

WriteSome(p) ==
    /\ pc[p] = "writing"
    /\ left[p] > 0
    /\ \E n \in Partial(p) :
          LET at == pos[p]
              size == IF at + n > Len(file) THEN at + n ELSE Len(file)
          IN  /\ file' = [i \in 1 .. size |->
                            IF i \in at + 1 .. at + n
                            THEN <<p, round[p], MsgLen - left[p] + i - at>>
                            ELSE file[i]]
              /\ pos' = [pos EXCEPT ![p] = at + n]
              /\ left' = [left EXCEPT ![p] = @ - n]
    /\ UNCHANGED <<pc, lock, round, buf, result, interrupted, returned, acked>>

WriteDone(p) ==
    /\ pc[p] = "writing"
    /\ Finished(p)
    /\ Goto(p, AfterWrite(p))
    /\ acked' = IF p \in Holders THEN acked \cup {<<p, round[p]>>} ELSE acked
    /\ UNCHANGED <<lock, file, pos, left, round, buf, result, interrupted,
                   returned>>

\* write(2) fails, possibly after part of the message reached the file.
WriteFails(p) ==
    /\ pc[p] = "writing"
    /\ left[p] > 0
    /\ Goto(p, "unlocking")
    /\ Fail(p, "EIO")
    /\ UNCHANGED <<lock, file, pos, left, round, buf, interrupted, returned,
                   acked>>

(***************************************************************************)
(* release_lock, whatever came before; only the first errno is reported.   *)
(***************************************************************************)

\* What the call returns to the program, once its errno is settled.
Report(p, errno) ==
    /\ Fail(p, errno)
    /\ returned' = IF p \in Readers
                   THEN [returned EXCEPT ![p] = [buf |-> buf[p],
                                                 errnum |-> errno]]
                   ELSE returned
    /\ acked' = IF p \in Writers /\ errno = "ENOERR"
                THEN acked \cup {<<p, round[p]>>} ELSE acked
    /\ Goto(p, IF p \in Writers /\ errno = "ENOERR" THEN "idle" ELSE "closing")

Release(p) ==
    /\ pc[p] = "unlocking"
    /\ lock' = [lock EXCEPT ![p] = "F_UNLCK"]
    /\ Report(p, result[p])
    /\ UNCHANGED <<file, pos, left, round, buf, interrupted>>

ReleaseFails(p) ==
    /\ pc[p] = "unlocking"
    /\ Report(p, "EIO")
    /\ UNCHANGED <<lock, file, pos, left, round, buf, interrupted>>

(***************************************************************************)
(* Leaving: SIGINT, close_fd (which drops the process's locks) and death.  *)
(***************************************************************************)
Interrupt(p) ==
    /\ pc[p] # "done"
    /\ ~interrupted[p]
    /\ interrupted' = [interrupted EXCEPT ![p] = TRUE]
    /\ UNCHANGED <<pc, lock, file, pos, left, round, buf, result, returned,
                   acked>>

\* A program that is waiting for input or sleeping sees the interruption.
Leave(p) ==
    /\ pc[p] = "idle"
    /\ interrupted[p]
    /\ Goto(p, IF p \in Readers THEN "done"
               ELSE IF lock[p] # "F_UNLCK" THEN "unlocking" ELSE "closing")
    /\ UNCHANGED <<lock, file, pos, left, round, buf, result, interrupted,
                   returned, acked>>

\* close_fd; the reader goes on unless its exit_code is set, as it is when
\* close(2) fails, or SIGINT came.
Close(p) ==
    /\ pc[p] = "closing"
    /\ lock' = [lock EXCEPT ![p] = "F_UNLCK"]
    /\ \/ p \in Readers /\ result[p] # "EIO" /\ Goto(p, "idle")
       \/ Goto(p, "done")
    /\ buf' = [buf EXCEPT ![p] = NULL]
    /\ UNCHANGED <<file, pos, left, round, result, interrupted, returned,
                   acked>>

\* A process is killed: the kernel drops its locks, its cells stay.
Crash(p) ==
    /\ pc[p] # "done"
    /\ Goto(p, "done")
    /\ lock' = [lock EXCEPT ![p] = "F_UNLCK"]
    /\ buf' = [buf EXCEPT ![p] = NULL]
    /\ UNCHANGED <<file, pos, left, round, result, interrupted, returned,
                   acked>>

\* Between the first write(2) of a call and the end of the call: a holder's
\* call is write_fd, a writer's is write_locked_fd.
Unsettled(p) ==
    \/ pc[p] = "writing"
    \/ pc[p] = "unlocking" /\ p \in Writers

\* The history variable follows the file whenever no write is under way.
Settle == settled' = IF \E p \in Proc : Unsettled(p)' THEN settled ELSE file'

\* The steps a running process takes by itself.
Call(p) ==
    \/ OpenForRead(p)
    \/ NextMessage(p)
    \/ InputEnds(p)
    \/ AskToHold(p)
    \/ Granted(p)
    \/ TryToWrite(p)
    \/ Refused(p)
    \/ LockFails(p)
    \/ ReadSome(p)
    \/ ReadEof(p)
    \/ ReadFails(p)
    \/ WriteSome(p)
    \/ WriteDone(p)
    \/ WriteFails(p)
    \/ Release(p)
    \/ ReleaseFails(p)
    \/ Leave(p)
    \/ Close(p)

Work(p) == Call(p) /\ Settle

Next == \E p \in Proc : (Call(p) \/ Interrupt(p) \/ Crash(p)) /\ Settle

Spec == Init /\ [][Next]_vars

\* Inside a call every system call returns (F_SETLK and a regular file never
\* block); nothing is assumed of the user who types between two calls.
FairSpec ==
    Spec /\ \A p \in Proc : WF_vars(pc[p] \notin {"idle", "typing"} /\ Work(p))

-----------------------------------------------------------------------------
TypeOK ==
    /\ pc \in [Proc -> Places]
    /\ lock \in [Proc -> Locks]
    /\ file \in Seq(Cell)
    /\ pos \in [Proc -> Nat]
    /\ left \in [Proc -> 0 .. MsgLen]
    /\ round \in [Proc -> 0 .. MaxRounds]
    /\ buf \in [Proc -> Seq(Cell) \cup {NULL}]
    /\ result \in [Proc -> Errno]
    /\ interrupted \in [Proc -> BOOLEAN]
    /\ returned \in [Readers -> [buf : Seq(Cell) \cup {NULL}, errnum : Errno]]
    /\ acked \subseteq (Writers \cup Holders) \X (0 .. MaxRounds)
    /\ settled \in Seq(Cell)

\* A file being written has one user: get_write_lock's lock is exclusive for
\* as long as write_fd's loop of partial writes runs.
WriterAlone ==
    \A p, q \in Proc :
        p # q /\ pc[p] = "writing" => pc[q] \notin {"reading", "writing"}

\* What read_fd has collected is, cell for cell, what the file holds now; at
\* the end of read_locked_fd it is the whole file: no write overlapped it.
Snapshot(p) ==
    /\ pc[p] = "reading" /\ pos[p] > 0 =>
          buf[p] = [i \in 1 .. pos[p] |-> file[i]]
    /\ pc[p] = "unlocking" /\ result[p] = "ENOERR" => buf[p] = file

ReadIsSnapshot == \A p \in Readers : Snapshot(p)

\* The cells of message m are all in the file, in order and in one piece, right
\* before the offset of the descriptor that wrote them.
Whole(m) ==
    LET at == pos[m[1]] - MsgLen
    IN  /\ at >= 0
        /\ \A i \in 1 .. MsgLen :
              at + i \in DOMAIN file /\ file[at + i] = <<m[1], m[2], i>>

\* When a write call returns ENOERR its message is in the file whole, however
\* many write(2) calls it took, whatever the others wrote to the same place
\* before, and whoever failed, was interrupted or died meanwhile.
AckedIsWhole == [][\A m \in acked' \ acked : Whole(m)']_vars

\* It does not stay there: another process writes where its own descriptor is,
\* which is the beginning of the file for its first message.
AckedStays ==
    \A m \in acked :
        \E k \in 0 .. Len(file) - MsgLen :
            \A i \in 1 .. MsgLen : file[k + i] = <<m[1], m[2], i>>

\* The strengthening that makes the two invariants above inductive: a write
\* lock excludes every other lock, and a process is inside read_fd or write_fd
\* only with the lock its role asks for.
ExclusiveLock ==
    \A p, q \in Proc :
        p # q /\ lock[p] = "F_WRLCK" => lock[q] = "F_UNLCK"

CallHoldsLock ==
    \A p \in Proc :
        /\ pc[p] = "reading" => p \in Readers /\ lock[p] = "F_RDLCK"
        /\ pc[p] \in {"typing", "writing"} => p \notin Readers /\ lock[p] = "F_WRLCK"
        /\ pc[p] = "unlocking" /\ p \in Readers => lock[p] = "F_RDLCK"

\* No offset runs past the end of the file, so a write never leaves a hole.
NoHole == \A p \in Proc : pos[p] <= Len(file)

\* A reader asks for its lock before it has read anything.
FreshReader == \A p \in Readers : pc[p] = "locking" => pos[p] = 0

IInv ==
    /\ TypeOK /\ NoHole /\ FreshReader
    /\ ExclusiveLock /\ CallHoldsLock /\ ReadIsSnapshot

\* The header's promise for read_locked_fd: "NULL on error".
NullOnError ==
    \A p \in Readers :
        returned[p].errnum # "ENOERR" => returned[p].buf = NULL

\* read_locked_fd and write_locked_fd do not keep the file from others: the
\* lock they take is dropped again.
LocksAreReleased ==
    \A p \in Readers \cup Writers :
        lock[p] # "F_UNLCK" ~> lock[p] = "F_UNLCK"
-----------------------------------------------------------------------------
(***************************************************************************)
(* The abstract file: what is on disk, less the cells of a message whose   *)
(* call has not returned.  The lock keeps those cells from everybody else. *)
(***************************************************************************)

\* Cells of the current message that are in the file.
Sent(p) == MsgLen - left[p]

\* Where the call that is under way began to write, or where the next one will.
Start(p) == IF Unsettled(p) THEN pos[p] - Sent(p) ELSE pos[p]

Atomic == INSTANCE AtomicFile WITH
              content <- settled,
              offset <- [p \in Writers \cup Holders |-> Start(p)]

\* Every behaviour of the locked calls is one of a file whose reads and writes
\* are single steps, with failures, SIGINT and deaths.
ImplementsAtomicFile == Atomic!Spec

(***************************************************************************)
(* What the refinement and AckedIsWhole rest on besides IInv.              *)
(***************************************************************************)

\* A writer has its lock until the call that asked for it is over.
WriterLock ==
    \A p \in Writers :
        /\ pc[p] \in {"idle", "waiting", "locking"} => lock[p] = "F_UNLCK"
        /\ pc[p] = "unlocking" => lock[p] = "F_WRLCK"

\* The process has a message to write, or is writing it.
Pending(p) ==
    \/ pc[p] \in {"typing", "writing"}
    \/ p \in Writers /\ pc[p] \in {"waiting", "locking", "unlocking"}

\* Nothing of a message is written before the lock is granted, and a writer
\* reports success only for a message that it wrote to its end.
MessageProgress ==
    \A p \in Writers \cup Holders :
        /\ Pending(p) => round[p] > 0
        /\ Pending(p) /\ ~Unsettled(p) => left[p] = MsgLen
        /\ p \in Writers /\ pc[p] = "unlocking" /\ result[p] = "ENOERR" => left[p] = 0

\* While a write is under way the file is what it was before, with the cells
\* that are sent put over it in one piece.
FileIsOverlaid ==
    /\ \A p \in Proc :
          Unsettled(p) =>
              /\ Start(p) \in 0 .. Len(settled)
              /\ file = Atomic!Put(settled, Start(p), p, round[p], Sent(p))
    /\ (\A p \in Proc : ~Unsettled(p)) => file = settled

\* No cell of a pending message is in the settled file, and none of a message
\* that is yet to come.
CellsAreKnown ==
    \A i \in 1 .. Len(settled) :
        LET p == settled[i][1]
        IN  /\ settled[i][2] <= round[p]
            /\ Pending(p) => settled[i][2] < round[p]

\* read_locked_fd reports an errno with a buffer only when release_lock failed.
ReaderResult ==
    \A p \in Readers :
        /\ pc[p] \in {"locking", "reading"} => result[p] = "ENOERR"
        /\ pc[p] = "unlocking" /\ result[p] # "ENOERR" => buf[p] = NULL

WriteInv ==
    /\ WriterLock /\ MessageProgress /\ FileIsOverlaid /\ CellsAreKnown
    /\ ReaderResult
=============================================================================
