------------------------------ MODULE ChildSwarm ------------------------------
(***************************************************************************)
(* The child swarms: a parent makes one non-blocking pipe per child, forks *)
(* the children one after another, prints what they write until SIGINT,    *)
(* then tells them to stop and waits for them.  One program watches the    *)
(* pipes with poll() and closes those that hang up, the other watches      *)
(* them with select() and keeps them all.                                  *)
(*                                                                         *)
(* Who holds which end of a pipe is state, because a process inherits the  *)
(* ends its parent has open when it is forked.  Messages are numbered, and *)
(* a write(2) of one is atomic: it is shorter than PIPE_BUF.               *)
(***************************************************************************)
EXTENDS Integers, Sequences, FiniteSets

CONSTANTS
    N,              \* num_children
    Capacity,       \* messages that fit into a pipe
    MaxMessages,    \* bound on the messages of a child
    MaxSignals,     \* bound on the SIGINTs from outside
    MaxKills,       \* bound on the processes that are killed
    MaxErrors       \* bound on the system calls that fail

ASSUME SwarmBounds ==
    /\ N \in Nat \ {0}
    /\ Capacity \in Nat \ {0}
    /\ {MaxMessages, MaxSignals, MaxKills, MaxErrors} \subseteq Nat

Children == 1 .. N
Parent == 0
Procs == {Parent} \cup Children

VARIABLES
    variant,    \* "poll" or "select"
    pc,         \* where the parent is
    idx,        \* its loop variable
    child,      \* where the children are
    flag,       \* flag[p]: p has seen SIGINT (skid_sig_hand_signum)
    readers,    \* readers[i]: the processes that hold the read end of pipe i
    writers,    \* writers[i]: the processes that hold its write end
    pipe,       \* pipe[i]: the messages in pipe i
    wrote,      \* wrote[i]: how many messages child i has written
    watched,    \* the pipes in poll_fds, or in origfds
    revents,    \* revents[i]: what poll() or select() reported
    buf,        \* what read_fd() has read so far
    printed,    \* printed[i]: the messages of child i on the standard output
    failed,     \* pipes that a read failed on
    skipped,    \* children that waitpid() was interrupted for
    signals, kills, errors

parent == <<variant, pc, idx, watched, revents, buf, printed, failed, skipped>>
ends == <<readers, writers, pipe>>
bounds == <<signals, kills, errors>>
vars == <<parent, child, flag, ends, wrote, bounds>>

Running == {"close", "clean_up", "sleep", "write", "exit"}
Ended == {"ended", "killed"}

Init ==
    /\ variant \in {"poll", "select"}
    /\ pc = "pipe" /\ idx = 1
    /\ child = [i \in Children |-> "none"]
    /\ flag = [p \in Procs |-> FALSE]
    /\ readers = [i \in Children |-> {}]
    /\ writers = [i \in Children |-> {}]
    /\ pipe = [i \in Children |-> << >>]
    /\ wrote = [i \in Children |-> 0]
    /\ watched = {}
    /\ revents = [i \in Children |-> {}]
    /\ buf = << >>
    /\ printed = [i \in Children |-> << >>]
    /\ failed = {} /\ skipped = {}
    /\ signals = 0 /\ kills = 0 /\ errors = 0

\* The read ends that p closes; the last one to close takes the data along.
ClosesRead(p, pipes) ==
    /\ readers' = [i \in Children |-> IF i \in pipes THEN readers[i] \ {p} ELSE readers[i]]
    /\ pipe' = [i \in Children |->
                   IF readers'[i] = {} THEN << >> ELSE pipe[i]]

\* The end of a process closes all it has open.
Drops(p) ==
    /\ ClosesRead(p, Children)
    /\ writers' = [i \in Children |-> writers[i] \ {p}]

Error == errors < MaxErrors /\ errors' = errors + 1 /\ UNCHANGED <<signals, kills>>

(***************************************************************************)
(* The parent forks.                                                       *)
(***************************************************************************)
Goes(to) == pc' = to /\ UNCHANGED <<variant, idx, watched, revents, buf, printed,
                                    failed, skipped>>

CreatesPipes ==
    /\ pc = "pipe"
    /\ readers' = [readers EXCEPT ![idx] = {Parent}]
    /\ writers' = [writers EXCEPT ![idx] = {Parent}]
    /\ Goes("fork")
    /\ UNCHANGED <<child, flag, pipe, wrote, bounds>>

Forks ==
    /\ pc = "fork"
    /\ child' = [child EXCEPT ![idx] = "close"]
    /\ flag' = [flag EXCEPT ![idx] = flag[Parent]]
    /\ readers' = [i \in Children |->
                      readers[i] \cup (IF Parent \in readers[i] THEN {idx} ELSE {})]
    /\ writers' = [i \in Children |->
                      writers[i] \cup (IF Parent \in writers[i] THEN {idx} ELSE {})]
    /\ Goes("close")
    /\ UNCHANGED <<pipe, wrote, bounds>>

\* pipe2() or fork() fails: no more children, and straight to the cleanup.
ForkFails ==
    /\ pc \in {"pipe", "fork"}
    /\ Error
    /\ Goes("kill")
    /\ UNCHANGED <<child, flag, ends, wrote>>

\* The array of poll(), or the set of select(), has the read end.
Watches(i) == watched' = watched \cup {i}

WriteEndKept(i) == writers[i]
WriteEndClosed(i) == writers[i] \ {Parent}

ClosesWrite ==
    /\ pc = "close"
    /\ writers' = [writers EXCEPT ![idx] = WriteEndClosed(idx)]
    /\ Watches(idx)
    /\ IF idx = N THEN pc' = "check" /\ idx' = 1 ELSE pc' = "pipe" /\ idx' = idx + 1
    /\ UNCHANGED <<variant, revents, buf, printed, failed, skipped,
                   child, flag, readers, pipe, wrote, bounds>>

(***************************************************************************)
(* The parent watches.                                                     *)
(***************************************************************************)
ChecksSignal ==
    /\ pc = "check"
    /\ Goes(IF flag[Parent] THEN "kill" ELSE "call")
    /\ UNCHANGED <<child, flag, ends, wrote, bounds>>

\* A signal that comes before this step interrupts nothing.
Blocks ==
    /\ pc = "call"
    /\ Goes("blocked")
    /\ UNCHANGED <<child, flag, ends, wrote, bounds>>

Events(i) == (IF pipe[i] # << >> THEN {"POLLIN"} ELSE {})
                \cup (IF writers[i] = {} THEN {"POLLHUP"} ELSE {})

\* Each call starts from all that is watched and leaves what has an event.
Reported == [i \in Children |-> IF i \in watched THEN Events(i) ELSE {}]

\* The timeout is infinite.
Wakes ==
    /\ pc = "blocked"
    /\ \E i \in watched : Events(i) # {}
    /\ revents' = Reported
    /\ pc' = "read" /\ idx' = 1
    /\ UNCHANGED <<variant, watched, buf, printed, failed, skipped,
                   child, flag, ends, wrote, bounds>>

WatchFails ==
    /\ pc = "call"
    /\ Error
    /\ Goes("kill")
    /\ UNCHANGED <<child, flag, ends, wrote>>

\* read_pollfd(): is_good(), has_data() and the special case of POLLHUP.
IsGood(ev) == ev \cap {"POLLERR", "POLLHUP", "POLLNVAL", "POLLRDHUP"} = {}
HasData(ev) == ev \cap {"POLLIN", "POLLPRI"} # {}
WillReadIfGood(ev) == IsGood(ev) /\ HasData(ev)
WillRead(ev) == (IsGood(ev) /\ HasData(ev)) \/ "POLLHUP" \in ev
WillClose(ev) == ~IsGood(ev)

\* A descriptor that select() reports is read, at its end too, and is kept.
Wanted(i) == i \in watched /\ IF variant = "poll" THEN WillRead(revents[i])
                              ELSE revents[i] # {}
Closing(i) == i \in watched /\ variant = "poll" /\ WillClose(revents[i])

NextEntry == IF idx = N THEN pc' = "check" /\ idx' = 1
                        ELSE idx' = idx + 1 /\ UNCHANGED pc

\* The loop of read_fd() reads until there is nothing.
ReadsSome ==
    /\ pc = "read" /\ Wanted(idx) /\ pipe[idx] # << >>
    /\ buf' = buf \o pipe[idx]
    /\ pipe' = [pipe EXCEPT ![idx] = << >>]
    /\ UNCHANGED <<variant, pc, idx, watched, revents, printed, failed, skipped,
                   child, flag, readers, writers, wrote, bounds>>

ClosesEntry ==
    IF Closing(idx)
    THEN watched' = watched \ {idx} /\ ClosesRead(Parent, {idx})
    ELSE UNCHANGED <<watched, readers, pipe>>

ReadEnds ==
    /\ pc = "read" /\ Wanted(idx) /\ pipe[idx] = << >>
    /\ printed' = [printed EXCEPT ![idx] = @ \o buf]
    /\ buf' = << >>
    /\ ClosesEntry
    /\ NextEntry
    /\ UNCHANGED <<variant, revents, failed, skipped, child, flag, writers, wrote, bounds>>

\* What it has read is freed.  An error after a POLLHUP is forgotten.
ReadFails ==
    /\ pc = "read" /\ Wanted(idx)
    /\ Error
    /\ buf' = << >>
    /\ failed' = failed \cup {idx}
    /\ IF variant = "poll" /\ "POLLHUP" \in revents[idx]
       THEN ClosesEntry /\ NextEntry
       ELSE pc' = "kill" /\ UNCHANGED <<idx, watched, readers, pipe>>
    /\ UNCHANGED <<variant, revents, printed, skipped, child, flag, writers, wrote>>

PassesEntry ==
    /\ pc = "read" /\ ~Wanted(idx)
    /\ ClosesEntry
    /\ NextEntry
    /\ UNCHANGED <<variant, revents, buf, printed, failed, skipped,
                   child, flag, writers, wrote, bounds>>

(***************************************************************************)
(* The parent stops.                                                       *)
(***************************************************************************)
KillsChildren ==
    /\ pc = "kill"
    /\ flag' = [p \in Procs |-> p = Parent \/ child[p] \in Running \/ flag[p]]
    /\ pc' = "wait" /\ idx' = 1
    /\ UNCHANGED <<variant, watched, revents, buf, printed, failed, skipped,
                   child, ends, wrote, bounds>>

\* A child_pids[] that was never set is 0: waitpid(0) takes any child.
Awaited(i) == IF child[i] = "none" THEN {j \in Children : child[j] \notin {"none", "reaped"}}
                                   ELSE {i} \ {j \in Children : child[j] = "reaped"}
NoHang(i) == {"zombie"} \cup Running
Reapable(i) == {"zombie"}

NextChild == IF idx = N THEN pc' = "exit" /\ idx' = 1
                        ELSE idx' = idx + 1 /\ UNCHANGED pc

Waits ==
    /\ pc = "wait"
    /\ \/ Awaited(idx) = {} /\ UNCHANGED child
       \/ \E j \in Awaited(idx) :
             /\ child[j] \in Reapable(idx)
             /\ child' = [child EXCEPT ![j] = IF @ = "zombie" THEN "reaped" ELSE @]
    /\ NextChild
    /\ UNCHANGED <<variant, watched, revents, buf, printed, failed, skipped,
                   flag, ends, wrote, bounds>>

ParentExits ==
    /\ pc = "exit"
    /\ Drops(Parent)
    /\ watched' = {}
    /\ pc' = "ended"
    /\ UNCHANGED <<variant, idx, revents, buf, printed, failed, skipped,
                   child, flag, wrote, bounds>>

(***************************************************************************)
(* A child.                                                                *)
(***************************************************************************)
ChildGoes(i, to) == child' = [child EXCEPT ![i] = to] /\ UNCHANGED <<parent, flag, bounds>>

ClosesOwnRead(i) ==
    /\ child[i] = "close"
    /\ ClosesRead(i, {i})
    /\ ChildGoes(i, "clean_up")
    /\ UNCHANGED <<writers, wrote>>

\* The read ends of the pipes made before its own, which are in its copy of
\* poll_fds; the entries not yet set are 0, and that closes the standard input.
InheritedNone(i) == {}
Inherited(i) == {j \in Children : j < i}

CleansUp(i) ==
    /\ child[i] = "clean_up"
    /\ ClosesRead(i, Inherited(i))
    /\ ChildGoes(i, "sleep")
    /\ UNCHANGED <<writers, wrote>>

\* At the bound, generate_a_message() fails.
WakesUp(i) ==
    /\ child[i] = "sleep"
    /\ ChildGoes(i, IF flag[i] \/ wrote[i] = MaxMessages THEN "exit" ELSE "write")
    /\ UNCHANGED <<ends, wrote>>

\* The random numbers are seeded with the time, once in a process.
NapFails(i) ==
    /\ child[i] = "sleep" /\ wrote[i] = 0
    /\ ChildGoes(i, "exit")
    /\ UNCHANGED <<ends, wrote>>

Writes(i) ==
    /\ child[i] = "write" /\ readers[i] # {} /\ Len(pipe[i]) < Capacity
    /\ pipe' = [pipe EXCEPT ![i] = Append(@, wrote[i] + 1)]
    /\ wrote' = [wrote EXCEPT ![i] = @ + 1]
    /\ ChildGoes(i, "sleep")
    /\ UNCHANGED <<readers, writers>>

\* EAGAIN
PipeIsFull(i) ==
    /\ child[i] = "write" /\ readers[i] # {} /\ Len(pipe[i]) = Capacity
    /\ ChildGoes(i, "exit")
    /\ UNCHANGED <<ends, wrote>>

\* exit(), or SIGPIPE
ChildEnds(i) ==
    /\ child[i] = "exit" \/ (child[i] = "write" /\ readers[i] = {})
    /\ Drops(i)
    /\ ChildGoes(i, "zombie")
    /\ UNCHANGED wrote

(***************************************************************************)
(* What comes from outside: SIGINT, to the parent or to the whole group,   *)
(* and SIGKILL.                                                            *)
(***************************************************************************)
Interrupts ==
    /\ signals < MaxSignals
    /\ signals' = signals + 1
    /\ pc \notin Ended
    /\ \E group \in BOOLEAN :
          flag' = [p \in Procs |-> flag[p] \/ p = Parent
                                   \/ (group /\ child[p] \in Running)]
    /\ \/ pc = "blocked" /\ Goes("kill")                        \* EINTR
       \/ /\ pc = "wait" /\ \A j \in Awaited(idx) : child[j] # "zombie"
          /\ Awaited(idx) # {}
          /\ skipped' = skipped \cup {idx}
          /\ NextChild
          /\ UNCHANGED <<variant, watched, revents, buf, printed, failed>>
       \/ pc # "blocked" /\ UNCHANGED parent
    /\ UNCHANGED <<child, ends, wrote, kills, errors>>

IsKilled(p) ==
    /\ kills < MaxKills
    /\ kills' = kills + 1
    /\ IF p = Parent THEN pc \notin Ended /\ Goes("killed") /\ UNCHANGED child
       ELSE /\ child[p] \in Running
            /\ child' = [child EXCEPT ![p] = "zombie"]
            /\ UNCHANGED parent
    /\ Drops(p)
    /\ UNCHANGED <<flag, wrote, signals, errors>>

ParentSteps ==
    \/ CreatesPipes \/ Forks \/ ClosesWrite \/ ChecksSignal \/ Blocks \/ Wakes
    \/ ReadsSome \/ ReadEnds \/ PassesEntry \/ KillsChildren \/ Waits \/ ParentExits

ChildSteps(i) ==
    \/ ClosesOwnRead(i) \/ CleansUp(i) \/ WakesUp(i) \/ Writes(i)
    \/ PipeIsFull(i) \/ ChildEnds(i)

Next ==
    \/ ParentSteps
    \/ \E i \in Children : ChildSteps(i) \/ NapFails(i)
    \/ ForkFails \/ WatchFails \/ ReadFails
    \/ Interrupts
    \/ \E p \in Procs : IsKilled(p)

Fairness ==
    /\ WF_vars(ParentSteps)
    /\ \A i \in Children : WF_vars(ChildSteps(i))

Spec == Init /\ [][Next]_vars /\ Fairness
--------------------------------------------------------------------------------
(***************************************************************************)
(* Properties.                                                             *)
(***************************************************************************)
\* As long as the parent runs, what a child wrote is on the standard output or
\* still to be read, complete and in order: a pipe that hangs up is emptied
\* before it is closed.  Only a read that fails loses something.
NothingLost ==
    \A i \in Children \ failed :
        pc \notin Ended =>
            printed[i] \o (IF i = idx THEN buf ELSE << >>) \o pipe[i]
                = [k \in 1 .. wrote[i] |-> k]

\* Once the parent is gone and the children have cleaned up, nobody holds a
\* read end: no child goes on writing into a pipe that a sibling keeps open.
DeadParentIsNoticed ==
    pc \in Ended /\ (\A i \in Children : child[i] \notin {"close", "clean_up"}) =>
        \A i \in Children : readers[i] = {}

\* The parent outlives its children, unless SIGINT interrupted a waitpid().
NoChildLeft ==
    pc = "ended" /\ skipped = {} => \A i \in Children : child[i] \notin Running

\* SIGINT ends the parent, unless it came between the check and poll() and all
\* the pipes have been closed, so that poll() waits for nothing.
ShutsDown ==
    flag[Parent] /\ ~(pc \in {"call", "blocked"} /\ watched = {}) ~> pc \in Ended
--------------------------------------------------------------------------------
(***************************************************************************)
(* The inductive invariant behind the safety properties.                   *)
(***************************************************************************)
Creating == {"pipe", "fork", "close"}
Places == Creating \cup Ended
             \cup {"check", "call", "blocked", "read", "kill", "wait", "exit"}
ChildPlaces == Running \cup {"none", "zombie", "reaped"}

TypeOK ==
    /\ variant \in {"poll", "select"} /\ pc \in Places /\ idx \in Children
    /\ child \in [Children -> ChildPlaces]
    /\ flag \in [Procs -> BOOLEAN]
    /\ readers \in [Children -> SUBSET Procs] /\ writers \in [Children -> SUBSET Procs]
    /\ pipe \in [Children -> Seq(Nat)] /\ wrote \in [Children -> Nat]
    /\ watched \subseteq Children
    /\ revents \in [Children -> SUBSET {"POLLIN", "POLLHUP"}]
    /\ buf \in Seq(Nat) /\ printed \in [Children -> Seq(Nat)]
    /\ failed \subseteq Children /\ skipped \subseteq Children
    /\ {signals, kills, errors} \subseteq Nat

\* What is not made yet: the pipes and the children after the current ones, and
\* nothing has been polled.
NotYet ==
    pc \in Creating =>
        /\ \A i \in Children : i > idx => child[i] = "none" /\ readers[i] = {}
        /\ pc # "close" => child[idx] = "none"
        /\ pc = "pipe" => readers[idx] = {}
        /\ pc = "fork" => Parent \in writers[idx]
        /\ \A i \in Children : revents[i] = {}

\* A child has its own write end until it ends, and a pipe that hung up has lost
\* its writers for good.
WriteEndsHeld ==
    \A i \in Children :
        /\ child[i] \in Running => i \in writers[i]
        /\ "POLLHUP" \in revents[i] => writers[i] = {}

\* The parent keeps the read end of every pipe that has something in it or may
\* get something, unless a read of it failed.
ParentReads ==
    pc \notin Ended =>
        \A i \in Children :
            \/ Parent \in readers[i]
            \/ writers[i] = {} /\ (pipe[i] = << >> \/ i \in failed)

\* Only the descriptor that is being read has a buffer.
BufInUse == pc \notin Ended /\ buf # << >> => pc = "read" /\ Wanted(idx)

\* Who may hold a read end: the parent while it runs, and the children that are
\* yet to close it.
ReadEndsHeld ==
    \A i \in Children : \A p \in readers[i] :
        IF p = Parent THEN pc \notin Ended
        ELSE \/ child[p] = "close" /\ i <= p
             \/ child[p] = "clean_up" /\ i < p

\* The children that the parent has waited for.
WaitedFor ==
    skipped = {} =>
        \A j \in Children :
            pc \in {"exit", "ended"} \/ (pc = "wait" /\ j < idx) => child[j] \notin Running

IInv ==
    /\ TypeOK /\ NotYet /\ WriteEndsHeld /\ ParentReads /\ BufInUse
    /\ NothingLost /\ ReadEndsHeld /\ WaitedFor
================================================================================
