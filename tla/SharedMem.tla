------------------------------- MODULE SharedMem -------------------------------
(***************************************************************************)
(* A POSIX shared memory object guarded by a named semaphore: skid_memory's*)
(* open_shared_mem() and delete_shared_mem(), skid_semaphores'             *)
(* create_named_sem(), open_named_sem(), release_sem() and                 *)
(* remove_named_sem(), run by test_sm_shared_mem_server and _client.       *)
(*                                                                         *)
(* Both objects are reached by name.  Removing a name leaves the object to *)
(* those who have it open, and the next open with O_CREAT makes another:   *)
(* an object is a number, a name the number it stands for (or NoObject).   *)
(* The program's message is a constant, so all the memory says is whether  *)
(* its first character, and the rest, are there.                           *)
(***************************************************************************)
EXTENDS Integers, FiniteSets

CONSTANTS
    Servers,    \* runs of the server program
    Clients,    \* runs of the client program
    Signalled,  \* the servers that may be sent SIGINT
    MaxFails,   \* bound on the semaphore calls that fail once a loop is reached
    MaxCrashes  \* bound on the processes that are killed

Proc == Servers \cup Clients

ASSUME RolesDisjoint == Servers \cap Clients = {}
ASSUME FiniteRoles == IsFiniteSet(Servers) /\ IsFiniteSet(Clients)
ASSUME BoundsOK == Signalled \subseteq Servers /\ MaxFails \in Nat /\ MaxCrashes \in Nat

NoObject == 0

\* Every object is made by a server, each server makes at most one of a kind:
\* enough numbers for all of them.
MaxObject == Cardinality(Servers)
Object == 1 .. MaxObject

VARIABLES
    pc,         \* where each process is
    sem_name,   \* what the semaphore's name stands for
    shm_name,   \* what the memory's name stands for
    sems, shms, \* how many semaphores and memory objects were ever made
    value,      \* the semaphores' values
    sized,      \* the memory objects that ftruncate() gave their size
    first, rest, \* the memory objects that hold the parts of a message
    sem, shm,   \* the objects each process has open
    holds,      \* who decremented its semaphore and has yet to release it
    unpaid,     \* releases of each process that follow no decrement
    fails,      \* the semaphore calls that failed
    failed,     \* how many of them are a client's sem_wait()
    wrote,      \* the clients' wrote_it
    signum,     \* the servers whose skid_sig_hand_signum is SIGINT
    crashes

names == <<sem_name, shm_name, sems, shms>>
memory == <<sized, first, rest>>
failures == <<fails, failed>>
vars == <<pc, names, value, memory, sem, shm, holds, unpaid, failures, wrote, signum, crashes>>

Init ==
    /\ pc = [p \in Proc |-> "start"]
    /\ sem_name = NoObject /\ shm_name = NoObject
    /\ sems = 0 /\ shms = 0
    /\ value = [o \in Object |-> 0]
    /\ sized = {} /\ first = {} /\ rest = {}
    /\ sem = [p \in Proc |-> NoObject]
    /\ shm = [p \in Proc |-> NoObject]
    /\ holds = {}
    /\ unpaid = [p \in Proc |-> 0]
    /\ fails = 0 /\ failed = [c \in Clients |-> 0]
    /\ wrote = {}
    /\ signum = {}
    /\ crashes = 0

Goto(p, place) == pc' = [pc EXCEPT ![p] = place]

(***************************************************************************)
(* Semaphores.                                                             *)
(***************************************************************************)
\* sem_wait() and sem_trywait(), when they succeed.
Take(p) ==
    /\ value[sem[p]] > 0
    /\ value' = [value EXCEPT ![sem[p]] = @ - 1]
    /\ holds' = holds \cup {p}

\* sem_wait(), sem_trywait() or sem_post() fails: the semaphore stays as it is.
Fail == fails < MaxFails /\ fails' = fails + 1 /\ UNCHANGED <<value, holds, unpaid>>

\* release_sem(): it does not matter who had the semaphore.
ReleaseTakes(p) ==
    /\ value' = [value EXCEPT ![sem[p]] = @ - 1]
    /\ holds' = holds \ {p}
    /\ UNCHANGED unpaid
Release(p) ==
    /\ value' = [value EXCEPT ![sem[p]] = @ + 1]
    /\ holds' = holds \ {p}
    /\ unpaid' = IF p \in holds THEN unpaid ELSE [unpaid EXCEPT ![p] = @ + 1]

(***************************************************************************)
(* The server's start.  Any call may fail, which leads to the cleanup.     *)
(***************************************************************************)
OnErrorReturn == "done"
OnError == "delete shm"

\* call_sem_open(), with or without O_CREAT.
CallSemOpen(p, create) ==
    /\ IF sem_name # NoObject \/ ~create THEN UNCHANGED <<sem_name, sems, value>>
       ELSE /\ sems' = sems + 1
            /\ sem_name' = sems + 1
            /\ value' = [value EXCEPT ![sems + 1] = 1]
    /\ sem' = [sem EXCEPT ![p] = sem_name']

CreateSem(s) ==
    /\ pc[s] = "start"
    /\ \/ CallSemOpen(s, TRUE) /\ Goto(s, "create shm")
       \/ /\ Goto(s, OnError)
          /\ UNCHANGED <<sem_name, sems, value, sem>>
    /\ UNCHANGED <<shm_name, shms, memory, shm, holds, unpaid, failures, wrote, signum, crashes>>

\* open_shared_mem(), its shm_open().
CreateShm(s) ==
    /\ pc[s] = "create shm"
    /\ \/ /\ IF shm_name # NoObject THEN UNCHANGED <<shm_name, shms>>
             ELSE /\ shms' = shms + 1
                  /\ shm_name' = shms + 1
          /\ shm' = [shm EXCEPT ![s] = shm_name']
          /\ Goto(s, "size shm")
       \/ /\ Goto(s, OnError)
          /\ UNCHANGED <<shm_name, shms, shm>>
    /\ UNCHANGED <<sem_name, sems, value, memory, sem, holds, unpaid, failures, wrote,
                   signum, crashes>>

\* open_shared_mem(), its ftruncate().  The object already has its size, and
\* keeps its contents, if another server made it.
SizeShm(s) ==
    /\ pc[s] = "size shm"
    /\ \/ sized' = sized \cup {shm[s]} /\ Goto(s, "map shm")
       \/ sized' \in {sized, sized \cup {shm[s]}} /\ Goto(s, OnError)
    /\ UNCHANGED <<names, value, first, rest, sem, shm, holds, unpaid, failures, wrote,
                   signum, crashes>>

\* map_skid_mem_fd(), by server and client: an object that has no size yet can
\* be mapped all the same.
MapShm(p) ==
    /\ pc[p] = "map shm"
    /\ \/ Goto(p, IF p \in Servers THEN "release first" ELSE "wait")
       \/ Goto(p, IF p \in Servers THEN OnError ELSE "done")
    /\ UNCHANGED <<names, value, memory, sem, shm, holds, unpaid, failures, wrote, signum, crashes>>

ReleaseFirst(s) ==
    /\ pc[s] = "release first"
    /\ \/ Release(s) /\ Goto(s, "loop") /\ UNCHANGED fails
       \/ Fail /\ Goto(s, OnError)
    /\ UNCHANGED <<names, memory, sem, shm, failed, wrote, signum, crashes>>

(***************************************************************************)
(* The server's loop.                                                      *)
(***************************************************************************)
LeavesNever(s) == FALSE
Leaves(s) == s \in signum

CheckSignal(s) ==
    /\ pc[s] = "loop"
    /\ Goto(s, IF Leaves(s) THEN "delete shm" ELSE "lock")
    /\ UNCHANGED <<names, value, memory, sem, shm, holds, unpaid, failures, wrote,
                   signum, crashes>>

\* sem_trywait() until it succeeds, or SIGINT came: the loop is left either
\* way, with no error, and the memory is looked at either way.  A failure other
\* than EAGAIN ends the server, unless SIGINT came first.
LoopIsLeftAlways(s) == TRUE
LoopIsLeft(s) == s \in signum

Lock(s) ==
    /\ pc[s] = "lock"
    /\ \/ Take(s) /\ Goto(s, "read") /\ UNCHANGED <<unpaid, fails>>
       \/ /\ value[sem[s]] = 0
          /\ LoopIsLeft(s)
          /\ Goto(s, "read")
          /\ UNCHANGED <<value, holds, unpaid, fails>>
       \/ Fail /\ Goto(s, IF LoopIsLeft(s) THEN "read" ELSE OnError)
    /\ UNCHANGED <<names, memory, sem, shm, failed, wrote, signum, crashes>>

Text(o) ==
    IF o \notin first THEN "nothing" ELSE IF o \in rest THEN "whole" ELSE "part"

Read(s) ==
    /\ pc[s] = "read"
    /\ Goto(s, IF Text(shm[s]) = "nothing" THEN "release" ELSE "clear")
    /\ UNCHANGED <<names, value, memory, sem, shm, holds, unpaid, failures, wrote,
                   signum, crashes>>

\* Only the first character is cleared.
Clear(s) ==
    /\ pc[s] = "clear"
    /\ first' = first \ {shm[s]}
    /\ Goto(s, "release")
    /\ UNCHANGED <<names, value, sized, rest, sem, shm, holds, unpaid, failures, wrote,
                   signum, crashes>>

ReleaseLock(s) ==
    /\ pc[s] = "release"
    /\ \/ Release(s) /\ Goto(s, "loop") /\ UNCHANGED fails
       \/ Fail /\ Goto(s, OnError)
    /\ UNCHANGED <<names, memory, sem, shm, failed, wrote, signum, crashes>>

\* The cleanup removes both names, whoever made the objects.
DeleteShm(s) ==
    /\ pc[s] = "delete shm"
    /\ shm_name' = NoObject
    /\ Goto(s, "remove sem")
    /\ UNCHANGED <<sem_name, sems, shms, value, memory, sem, shm, holds, unpaid, failures,
                   wrote, signum, crashes>>

RemoveSem(s) ==
    /\ pc[s] = "remove sem"
    /\ sem_name' = NoObject
    /\ Goto(s, "done")
    /\ UNCHANGED <<shm_name, sems, shms, value, memory, sem, shm, holds, unpaid, failures,
                   wrote, signum, crashes>>

(***************************************************************************)
(* The client.                                                             *)
(***************************************************************************)
OpenSem(c) ==
    /\ pc[c] = "start"
    /\ \/ CallSemOpen(c, FALSE) /\ Goto(c, IF sem_name = NoObject THEN "done" ELSE "open shm")
       \/ Goto(c, "done") /\ UNCHANGED <<sem_name, sems, value, sem>>
    /\ UNCHANGED <<shm_name, shms, memory, shm, holds, unpaid, failures, wrote, signum, crashes>>

\* open_shared_mem() without truncate.
OpenShm(c) ==
    /\ pc[c] = "open shm"
    /\ \/ /\ shm' = [shm EXCEPT ![c] = shm_name]
          /\ Goto(c, IF shm_name = NoObject THEN "done" ELSE "map shm")
       \/ Goto(c, "done") /\ UNCHANGED shm
    /\ UNCHANGED <<names, value, memory, sem, holds, unpaid, failures, wrote, signum, crashes>>

\* A sem_wait() that fails is reported, and the client goes on as if it had
\* the semaphore.
WaitFailed(c) ==
    /\ Fail
    /\ failed' = [failed EXCEPT ![c] = @ + 1]
    /\ Goto(c, "check")

Wait(c) ==
    /\ pc[c] = "wait"
    /\ \/ Take(c) /\ Goto(c, "check") /\ UNCHANGED <<unpaid, failures>>
       \/ WaitFailed(c)
    /\ UNCHANGED <<names, memory, sem, shm, wrote, signum, crashes>>

\* strlen() of the memory: SIGBUS if the object has no size.
Check(c) ==
    /\ pc[c] = "check"
    /\ Goto(c, IF shm[c] \notin sized THEN "killed"
               ELSE IF Text(shm[c]) = "nothing" THEN "write" ELSE "post")
    /\ UNCHANGED <<names, value, memory, sem, shm, holds, unpaid, failures, wrote,
                   signum, crashes>>

\* strncpy(), from the first character on.
WriteFirst(c) ==
    /\ pc[c] = "write"
    /\ first' = first \cup {shm[c]}
    /\ Goto(c, "write rest")
    /\ UNCHANGED <<names, value, sized, rest, sem, shm, holds, unpaid, failures, wrote,
                   signum, crashes>>

WriteRest(c) ==
    /\ pc[c] = "write rest"
    /\ rest' = rest \cup {shm[c]}
    /\ wrote' = wrote \cup {c}
    /\ Goto(c, "post")
    /\ UNCHANGED <<names, value, sized, first, sem, shm, holds, unpaid, failures, signum, crashes>>

\* Done, or a sleep and another try, unless the release fails: what became of
\* the sem_wait() is forgotten.
Post(c) ==
    /\ pc[c] = "post"
    /\ \/ Release(c) /\ Goto(c, IF c \in wrote THEN "done" ELSE "wait") /\ UNCHANGED fails
       \/ Fail /\ Goto(c, "done")
    /\ UNCHANGED <<names, memory, sem, shm, failed, wrote, signum, crashes>>

(***************************************************************************)
(* SIGINT, handled by the servers, and a death of any process.             *)
(***************************************************************************)
\* Nobody looks at skid_sig_hand_signum once the cleanup has begun.
Interrupt(s) ==
    /\ s \in Signalled
    /\ pc[s] \notin {"start", "delete shm", "remove sem", "done", "killed"}
    /\ s \notin signum
    /\ signum' = signum \cup {s}
    /\ UNCHANGED <<pc, names, value, memory, sem, shm, holds, unpaid, failures, wrote, crashes>>

\* A client that dies where it waits takes nothing with it: it is as if it had
\* failed to map the memory.
Crash(p) ==
    /\ pc[p] \notin {"start", "done", "killed"}
    /\ p \in Clients => pc[p] \in {"check", "write", "write rest", "post"}
    /\ crashes < MaxCrashes
    /\ crashes' = crashes + 1
    /\ Goto(p, "killed")
    /\ UNCHANGED <<names, value, memory, sem, shm, holds, unpaid, failures, wrote, signum>>

ServerStep(s) ==
    \/ CreateSem(s)
    \/ CreateShm(s)
    \/ SizeShm(s)
    \/ MapShm(s)
    \/ ReleaseFirst(s)
    \/ CheckSignal(s)
    \/ Lock(s)
    \/ Read(s)
    \/ Clear(s)
    \/ ReleaseLock(s)
    \/ DeleteShm(s)
    \/ RemoveSem(s)

ClientStep(c) ==
    \/ OpenSem(c)
    \/ OpenShm(c)
    \/ MapShm(c)
    \/ Wait(c)
    \/ Check(c)
    \/ WriteFirst(c)
    \/ WriteRest(c)
    \/ Post(c)

Next ==
    \/ \E s \in Servers : ServerStep(s) \/ Interrupt(s)
    \/ \E c \in Clients : ClientStep(c)
    \/ \E p \in Proc : Crash(p)

Spec == Init /\ [][Next]_vars

\* A program that was started runs on: the server never blocks, and a client
\* does in sem_wait() only.  Nobody has to start a program.
FairSpec ==
    /\ Spec
    /\ \A s \in Servers : WF_vars(pc[s] # "start" /\ ServerStep(s))
    /\ \A c \in Clients : WF_vars(pc[c] # "start" /\ ClientStep(c))

-----------------------------------------------------------------------------
Places == {"start", "create shm", "size shm", "map shm", "release first", "loop", "lock",
           "read", "clear", "release", "delete shm", "remove sem", "open shm",
           "wait", "check", "write", "write rest", "post", "done", "killed"}

\* A server makes two unpaid releases at most, a client one for each sem_wait()
\* that failed.
MaxUnpaid == 2 + MaxFails

TypeOK ==
    /\ pc \in [Proc -> Places]
    /\ sem_name \in 0 .. sems /\ shm_name \in 0 .. shms
    /\ sems \in 0 .. MaxObject /\ shms \in 0 .. MaxObject
    /\ value \in [Object -> Nat]
    /\ sized \subseteq Object /\ first \subseteq sized /\ rest \subseteq sized
    /\ sem \in [Proc -> 0 .. sems] /\ shm \in [Proc -> 0 .. shms]
    /\ holds \subseteq Proc
    /\ unpaid \in [Proc -> 0 .. MaxUnpaid]
    /\ fails \in 0 .. MaxFails /\ failed \in [Clients -> 0 .. fails]
    /\ wrote \subseteq Clients
    /\ signum \subseteq Servers
    /\ crashes \in 0 .. MaxCrashes

\* Whatever order the programs start, fail and end in, a semaphore is worth
\* the 1 it is created with, less the processes that decremented it, plus the
\* releases nobody paid for: one for each server's start, one more for a server
\* that SIGINT let in, and one for each sem_wait() of a client that failed.  No
\* other path through either loop makes one, or loses one.
Users(o) == {p \in Proc : sem[p] = o}

Unpaid(o) == Cardinality({r \in Users(o) \X (1 .. MaxUnpaid) : r[2] <= unpaid[r[1]]})

Balanced(o) == value[o] + Cardinality(Users(o) \cap holds) = 1 + Unpaid(o)

UnpaidExplained(p) ==
    unpaid[p] <= IF p \in Clients THEN failed[p] ELSE IF p \in signum THEN 2 ELSE 1

NoReleaseLost ==
    \A o \in 1 .. sems : Balanced(o) /\ \A p \in Users(o) : UnpaidExplained(p)

\* The servers leave no name behind, unless one is killed: not when two of
\* them create and remove the same names, nor when a start fails half way.
NoNameLeft ==
    (\A s \in Servers : pc[s] \in {"start", "done"}) =>
        sem_name = NoObject /\ shm_name = NoObject

\* SIGINT ends a server, whoever died with the semaphore.
ServerStops ==
    \A s \in Servers :
        s \in signum /\ pc[s] # "start" ~> pc[s] \in {"done", "killed"}

\* The client's outline: it "Writes a message (safely)".  No server prints a
\* part of one.
PrintsWhole ==
    \A s \in Servers : pc[s] = "read" => Text(shm[s]) # "part"

\* create_named_sem()'s header: it creates "a new named semaphore that is
\* locked", so nobody uses the memory before the server is done with it.
LockedAtFirst ==
    \A c \in Clients : pc[c] = "check" => shm[c] \in sized

(***************************************************************************)
(* The inductive invariant.                                                *)
(***************************************************************************)
ServerPlaces == {"start", "create shm", "size shm", "map shm", "release first", "loop", "lock",
                 "read", "clear", "release", "delete shm", "remove sem", "done", "killed"}
ClientPlaces == {"start", "open shm", "map shm", "wait", "check", "write", "write rest", "post",
                 "done", "killed"}

\* Where a process holds the semaphore, or SIGINT let the server in without it.
ServerInside == {"read", "clear", "release"}
ClientInside == {"check", "write", "write rest", "post"}

\* A server's places with a semaphore open that it has not released yet, and all
\* that have one open.
ServerStarts == {"create shm", "size shm", "map shm", "release first"}
ServerOpen == ServerStarts \cup ServerInside \cup {"loop", "lock"}
ClientOpen == ClientInside \cup {"open shm", "map shm", "wait"}

\* A server that ends with the semaphore is one whose release failed.
ServerEnded == {"delete shm", "remove sem", "done", "killed"}

\* A server releases the semaphore unpaid once when it starts, and once more
\* only after SIGINT let it in.
ServerInv(s) ==
    /\ pc[s] \in ServerPlaces
    /\ pc[s] \in ServerInside => s \in holds \cup signum
    /\ pc[s] \notin ServerInside \cup ServerEnded => s \notin holds
    /\ pc[s] \in ServerStarts \cup {"start"} => unpaid[s] = 0
    /\ pc[s] \in ServerInside \cup {"lock"} => unpaid[s] <= 1
    /\ unpaid[s] <= IF s \in signum THEN 2 ELSE 1
    /\ pc[s] = "start" => sem[s] = NoObject
    /\ pc[s] \in ServerOpen => sem[s] # NoObject
    /\ pc[s] = "size shm" => shm[s] # NoObject

\* A client inside without the semaphore has a failed sem_wait() that it did not
\* release yet.
ClientInv(c) ==
    /\ pc[c] \in ClientPlaces
    /\ pc[c] \in ClientInside => c \in holds \/ unpaid[c] < failed[c]
    /\ pc[c] \notin ClientInside \cup {"done", "killed"} => c \notin holds
    /\ unpaid[c] <= failed[c]
    /\ pc[c] = "start" => sem[c] = NoObject /\ unpaid[c] = 0
    /\ pc[c] \in ClientOpen => sem[c] # NoObject
    /\ pc[c] \in {"write", "write rest"} => shm[c] \in sized

\* A server makes at most one object of a kind, on its way past its creation.
PastSem == {s \in Servers : pc[s] # "start"}
PastShm == {s \in Servers : pc[s] \notin {"start", "create shm"}}

ObjectsCounted == sems <= Cardinality(PastSem) /\ shms <= Cardinality(PastShm)

\* A name that is there has a server on its way to remove it, or one that died.
NamesHaveServers ==
    /\ sem_name # NoObject => \E s \in Servers : pc[s] \notin {"start", "done"}
    /\ shm_name # NoObject =>
          \E s \in Servers : pc[s] \notin {"start", "create shm", "remove sem", "done"}

IInv ==
    /\ TypeOK
    /\ \A s \in Servers : ServerInv(s)
    /\ \A c \in Clients : ClientInv(c)
    /\ ObjectsCounted
    /\ \A o \in 1 .. sems : Balanced(o)
    /\ NamesHaveServers
=============================================================================
