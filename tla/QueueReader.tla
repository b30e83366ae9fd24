------------------------------ MODULE QueueReader ------------------------------
(***************************************************************************)
(* The program test_ssh_handle_ext_read_queue_int: a child sends the       *)
(* values 1, 2, ... to its parent with sigqueue() and exits; the parent    *)
(* polls its child and the handler's variables.                            *)
(*                                                                         *)
(* The child sleeps a second before each value, "to give the parent a      *)
(* second".  If it is paced the parent makes at least Pace steps meanwhile;*)
(* otherwise the second orders nothing.                                    *)
(***************************************************************************)
EXTENDS SignalQueue

CONSTANTS
    Parent, Child,
    NumVals,      \* the program's <COUNT_LIMIT>
    Pace          \* how many steps the parent makes in a second, at least

VARIABLES
    paced,        \* whether the parent is that fast
    lapse,        \* its steps since the child's last value, up to Pace
    pc,           \* where each of the two is
    cleared,      \* how many variables the parent has cleared
    sent,         \* the values the child sent
    received      \* the values the parent printed

ASSUME TwoProcesses == Proc = {Parent, Child} /\ Parent # Child

\* What the parent does about a value that comes when it has just looked: it
\* finds nothing, calls waitpid(), finds queue and signum, reads, and clears.
WorkSteps == 5 + Len(ResetOrder)

ASSUME PaceOK == Pace \in Nat /\ Pace >= WorkSteps
ASSUME ValuesOK == NumVals \in Nat /\ Nothing \notin Proc \cup (1 .. NumVals)

vars == <<sigVars, paced, lapse, pc, cleared, sent, received>>

\* The parent blocks the signal, installs the handler and forks; it unblocks
\* the signal as its first step after the fork.
Init ==
    /\ SigInit
    /\ paced \in BOOLEAN
    /\ lapse = 0
    /\ blocked = [p \in Proc |-> TRUE]
    /\ pc = [p \in Proc |-> IF p = Parent THEN "unblock" ELSE "send"]
    /\ cleared = 0
    /\ sent = << >>
    /\ received = << >>

Goto(p, place) == pc' = [pc EXCEPT ![p] = place]

(* The child. *)

\* sleep(1)
SleepTooShort == paced => lapse >= Pace - 1
Sleep == paced => lapse >= Pace

\* The parent it asks getppid() for is there.
Running == pc[Parent] \notin {"exited", "failed"}

Send ==
    /\ pc[Child] = "send"
    /\ Running
    /\ Sleep
    /\ Len(sent) < NumVals
    /\ sent' = Append(sent, Len(sent) + 1)
    /\ pending' = Generated(Parent, [pid |-> Child, data |-> Len(sent) + 1])
    /\ lapse' = 0
    /\ UNCHANGED <<flags, blocked, paced, pc, cleared, received>>

\* sigqueue() fails, as it does once the parent is gone, or the last value is
\* sent.
ChildExits ==
    /\ pc[Child] = "send"
    /\ Goto(Child, "exited")
    /\ UNCHANGED <<sigVars, paced, lapse, cleared, sent, received>>

(* The parent: waitpid(WNOHANG), then process_queue(). *)

\* A step of the parent takes some of the child's second.
Tick == lapse' = IF lapse < Pace THEN lapse + 1 ELSE lapse

\* A system call does not return to its process with a signal that is pending
\* and not blocked: the handler runs first.
NoneToDeliver == pending[Parent] = << >> \/ blocked[Parent]

CheckChild ==
    /\ pc[Parent] = "waitpid"
    /\ NoneToDeliver
    /\ Goto(Parent, IF pc[Child] = "exited" THEN "exited" ELSE "verify queue")
    /\ Tick
    /\ UNCHANGED <<sigVars, paced, cleared, sent, received>>

\* ENODATA: back to the top of the loop, where the child is looked at again.
OnNoDataSpin == "verify queue"
OnNoData == "waitpid"

VerifyQueue ==
    /\ pc[Parent] = "verify queue"
    /\ Goto(Parent, IF flags[Parent].queue THEN "verify signum" ELSE OnNoData)
    /\ Tick
    /\ UNCHANGED <<sigVars, paced, cleared, sent, received>>

VerifySignum ==
    /\ pc[Parent] = "verify signum"
    /\ Goto(Parent, IF flags[Parent].signum THEN "read" ELSE OnNoData)
    /\ Tick
    /\ UNCHANGED <<sigVars, paced, cleared, sent, received>>

Read ==
    /\ pc[Parent] = "read"
    /\ received' = Append(received, flags[Parent].data)
    /\ cleared' = 0
    /\ Goto(Parent, "reset")
    /\ Tick
    /\ UNCHANGED <<sigVars, paced, sent>>

Reset ==
    /\ pc[Parent] = "reset"
    /\ ResetOne(Parent, cleared + 1)
    /\ cleared' = cleared + 1
    /\ Goto(Parent, IF cleared + 1 = Len(ResetOrder) THEN "unblock"
                    ELSE "reset")
    /\ Tick
    /\ UNCHANGED <<pending, blocked, paced, sent, received>>

Unblock ==
    /\ pc[Parent] = "unblock"
    /\ blocked' = [blocked EXCEPT ![Parent] = FALSE]
    /\ Goto(Parent, "waitpid")
    /\ Tick
    /\ UNCHANGED <<flags, pending, paced, cleared, sent, received>>

\* waitpid() returns -1, translate_signal_code() does not know the code, or
\* unblock_signal() fails: the loop ends, with what is unread.
ParentFails ==
    /\ pc[Parent] \in {"waitpid", "read", "unblock"}
    /\ Goto(Parent, "failed")
    /\ UNCHANGED <<sigVars, paced, lapse, cleared, sent, received>>

Handle ==
    /\ Running
    /\ Deliver(Parent)
    /\ UNCHANGED <<paced, lapse, pc, cleared, sent, received>>

ParentStep ==
    \/ CheckChild
    \/ VerifyQueue
    \/ VerifySignum
    \/ Read
    \/ Reset
    \/ Unblock

Next == Send \/ ChildExits \/ ParentStep \/ ParentFails \/ Handle

Spec == Init /\ [][Next]_vars

\* Both processes are scheduled and the kernel delivers pending signals.
FairSpec ==
    /\ Spec
    /\ WF_vars(Send \/ ChildExits)
    /\ WF_vars(ParentStep)
    /\ WF_vars(Handle)

-----------------------------------------------------------------------------
TypeOK ==
    /\ paced \in BOOLEAN
    /\ lapse \in 0 .. Pace
    /\ flags \in [Proc -> [queue : BOOLEAN, signum : BOOLEAN, pid : Proc \cup {Nothing},
                          data : (1 .. NumVals) \cup {Nothing}]]
    /\ pending \in [Proc -> Seq([pid : Proc, data : 1 .. NumVals])]
    /\ blocked \in [Proc -> BOOLEAN]
    /\ pc \in [Proc -> {"unblock", "waitpid", "verify queue", "verify signum", "read", "reset",
                       "send", "exited", "failed"}]
    /\ pc[Parent] # "send" /\ pc[Child] \in {"send", "exited"}
    /\ cleared \in 0 .. Len(ResetOrder)
    /\ sent \in Seq(1 .. NumVals)
    /\ received \in Seq(1 .. NumVals)

\* Signals may be lost on the way, but what the parent prints was sent, once
\* and in order: an interrupted process_queue_reset_flags() leaves no zeroed
\* or repeated value that still passes process_queue_verify().
ReceivedInOrder ==
    /\ \A i \in DOMAIN received : received[i] \in 1 .. Len(sent)
    /\ \A i, j \in DOMAIN received : i < j => received[i] < received[j]

\* The parent notices that its child is gone: the program ends.
ProgramEnds == <>~Running

\* If the parent makes the steps in a second that one value takes, the handler
\* never overwrites a value that has not been processed.  Otherwise it does: it
\* "will block further signum signals in an attempt to give the user a chance
\* to process the data before the next signal is handled", but the mask it
\* changes ends with it.
DataIsProcessedFirst ==
    [][paced /\ Len(pending'[Parent]) < Len(pending[Parent]) =>
          ~flags[Parent].queue]_vars

\* Nor does it miss more than one value then, the last that was sent, however
\* it ends: after its child or by a failure of its own.
AtMostLastMissed ==
    paced /\ ~Running =>
        \A v \in 1 .. Len(sent) - 1 : \E i \in DOMAIN received : received[i] = v

\* The program's outline: "Send all values via sigqueue() and exit" and
\* "Process values sent from the child process".
AllReceived == pc[Parent] = "exited" => Len(received) = Len(sent)

(***************************************************************************)
(* The inductive invariants.                                               *)
(***************************************************************************)
\* process_queue_reset_flags() clears skid_sig_hand_signum last: outside of it,
\* what comes with a signum that is set is that signal's.
WholeValue ==
    /\ flags[Parent].signum /\ pc[Parent] # "reset" => flags[Parent].data # Nothing
    /\ pc[Parent] = "read" => flags[Parent].signum
    /\ pc[Parent] = "reset" => cleared < Len(ResetOrder)

\* The values stay in the order they were sent: received, in the variables,
\* pending.
InOrder ==
    LET queued(i) == pending[Parent][i].data
        current == flags[Parent].data
    IN  /\ \A i \in DOMAIN pending[Parent] : queued(i) <= Len(sent)
        /\ \A i, j \in DOMAIN pending[Parent] : i < j => queued(i) < queued(j)
        /\ current # Nothing =>
              current <= Len(sent) /\ \A i \in DOMAIN pending[Parent] : current < queued(i)
        /\ \A k \in DOMAIN received :
              received[k] <= Len(sent) /\ \A i \in DOMAIN pending[Parent] : received[k] < queued(i)
        /\ flags[Parent].signum /\ pc[Parent] # "reset" =>
              \A k \in DOMAIN received : received[k] < current

\* A paced child has one value at a time on its way: it is pending, the handler
\* has it, or the parent has printed it and clears the variables.  Each of these
\* takes the parent no more steps than WorkSteps counts.
Unread == Len(sent) = Len(received) + 1
AllRead == Len(sent) = Len(received)
Idle == pc[Parent] \notin {"verify signum", "read", "reset"}

InTime ==
    /\ pc[Parent] = "unblock" => lapse = 0
    /\ pc[Parent] = "waitpid" => lapse <= 1
    /\ pc[Parent] = "verify queue" => lapse <= 2
    /\ pc[Parent] = "verify signum" => lapse <= 3
    /\ pc[Parent] = "read" => lapse <= 4
    /\ pc[Parent] = "reset" => lapse <= 5 + cleared

OneAtATime ==
    paced =>
        \/ flags[Parent] = Cleared /\ Idle /\ Len(pending[Parent]) = 0 /\ AllRead
        \/ /\ flags[Parent] = Cleared /\ Idle /\ Len(pending[Parent]) = 1 /\ Unread
           /\ InTime
           /\ pc[Parent] = "verify queue" => lapse = 0
        \/ /\ flags[Parent].queue /\ flags[Parent].signum /\ pc[Parent] # "reset"
           /\ Len(pending[Parent]) = 0 /\ Unread
           /\ InTime
        \/ /\ pc[Parent] = "reset" /\ Len(pending[Parent]) = 0 /\ AllRead
           /\ flags[Parent].signum
           /\ cleared > 0 => ~flags[Parent].queue
           /\ cleared > 1 => flags[Parent].data = Nothing
           /\ cleared > 2 => flags[Parent].pid = Nothing
           /\ InTime

\* None is passed over, then: the parent's n-th value is n.
NoneSkipped == paced => \A i \in DOMAIN received : received[i] = i

\* The mask is the one the parent blocked the signal with until it unblocks it.
BlockedAtFirst == blocked[Parent] => pc[Parent] \in {"unblock", "failed"}

IInv ==
    /\ TypeOK /\ WholeValue /\ InOrder /\ OneAtATime /\ NoneSkipped
    /\ BlockedAtFirst /\ ReceivedInOrder
=============================================================================
