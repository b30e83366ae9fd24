------------------------------ MODULE SignalQueue ------------------------------
(***************************************************************************)
(* Signals that carry data: sigqueue(), the kernel's pending signals, and  *)
(* skid_signal_handlers' handle_ext_read_queue_int(), which copies what a  *)
(* signal carries into the skid_sig_hand_* variables of its process.       *)
(*                                                                         *)
(* One signal number is in use.  The handler runs on the thread it         *)
(* interrupts and its own signal is blocked meanwhile, so for its process  *)
(* it is one step; that process reads and clears the variables one at a    *)
(* time, and a signal may arrive between any two of those accesses.        *)
(***************************************************************************)
EXTENDS Integers, Sequences

CONSTANTS
    Proc,     \* the processes that exchange signals
    Realtime, \* whether the signal queues (SIGRTMIN and above) or coalesces
    Nothing   \* the zero a cleared variable holds

VARIABLES
    flags,    \* each process's skid_sig_hand_* variables
    pending,  \* the siginfo of the signals generated for each process
    blocked   \* whether each process has the signal in its mask

sigVars == <<flags, pending, blocked>>

\* Only the variables the programs look at; queue and signum are set or zero.
Cleared == [queue |-> FALSE, signum |-> FALSE, pid |-> Nothing,
            data |-> Nothing]

SigInit ==
    /\ flags = [p \in Proc |-> Cleared]
    /\ pending = [p \in Proc |-> << >>]

\* sigqueue(): a standard signal that is already pending is not queued again.
Generated(p, info) ==
    IF Realtime \/ pending[p] = << >>
    THEN [pending EXCEPT ![p] = Append(@, info)]
    ELSE pending

\* The mask once the handler has returned.  block_signal_safe() adds SIGUSR1
\* to the mask of the running handler; the return from the handler puts back
\* the mask the signal found.
MaskAfterHandler(p) == blocked[p]

\* The handler sets the variables, skid_sig_hand_queue last.
Deliver(p) ==
    /\ pending[p] # << >>
    /\ ~blocked[p]
    /\ flags' = [flags EXCEPT ![p] = [queue |-> TRUE, signum |-> TRUE,
                                      pid |-> Head(pending[p]).pid,
                                      data |-> Head(pending[p]).data]]
    /\ pending' = [pending EXCEPT ![p] = Tail(@)]
    /\ blocked' = [blocked EXCEPT ![p] = MaskAfterHandler(p)]

\* process_queue_reset_flags() clears them one by one, in this order.
ResetPidFirst == <<"queue", "signum", "pid", "data">>
ResetOrder == <<"queue", "data", "pid", "signum">>

Without(r, name) == [queue |-> name # "queue" /\ r.queue,
                     signum |-> name # "signum" /\ r.signum,
                     pid |-> IF name = "pid" THEN Nothing ELSE r.pid,
                     data |-> IF name = "data" THEN Nothing ELSE r.data]

ResetOne(p, k) == flags' = [flags EXCEPT ![p] = Without(@, ResetOrder[k])]
=============================================================================
