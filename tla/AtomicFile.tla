------------------------------ MODULE AtomicFile ------------------------------
(***************************************************************************)
(* What read_locked_fd() and write_locked_fd() promise their callers: a   *)
(* file that is written and read in one step.  A write puts its message,   *)
(* or a prefix of it when the call fails, where the descriptor of its      *)
(* process is, and moves that; a read that succeeds returns everything the *)
(* file holds at one instant.                                              *)
(***************************************************************************)
EXTENDS Integers, Sequences

CONSTANTS
    Readers, Writers, Holders,
    MsgLen,
    MaxRounds,
    NULL

VARIABLES
    content,  \* the cells the file holds
    offset,   \* where the next write of each process goes
    returned, \* what each reader was last given, and the errno with it
    acked     \* the messages whose write was reported to have succeeded

Init ==
    /\ content = << >>
    /\ offset = [p \in Writers \cup Holders |-> 0]
    /\ returned = [p \in Readers |-> [buf |-> NULL, errnum |-> "ENOERR"]]
    /\ acked = {}

\* The cells with the first k of p's message r over them, from offset at.
Put(cells, at, p, r, k) ==
    [i \in 1 .. (IF at + k > Len(cells) THEN at + k ELSE Len(cells)) |->
        IF i \in at + 1 .. at + k THEN <<p, r, i - at>> ELSE cells[i]]

\* A message is written in one piece, at most once, and acknowledged only if it
\* is whole.
Write(p) ==
    \E r \in 1 .. MaxRounds, k \in 0 .. MsgLen :
        /\ \A i \in DOMAIN content :
              ~(content[i][1] = p /\ content[i][2] = r)
        /\ content' = Put(content, offset[p], p, r, k)
        /\ offset' = [offset EXCEPT ![p] = @ + k]
        /\ \/ acked' = acked
           \/ k = MsgLen /\ acked' = acked \cup {<<p, r>>}
        /\ UNCHANGED returned

Read(p) ==
    /\ \/ returned' = [returned EXCEPT ![p] = [buf |-> content,
                                               errnum |-> "ENOERR"]]
       \/ \E e \in {"EAGAIN", "EIO"}, b \in {NULL, content} :
             returned' = [returned EXCEPT ![p] = [buf |-> b, errnum |-> e]]
    /\ UNCHANGED <<content, offset, acked>>

Next ==
    \/ \E p \in Writers \cup Holders : Write(p)
    \/ \E p \in Readers : Read(p)

Spec == Init /\ [][Next]_<<content, offset, returned, acked>>
=============================================================================
