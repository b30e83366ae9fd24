------------------------------- MODULE AsyncEcho -------------------------------
(***************************************************************************)
(* The programs test_ssh_handle_ext_async_client and _server: clients      *)
(* register with a server and send it characters, one at a time, each      *)
(* waiting for the server to send the character back.  Both ends look at   *)
(* the handler's variables in a polling loop, so every access to them is a *)
(* step of its own.                                                        *)
(*                                                                         *)
(* What a signal carries is a character; the model adds who first sent it  *)
(* and as which of its messages, which no program ever looks at.           *)
(***************************************************************************)
EXTENDS SignalQueue

CONSTANTS
    Clients, Server,
    Chars,        \* what a user may type
    Registration, \* REGISTRATION_VALUE, which a user may type as well
    MaxAttempts,  \* MAX_REGISTER_ATTEMPTS
    MaxTyped,     \* bound on what one user types
    SendMayFail   \* whether sigqueue() may fail

VARIABLES
    pc,           \* where each process is
    running,      \* who is past its registration
    attempts,     \* registrations each client has sent
    polls,        \* polls since the client's last registration
    cleared,      \* how many variables each process has cleared
    data,         \* the data each process last read from its variables
    client_pid,   \* whom the server registered
    awaited,      \* the message each client last sent
    acked,        \* pairs of a message and what its client took as receipt
    taken         \* what the server read: the registration it answers, then
                  \* what it prints

progVars == <<running, attempts, polls, cleared, data, client_pid, awaited,
              acked, taken>>
vars == <<sigVars, pc, progVars>>

ASSUME ProcIs == Proc = Clients \cup {Server} /\ Server \notin Clients
ASSUME BoundsOK == MaxAttempts \in Nat \ {0} /\ MaxTyped \in Nat

Message(c, n, v) == [from |-> c, n |-> n, val |-> v]

Init ==
    /\ SigInit
    /\ blocked = [p \in Proc |-> FALSE]
    /\ pc = [p \in Proc |-> IF p = Server THEN "verify queue" ELSE "register"]
    /\ running = {}
    /\ attempts = [c \in Clients |-> 0]
    /\ polls = [c \in Clients |-> 0]
    /\ cleared = [p \in Proc |-> 0]
    /\ data = [p \in Proc |-> Nothing]
    /\ client_pid = Nothing
    /\ awaited = [c \in Clients |-> Message(c, 0, Registration)]
    /\ acked = {}
    /\ taken = << >>

Goto(p, place) == pc' = [pc EXCEPT ![p] = place]

\* call_sigqueue(p, signum, d) by q.
Sigqueue(q, p, d) == pending' = Generated(p, [pid |-> q, data |-> d])

(***************************************************************************)
(* process_queue(), the part both programs have.                           *)
(***************************************************************************)

\* A registering client counts its polls and sends its registration again when
\* it has made MAX_REGISTER_ATTEMPTS of them.
PollsAfter(p) == (polls[p] + 1) % MaxAttempts

\* ENODATA: poll again.
NoData(p) ==
    IF p = Server \/ p \in running
    THEN Goto(p, "verify queue") /\ UNCHANGED polls
    ELSE /\ polls' = [polls EXCEPT ![p] = PollsAfter(p)]
         /\ Goto(p, IF PollsAfter(p) = 0 THEN "register" ELSE "verify queue")

VerifyQueue(p) ==
    /\ pc[p] = "verify queue"
    /\ IF flags[p].queue
       THEN Goto(p, "verify signum") /\ UNCHANGED polls
       ELSE NoData(p)
    /\ UNCHANGED <<sigVars, running, attempts, cleared, data, client_pid,
                   awaited, acked, taken>>

VerifySignum(p) ==
    /\ pc[p] = "verify signum"
    /\ IF flags[p].signum
       THEN /\ Goto(p, IF p = Server THEN "read pid" ELSE "read data")
            /\ UNCHANGED polls
       ELSE NoData(p)
    /\ UNCHANGED <<sigVars, running, attempts, cleared, data, client_pid,
                   awaited, acked, taken>>

\* process_queue_reset_flags(), one variable.
AfterReset(p) ==
    IF p = Server
    THEN IF p \in running THEN "verify queue" ELSE "receipt"
    ELSE "type"

Reset(p) ==
    /\ pc[p] = "reset"
    /\ ResetOne(p, cleared[p] + 1)
    /\ IF cleared[p] + 1 < Len(ResetOrder)
       THEN /\ cleared' = [cleared EXCEPT ![p] = @ + 1]
            /\ UNCHANGED <<pc, running>>
       ELSE /\ cleared' = [cleared EXCEPT ![p] = 0]
            /\ running' = IF p = Server THEN running ELSE running \cup {p}
            /\ Goto(p, AfterReset(p))
    /\ UNCHANGED <<pending, blocked, attempts, polls, data, client_pid,
                   awaited, acked, taken>>

\* A signal arrives; the handler runs on whatever the process is doing.
Handle(p) ==
    /\ pc[p] # "exited"
    /\ Deliver(p)
    /\ UNCHANGED <<pc, progVars>>

(***************************************************************************)
(* The server: main()'s registration loop, then process_queue().           *)
(***************************************************************************)

\* Registering, it takes whoever it reads; later it wants its client.
ReadPid ==
    /\ pc[Server] = "read pid"
    /\ IF Server \in running
       THEN /\ Goto(Server, IF flags[Server].pid = client_pid
                            THEN "read data" ELSE "verify queue")
            /\ UNCHANGED client_pid
       ELSE /\ client_pid' = flags[Server].pid
            /\ Goto(Server, "read data")
    /\ UNCHANGED <<sigVars, running, attempts, polls, cleared, data, awaited,
                   acked, taken>>

\* Registering it clears the variables before it answers, later after.
ReadData ==
    /\ pc[Server] = "read data"
    /\ data' = [data EXCEPT ![Server] = flags[Server].data]
    /\ taken' = Append(taken, flags[Server].data)
    /\ Goto(Server, IF Server \in running THEN "receipt" ELSE "reset")
    /\ UNCHANGED <<sigVars, running, attempts, polls, cleared, client_pid,
                   awaited, acked>>

ReceiptToLatest == flags[Server].pid
ReceiptTo == client_pid

AfterReceiptNoReset == "verify queue"
AfterReceipt == IF Server \in running THEN "reset" ELSE "verify queue"

Receipt ==
    /\ pc[Server] = "receipt"
    /\ ReceiptTo \in Proc
    /\ Sigqueue(Server, ReceiptTo, data[Server])
    /\ running' = running \cup {Server}
    /\ Goto(Server, AfterReceipt)
    /\ UNCHANGED <<flags, blocked, attempts, polls, cleared, data, client_pid,
                   awaited, acked, taken>>

ReceiptFails ==
    /\ pc[Server] = "receipt"
    /\ SendMayFail
    /\ Goto(Server, "exited")
    /\ UNCHANGED <<sigVars, progVars>>

(***************************************************************************)
(* A client.                                                               *)
(***************************************************************************)

\* The next registration, unless there were MAX_REGISTER_ATTEMPTS of them.
Register(c) ==
    /\ pc[c] = "register"
    /\ attempts[c] < MaxAttempts
    /\ attempts' = [attempts EXCEPT ![c] = @ + 1]
    /\ awaited' = [awaited EXCEPT ![c] = Message(c, @.n + 1, Registration)]
    /\ \/ /\ Sigqueue(c, Server, awaited'[c])
          /\ polls' = [polls EXCEPT ![c] = 0]
          /\ Goto(c, "verify queue")
       \/ /\ SendMayFail
          /\ UNCHANGED <<pending, polls, pc>>
    /\ UNCHANGED <<flags, blocked, running, cleared, data, client_pid, acked,
                   taken>>

GiveUp(c) ==
    /\ pc[c] = "register"
    /\ attempts[c] = MaxAttempts
    /\ Goto(c, "exited")
    /\ UNCHANGED <<sigVars, progVars>>

Type(c) ==
    /\ pc[c] = "type"
    /\ awaited[c].n < MaxAttempts + MaxTyped
    /\ \E v \in Chars :
          awaited' = [awaited EXCEPT ![c] = Message(c, @.n + 1, v)]
    /\ Goto(c, "send")
    /\ UNCHANGED <<sigVars, running, attempts, polls, cleared, data,
                   client_pid, acked, taken>>

Send(c) ==
    /\ pc[c] = "send"
    /\ \/ Sigqueue(c, Server, awaited[c]) /\ Goto(c, "verify queue")
       \/ SendMayFail /\ Goto(c, "exited") /\ UNCHANGED pending
    /\ UNCHANGED <<flags, blocked, progVars>>

\* The receipt is the one waited for if it carries the same character.
IsReceipt(c, d) == d # Nothing /\ d.val = awaited[c].val

ReadReceipt(c) ==
    /\ pc[c] = "read data"
    /\ c \in Clients
    /\ data' = [data EXCEPT ![c] = flags[c].data]
    /\ IF IsReceipt(c, flags[c].data)
       THEN /\ acked' = acked \cup {<<awaited[c], flags[c].data>>}
            /\ Goto(c, "reset")
            /\ UNCHANGED polls
       ELSE NoData(c) /\ UNCHANGED acked
    /\ UNCHANGED <<sigVars, running, attempts, cleared, client_pid, awaited,
                   taken>>

Step(p) ==
    \/ VerifyQueue(p)
    \/ VerifySignum(p)
    \/ Reset(p)
    \/ p = Server /\ (ReadPid \/ ReadData \/ Receipt \/ ReceiptFails)
    \/ /\ p \in Clients
       /\ Register(p) \/ GiveUp(p) \/ Send(p) \/ ReadReceipt(p)

Next ==
    \/ \E p \in Proc : Step(p) \/ Handle(p)
    \/ \E c \in Clients : Type(c)

Spec == Init /\ [][Next]_vars

\* Every process is scheduled and pending signals are delivered; nobody has to
\* type.
FairSpec == Spec /\ \A p \in Proc : WF_vars(Step(p)) /\ WF_vars(Handle(p))

-----------------------------------------------------------------------------
Messages == [from : Clients, n : 1 .. MaxAttempts + MaxTyped,
             val : Chars \cup {Registration}]

ASSUME NothingIsNothing == Nothing \notin Proc \cup Messages

TypeOK ==
    /\ flags \in [Proc -> [queue : BOOLEAN, signum : BOOLEAN,
                          pid : Proc \cup {Nothing}, data : Messages \cup {Nothing}]]
    /\ pending \in [Proc -> Seq([pid : Proc, data : Messages])]
    /\ blocked = [p \in Proc |-> FALSE]
    /\ pc \in [Proc -> {"verify queue", "verify signum", "read pid", "read data", "reset",
                        "receipt", "register", "type", "send", "exited"}]
    /\ running \subseteq Proc
    /\ attempts \in [Clients -> 0 .. MaxAttempts]
    /\ polls \in [Clients -> 0 .. MaxAttempts]
    /\ cleared \in [Proc -> 0 .. Len(ResetOrder) - 1]
    /\ data \in [Proc -> Messages \cup {Nothing}]
    /\ client_pid \in Clients \cup {Nothing}
    /\ awaited \in [Clients -> [from : Clients, n : 0 .. MaxAttempts + MaxTyped,
                               val : Chars \cup {Registration}]]
    /\ acked \subseteq Messages \X Messages
    /\ taken \in Seq(Messages)

\* The server takes what was sent, each message at most once and in the order
\* sent: a reset that a signal cuts in two may lose the message, and never
\* turns it into a character nobody sent or into a repetition.
PrintedWasSent ==
    /\ \A i \in DOMAIN taken : taken[i] # Nothing
    /\ \A i, j \in DOMAIN taken :
          i < j /\ taken[i].from = taken[j].from => taken[i].n < taken[j].n

\* What a client takes as its receipt was read by the server and carries the
\* character the client waits for, and no receipt counts twice: the server read
\* that character at least as often as it was acknowledged.  If it is not the
\* one registrations carry, the server read this very message.
AckedWasRead ==
    /\ \A a \in acked :
          /\ a[1].val = a[2].val
          /\ \E i \in DOMAIN taken : taken[i] = a[2]
          /\ a[1].val # Registration => a[1] = a[2]
    /\ \A a, b \in acked : a[2] = b[2] => a = b

\* A client past its registration is the one the server registered.
RegistrationAgrees ==
    \A c \in running \cap Clients : client_pid = c

\* A client's registration comes to an end, one way or the other.
RegistrationEnds ==
    \A c \in Clients : <>(c \in running \/ pc[c] = "exited")

\* The client's outline: it waits "for receipt from the server", then "clears
\* the flag and sends the next character".
ReceiptComes ==
    \A c \in Clients : pc[c] = "send" ~> pc[c] = "type"

\* The client's outline again: what is taken as "receipt from the server" for a
\* character its user typed answers that character.
TypedIsRead ==
    \A a \in acked : a[1].n > attempts[a[1].from] => a[1] = a[2]

\* The server's process_queue "reads and prints values from src_pid".
PrintsFromSrcPid ==
    \A i \in DOMAIN taken : i > 1 => taken[i].from = client_pid

(***************************************************************************)
(* The inductive invariant behind the safety properties.                   *)
(***************************************************************************)
\* Each process is where its role and its registration put it, and sends as
\* itself.
ServerPlaces == {"verify queue", "verify signum", "read pid", "read data", "reset",
                 "receipt", "exited"}
ClientPlaces == {"verify queue", "verify signum", "read data", "reset", "register",
                 "type", "send", "exited"}

Roles ==
    /\ pc[Server] \in ServerPlaces
    /\ \A c \in Clients :
          /\ pc[c] \in ClientPlaces
          /\ pc[c] \in {"type", "send"} => c \in running
          /\ pc[c] = "register" => c \notin running
          /\ pc[c] \notin {"register", "exited"} => awaited[c] \in Messages
          /\ awaited[c].from = c
          /\ c \notin running => awaited[c].val = Registration /\ awaited[c].n = attempts[c]
    /\ \A p \in Proc : pc[p] # "reset" => cleared[p] = 0
    /\ \A i \in DOMAIN pending[Server] : pending[Server][i].pid \in Clients

\* process_queue_reset_flags() clears skid_sig_hand_signum last: whenever it is
\* set outside of it, the other variables are those of one signal.  What the
\* server sends back it read from them.
WholeSignal ==
    \A p \in Proc :
        /\ flags[p].signum /\ pc[p] # "reset" =>
              /\ flags[p].pid # Nothing /\ flags[p].data # Nothing
              /\ p = Server => flags[p].pid \in Clients
        /\ pc[p] \in {"read pid", "read data"} => flags[p].signum
        /\ p = Server /\ pc[p] \in {"reset", "receipt"} => data[p] # Nothing

\* The server answers none but the client it registered.
Registered ==
    /\ Server \in running \/ pc[Server] \in {"read data", "reset", "receipt"} =>
           client_pid \in Clients
    /\ \A c \in Clients :
          c \in running \/ pending[c] # << >> \/ flags[c] # Cleared \/ pc[c] = "reset" =>
              Server \in running /\ client_pid = c

\* The messages of a client stay in the order it sent them: taken, in the
\* server's variables, pending.  The variables have a later one than the server
\* took unless it is about to answer or to clear what they have.
Later(m, l) == m.from = l.from => m.n < l.n
IsSent(m) ==
    /\ m.n <= awaited[m.from].n
    /\ pc[m.from] = "send" => m.n < awaited[m.from].n

ToRead ==
    \/ pc[Server] \in {"verify queue", "verify signum", "read pid", "read data"}
    \/ pc[Server] = "receipt" /\ Server \notin running

Ordered ==
    LET queued(i) == pending[Server][i].data
        current == flags[Server].data
    IN  /\ \A i \in DOMAIN pending[Server] : IsSent(queued(i))
        /\ \A i, j \in DOMAIN pending[Server] : i < j => Later(queued(i), queued(j))
        /\ current # Nothing =>
              IsSent(current) /\ \A i \in DOMAIN pending[Server] : Later(current, queued(i))
        /\ \A k \in DOMAIN taken :
              IsSent(taken[k]) /\ \A i \in DOMAIN pending[Server] : Later(taken[k], queued(i))
        /\ flags[Server].signum /\ ToRead =>
              \A k \in DOMAIN taken : Later(taken[k], current)

\* A character other than a registration is on its way, there or back, only
\* while its client waits for it.  A receipt comes after the reading.
Typed(m) == m # Nothing /\ m.val # Registration
IsTaken(m) == \E k \in DOMAIN taken : taken[k] = m
Waiting(c) == pc[c] \in {"verify queue", "verify signum", "read data"}
Outstanding(m) == m.from \in running /\ awaited[m.from] = m /\ Waiting(m.from)

Answering == pc[Server] = "receipt" /\ Typed(data[Server])

OnTheWay ==
    /\ \A i \in DOMAIN pending[Server] :
          Typed(pending[Server][i].data) => Outstanding(pending[Server][i].data)
    /\ Typed(flags[Server].data) /\ ~IsTaken(flags[Server].data) =>
          Outstanding(flags[Server].data)
    /\ Server \notin running => ~Typed(data[Server])
    /\ Answering => Outstanding(data[Server]) /\ IsTaken(data[Server])
    /\ \A c \in Clients : \A i \in DOMAIN pending[c] :
          Typed(pending[c][i].data) =>
              Outstanding(pending[c][i].data) /\ IsTaken(pending[c][i].data)
    /\ \A c \in Clients :
          Typed(flags[c].data) =>
              /\ awaited[c] = flags[c].data /\ IsTaken(flags[c].data)
              /\ Waiting(c) \/ (pc[c] = "reset" /\ cleared[c] < 2)

\* There is one receipt of it at most.
OneReceipt ==
    \A c \in Clients :
        /\ \A i, j \in DOMAIN pending[c] :
              Typed(pending[c][i].data) /\ Typed(pending[c][j].data) => i = j
        /\ \A i \in DOMAIN pending[c] :
              Typed(pending[c][i].data) => ~Typed(flags[c].data) /\ ~Answering
        /\ Typed(flags[c].data) => ~Answering

\* A character other than a registration is acknowledged by its own receipt.
TypedReceipts ==
    \A a \in acked : Typed(a[1]) => a[1] = a[2] /\ IsTaken(a[1])

IInv ==
    /\ TypeOK /\ Roles /\ WholeSignal /\ Registered /\ Ordered
    /\ OnTheWay /\ OneReceipt /\ PrintedWasSent /\ TypedReceipts

\* What the server has to answer, has answered, or a client has in its variables
\* and may still take as a receipt, are different messages, and none of them was
\* a receipt before.
ToAnswer ==
    \/ pc[Server] = "receipt"
    \/ pc[Server] = "reset" /\ Server \notin running
ToTake(c) == flags[c].signum /\ pc[c] # "reset"
Unused(m) == IsTaken(m) /\ \A a \in acked : a[2] # m

ReceiptsDiffer ==
    /\ \A a \in acked : a[1].val = a[2].val /\ IsTaken(a[2])
    /\ \A a, b \in acked : a[2] = b[2] => a = b
    /\ ToAnswer => Unused(data[Server])
    /\ \A c \in Clients :
          /\ \A i \in DOMAIN pending[c] :
                /\ Unused(pending[c][i].data)
                /\ ToAnswer => pending[c][i].data # data[Server]
                /\ ToTake(c) => pending[c][i].data # flags[c].data
          /\ \A i, j \in DOMAIN pending[c] :
                pending[c][i].data = pending[c][j].data => i = j
          /\ ToTake(c) =>
                /\ Unused(flags[c].data)
                /\ ToAnswer => flags[c].data # data[Server]
=============================================================================
