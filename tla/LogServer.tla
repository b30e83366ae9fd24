------------------------------- MODULE LogServer ------------------------------
(***************************************************************************)
(* The logging server and its clients.  A server binds a Unix socket to    *)
(* one fixed pathname, accepts one client at a time, reads it to its end,  *)
(* appends what it read to a log of its own and closes the client.         *)
(*                                                                         *)
(* More than one server may be started, and one may die and be started     *)
(* again: the pathname outlives the socket bound to it.                    *)
(***************************************************************************)
EXTENDS Integers, Sequences, FiniteSets

CONSTANTS
    Servers,
    Clients,
    NoOne,          \* neither a server nor a client
    MessageLen,     \* the pieces of a client's message
    MaxStarts,      \* bound on the starts of the servers
    MaxFaults       \* bound on the kills, the SIGINTs and the calls that fail

ASSUME LogServerBounds ==
    /\ NoOne \notin Servers \cup Clients
    /\ MessageLen \in Nat \ {0}
    /\ {MaxStarts, MaxFaults} \subseteq Nat

VARIABLES
    path,       \* the server whose socket SOCK_PATH was bound to
    server,     \* where the servers are
    flag,       \* flag[s]: s has seen SIGINT
    listening,  \* the servers whose socket listens
    backlog,    \* backlog[s]: the clients that wait to be accepted
    serving,    \* serving[s]: the client that s reads
    taken,      \* taken[s]: the pieces s has read of its message
    accepted,   \* accepted[s]: the clients s has accepted since its start
    log,        \* log[s]: its log file, of pairs <<client, pieces>>
    client,     \* where the clients are
    to,         \* to[c]: the server c is connected to
    sent,       \* sent[c]: the pieces c has written
    broken,     \* clients whose connection the other end has closed
    lost,       \* clients that a server failed to receive or to log
    starts, faults

socket == <<path, listening, backlog>>
progress == <<serving, taken, accepted, log, lost>>
clients == <<client, to, sent, broken>>
bounds == <<starts, faults>>
vars == <<socket, server, flag, progress, clients, bounds>>

Torn == -1      \* the length of an entry that append_to_file() did not finish
Stopped == {"off", "ended", "crashed"}
Closed(c) == client[c] \in {"done", "failed"}

Init ==
    /\ path = NoOne
    /\ server = [s \in Servers |-> "off"]
    /\ flag = [s \in Servers |-> FALSE]
    /\ listening = {}
    /\ backlog = [s \in Servers |-> << >>]
    /\ serving = [s \in Servers |-> NoOne]
    /\ taken = [s \in Servers |-> 0]
    /\ accepted = [s \in Servers |-> << >>]
    /\ log = [s \in Servers |-> << >>]
    /\ client = [c \in Clients |-> "idle"]
    /\ to = [c \in Clients |-> NoOne]
    /\ sent = [c \in Clients |-> 0]
    /\ broken = {} /\ lost = {}
    /\ starts = 0
    /\ faults = 0

Goes(s, to_) == server' = [server EXCEPT ![s] = to_]
Fault == faults < MaxFaults /\ faults' = faults + 1 /\ UNCHANGED starts

(***************************************************************************)
(* A server starts, with a log file that is not there yet; otherwise it    *)
(* goes straight to its clean-up.                                          *)
(***************************************************************************)
Starts(s) ==
    /\ server[s] \in Stopped
    /\ starts < MaxStarts
    /\ starts' = starts + 1
    /\ flag' = [flag EXCEPT ![s] = FALSE]
    /\ accepted' = [accepted EXCEPT ![s] = << >>]
    /\ log' = [log EXCEPT ![s] = << >>]
    /\ \E first \in {"bind", "cleanup"} : Goes(s, first)
    /\ UNCHANGED <<socket, serving, taken, lost, clients, faults>>

\* A pathname that is there, bound or left over, is EADDRINUSE.
Binds(s) ==
    /\ server[s] = "bind"
    /\ IF path = NoOne THEN path' = s /\ Goes(s, "listen")
                       ELSE UNCHANGED path /\ Goes(s, "cleanup")
    /\ UNCHANGED <<listening, backlog, flag, progress, clients, bounds>>

Listens(s) ==
    /\ server[s] = "listen"
    /\ listening' = listening \cup {s}
    /\ Goes(s, "check")
    /\ UNCHANGED <<path, backlog, flag, progress, clients, bounds>>

SetupFails(s) ==
    /\ server[s] \in {"bind", "listen"}
    /\ Fault
    /\ Goes(s, "cleanup")
    /\ UNCHANGED <<socket, flag, progress, clients>>

(***************************************************************************)
(* The loop of the server.                                                 *)
(***************************************************************************)
ChecksSignal(s) ==
    /\ server[s] = "check"
    /\ Goes(s, IF flag[s] THEN "cleanup" ELSE "look")
    /\ UNCHANGED <<socket, flag, progress, clients, bounds>>

\* Some file at SOCK_PATH is enough, whoever made it.
LooksForPath(s) ==
    /\ server[s] = "look"
    /\ Goes(s, IF path = NoOne THEN "cleanup" ELSE "accept")
    /\ UNCHANGED <<socket, flag, progress, clients, bounds>>

Accepts(s) ==
    /\ server[s] = "accept" /\ backlog[s] # << >>
    /\ serving' = [serving EXCEPT ![s] = Head(backlog[s])]
    /\ backlog' = [backlog EXCEPT ![s] = Tail(@)]
    /\ accepted' = [accepted EXCEPT ![s] = Append(@, Head(backlog[s]))]
    /\ taken' = [taken EXCEPT ![s] = 0]
    /\ Goes(s, "receive")
    /\ UNCHANGED <<path, listening, flag, log, lost, clients, bounds>>

\* accept_client() fails: sleep, and once more, unless it is EINVAL.  That, like an
\* is_path() that fails, ends the loop.
LoopFails(s) ==
    /\ Fault
    /\ \/ server[s] = "accept" /\ Goes(s, "check")
       \/ server[s] \in {"look", "accept"} /\ Goes(s, "cleanup")
    /\ UNCHANGED <<socket, flag, progress, clients>>

Takes(s) ==
    /\ server[s] = "receive" /\ taken[s] < sent[serving[s]]
    /\ \E n \in taken[s] + 1 .. sent[serving[s]] : taken' = [taken EXCEPT ![s] = n]
    /\ UNCHANGED <<socket, server, flag, serving, accepted, log, lost, clients, bounds>>

AtEndShort(s) == taken[s] = sent[serving[s]] /\ taken[s] > 0
AtEndFixed(s) == taken[s] = MessageLen
AtEnd(s) == taken[s] = sent[serving[s]] /\ Closed(serving[s])

ReceiveEnds(s) ==
    /\ server[s] = "receive"
    /\ AtEnd(s)
    /\ Goes(s, "log")
    /\ UNCHANGED <<socket, flag, progress, clients, bounds>>

Loses(s) ==
    /\ lost' = lost \cup {serving[s]}
    /\ Goes(s, "close")

ReceiveFails(s) ==
    /\ server[s] = "receive"
    /\ Fault
    /\ Loses(s)
    /\ UNCHANGED <<socket, flag, serving, taken, accepted, log, clients>>

\* timestamp_a_msg(): a stamp in front, then all of the message.
Stamped(s) == <<serving[s], taken[s]>>
Appends(s, entry) == log' = [log EXCEPT ![s] = Append(@, entry)]

Logs(s) ==
    /\ server[s] = "log"
    /\ Appends(s, Stamped(s))
    /\ Goes(s, "close")
    /\ UNCHANGED <<socket, flag, serving, taken, accepted, lost, clients, bounds>>

\* No time or no memory for the stamp.
StampFails(s) ==
    /\ server[s] = "log"
    /\ Fault
    /\ Loses(s)
    /\ UNCHANGED <<socket, flag, serving, taken, accepted, log, clients>>

\* append_to_file() fails when it wrote a part of the entry.
AppendFails(s) ==
    /\ server[s] = "log"
    /\ Fault
    /\ Appends(s, <<serving[s], Torn>>)
    /\ Loses(s)
    /\ UNCHANGED <<socket, flag, serving, taken, accepted, clients>>

\* What went wrong with one client does not end the loop.
ClosesClient(s) ==
    /\ server[s] = "close"
    /\ broken' = broken \cup {serving[s]}
    /\ serving' = [serving EXCEPT ![s] = NoOne]
    /\ Goes(s, "check")
    /\ UNCHANGED <<socket, flag, taken, accepted, log, lost, client, to, sent, bounds>>

(***************************************************************************)
(* The server stops.                                                       *)
(***************************************************************************)
Shuts(s) ==
    /\ listening' = listening \ {s}
    /\ backlog' = [backlog EXCEPT ![s] = << >>]
    /\ serving' = [serving EXCEPT ![s] = NoOne]
    /\ broken' = broken \cup {c \in Clients : to[c] = s}

ClosesSocket(s) ==
    /\ server[s] = "cleanup"
    /\ Shuts(s)
    /\ Goes(s, "delete")
    /\ UNCHANGED <<path, flag, taken, accepted, log, lost, client, to, sent, bounds>>

\* is_path() and delete_file(): the file is deleted whoever made it.
DeletesOwn(s) == path = s /\ accepted[s] # << >>
Deletes(s) == path # NoOne

LooksToDelete(s) ==
    /\ server[s] = "delete"
    /\ Goes(s, IF Deletes(s) THEN "unlink" ELSE "ended")
    /\ UNCHANGED <<socket, flag, progress, clients, bounds>>

DeletesPath(s) ==
    /\ server[s] = "unlink"
    /\ path' = NoOne
    /\ Goes(s, "ended")
    /\ UNCHANGED <<listening, backlog, flag, progress, clients, bounds>>

Interrupts(s) ==
    /\ server[s] \notin Stopped
    /\ Fault
    /\ flag' = [flag EXCEPT ![s] = TRUE]
    /\ \/ UNCHANGED <<server, lost>>
       \/ server[s] = "accept" /\ backlog[s] = << >>        \* accept(): EINTR
          /\ Goes(s, "check") /\ UNCHANGED lost
       \/ /\ server[s] = "receive"                          \* read(): EINTR
          /\ taken[s] = sent[serving[s]] /\ ~Closed(serving[s])
          /\ Loses(s)
    /\ UNCHANGED <<socket, serving, taken, accepted, log, clients>>

ServerCrashes(s) ==
    /\ server[s] \notin Stopped
    /\ Fault
    /\ Shuts(s)
    /\ Goes(s, "crashed")
    /\ UNCHANGED <<path, flag, taken, accepted, log, lost, client, to, sent>>

(***************************************************************************)
(* A client.                                                               *)
(***************************************************************************)
ClientGoes(c, to_) == client' = [client EXCEPT ![c] = to_]
ClientOnly == UNCHANGED <<server, flag, progress>>

LooksForSocket(c) ==
    /\ client[c] = "idle"
    /\ ClientGoes(c, IF path = NoOne THEN "failed" ELSE "connect")
    /\ ClientOnly /\ UNCHANGED <<socket, to, sent, broken, bounds>>

Connects(c) ==
    /\ client[c] = "connect"
    /\ IF path \in listening
       THEN /\ backlog' = [backlog EXCEPT ![path] = Append(@, c)]
            /\ to' = [to EXCEPT ![c] = path]
            /\ ClientGoes(c, "write")
       ELSE ClientGoes(c, "failed") /\ UNCHANGED <<backlog, to>>
    /\ ClientOnly /\ UNCHANGED <<path, listening, sent, broken, bounds>>

Writes(c) ==
    /\ client[c] = "write"
    /\ IF c \in broken THEN ClientGoes(c, "failed") /\ UNCHANGED sent
       ELSE /\ sent' = [sent EXCEPT ![c] = @ + 1]
            /\ IF sent[c] + 1 = MessageLen THEN ClientGoes(c, "close")
                                           ELSE UNCHANGED client
    /\ ClientOnly /\ UNCHANGED <<socket, to, broken, bounds>>

Closes(c) ==
    /\ client[c] = "close"
    /\ ClientGoes(c, "done")
    /\ ClientOnly /\ UNCHANGED <<socket, to, sent, broken, bounds>>

ClientCrashes(c) ==
    /\ client[c] \in {"write", "close"}
    /\ Fault
    /\ ClientGoes(c, "failed")
    /\ ClientOnly /\ UNCHANGED <<socket, to, sent, broken>>

ServerSteps(s) ==
    \/ Binds(s) \/ Listens(s) \/ ChecksSignal(s) \/ LooksForPath(s) \/ Accepts(s)
    \/ Takes(s) \/ ReceiveEnds(s) \/ Logs(s) \/ ClosesClient(s)
    \/ ClosesSocket(s) \/ LooksToDelete(s) \/ DeletesPath(s)

ClientSteps(c) == Connects(c) \/ Writes(c) \/ Closes(c)

Next ==
    \/ \E s \in Servers :
          \/ ServerSteps(s) \/ Starts(s) \/ Interrupts(s) \/ ServerCrashes(s)
          \/ SetupFails(s) \/ LoopFails(s) \/ ReceiveFails(s)
          \/ StampFails(s) \/ AppendFails(s)
    \/ \E c \in Clients : ClientSteps(c) \/ LooksForSocket(c) \/ ClientCrashes(c)

Fairness ==
    /\ \A s \in Servers : WF_vars(ServerSteps(s))
    /\ \A c \in Clients : WF_vars(ClientSteps(c))

Spec == Init /\ [][Next]_vars /\ Fairness
--------------------------------------------------------------------------------
(***************************************************************************)
(* Properties.                                                             *)
(***************************************************************************)
InHand(s, c) == c = serving[s] /\ server[s] \in {"receive", "log"}

\* An entry with all that its client wrote, and one that append_to_file() did
\* not finish.
Whole(e, c) == e = <<c, sent[c]>> /\ c \notin lost
IsTorn(e, c) == e = <<c, Torn>> /\ c \in lost

\* A log holds one entry per client accepted, in that order, with all that the
\* client wrote before it closed or died; only a client that could not be
\* received or logged has none, or a torn one.
LogIsComplete ==
    \A s \in Servers :
        LET acc == accepted[s] entries == log[s] place == DOMAIN entries
        IN /\ server[s] # "crashed" =>
                 \A k \in DOMAIN acc : \/ acc[k] \in lost \/ InHand(s, acc[k])
                                       \/ \E i \in place : Whole(entries[i], acc[k])
           /\ \A i \in place : \E k \in DOMAIN acc :
                 Whole(entries[i], acc[k]) \/ IsTorn(entries[i], acc[k])
           /\ \A i, j \in place, k, l \in DOMAIN acc :
                 i < j /\ entries[i][1] = acc[k] /\ entries[j][1] = acc[l] => k < l

\* Unless a server was killed or failed to delete it, no socket file is left
\* when all servers have stopped: the one that a killed server left is removed
\* by the next start, which fails for it.
NoSocketLeft ==
    (\A s \in Servers : server[s] \in {"off", "ended"}) => path = NoOne

\* A client that is connected is logged, whatever becomes of it and of the
\* clients before it, unless the server stops or fails to receive or log it.
ClientIsLogged ==
    \A c \in Clients, s \in Servers :
        to[c] = s /\ c \notin broken ~> \/ \E k \in DOMAIN log[s] : log[s][k][1] = c
                     \/ c \in lost
                     \/ server[s] \in Stopped

(***************************************************************************)
(* The strengthening that makes LogIsComplete and NoSocketLeft inductive:  *)
(* a client is connected to one server, once, and what a server has logged *)
(* is of clients that will not write any more.                             *)
(***************************************************************************)
Open == {"check", "look", "accept", "receive", "log", "close", "cleanup"}
Busy == {"receive", "log", "close"}

TypeOK ==
    /\ path \in Servers \cup {NoOne}
    /\ server \in [Servers -> Stopped \cup Open \cup {"bind", "listen", "delete", "unlink"}]
    /\ flag \in [Servers -> BOOLEAN]
    /\ listening \subseteq Servers
    /\ {backlog, accepted} \subseteq [Servers -> Seq(Clients)]
    /\ serving \in [Servers -> Clients \cup {NoOne}]
    /\ taken \in [Servers -> Nat]
    /\ log \in [Servers -> Seq(Clients \X (Nat \cup {Torn}))]
    /\ client \in [Clients -> {"idle", "connect", "write", "close", "done", "failed"}]
    /\ to \in [Clients -> Servers \cup {NoOne}]
    /\ sent \in [Clients -> Nat]
    /\ broken \subseteq Clients /\ lost \subseteq Clients
    /\ {starts, faults} \subseteq Nat

\* A client of s: it will not connect again.
ClientOf(s, c) == to[c] = s /\ client[c] \notin {"idle", "connect"}

\* Nobody waits at a socket that does not listen, or twice.
Waiting(s) ==
    /\ s \notin listening => backlog[s] = << >>
    /\ s \in listening => server[s] \in Open
    /\ \A k \in DOMAIN backlog[s] : ClientOf(s, backlog[s][k]) /\ backlog[s][k] \notin lost
    /\ \A j, k \in DOMAIN backlog[s] : backlog[s][j] = backlog[s][k] => j = k

\* Nobody is accepted twice; the last one is in hand.
Accepted(s) ==
    /\ \A k \in DOMAIN accepted[s] : ClientOf(s, accepted[s][k])
    /\ \A j, k \in DOMAIN accepted[s] : accepted[s][j] = accepted[s][k] => j = k
    /\ \A j \in DOMAIN accepted[s], k \in DOMAIN backlog[s] : accepted[s][j] # backlog[s][k]
    /\ server[s] \in Busy =>
          accepted[s] # << >> /\ serving[s] = accepted[s][Len(accepted[s])]
    /\ server[s] \in {"receive", "log"} => serving[s] \notin lost
    /\ server[s] = "log" => taken[s] = sent[serving[s]] /\ Closed(serving[s])

\* What is logged is of clients that closed, and not of the one in hand.
Logged(s) ==
    \A i \in DOMAIN log[s] : \E k \in DOMAIN accepted[s] :
        /\ \/ Whole(log[s][i], accepted[s][k]) /\ Closed(accepted[s][k])
           \/ IsTorn(log[s][i], accepted[s][k])
        /\ InHand(s, serving[s]) => k < Len(accepted[s])

\* Only who was connected can be lost.
LostOnes == \A c \in lost : \E s \in Servers : ClientOf(s, c)

\* Who bound the socket file has yet to stop, or was killed.
PathHasOwner == path # NoOne => server[path] \notin {"off", "ended"}

IInv ==
    /\ TypeOK
    /\ \A s \in Servers : Waiting(s) /\ Accepted(s) /\ Logged(s)
    /\ LogIsComplete
    /\ LostOnes
    /\ PathHasOwner
================================================================================
