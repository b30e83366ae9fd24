------------------------------- MODULE DgramLink -------------------------------
(***************************************************************************)
(* The senders of SendTo on datagram sockets, a network that loses and     *)
(* reorders, and test_sn_simple_dgram_server, which receives with          *)
(* recv_from_socket(): the size of the next datagram is peeked at first,   *)
(* and then a buffer of that size is filled.                               *)
(*                                                                         *)
(* An empty datagram has the size of no datagram: recv_from_size() returns *)
(* 0 for both and recv_from_socket() says ENODATA without receiving.       *)
(***************************************************************************)
EXTENDS SendTo, FiniteSets, SequencesExt

VARIABLES
    net,      \* datagrams on their way
    queue,    \* the server socket's receive queue
    spc,      \* "size", "receive" or "stopped"
    data_size,
    printed   \* what the server printed

server == <<spc, data_size, printed>>
vars == <<send_vars, net, queue, server>>

\* A datagram: its sender, its place among the sender's, and its piece.
Datagram == [from : Senders, nr : Nat, piece : Piece]

Init ==
    /\ SendInit
    /\ net = {}
    /\ queue = << >>
    /\ spc = "size" /\ data_size = 0
    /\ printed = << >>

(***************************************************************************)
(* The network.                                                            *)
(***************************************************************************)
Send(s) ==
    /\ \E n \in 0 .. MaxLen : Transmit(s, n)
    /\ net' = IF kind = "stream" THEN net
              ELSE net \cup {[from |-> s, nr |-> Len(wire'[s]), piece |-> Last(wire'[s])]}
    /\ UNCHANGED <<queue, server>>

Arrive ==
    /\ \E d \in net : net' = net \ {d} /\ queue' = Append(queue, d)
    /\ UNCHANGED <<send_vars, server>>

Lose ==
    /\ \E d \in net : net' = net \ {d}
    /\ UNCHANGED <<send_vars, queue, server>>

(***************************************************************************)
(* The server.                                                             *)
(***************************************************************************)
\* recv_from_size(): MSG_PEEK with MSG_TRUNC, the length of the datagram and
\* not of what fits the buffer of one character; EAGAIN when there is none.
PeekedInBuffer(q) == IF q = << >> THEN 0 ELSE IF Size(Head(q).piece) > 0 THEN 1 ELSE 0
Peeked(q) == IF q = << >> THEN 0 ELSE Size(Head(q).piece)

\* ENODATA: the server sleeps and asks again; whatever was there still is.
WorthMore(n) == n > 1
IsData(n) == n > 0

SizeIt ==
    /\ spc = "size"
    /\ IsData(Peeked(queue))
    /\ data_size' = Peeked(queue)
    /\ spc' = "receive"
    /\ UNCHANGED <<send_vars, net, queue, printed>>

\* recvfrom(), into a buffer of data_size: it removes the datagram, all of it.
KeptInQueue(q) == q
RestOf(q) == Tail(q)

Cut(d, n) == [d EXCEPT !.piece.last = IF Size(d.piece) < n THEN @ ELSE d.piece.first + n - 1]

Receive ==
    /\ spc = "receive"
    /\ queue # << >>
    /\ queue' = RestOf(queue)
    /\ printed' = Append(printed, Cut(Head(queue), data_size))
    /\ spc' = "size"
    /\ UNCHANGED <<send_vars, net, data_size>>

\* Any other error ends the server.
ServerStops ==
    /\ spc \in {"size", "receive"}
    /\ spc' = "stopped"
    /\ UNCHANGED <<send_vars, net, queue, data_size, printed>>

(***************************************************************************)
(* The specification.                                                      *)
(***************************************************************************)
Client(s) == Begin(s) /\ UNCHANGED <<net, queue, server>>
Refused(s) == Refuse(s) /\ UNCHANGED <<net, queue, server>>

Next ==
    \/ \E s \in Senders : Client(s) \/ Send(s) \/ Refused(s)
    \/ Arrive \/ Lose
    \/ SizeIt \/ Receive \/ ServerStops

Spec == Init /\ [][Next]_vars

\* Programs run, and a datagram that is not lost arrives in the end.
FairSpec ==
    /\ Spec
    /\ \A s \in Senders : WF_vars(Client(s)) /\ WF_vars(Send(s))
    /\ WF_vars(Arrive)
    /\ WF_vars(SizeIt) /\ WF_vars(Receive)

(***************************************************************************)
(* Properties.                                                             *)
(***************************************************************************)
TypeOK ==
    /\ SendTypeOK
    /\ net \subseteq Datagram
    /\ queue \in Seq(Datagram)
    /\ spc \in {"size", "receive", "stopped"}
    /\ data_size \in 0 .. MaxLen
    /\ printed \in Seq(Datagram)

\* What the server prints is exactly one datagram of one sender, neither cut nor
\* run together with another, and it prints none twice.
PrintedWasSent ==
    /\ \A k \in DOMAIN printed :
        /\ printed[k].nr \in DOMAIN wire[printed[k].from]
        /\ printed[k].piece = wire[printed[k].from][printed[k].nr]
    /\ IsInjective(printed)

SomethingEmpty == \E s \in Senders : \E k \in DOMAIN wire[s] : Size(wire[s][k]) = 0

\* A datagram that reached the server's socket is printed, unless the server
\* stops or somebody sends an empty one.
QueueIsPrinted ==
    \A s \in Senders : \A k \in 1 .. MaxLen :
        (\E d \in ToSet(queue) : d.from = s /\ d.nr = k)
            ~> \/ \E d \in ToSet(printed) : d.from = s /\ d.nr = k
               \/ spc = "stopped" \/ SomethingEmpty

\* The server's loop waits for data only when there is none.  An empty datagram
\* makes it wait with data in its queue, and it is never removed.
NeverStuck == (spc = "size" /\ queue # << >>) => Peeked(queue) > 0
=============================================================================
