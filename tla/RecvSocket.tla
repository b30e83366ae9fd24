------------------------------ MODULE RecvSocket ------------------------------
(***************************************************************************)
(* recv_socket(): one caller receives datagrams into a heap buffer until   *)
(* one of no bytes (or the end of the stream) comes.                       *)
(*                                                                         *)
(* A recv(2) takes one datagram, of which what does not fit in local_buf   *)
(* is lost.  It fails with EAGAIN when there is none and the call was made *)
(* with MSG_DONTWAIT, and with another errno once the socket is broken; it *)
(* then returns -1, which recv_socket_dynamic() hands to check_sn_space()  *)
(* as a size_t: WordSize is the number of values of that type.             *)
(***************************************************************************)
EXTENDS GrowBuffer

CONSTANTS
    WordSize,     \* 2^64
    MaxDatagrams, \* bound on the datagrams the peers send
    Stacks        \* the texts that may lie on the stack behind local_buf

ASSUME RecvSocketBounds ==
    /\ WordSize \in Nat /\ WordSize > MaxSize /\ WordSize > BuffSize + 1
    /\ MaxDatagrams \in Nat
    /\ Stacks \subseteq Seq(Byte \ {NUL})

VARIABLES
    pc,         \* where recv_socket is
    sent,       \* the datagrams sent so far
    closed,     \* the peer shut the connection down
    broken,     \* the socket has failed for good
    dontwait,   \* MSG_DONTWAIT is among the flags
    stack,      \* the text behind local_buf
    taken,      \* datagrams recv(2) has returned so far
    text, size, \* *output_buf and *output_size
    spins,      \* the last recv(2) failed
    result      \* the errno of the call

vars == <<pc, sent, closed, broken, dontwait, stack, taken, text, size, spins,
          result>>
call == <<pc, taken, text, size, spins, result>>
socket == <<sent, closed, broken, dontwait, stack>>

\* A datagram is its length: the bytes are numbered through the stream.
Lengths == 0 .. BuffSize + 1
Errno == {"ENOERR", "ENOMEM", "EOVERFLOW"}

Init ==
    /\ pc = "alloc"
    /\ sent = << >>
    /\ closed = FALSE
    /\ broken = FALSE
    /\ dontwait \in BOOLEAN
    /\ stack \in Stacks
    /\ taken = 0
    /\ text = << >>
    /\ size = 0
    /\ spins = FALSE
    /\ result = "ENOERR"

(***************************************************************************)
(* The network.                                                            *)
(***************************************************************************)
PeerSends ==
    /\ ~closed
    /\ Len(sent) < MaxDatagrams
    /\ \E n \in Lengths : sent' = Append(sent, n)
    /\ UNCHANGED <<call, closed, broken, dontwait, stack>>

PeerCloses ==
    /\ ~closed
    /\ closed' = TRUE
    /\ UNCHANGED <<call, sent, broken, dontwait, stack>>

Breaks ==
    /\ ~broken
    /\ broken' = TRUE
    /\ UNCHANGED <<call, sent, closed, dontwait, stack>>

(***************************************************************************)
(* The call.                                                               *)
(***************************************************************************)
Fails(errno) ==
    /\ pc' = "done"
    /\ result' = errno
    /\ text' = Freed
    /\ size' = 0

\* alloc_skid_mem() returns NULL.
AllocFails == Fails("ENOMEM")

\* check_sn_pre_alloc
PreAlloc ==
    /\ pc = "alloc"
    /\ \/ pc' = "receiving" /\ size' = BuffSize /\ UNCHANGED <<text, result>>
       \/ AllocFails
    /\ UNCHANGED <<socket, taken, spins>>

\* check_sn_space leaves a byte for the terminator; its sum wraps.
HasRoomNoNul(n, len, sz) == n > 0 /\ sz > 0 /\ sz - len >= n
HasRoomForFull(n, len, sz) == n > 0 /\ sz > 0 /\ sz - len >= BuffSize + 1
HasRoom(n, len, sz) ==
    /\ n > 0
    /\ sz > 0
    /\ sz - len >= (n + 1) % WordSize

\* The bytes of datagram i that reach local_buf, each with a name of its own.
Chunk(i) == [k \in 1 .. Min2(sent[i], BuffSize) |-> i * (BuffSize + 2) + k]

\* A datagram (or the end of the stream) is there for recv(2) to return.
Ready == pc = "receiving" /\ ~broken /\ (taken < Len(sent) \/ closed)
Received == IF taken < Len(sent) THEN Chunk(taken + 1) ELSE << >>

AfterCopyOver(sz) == LocalString(Received, stack)
AfterCopy(sz) ==
    Strncat(text, LocalString(Received, stack), sz - Len(text))

RecvFits ==
    /\ Ready
    /\ Received # << >>
    /\ HasRoom(Len(Received), Len(text), size)
    /\ text' = AfterCopy(size)
    /\ taken' = taken + 1
    /\ spins' = FALSE
    /\ UNCHANGED <<pc, socket, size, result>>

\* realloc_sock_dynamic; "Logic Failure" drops the chunk and sets errno.
RecvGrows ==
    /\ Ready
    /\ Received # << >>
    /\ ~HasRoom(Len(Received), Len(text), size)
    /\ CanDouble(size)
    /\ size' = Doubled(size)
    /\ IF HasRoom(Len(Received), Len(text), Doubled(size))
       THEN text' = AfterCopy(Doubled(size)) /\ UNCHANGED result
       ELSE result' = "EOVERFLOW" /\ UNCHANGED text
    /\ taken' = taken + 1
    /\ spins' = FALSE
    /\ UNCHANGED <<pc, socket>>

GrowFails ==
    /\ Ready
    /\ Received # << >>
    /\ ~HasRoom(Len(Received), Len(text), size)
    /\ Fails(IF CanDouble(size) THEN "ENOMEM" ELSE "EOVERFLOW")
    /\ taken' = taken + 1
    /\ spins' = FALSE
    /\ UNCHANGED socket
\* recv(2) returned 0: a datagram of no bytes, or the end.
IsEndAfterText == Received = << >> /\ text # << >>
IsEnd == Received = << >>

RecvEnd ==
    /\ Ready
    /\ IsEnd
    /\ pc' = "verify"
    /\ taken' = IF taken < Len(sent) THEN taken + 1 ELSE taken
    /\ spins' = FALSE
    /\ UNCHANGED <<socket, text, size, result>>

\* recv(2) returned -1.  The sum in check_sn_space wraps to 0, so there is
\* room for it; nothing is added, and the loop calls recv(2) again.
RecvFails ==
    /\ pc = "receiving"
    /\ broken \/ (dontwait /\ ~closed /\ taken = Len(sent))
    /\ HasRoom(WordSize - 1, Len(text), size)
    /\ spins' = TRUE
    /\ UNCHANGED <<pc, socket, taken, text, size, result>>

\* A text that fills its buffer is copied to one with room for the NUL.
Verify ==
    /\ pc = "verify"
    /\ IF result # "ENOERR" THEN Fails(result)
       ELSE IF Len(text) = size
       THEN \/ /\ size' = CopySize(text)
               /\ pc' = "done"
               /\ UNCHANGED <<text, result>>
            \/ AllocFails
       ELSE pc' = "done" /\ UNCHANGED <<text, size, result>>
    /\ UNCHANGED <<socket, taken, spins>>

Call ==
    \/ PreAlloc
    \/ RecvFits
    \/ RecvGrows
    \/ GrowFails
    \/ RecvEnd
    \/ RecvFails
    \/ Verify

Next == PeerSends \/ PeerCloses \/ Breaks \/ Call

Spec == Init /\ [][Next]_vars

\* The caller runs, and recv(2) returns once there is something to return.
FairSpec == Spec /\ WF_vars(Call)
-----------------------------------------------------------------------------
TypeOK ==
    /\ pc \in {"alloc", "receiving", "verify", "done"}
    /\ sent \in Seq(Lengths)
    /\ closed \in BOOLEAN
    /\ broken \in BOOLEAN
    /\ dontwait \in BOOLEAN
    /\ stack \in Stacks
    /\ taken \in 0 .. Len(sent)
    /\ text \in Seq(Byte)
    /\ size \in 0 .. MaxSize + 1
    /\ spins \in BOOLEAN
    /\ result \in Errno

\* While the buffer fills, and when it is returned, its terminator is inside
\* it: check_sn_space's spare byte survives every doubling.
TerminatorFits ==
    /\ stack = << >> /\ pc # "alloc" /\ result = "ENOERR" => Len(text) < size
    /\ pc = "receiving" => size \in BuffSize .. MaxSize

\* The text is the datagrams taken so far, each cut to local_buf: every byte of
\* them, once, and in the order in which they were sent.
DatagramsInOrder ==
    stack = << >> /\ result = "ENOERR" =>
        /\ {text[k] : k \in DOMAIN text}
              = UNION {{Chunk(i)[k] : k \in DOMAIN Chunk(i)} : i \in 1 .. taken}
        /\ \A j, k \in DOMAIN text : j < k => text[j] < text[k]

\* EOVERFLOW is only reported of a text that, with its terminator, does not
\* fit the buffer at its largest.
RefusedOnlyWhenFull ==
    [][result # "EOVERFLOW" /\ result' = "EOVERFLOW" =>
          /\ ~CanDouble(size)
          /\ Len(text) + Len(Received) + 1 > size]_vars

\* Once the peer shut the connection down the call returns, unless the socket
\* fails first.
CallEnds == closed ~> (pc = "done" \/ broken)

\* A recv(2) that fails ends the call: "NULL on error".
ErrorEndsTheCall == spins ~> pc = "done"

\* "Dynamically read a message": all of it.
Total[n \in Nat] == IF n = 0 THEN 0 ELSE Total[n - 1] + sent[n]

WholeMessage ==
    stack = << >> /\ pc = "done" /\ result = "ENOERR" => Len(text) = Total[taken]

\* The strengthening that makes the first two invariants inductive.  A buffer
\* of the first size never holds a full chunk, so it has a byte to spare even
\* when text from the stack was copied later.
NoErrorYet == pc # "done" => result = "ENOERR"

SizeInRange ==
    /\ pc = "alloc" => size = 0
    /\ pc \in {"receiving", "verify"} =>
          size \in BuffSize .. MaxSize /\ (size = BuffSize \/ size >= 2 * BuffSize)

TextFits ==
    /\ Len(text) <= size
    /\ pc = "receiving" /\ size = BuffSize => Len(text) < size

IInv ==
    /\ TypeOK
    /\ TerminatorFits
    /\ DatagramsInOrder
    /\ NoErrorYet
    /\ SizeInRange
    /\ TextFits
===============================================================================
