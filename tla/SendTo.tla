--------------------------------- MODULE SendTo ---------------------------------
(***************************************************************************)
(* send_socket(), send_to_socket(), send_to_chunk() and send_to() of       *)
(* skid_network: a message is handed to the kernel whole or in chunks, and *)
(* what the kernel leaves is sent again.  The characters of a message are  *)
(* numbered from 1: a piece of it is the interval that a sendto() took.    *)
(*                                                                         *)
(* send_to() finishes a partial send by calling itself.  depth counts the  *)
(* calls that are open: each partial send opens one, and an error closes   *)
(* two, the one that failed and its caller, whose own caller tries again.  *)
(* send_socket() calls itself too, but an error closes all its calls.      *)
(***************************************************************************)
EXTENDS Integers, Sequences

CONSTANTS
    Senders,      \* the calls of send_socket() and send_to_socket()
    MaxLen,       \* bound on the length of a message
    ChunkSize,    \* SKID_CHUNK_SIZE
    SndBufs       \* what SO_SNDBUF may be

ASSUME SizesOK == /\ MaxLen \in Nat \ {0}
                  /\ ChunkSize \in Nat \ {0}
                  /\ SndBufs \subseteq Nat

VARIABLES
    kind,       \* "dgram" or "stream": the type of the sockets
    sndbuf,     \* SO_SNDBUF
    len,        \* msg_size of each sender
    chunk_it,   \* who asked for chunks
    plain,      \* who called send_socket()
    pc,
    i,          \* send_to_chunk()'s run
    done,       \* how much of the current run was sent
    depth,      \* the open calls of send_to()
    bytes_sent, \* what send_to() or send_to_chunk() returns: of the runs that ended
    result,
    wire        \* the pieces that the kernel took, of each sender

asked == <<kind, sndbuf, len, chunk_it, plain>>
progress == <<pc, i, done, depth, bytes_sent, result>>
send_vars == <<asked, progress, wire>>

ENOERR == "ENOERR"
Results == {ENOERR, "ENOBUFS", "error"}
Failed == -1

Piece == [first : 1 .. MaxLen + 1, last : 0 .. MaxLen]
Size(p) == p.last - p.first + 1

\* A message is not empty: validate_skid_string().
SendInit ==
    /\ kind \in {"dgram", "stream"}
    /\ sndbuf \in SndBufs
    /\ len \in [Senders -> 1 .. MaxLen]
    /\ chunk_it \in [Senders -> BOOLEAN]
    /\ plain \in SUBSET {s \in Senders : ~chunk_it[s]}
    /\ pc = [s \in Senders |-> "start"]
    /\ i = [s \in Senders |-> 0]
    /\ done = [s \in Senders |-> 0]
    /\ depth = [s \in Senders |-> 0]
    /\ bytes_sent = [s \in Senders |-> 0]
    /\ result = [s \in Senders |-> ENOERR]
    /\ wire = [s \in Senders |-> << >>]

(***************************************************************************)
(* The runs of a message.                                                  *)
(***************************************************************************)
Chunked(s) == chunk_it[s] /\ ChunkSize < len[s]

\* The send buffer may be smaller than the default chunk.
Chunk == IF ChunkSize < sndbuf THEN ChunkSize ELSE sndbuf

RoundedDown(s) == IF Chunked(s) THEN len[s] \div Chunk ELSE 1
Runs(s) == IF Chunked(s) THEN len[s] \div Chunk + (IF len[s] % Chunk = 0 THEN 0 ELSE 1)
           ELSE 1

IsLastRun(s) == i[s] + 1 = Runs(s)

\* tmp_len: the last run is the remainder, even when the remainder is 0.
RunLen(s) == IF ~Chunked(s) THEN len[s]
             ELSE IF IsLastRun(s) THEN len[s] % Chunk ELSE Chunk

\* buf + (i * chunk_size)
OffsetFromOne(s) == IF Chunked(s) THEN (i[s] + 1) * Chunk ELSE 0
Offset(s) == IF Chunked(s) THEN i[s] * Chunk ELSE 0

Remaining(s) == RunLen(s) - done[s]

\* What the next sendto() sends, when the kernel takes n characters.
FromRunStart(s, n) == [first |-> Offset(s) + 1, last |-> Offset(s) + n]
NextPiece(s, n) ==
    [first |-> Offset(s) + done[s] + 1, last |-> Offset(s) + done[s] + n]

\* A datagram is taken whole or not at all; a stream takes some of what it is given.
Takes(s) == IF kind = "dgram" \/ Remaining(s) = 0 THEN {Remaining(s)} ELSE 1 .. Remaining(s)

(***************************************************************************)
(* The actions.                                                            *)
(***************************************************************************)
\* get_socket_opt_sndbuf() may fail; a buffer of no size is refused.
NoSndbuf(e) == e = "error" \/ (e = "ENOBUFS" /\ sndbuf = 0)

\* send_to_chunk() wants a send buffer first.
CannotChunk(s) ==
    /\ Chunked(s)
    /\ \E e \in Results : NoSndbuf(e) /\ result' = [result EXCEPT ![s] = e]
    /\ pc' = [pc EXCEPT ![s] = "done"]
    /\ UNCHANGED depth

StartsToSend(s) ==
    /\ ~(Chunked(s) /\ sndbuf = 0)
    /\ pc' = [pc EXCEPT ![s] = "send"]
    /\ depth' = [depth EXCEPT ![s] = 1]
    /\ UNCHANGED result

\* send_to_socket(), as far as the first sendto().
Begin(s) ==
    /\ pc[s] = "start"
    /\ CannotChunk(s) \/ StartsToSend(s)
    /\ UNCHANGED <<asked, i, done, bytes_sent, wire>>

\* send_to_chunk() does not add the -1 of a run, and does not return it.
Total(s, n) == IF n # Failed THEN bytes_sent[s] + n
               ELSE IF Chunked(s) THEN bytes_sent[s] ELSE Failed

\* The run ends with n, what its send_to() returns: the next one, or the end.  A
\* run that was not sent whole ends the loop.
EndRun(s, n, res) ==
    /\ bytes_sent' = [bytes_sent EXCEPT ![s] = Total(s, n)]
    /\ result' = [result EXCEPT ![s] = res]
    /\ done' = [done EXCEPT ![s] = 0]
    /\ IF n = RunLen(s) /\ res = ENOERR /\ ~IsLastRun(s)
       THEN /\ i' = [i EXCEPT ![s] = @ + 1]
            /\ depth' = [depth EXCEPT ![s] = 1]
            /\ UNCHANGED pc
       ELSE /\ pc' = [pc EXCEPT ![s] = "done"]
            /\ depth' = [depth EXCEPT ![s] = 0]
            /\ UNCHANGED i

\* sendto() takes n characters.
Transmit(s, n) ==
    /\ pc[s] = "send"
    /\ n \in Takes(s)
    /\ wire' = [wire EXCEPT ![s] = Append(@, NextPiece(s, n))]
    /\ IF done[s] + n = RunLen(s)
       THEN EndRun(s, RunLen(s), ENOERR)
       ELSE /\ done' = [done EXCEPT ![s] = @ + n]
            /\ depth' = [depth EXCEPT ![s] = @ + 1]
            /\ UNCHANGED <<pc, i, bytes_sent, result>>
    /\ UNCHANGED asked

\* sendto() fails.  The first call of a run has sent nothing: it returns -1 and the
\* error.  A nested call's error becomes a partial success of the call above
\* it, which that one's caller tries to finish.
NeverGivesUp(s) == FALSE
GivesUp(s) == depth[s] <= 2

SendToFails(s) ==
    /\ s \notin plain
    /\ IF depth[s] = 1 THEN EndRun(s, Failed, "error")
       ELSE IF GivesUp(s) THEN EndRun(s, done[s], ENOERR)
       ELSE /\ depth' = [depth EXCEPT ![s] = @ - 1]
            /\ UNCHANGED <<pc, i, done, bytes_sent, result>>

\* The error of a nested send_socket() is the caller's, whatever was sent.
SendSocketFails(s) == s \in plain /\ EndRun(s, done[s], "error")

Refuse(s) ==
    /\ pc[s] = "send"
    /\ SendToFails(s) \/ SendSocketFails(s)
    /\ UNCHANGED <<asked, wire>>

(***************************************************************************)
(* Properties.                                                             *)
(***************************************************************************)
SendTypeOK ==
    /\ kind \in {"dgram", "stream"}
    /\ sndbuf \in SndBufs
    /\ len \in [Senders -> 1 .. MaxLen]
    /\ chunk_it \in [Senders -> BOOLEAN]
    /\ plain \subseteq {s \in Senders : ~chunk_it[s]}
    /\ pc \in [Senders -> {"start", "send", "done"}]
    /\ i \in [Senders -> Nat]
    /\ done \in [Senders -> Nat]
    /\ depth \in [Senders -> Nat]
    /\ bytes_sent \in [Senders -> Nat \cup {Failed}]
    /\ result \in [Senders -> Results]
    /\ wire \in [Senders -> Seq(Piece)]

\* What was sent is a beginning of the message: each piece starts where the one
\* before it ended, over the runs, the partial sends and the errors in between.
PiecesFollow ==
    \A s \in Senders :
        /\ \A k \in 1 .. Len(wire[s]) :
            wire[s][k].first = (IF k = 1 THEN 1 ELSE wire[s][k - 1].last + 1)
        /\ wire[s] # << >> => wire[s][Len(wire[s])].last <= len[s]

\* How much of the message the kernel has.
Sent(s) == IF wire[s] = << >> THEN 0 ELSE wire[s][Len(wire[s])].last

\* What send_to() and send_to_chunk() return is true of what the kernel has, over
\* nested calls that fail and are tried again: a count is that of the characters
\* sent, also when send_to_chunk() returns it together with an errno, and -1 comes
\* with an errno and says that nothing was sent.  (send_socket() keeps the count
\* and returns an errno only.)
CountIsRight ==
    \A s \in Senders :
        IF bytes_sent[s] = Failed THEN result[s] # ENOERR /\ Sent(s) = 0
        ELSE bytes_sent[s] + done[s] = Sent(s)

\* The comments on send_to() and send_to_chunk(): otherwise, -1 is returned.  An
\* errno comes with nothing else.
MinusOneOnError ==
    \A s \in Senders \ plain :
        pc[s] = "done" /\ result[s] # ENOERR => bytes_sent[s] = Failed

\* In chunks, a success means that all was sent but for what follows the last
\* whole chunk when nothing follows it: then that chunk is missing.  A success of
\* send_socket() means that all was sent, on streams that take it in parts too.
ChunksAreSent ==
    \A s \in Senders :
        pc[s] = "done" /\ result[s] = ENOERR =>
            /\ kind = "dgram" /\ Chunked(s) =>
                   Sent(s) = (IF len[s] % Chunk = 0 THEN len[s] - Chunk ELSE len[s])
            /\ s \in plain => Sent(s) = len[s]

\* The header: zero is returned on success.  A datagram socket's message that was
\* reported as sent was sent to its end.
SuccessIsWhole ==
    \A s \in Senders :
        (kind = "dgram" /\ pc[s] = "done" /\ result[s] = ENOERR) => Sent(s) = len[s]
=============================================================================
