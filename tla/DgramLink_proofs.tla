--------------------------- MODULE DgramLink_proofs ---------------------------
(***************************************************************************)
(* What the senders and the datagram server keep, for any number of        *)
(* senders, any length of message, chunk and send buffer, and a network    *)
(* that loses and reorders: what was sent is a beginning of the message,   *)
(* its count is right, and what is printed is one datagram, once.          *)
(***************************************************************************)
EXTENDS DgramLink, TLAPS

(***************************************************************************)
(* The invariant.                                                          *)
(***************************************************************************)
\* Where a sender is in its message: what the runs before this one sent is
\* where this one starts, and a datagram is sent by the first sendto().
RunInv(s) ==
    /\ pc[s] = "start" => /\ i[s] = 0 /\ done[s] = 0 /\ bytes_sent[s] = 0
                          /\ wire[s] = << >>
    /\ pc[s] = "send" => /\ Chunked(s) => Chunk > 0
                         /\ i[s] + 1 <= Runs(s)
                         /\ bytes_sent[s] = Offset(s)
                         /\ done[s] <= RunLen(s)
                         /\ depth[s] >= 1
                         /\ depth[s] = 1 => done[s] = 0
                         /\ kind = "dgram" => depth[s] = 1
    /\ pc[s] = "done" => done[s] = 0

\* The parts of PiecesFollow, CountIsRight and ChunksAreSent that are about s.
Follows(s) ==
    /\ \A k \in 1 .. Len(wire[s]) :
        wire[s][k].first = (IF k = 1 THEN 1 ELSE wire[s][k - 1].last + 1)
    /\ wire[s] # << >> => wire[s][Len(wire[s])].last <= len[s]
CountOK(s) == IF bytes_sent[s] = Failed THEN result[s] # ENOERR /\ Sent(s) = 0
              ELSE bytes_sent[s] + done[s] = Sent(s)
ChunksOK(s) ==
    pc[s] = "done" /\ result[s] = ENOERR =>
        /\ kind = "dgram" /\ Chunked(s) =>
               Sent(s) = (IF len[s] % Chunk = 0 THEN len[s] - Chunk ELSE len[s])
        /\ s \in plain => Sent(s) = len[s]

SenderInv(s) == RunInv(s) /\ Follows(s) /\ CountOK(s) /\ ChunksOK(s)

\* A datagram is what its sender sent, and it is in one place only.
WasSent(w, d) == d.nr \in DOMAIN w[d.from] /\ d.piece = w[d.from][d.nr]

DatagramsInv ==
    /\ \A d \in net : WasSent(wire, d)
    /\ \A k \in DOMAIN queue : WasSent(wire, queue[k]) /\ queue[k] \notin net
    /\ \A k \in DOMAIN printed : WasSent(wire, printed[k]) /\ printed[k] \notin net
    /\ \A j \in DOMAIN queue, k \in DOMAIN printed : queue[j] # printed[k]
    /\ \A j, k \in DOMAIN queue : queue[j] = queue[k] => j = k
    /\ \A j, k \in DOMAIN printed : printed[j] = printed[k] => j = k

\* The datagram whose size was peeked at is still the next one.
PeekInv == spc = "receive" => queue # << >> /\ data_size = Size(Head(queue).piece)

IInv == /\ TypeOK
        /\ \A s \in Senders : SenderInv(s)
        /\ DatagramsInv /\ PeekInv

(***************************************************************************)
(* Numbers.                                                                *)
(***************************************************************************)
\* The remainder of a division.
LEMMA DivMod ==
    ASSUME NEW n \in Nat, NEW c \in Nat, c > 0
    PROVE  /\ n \div c \in Nat /\ n % c \in Nat /\ n % c < c
           /\ n = ((n \div c) * c) + (n % c)
OBVIOUS

\* One chunk more.
LEMMA OneChunkMore ==
    ASSUME NEW k \in Nat, NEW c \in Nat
    PROVE  /\ k * c \in Nat /\ (k + 1) * c = k * c + c /\ 0 * c = 0
OBVIOUS

\* Fewer chunks are not longer.
LEMMA FewerChunks ==
    ASSUME NEW k \in Nat, NEW m \in Nat, NEW c \in Nat, k <= m
    PROVE  k * c <= m * c
OBVIOUS

(***************************************************************************)
(* The runs of a message.                                                  *)
(***************************************************************************)
\* The types that a sender's arithmetic needs.
LEMMA SenderTypes ==
    ASSUME SendTypeOK, NEW s \in Senders
    PROVE  /\ len[s] \in Nat /\ len[s] > 0 /\ len[s] <= MaxLen /\ MaxLen \in Nat
           /\ i[s] \in Nat /\ done[s] \in Nat /\ depth[s] \in Nat
           /\ bytes_sent[s] \in Nat \cup {Failed}
           /\ wire[s] \in Seq(Piece) /\ Chunk \in Nat /\ chunk_it[s] \in BOOLEAN
<1>1. sndbuf \in Nat /\ ChunkSize \in Nat /\ MaxLen \in Nat
    BY SizesOK DEF SendTypeOK
<1>2. Chunk \in Nat
    BY <1>1 DEF Chunk
<1>3. len[s] \in 1 .. MaxLen
    BY DEF SendTypeOK
<1>4. len[s] \in Nat /\ len[s] > 0 /\ len[s] <= MaxLen
    BY <1>1, <1>3
<1> QED
    BY <1>1, <1>2, <1>4 DEF SendTypeOK

\* Every run lies inside the message, each starts where the one before it ends,
\* and the last one ends with the message unless it is empty.
LEMMA RunsFit ==
    ASSUME SendTypeOK, NEW s \in Senders, RunInv(s), pc[s] = "send"
    PROVE  /\ Offset(s) \in Nat /\ RunLen(s) \in Nat
           /\ Offset(s) + RunLen(s) <= len[s]
           /\ ~IsLastRun(s) => /\ Chunked(s)
                               /\ i[s] + 2 <= Runs(s)
                               /\ (i[s] + 1) * Chunk = Offset(s) + RunLen(s)
           /\ Chunked(s) /\ IsLastRun(s) =>
                  Offset(s) + RunLen(s) = (IF len[s] % Chunk = 0 THEN len[s] - Chunk ELSE len[s])
<1> DEFINE q == len[s] \div Chunk
           r == len[s] % Chunk
<1>1. /\ len[s] \in Nat /\ len[s] > 0 /\ i[s] \in Nat /\ Chunk \in Nat
    BY SenderTypes
<1>2. i[s] + 1 <= Runs(s)
    BY DEF RunInv
<1>3. CASE ~Chunked(s)
    <2>1. Runs(s) = 1 /\ Offset(s) = 0 /\ RunLen(s) = len[s]
        BY <1>3 DEF Runs, Offset, RunLen
    <2>2. IsLastRun(s)
        BY <1>1, <1>2, <2>1 DEF IsLastRun
    <2> QED
        BY <1>1, <1>3, <2>1, <2>2
<1>4. CASE Chunked(s)
    <2>1. Chunk > 0
        BY <1>4 DEF RunInv
    <2>2. q \in Nat /\ r \in Nat /\ r < Chunk /\ len[s] = (q * Chunk) + r
        BY <1>1, <2>1, DivMod
    <2>3. /\ Runs(s) = q + (IF r = 0 THEN 0 ELSE 1) /\ Offset(s) = i[s] * Chunk
          /\ RunLen(s) = IF IsLastRun(s) THEN r ELSE Chunk
          /\ IsLastRun(s) <=> i[s] + 1 = Runs(s)
        BY <1>4 DEF Runs, Offset, RunLen, IsLastRun
    <2> HIDE DEF q, r
    <2>4. /\ i[s] * Chunk \in Nat /\ (i[s] + 1) * Chunk = (i[s] * Chunk) + Chunk
        BY <1>1, OneChunkMore
    <2>5. Runs(s) \in Nat /\ (r = 0 => Runs(s) = q) /\ (r # 0 => Runs(s) = q + 1)
        BY <2>2, <2>3
    <2>6. CASE ~IsLastRun(s)
        <3>1. i[s] + 2 <= Runs(s)
            BY <1>1, <1>2, <2>3, <2>5, <2>6
        <3>2. i[s] + 1 <= q
            BY <1>1, <2>2, <2>5, <3>1
        <3>3. (i[s] + 1) * Chunk <= q * Chunk
            BY <1>1, <2>2, <3>2, FewerChunks
        <3>4. q * Chunk \in Nat
            BY <1>1, <2>2, OneChunkMore
        <3> QED
            BY <1>1, <1>4, <2>2, <2>3, <2>4, <2>6, <3>1, <3>3, <3>4
    <2>7. CASE IsLastRun(s) /\ r = 0
        <3>1. i[s] + 1 = q
            BY <2>3, <2>5, <2>7
        <3>2. q * Chunk = (i[s] * Chunk) + Chunk
            BY <2>4, <3>1
        <3>3. len[s] = (i[s] * Chunk) + Chunk
            BY <1>1, <2>2, <2>4, <2>7, <3>2
        <3> QED
            BY <1>1, <2>3, <2>4, <2>7, <3>3 DEF r
    <2>8. CASE IsLastRun(s) /\ r # 0
        <3>1. i[s] = q
            BY <1>1, <2>2, <2>3, <2>5, <2>8
        <3> QED
            BY <1>1, <2>2, <2>3, <2>4, <2>8, <3>1 DEF r
    <2> QED
        BY <2>6, <2>7, <2>8
<1> QED
    BY <1>3, <1>4

(***************************************************************************)
(* The steps of a sender.                                                  *)
(***************************************************************************)
\* Where another sender is does not change with a step of this one.
LEMMA OthersKeep ==
    ASSUME SendTypeOK, NEW s \in Senders, NEW t \in Senders, SenderInv(t),
           UNCHANGED asked,
           pc'[t] = pc[t], i'[t] = i[t], done'[t] = done[t], depth'[t] = depth[t],
           bytes_sent'[t] = bytes_sent[t], result'[t] = result[t], wire'[t] = wire[t]
    PROVE  SenderInv(t)'
<1>1. Chunked(t)' = Chunked(t) /\ Chunk' = Chunk
    BY DEF asked, Chunked, Chunk
<1>2. Runs(t)' = Runs(t) /\ Offset(t)' = Offset(t)
    BY <1>1 DEF asked, Runs, Offset
<1>3. RunLen(t)' = RunLen(t)
    BY <1>1, <1>2 DEF asked, RunLen, IsLastRun
<1>4. Sent(t)' = Sent(t)
    BY DEF Sent
<1>5. RunInv(t)'
    BY <1>1, <1>2, <1>3 DEF asked, SenderInv, RunInv
<1>6. Follows(t)'
    BY DEF asked, SenderInv, Follows
<1>7. CountOK(t)'
    BY <1>4 DEF SenderInv, CountOK
<1>8. ChunksOK(t)'
    BY <1>1, <1>4 DEF asked, SenderInv, ChunksOK
<1> QED
    BY <1>5, <1>6, <1>7, <1>8 DEF SenderInv

\* send_to_socket() begins: the first run is the beginning of the message.
LEMMA BeginKeeps ==
    ASSUME SendTypeOK, NEW s \in Senders, SenderInv(s), Begin(s)
    PROVE  SendTypeOK' /\ SenderInv(s)'
<1>1. /\ len[s] \in Nat /\ len[s] > 0 /\ i[s] \in Nat /\ Chunk \in Nat
    BY SenderTypes
<1>2. i[s] = 0 /\ done[s] = 0 /\ bytes_sent[s] = 0 /\ wire[s] = << >>
    BY DEF SenderInv, RunInv, Begin
<1>3. SendTypeOK'
    <2>1. /\ pc' \in [Senders -> {"start", "send", "done"}]
          /\ result' \in [Senders -> Results] /\ depth' \in [Senders -> Nat]
        <3>1. CASE CannotChunk(s)
            BY <3>1 DEF SendTypeOK, CannotChunk
        <3>2. CASE StartsToSend(s)
            BY <3>2, 1 \in Nat DEF SendTypeOK, StartsToSend
        <3> QED
            BY <3>1, <3>2 DEF Begin
    <2> QED
        BY <2>1 DEF SendTypeOK, Begin, asked
<1>4. /\ Chunked(s)' = Chunked(s) /\ Chunk' = Chunk /\ Runs(s)' = Runs(s)
      /\ Offset(s)' = Offset(s) /\ RunLen(s)' = RunLen(s) /\ Sent(s)' = Sent(s)
    BY DEF Begin, asked, Chunked, Chunk, Runs, Offset, RunLen, IsLastRun, Sent
<1>5. Follows(s)' /\ CountOK(s)'
    <2>1. bytes_sent'[s] = 0 /\ done'[s] = 0 /\ Sent(s)' = 0
        BY <1>2, <1>4 DEF Begin, Sent
    <2>2. CountOK(s)'
        BY <2>1 DEF CountOK, Failed
    <2>3. Follows(s)'
        BY DEF Begin, asked, SenderInv, Follows
    <2> QED
        BY <2>2, <2>3
<1>6. CASE CannotChunk(s)
    <2>1. pc'[s] = "done" /\ result'[s] # ENOERR /\ done'[s] = 0
        BY <1>2, <1>6 DEF Begin, CannotChunk, NoSndbuf, SendTypeOK, ENOERR
    <2> QED
        BY <1>3, <1>5, <2>1 DEF SenderInv, RunInv, ChunksOK, ENOERR
<1>7. CASE StartsToSend(s)
    <2>1. pc'[s] = "send" /\ depth'[s] = 1
        BY <1>7 DEF StartsToSend, SendTypeOK
    <2>2. Chunked(s) => Chunk > 0 /\ Chunk < len[s]
        BY <1>1, <1>7, SizesOK DEF StartsToSend, Chunked, Chunk, SendTypeOK
    <2>3. Offset(s) = 0
        BY <1>1, <1>2, OneChunkMore DEF Offset
    <2>4. 1 <= Runs(s) /\ RunLen(s) >= 0
        <3>1. CASE Chunked(s)
            <4> DEFINE q == len[s] \div Chunk
                       r == len[s] % Chunk
            <4>1. q \in Nat /\ r \in Nat /\ r < Chunk /\ len[s] = (q * Chunk) + r
                BY <1>1, <2>2, <3>1, DivMod
            <4>2. Runs(s) = q + (IF r = 0 THEN 0 ELSE 1)
                BY <3>1 DEF Runs
            <4>3. RunLen(s) \in {r, Chunk}
                BY <3>1 DEF RunLen
            <4> HIDE DEF q, r
            <4>4. q # 0
                <5>1. 0 * Chunk = 0
                    BY <1>1, OneChunkMore
                <5> SUFFICES ASSUME q = 0
                             PROVE  FALSE
                    OBVIOUS
                <5>2. len[s] = r
                    BY <1>1, <4>1, <5>1
                <5> QED
                    BY <1>1, <2>2, <3>1, <4>1, <5>2
            <4> QED
                BY <1>1, <4>1, <4>2, <4>3, <4>4
        <3>2. CASE ~Chunked(s)
            BY <1>1, <3>2 DEF Runs, RunLen
        <3> QED
            BY <3>1, <3>2
    <2>5. RunInv(s)'
        <3>1. /\ i'[s] = 0 /\ done'[s] = 0 /\ bytes_sent'[s] = 0
            BY <1>2 DEF Begin
        <3> QED
            BY <1>4, <2>1, <2>2, <2>3, <2>4, <3>1 DEF RunInv
    <2> QED
        BY <1>3, <1>5, <2>1, <2>5 DEF SenderInv, ChunksOK
<1> QED
    BY <1>6, <1>7 DEF Begin

\* What sendto() takes is a piece of the message that begins where the one
\* before it ended.
LEMMA PieceFollows ==
    ASSUME SendTypeOK, NEW s \in Senders, SenderInv(s), pc[s] = "send",
           NEW n \in Takes(s), UNCHANGED asked,
           wire' = [wire EXCEPT ![s] = Append(@, NextPiece(s, n))]
    PROVE  /\ n \in Nat /\ done[s] + n <= RunLen(s) /\ done[s] + n \in Nat
           /\ kind = "dgram" => done[s] + n = RunLen(s)
           /\ wire' \in [Senders -> Seq(Piece)]
           /\ Sent(s)' = Offset(s) + done[s] + n
           /\ Follows(s)'
<1>1. /\ done[s] \in Nat /\ done[s] <= RunLen(s) /\ RunLen(s) \in Nat
      /\ Offset(s) \in Nat /\ Offset(s) + RunLen(s) <= len[s]
      /\ bytes_sent[s] = Offset(s)
    BY RunsFit, SenderTypes DEF SenderInv, RunInv
<1>2. len[s] \in Nat /\ len[s] <= MaxLen /\ MaxLen \in Nat /\ wire[s] \in Seq(Piece)
    BY SenderTypes
<1>3. /\ n \in Nat /\ done[s] + n <= RunLen(s) /\ done[s] + n \in Nat
      /\ kind = "dgram" => done[s] + n = RunLen(s)
    <2>1. Remaining(s) \in Nat /\ Remaining(s) + done[s] = RunLen(s)
        BY <1>1 DEF Remaining
    <2>2. n \in Nat /\ n <= Remaining(s) /\ (kind = "dgram" => n = Remaining(s))
        <3>1. CASE kind = "dgram" \/ Remaining(s) = 0
            BY <2>1, <3>1 DEF Takes
        <3>2. CASE ~(kind = "dgram" \/ Remaining(s) = 0)
            BY <2>1, <3>2 DEF Takes
        <3> QED
            BY <3>1, <3>2
    <2> QED
        BY <1>1, <2>1, <2>2
<1> DEFINE e == NextPiece(s, n)
<1>4. e \in Piece /\ e.first = Offset(s) + done[s] + 1 /\ e.last = Offset(s) + done[s] + n
    <2>1. Offset(s) + done[s] + 1 \in 1 .. MaxLen + 1
        BY <1>1, <1>2, <1>3
    <2>2. Offset(s) + done[s] + n \in 0 .. MaxLen
        BY <1>1, <1>2, <1>3
    <2> QED
        BY <2>1, <2>2 DEF NextPiece, Piece
<1>5. e.last <= len[s]
    BY <1>1, <1>2, <1>3, <1>4
<1>6. Sent(s) \in Nat /\ e.first = Sent(s) + 1
    <2>1. bytes_sent[s] + done[s] = Sent(s)
        BY <1>1 DEF SenderInv, CountOK, Failed
    <2> QED
        BY <1>1, <1>4, <2>1
<1> HIDE DEF e
<1>7. wire' = [wire EXCEPT ![s] = Append(wire[s], e)]
    BY DEF e
<1>8. wire'[s] = Append(wire[s], e) /\ wire' \in [Senders -> Seq(Piece)]
    BY <1>2, <1>4, <1>7 DEF SendTypeOK
<1>9. /\ Len(wire'[s]) = Len(wire[s]) + 1 /\ Len(wire[s]) \in Nat /\ wire'[s] # << >>
      /\ wire'[s][Len(wire[s]) + 1] = e
      /\ \A k \in 1 .. Len(wire[s]) : wire'[s][k] = wire[s][k]
    BY <1>2, <1>4, <1>8
<1>10. Sent(s)' = Offset(s) + done[s] + n
    BY <1>4, <1>9 DEF Sent
<1>11. Follows(s)'
    <2>1. ASSUME NEW k \in 1 .. Len(wire'[s])
          PROVE  wire'[s][k].first = (IF k = 1 THEN 1 ELSE wire'[s][k - 1].last + 1)
        <3>1. CASE k \in 1 .. Len(wire[s])
            <4>1. k # 1 => k - 1 \in 1 .. Len(wire[s])
                BY <1>9, <3>1
            <4> QED
                BY <1>9, <3>1, <4>1 DEF SenderInv, Follows
        <3>2. CASE k = Len(wire[s]) + 1 /\ wire[s] = << >>
            <4>1. k = 1 /\ Sent(s) = 0
                BY <3>2 DEF Sent
            <4> QED
                BY <1>6, <1>9, <3>2, <4>1
        <3>3. CASE k = Len(wire[s]) + 1 /\ wire[s] # << >>
            <4>1. k # 1 /\ k - 1 = Len(wire[s]) /\ k - 1 \in 1 .. Len(wire[s])
                BY <1>2, <1>9, <3>3
            <4>2. Sent(s) = wire[s][Len(wire[s])].last
                BY <3>3 DEF Sent
            <4> QED
                BY <1>6, <1>9, <3>3, <4>1, <4>2
        <3> QED
            BY <1>9, <2>1, <3>1, <3>2, <3>3
    <2>2. wire'[s][Len(wire'[s])].last <= len'[s]
        BY <1>5, <1>9 DEF asked
    <2> QED
        BY <2>1, <2>2 DEF Follows
<1> QED
    BY <1>3, <1>8, <1>10, <1>11

\* A run ends: the next one starts where it ended, or the sender is done.
LEMMA EndRunKeeps ==
    ASSUME SendTypeOK, NEW s \in Senders, SenderInv(s), pc[s] = "send", UNCHANGED asked,
           NEW n \in Nat, NEW res \in Results, EndRun(s, n, res), n <= RunLen(s),
           (kind = "dgram" \/ s \in plain) /\ res = ENOERR => n = RunLen(s),
           wire' \in [Senders -> Seq(Piece)], Sent(s)' = Offset(s) + n, Follows(s)'
    PROVE  SendTypeOK' /\ SenderInv(s)'
<1>1. /\ RunLen(s) \in Nat /\ Offset(s) \in Nat /\ bytes_sent[s] = Offset(s)
      /\ i[s] \in Nat /\ Chunk \in Nat /\ len[s] \in Nat
    BY RunsFit, SenderTypes DEF SenderInv, RunInv
<1>2. /\ bytes_sent' \in [Senders -> Nat \cup {Failed}] /\ bytes_sent'[s] = Offset(s) + n
    <2>1. Total(s, n) = Offset(s) + n /\ Offset(s) + n \in Nat
        BY <1>1 DEF Total, Failed
    <2> QED
        BY <2>1 DEF EndRun, SendTypeOK
<1>3. /\ result' \in [Senders -> Results] /\ result'[s] = res
      /\ done' \in [Senders -> Nat] /\ done'[s] = 0
    BY DEF EndRun, SendTypeOK
<1>4. CountOK(s)'
    BY <1>1, <1>2, <1>3 DEF CountOK, Failed
<1>5. Chunked(s)' = Chunked(s) /\ Chunk' = Chunk /\ Runs(s)' = Runs(s)
    BY DEF asked, Chunked, Chunk, Runs
<1>6. CASE n = RunLen(s) /\ res = ENOERR /\ ~IsLastRun(s)
    <2>1. /\ i' = [i EXCEPT ![s] = @ + 1] /\ depth' = [depth EXCEPT ![s] = 1] /\ pc' = pc
        BY <1>6 DEF EndRun
    <2>2. /\ i' \in [Senders -> Nat] /\ depth' \in [Senders -> Nat]
          /\ i'[s] = i[s] + 1 /\ depth'[s] = 1 /\ pc'[s] = "send"
        BY <1>1, <2>1 DEF SendTypeOK
    <2>3. SendTypeOK'
        BY <1>2, <1>3, <2>1, <2>2 DEF SendTypeOK, asked
    <2>4. /\ Chunked(s) /\ i[s] + 2 <= Runs(s)
          /\ (i[s] + 1) * Chunk = Offset(s) + RunLen(s)
        BY <1>6, RunsFit DEF SenderInv
    <2>5. Offset(s)' = (i[s] + 1) * Chunk
        BY <1>5, <2>2, <2>4 DEF Offset
    <2>6. RunLen(s)' \in Nat
        <3>1. Chunk > 0
            BY <2>4 DEF SenderInv, RunInv
        <3>2. len[s] % Chunk \in Nat
            BY <1>1, <3>1, DivMod
        <3>3. RunLen(s)' \in {len[s] % Chunk, Chunk}
            BY <1>5, <2>4 DEF RunLen, asked
        <3> QED
            BY <1>1, <3>2, <3>3
    <2>7. i'[s] + 1 <= Runs(s)'
        <3>1. Runs(s) \in Int
            <4>1. Chunk > 0
                BY <2>4 DEF SenderInv, RunInv
            <4>2. len[s] \div Chunk \in Nat
                BY <1>1, <4>1, DivMod
            <4> QED
                BY <2>4, <4>2 DEF Runs
        <3> QED
            BY <1>1, <1>5, <2>2, <2>4, <3>1
    <2>8. RunInv(s)'
        <3>1. bytes_sent'[s] = Offset(s)'
            BY <1>2, <1>6, <2>4, <2>5
        <3>2. done'[s] <= RunLen(s)' /\ depth'[s] >= 1
            BY <1>3, <2>2, <2>6
        <3>3. Chunked(s)' => Chunk' > 0
            BY <1>5 DEF SenderInv, RunInv
        <3> QED
            BY <1>3, <2>2, <2>7, <3>1, <3>2, <3>3 DEF RunInv
    <2> QED
        BY <1>4, <2>2, <2>3, <2>8 DEF SenderInv, ChunksOK
<1>7. CASE ~(n = RunLen(s) /\ res = ENOERR /\ ~IsLastRun(s))
    <2>1. /\ pc' = [pc EXCEPT ![s] = "done"] /\ depth' = [depth EXCEPT ![s] = 0] /\ i' = i
        BY <1>7 DEF EndRun
    <2>2. /\ pc' \in [Senders -> {"start", "send", "done"}] /\ depth' \in [Senders -> Nat]
          /\ pc'[s] = "done"
        BY <2>1 DEF SendTypeOK
    <2>3. SendTypeOK'
        BY <1>2, <1>3, <2>1, <2>2 DEF SendTypeOK, asked
    <2>4. RunInv(s)'
        BY <1>3, <2>2 DEF RunInv
    <2>5. ChunksOK(s)'
        <3>1. ASSUME kind = "dgram", Chunked(s), res = ENOERR
              PROVE  Sent(s)' = (IF len[s] % Chunk = 0 THEN len[s] - Chunk ELSE len[s])
            <4>1. n = RunLen(s) /\ IsLastRun(s)
                BY <1>7, <3>1
            <4> QED
                BY <3>1, <4>1, RunsFit DEF SenderInv
        <3>2. ASSUME s \in plain, res = ENOERR
              PROVE  Sent(s)' = len[s]
            <4>1. ~Chunked(s)
                BY <3>2 DEF SendTypeOK, Chunked
            <4>2. n = len[s] /\ Offset(s) = 0
                BY <3>2, <4>1 DEF RunLen, Offset
            <4> QED
                BY <1>1, <4>2
        <3> QED
            BY <1>3, <1>5, <3>1, <3>2 DEF ChunksOK, asked
    <2> QED
        BY <1>4, <2>3, <2>4, <2>5 DEF SenderInv
<1> QED
    BY <1>6, <1>7

\* The first call of a run fails: send_to_chunk() returns what the runs before it
\* sent, and send_to() returns -1.
LEMMA FirstCallFails ==
    ASSUME SendTypeOK, NEW s \in Senders, SenderInv(s), pc[s] = "send", depth[s] = 1,
           UNCHANGED <<asked, wire>>, EndRun(s, Failed, "error")
    PROVE  SendTypeOK' /\ SenderInv(s)'
<1>1. /\ RunLen(s) \in Nat /\ Offset(s) \in Nat /\ bytes_sent[s] = Offset(s) /\ done[s] = 0
    BY RunsFit DEF SenderInv, RunInv
<1>2. Sent(s) = Offset(s) /\ Sent(s)' = Sent(s)
    BY <1>1 DEF SenderInv, CountOK, Failed, Sent
<1>3. ENOERR # "error" /\ "error" \in Results /\ Failed # RunLen(s)
    BY <1>1 DEF ENOERR, Results, Failed
<1>4. /\ bytes_sent' \in [Senders -> Nat \cup {Failed}]
      /\ bytes_sent'[s] = IF Chunked(s) THEN Offset(s) ELSE Failed
    <2>1. Total(s, Failed) = IF Chunked(s) THEN Offset(s) ELSE Failed
        BY <1>1 DEF Total
    <2>2. Total(s, Failed) \in Nat \cup {Failed}
        BY <1>1, <2>1
    <2> QED
        BY <2>1, <2>2 DEF EndRun, SendTypeOK
<1>5. /\ result' \in [Senders -> Results] /\ result'[s] = "error"
      /\ done' \in [Senders -> Nat] /\ done'[s] = 0
    BY <1>3 DEF EndRun, SendTypeOK
<1>6. /\ pc' \in [Senders -> {"start", "send", "done"}] /\ pc'[s] = "done"
      /\ depth' \in [Senders -> Nat] /\ i' = i
    <2>1. /\ pc' = [pc EXCEPT ![s] = "done"] /\ depth' = [depth EXCEPT ![s] = 0]
          /\ UNCHANGED i
        BY <1>3 DEF EndRun
    <2> QED
        BY <2>1 DEF SendTypeOK
<1>7. SendTypeOK'
    BY <1>4, <1>5, <1>6 DEF SendTypeOK, asked
<1>8. Follows(s)'
    BY DEF SenderInv, Follows, asked
<1>9. CountOK(s)'
    <2>1. ~Chunked(s) => Offset(s) = 0
        BY DEF Offset
    <2> QED
        BY <1>1, <1>2, <1>3, <1>4, <1>5, <2>1 DEF CountOK, Failed
<1>10. RunInv(s)' /\ ChunksOK(s)'
    BY <1>3, <1>5, <1>6 DEF RunInv, ChunksOK
<1> QED
    BY <1>7, <1>8, <1>9, <1>10 DEF SenderInv

\* sendto() takes some of the run.
LEMMA TransmitKeeps ==
    ASSUME SendTypeOK, NEW s \in Senders, SenderInv(s), NEW n, Transmit(s, n)
    PROVE  SendTypeOK' /\ SenderInv(s)'
<1>1. /\ pc[s] = "send" /\ n \in Takes(s) /\ UNCHANGED asked
      /\ wire' = [wire EXCEPT ![s] = Append(@, NextPiece(s, n))]
    BY DEF Transmit
<1>2. /\ n \in Nat /\ done[s] + n <= RunLen(s) /\ done[s] + n \in Nat
      /\ kind = "dgram" => done[s] + n = RunLen(s)
      /\ wire' \in [Senders -> Seq(Piece)]
      /\ Sent(s)' = Offset(s) + done[s] + n
      /\ Follows(s)'
    BY <1>1, PieceFollows
<1>3. /\ Offset(s) \in Nat /\ RunLen(s) \in Nat /\ bytes_sent[s] = Offset(s)
      /\ done[s] \in Nat /\ depth[s] \in Nat /\ depth[s] >= 1
    BY <1>1, RunsFit, SenderTypes DEF SenderInv, RunInv
<1>4. CASE done[s] + n = RunLen(s)
    <2>1. EndRun(s, RunLen(s), ENOERR)
        BY <1>4 DEF Transmit
    <2>2. Sent(s)' = Offset(s) + RunLen(s)
        BY <1>2, <1>3, <1>4
    <2>3. ENOERR \in Results
        BY DEF Results
    <2> QED
        BY <1>1, <1>2, <1>3, <2>1, <2>2, <2>3, EndRunKeeps
<1>5. CASE done[s] + n # RunLen(s)
    <2>1. /\ done' = [done EXCEPT ![s] = @ + n] /\ depth' = [depth EXCEPT ![s] = @ + 1]
          /\ UNCHANGED <<pc, i, bytes_sent, result>>
        BY <1>5 DEF Transmit
    <2>2. /\ done' \in [Senders -> Nat] /\ done'[s] = done[s] + n
        BY <1>2, <2>1 DEF SendTypeOK
    <2>3. /\ depth' \in [Senders -> Nat] /\ depth'[s] = depth[s] + 1
        BY <1>3, <2>1 DEF SendTypeOK
    <2>4. SendTypeOK'
        BY <1>1, <1>2, <2>1, <2>2, <2>3 DEF SendTypeOK, asked
    <2>5. kind # "dgram"
        BY <1>2, <1>5
    <2>6. /\ Chunked(s)' = Chunked(s) /\ Chunk' = Chunk /\ Runs(s)' = Runs(s)
          /\ Offset(s)' = Offset(s) /\ RunLen(s)' = RunLen(s)
        BY <1>1, <2>1 DEF asked, Chunked, Chunk, Runs, Offset, RunLen, IsLastRun
    <2>7. pc'[s] = "send" /\ bytes_sent'[s] = Offset(s) /\ i'[s] = i[s]
        BY <1>1, <1>3, <2>1
    <2>8. RunInv(s)'
        BY <1>1, <1>2, <1>3, <2>2, <2>3, <2>5, <2>6, <2>7 DEF asked, SenderInv, RunInv
    <2>9. CountOK(s)'
        BY <1>2, <1>3, <2>2, <2>7 DEF CountOK, Failed
    <2> QED
        BY <1>2, <2>4, <2>7, <2>8, <2>9 DEF SenderInv, ChunksOK
<1> QED
    BY <1>4, <1>5

\* sendto() fails: the run ends with what was sent of it, or is tried again.
LEMMA RefuseKeeps ==
    ASSUME SendTypeOK, NEW s \in Senders, SenderInv(s), Refuse(s)
    PROVE  SendTypeOK' /\ SenderInv(s)'
<1>1. pc[s] = "send" /\ UNCHANGED asked /\ wire' = wire
    BY DEF Refuse
<1>2. /\ Offset(s) \in Nat /\ RunLen(s) \in Nat /\ bytes_sent[s] = Offset(s)
      /\ done[s] \in Nat /\ done[s] <= RunLen(s) /\ depth[s] \in Nat /\ depth[s] >= 1
    BY <1>1, RunsFit, SenderTypes DEF SenderInv, RunInv
<1>3. wire' \in [Senders -> Seq(Piece)] /\ Follows(s)' /\ Sent(s)' = Sent(s)
    BY <1>1 DEF SendTypeOK, SenderInv, Follows, Sent, asked
<1>4. Sent(s) = Offset(s) + done[s]
    BY <1>2 DEF SenderInv, CountOK, Failed
<1>5. ENOERR # "error" /\ ENOERR \in Results /\ "error" \in Results
    BY DEF ENOERR, Results
<1>6. (kind = "dgram" => depth[s] = 1) /\ (depth[s] = 1 => done[s] = 0)
    BY <1>1 DEF SenderInv, RunInv
<1>0. CASE s \in plain
    <2>1. EndRun(s, done[s], "error")
        BY <1>0 DEF Refuse, SendToFails, SendSocketFails
    <2> QED
        BY <1>1, <1>2, <1>3, <1>4, <1>5, <2>1, EndRunKeeps
<1>7. CASE s \notin plain /\ depth[s] = 1
    <2>1. EndRun(s, Failed, "error")
        BY <1>7 DEF Refuse, SendToFails, SendSocketFails
    <2> QED
        BY <1>1, <1>7, <2>1, FirstCallFails
<1>8. CASE s \notin plain /\ depth[s] # 1 /\ GivesUp(s)
    <2>1. EndRun(s, done[s], ENOERR)
        BY <1>8 DEF Refuse, SendToFails, SendSocketFails
    <2> QED
        BY <1>1, <1>2, <1>3, <1>4, <1>5, <1>6, <1>8, <2>1, EndRunKeeps
<1>9. CASE s \notin plain /\ depth[s] # 1 /\ ~GivesUp(s)
    <2>1. depth' = [depth EXCEPT ![s] = @ - 1] /\ UNCHANGED <<pc, i, done, bytes_sent, result>>
        BY <1>9 DEF Refuse, SendToFails, SendSocketFails
    <2>2. depth[s] - 1 \in Nat /\ depth[s] - 1 >= 2
        BY <1>2, <1>9 DEF GivesUp
    <2>3. depth' \in [Senders -> Nat] /\ depth'[s] = depth[s] - 1
        BY <2>1, <2>2 DEF SendTypeOK
    <2>4. SendTypeOK'
        BY <1>1, <2>1, <2>3 DEF SendTypeOK, asked
    <2>5. /\ Chunked(s)' = Chunked(s) /\ Chunk' = Chunk /\ Runs(s)' = Runs(s)
          /\ Offset(s)' = Offset(s) /\ RunLen(s)' = RunLen(s)
        BY <1>1, <2>1 DEF asked, Chunked, Chunk, Runs, Offset, RunLen, IsLastRun
    <2>6. kind' # "dgram"
        BY <1>1, <1>6, <1>9 DEF asked
    <2>7. RunInv(s)'
        BY <1>1, <1>2, <2>1, <2>2, <2>3, <2>5, <2>6 DEF SenderInv, RunInv
    <2>8. CountOK(s)' /\ ChunksOK(s)'
        BY <1>1, <1>3, <2>1, <2>6 DEF SenderInv, CountOK, ChunksOK
    <2> QED
        BY <1>3, <2>4, <2>7, <2>8 DEF SenderInv
<1> QED
    BY <1>0, <1>7, <1>8, <1>9

\* Every step of one sender keeps what is said of all of them; the kernel only
\* ever has more of a message.
LEMMA SendersKeep ==
    ASSUME SendTypeOK, \A t \in Senders : SenderInv(t), NEW s \in Senders,
           Begin(s) \/ (\E n \in 0 .. MaxLen : Transmit(s, n)) \/ Refuse(s)
    PROVE  SendTypeOK' /\ \A t \in Senders : SenderInv(t)'
<1>1. SendTypeOK' /\ SenderInv(s)'
    BY BeginKeeps, TransmitKeeps, RefuseKeeps
<1>2. ASSUME NEW t \in Senders, t # s
      PROVE  /\ UNCHANGED asked
             /\ pc'[t] = pc[t] /\ i'[t] = i[t] /\ done'[t] = done[t] /\ depth'[t] = depth[t]
             /\ bytes_sent'[t] = bytes_sent[t] /\ result'[t] = result[t]
             /\ wire'[t] = wire[t]
    <2>1. CASE Begin(s)
        BY <1>2, <2>1 DEF Begin, CannotChunk, StartsToSend, SendTypeOK
    <2>2. ASSUME NEW n, NEW res, EndRun(s, n, res)
          PROVE  /\ pc'[t] = pc[t] /\ i'[t] = i[t] /\ done'[t] = done[t]
                 /\ depth'[t] = depth[t] /\ bytes_sent'[t] = bytes_sent[t]
                 /\ result'[t] = result[t]
        BY <1>2, <2>2 DEF EndRun, SendTypeOK
    <2>3. CASE Refuse(s)
        BY <1>2, <2>2, <2>3 DEF Refuse, SendToFails, SendSocketFails, SendTypeOK
    <2>4. ASSUME NEW n, Transmit(s, n)
          PROVE  /\ UNCHANGED asked
                 /\ pc'[t] = pc[t] /\ i'[t] = i[t] /\ done'[t] = done[t]
                 /\ depth'[t] = depth[t] /\ bytes_sent'[t] = bytes_sent[t]
                 /\ result'[t] = result[t] /\ wire'[t] = wire[t]
        BY <1>2, <2>2, <2>4 DEF Transmit, SendTypeOK
    <2> QED
        BY <2>1, <2>3, <2>4
<1>3. \A t \in Senders : t # s => SenderInv(t)'
    BY <1>2, OthersKeep
<1> QED
    BY <1>1, <1>3

(***************************************************************************)
(* The network and the server.                                             *)
(***************************************************************************)
\* A datagram that is cut to its own size is not cut.
LEMMA NothingIsCut ==
    ASSUME NEW d \in Datagram
    PROVE  Cut(d, Size(d.piece)) = d
<1>1. d.piece \in Piece /\ d.piece.first \in Int /\ d.piece.last \in Int
    BY DEF Datagram, Piece
<1>2. Size(d.piece) \in Int /\ d.piece.first + Size(d.piece) - 1 = d.piece.last
    BY <1>1 DEF Size
<1>3. ~(Size(d.piece) < Size(d.piece))
    BY <1>2
<1>4. Cut(d, Size(d.piece)) = [d EXCEPT !.piece = [@ EXCEPT !.last = d.piece.last]]
    BY <1>2, <1>3 DEF Cut
<1>5. [d.piece EXCEPT !.last = d.piece.last] = d.piece
    BY <1>1 DEF Piece
<1> QED
    BY <1>4, <1>5 DEF Datagram

\* The next datagram leaves the queue, and the others move up.
LEMMA TailOfSeq ==
    ASSUME NEW S, NEW q \in Seq(S), q # << >>
    PROVE  /\ Head(q) = q[1] /\ 1 \in DOMAIN q /\ Head(q) \in S /\ Tail(q) \in Seq(S)
           /\ \A k \in DOMAIN Tail(q) : /\ k + 1 \in DOMAIN q /\ k \in Nat /\ k + 1 # 1
                                        /\ Tail(q)[k] = q[k + 1]
OBVIOUS

\* One element more.
LEMMA AppendToSeq ==
    ASSUME NEW S, NEW q \in Seq(S), NEW e \in S
    PROVE  /\ Append(q, e) \in Seq(S) /\ Append(q, e) # << >>
           /\ DOMAIN Append(q, e) = DOMAIN q \cup {Len(q) + 1}
           /\ Len(q) + 1 \notin DOMAIN q
           /\ Append(q, e)[Len(q) + 1] = e
           /\ \A k \in DOMAIN q : Append(q, e)[k] = q[k]
           /\ q # << >> => Head(Append(q, e)) = Head(q)
OBVIOUS

\* A step of the network or of the server leaves the senders alone.
LEMMA SendersUntouched ==
    ASSUME SendTypeOK, \A t \in Senders : SenderInv(t), UNCHANGED send_vars
    PROVE  /\ SendTypeOK' /\ (\A t \in Senders : SenderInv(t)')
           /\ wire' = wire /\ UNCHANGED asked
<1>1. /\ wire' = wire /\ UNCHANGED asked /\ pc' = pc /\ i' = i /\ done' = done
      /\ depth' = depth /\ bytes_sent' = bytes_sent /\ result' = result
    BY DEF send_vars, progress
<1>2. SendTypeOK'
    BY <1>1 DEF SendTypeOK, asked
<1> QED
    BY <1>1, <1>2, OthersKeep

\* The initial state.
LEMMA InitInv == Init => IInv
<1> SUFFICES ASSUME Init
             PROVE  IInv
    OBVIOUS
<1>1. SendTypeOK
    BY DEF Init, SendInit, SendTypeOK, Results
<1>2. ASSUME NEW s \in Senders
      PROVE  SenderInv(s)
    <2>1. /\ pc[s] = "start" /\ i[s] = 0 /\ done[s] = 0 /\ bytes_sent[s] = 0
          /\ wire[s] = << >>
        BY DEF Init, SendInit
    <2>2. Sent(s) = 0 /\ Len(wire[s]) = 0
        BY <2>1 DEF Sent
    <2> QED
        BY <2>1, <2>2 DEF SenderInv, RunInv, Follows, CountOK, ChunksOK, Failed
<1>3. TypeOK
    <2>1. data_size \in 0 .. MaxLen
        BY SizesOK DEF Init
    <2> QED
        BY <1>1, <2>1 DEF Init, TypeOK
<1>4. DatagramsInv /\ PeekInv
    BY DEF Init, DatagramsInv, PeekInv
<1> QED
    BY <1>2, <1>3, <1>4 DEF IInv

\* A sender's step that sends nothing.
LEMMA QuietSender ==
    ASSUME IInv, NEW s \in Senders, Begin(s) \/ Refuse(s), UNCHANGED <<net, queue, server>>
    PROVE  IInv'
<1>1. SendTypeOK' /\ \A t \in Senders : SenderInv(t)'
    BY SendersKeep DEF IInv, TypeOK
<1>2. wire' = wire
    BY DEF Begin, Refuse
<1>3. TypeOK'
    BY <1>1 DEF server, IInv, TypeOK
<1>4. DatagramsInv' /\ PeekInv'
    BY <1>2 DEF server, IInv, DatagramsInv, WasSent, PeekInv
<1> QED
    BY <1>1, <1>3, <1>4 DEF IInv

\* sendto() on a datagram socket puts a datagram on its way that was nowhere.
LEMMA SendKeeps ==
    ASSUME IInv, NEW s \in Senders, Send(s)
    PROVE  IInv'
<1>1. PICK n \in 0 .. MaxLen : Transmit(s, n)
    BY DEF Send
<1>2. SendTypeOK' /\ \A t \in Senders : SenderInv(t)'
    BY <1>1, SendersKeep DEF IInv, TypeOK
<1>3. /\ wire[s] \in Seq(Piece) /\ SenderInv(s) /\ SendTypeOK
      /\ wire' \in [Senders -> Seq(Piece)] /\ wire \in [Senders -> Seq(Piece)]
    BY <1>2 DEF IInv, TypeOK, SendTypeOK
<1> DEFINE e == NextPiece(s, n)
<1>4. wire'[s] = Append(wire[s], e)
    BY <1>1, <1>3 DEF Transmit
<1>5. /\ wire'[s] # << >> /\ Len(wire'[s]) = Len(wire[s]) + 1 /\ Len(wire[s]) \in Nat
      /\ Len(wire'[s]) \in DOMAIN wire'[s] /\ Len(wire'[s]) \notin DOMAIN wire[s]
      /\ \A k \in DOMAIN wire[s] : k \in DOMAIN wire'[s] /\ wire'[s][k] = wire[s][k]
    <2> HIDE DEF e
    <2>1. wire'[s] \in Seq(Piece)
        BY <1>3
    <2> QED
        BY <1>3, <1>4, <2>1
<1>6. \A t \in Senders \ {s} : wire'[t] = wire[t]
    BY <1>1, <1>3 DEF Transmit
<1> HIDE DEF e
<1>7. PICK d \in Datagram : /\ d.from = s /\ d.nr = Len(wire'[s])
                            /\ d.piece = wire'[s][Len(wire'[s])]
                            /\ net' \subseteq net \cup {d}
    <2>1. wire'[s][Len(wire'[s])] \in Piece /\ Len(wire'[s]) \in Nat
        BY <1>3, <1>5
    <2>2. [from |-> s, nr |-> Len(wire'[s]), piece |-> Last(wire'[s])] \in Datagram
        BY <2>1 DEF Datagram, Last
    <2>3. net' \subseteq net \cup {[from |-> s, nr |-> Len(wire'[s]), piece |-> Last(wire'[s])]}
        BY DEF Send
    <2> QED
        BY <2>2, <2>3 DEF Last
<1>8. ASSUME NEW x \in Datagram, WasSent(wire, x)
      PROVE  WasSent(wire', x) /\ x # d
    <2>1. x.from \in Senders
        BY DEF Datagram
    <2>2. CASE x.from = s
        BY <1>5, <1>7, <1>8, <2>2 DEF WasSent
    <2>3. CASE x.from # s
        BY <1>6, <1>7, <1>8, <2>1, <2>3 DEF WasSent
    <2> QED
        BY <2>2, <2>3
<1>9. WasSent(wire', d)
    BY <1>5, <1>7 DEF WasSent
<1>10. queue' = queue /\ spc' = spc /\ data_size' = data_size /\ printed' = printed
    BY DEF Send, server
<1>11. /\ net \subseteq Datagram
       /\ \A k \in DOMAIN queue : queue[k] \in Datagram
       /\ \A k \in DOMAIN printed : printed[k] \in Datagram
    BY DEF IInv, TypeOK
<1>12. TypeOK'
    BY <1>2, <1>7, <1>10, <1>11 DEF IInv, TypeOK
<1>13. DatagramsInv'
    <2>1. \A x \in net' : WasSent(wire', x)
        BY <1>7, <1>8, <1>9, <1>11 DEF IInv, DatagramsInv
    <2>2. \A k \in DOMAIN queue : WasSent(wire', queue[k]) /\ queue[k] \notin net'
        BY <1>7, <1>8, <1>11 DEF IInv, DatagramsInv
    <2>3. \A k \in DOMAIN printed : WasSent(wire', printed[k]) /\ printed[k] \notin net'
        BY <1>7, <1>8, <1>11 DEF IInv, DatagramsInv
    <2> QED
        BY <1>10, <2>1, <2>2, <2>3 DEF IInv, DatagramsInv
<1>14. PeekInv'
    BY <1>10 DEF IInv, PeekInv
<1> QED
    BY <1>2, <1>12, <1>13, <1>14 DEF IInv

\* A datagram arrives, whichever of those on their way.
LEMMA ArriveKeeps == IInv /\ Arrive => IInv'
<1> SUFFICES ASSUME IInv, NEW d \in net, net' = net \ {d}, queue' = Append(queue, d),
                    UNCHANGED <<send_vars, server>>
             PROVE  IInv'
    BY DEF Arrive
<1>1. /\ SendTypeOK' /\ (\A t \in Senders : SenderInv(t)') /\ wire' = wire
    BY SendersUntouched DEF IInv, TypeOK
<1>2. queue \in Seq(Datagram) /\ d \in Datagram
    BY DEF IInv, TypeOK
<1>3. /\ queue' \in Seq(Datagram) /\ queue' # << >>
      /\ DOMAIN queue' = DOMAIN queue \cup {Len(queue) + 1}
      /\ Len(queue) + 1 \notin DOMAIN queue
      /\ queue'[Len(queue) + 1] = d
      /\ \A k \in DOMAIN queue : queue'[k] = queue[k]
      /\ queue # << >> => Head(queue') = Head(queue)
    BY <1>2, AppendToSeq
<1>4. printed' = printed /\ spc' = spc /\ data_size' = data_size
    BY DEF server
<1>5. TypeOK'
    BY <1>1, <1>3, <1>4 DEF IInv, TypeOK
<1>6. DatagramsInv'
    <2>1. \A x \in net' : WasSent(wire', x)
        BY <1>1 DEF IInv, DatagramsInv
    <2>2. WasSent(wire', d) /\ d \notin net' /\ \A k \in DOMAIN queue : queue[k] # d
        BY <1>1 DEF IInv, DatagramsInv
    <2>3. \A k \in DOMAIN queue' : WasSent(wire', queue'[k]) /\ queue'[k] \notin net'
        BY <1>1, <1>3, <2>2 DEF IInv, DatagramsInv
    <2>4. \A k \in DOMAIN printed : WasSent(wire', printed[k]) /\ printed[k] \notin net'
        BY <1>1 DEF IInv, DatagramsInv
    <2>5. \A j \in DOMAIN queue', k \in DOMAIN printed : queue'[j] # printed[k]
        BY <1>3 DEF IInv, DatagramsInv
    <2>6. \A j, k \in DOMAIN queue' : queue'[j] = queue'[k] => j = k
        BY <1>3, <2>2 DEF IInv, DatagramsInv
    <2> QED
        BY <1>4, <2>1, <2>3, <2>4, <2>5, <2>6 DEF IInv, DatagramsInv
<1>7. PeekInv'
    BY <1>3, <1>4 DEF IInv, PeekInv
<1> QED
    BY <1>1, <1>5, <1>6, <1>7 DEF IInv

\* A datagram is lost.
LEMMA LoseKeeps == IInv /\ Lose => IInv'
<1> SUFFICES ASSUME IInv, NEW d \in net, net' = net \ {d},
                    UNCHANGED <<send_vars, queue, server>>
             PROVE  IInv'
    BY DEF Lose
<1>1. /\ SendTypeOK' /\ (\A t \in Senders : SenderInv(t)') /\ wire' = wire
    BY SendersUntouched DEF IInv, TypeOK
<1>2. TypeOK'
    BY <1>1 DEF server, IInv, TypeOK
<1>3. DatagramsInv' /\ PeekInv'
    BY <1>1 DEF server, IInv, DatagramsInv, PeekInv
<1> QED
    BY <1>1, <1>2, <1>3 DEF IInv

\* The size of the next datagram is peeked at.
LEMMA SizeItKeeps == IInv /\ SizeIt => IInv'
<1> SUFFICES ASSUME IInv, SizeIt
             PROVE  IInv'
    OBVIOUS
<1>1. /\ SendTypeOK' /\ (\A t \in Senders : SenderInv(t)') /\ wire' = wire
    BY SendersUntouched DEF SizeIt, IInv, TypeOK
<1>2. queue # << >> /\ data_size' = Size(Head(queue).piece) /\ Size(Head(queue).piece) > 0
    <2>1. queue # << >>
        BY DEF SizeIt, IsData, Peeked
    <2> QED
        BY <2>1 DEF SizeIt, IsData, Peeked
<1>3. Head(queue) \in Datagram
    BY <1>2, TailOfSeq DEF IInv, TypeOK
<1>4. data_size' \in 0 .. MaxLen
    <2>1. Head(queue).piece \in Piece
        BY <1>3 DEF Datagram
    <2>2. /\ Head(queue).piece.first \in Int /\ Head(queue).piece.first >= 1
          /\ Head(queue).piece.last \in Int /\ Head(queue).piece.last <= MaxLen
          /\ MaxLen \in Nat
        BY <2>1, SizesOK DEF Piece
    <2> QED
        BY <1>2, <2>2 DEF Size
<1>5. TypeOK'
    BY <1>1, <1>4 DEF SizeIt, IInv, TypeOK
<1>6. DatagramsInv' /\ PeekInv'
    BY <1>1, <1>2 DEF SizeIt, IInv, DatagramsInv, PeekInv
<1> QED
    BY <1>1, <1>5, <1>6 DEF IInv

\* The datagram is received, whole, and printed.
LEMMA ReceiveKeeps == IInv /\ Receive => IInv'
<1> SUFFICES ASSUME IInv, Receive
             PROVE  IInv'
    OBVIOUS
<1>1. /\ SendTypeOK' /\ (\A t \in Senders : SenderInv(t)') /\ wire' = wire
    BY SendersUntouched DEF Receive, IInv, TypeOK
<1>2. /\ queue # << >> /\ queue' = Tail(queue) /\ spc' = "size" /\ data_size' = data_size
      /\ net' = net /\ queue \in Seq(Datagram) /\ printed \in Seq(Datagram)
    BY DEF Receive, RestOf, IInv, TypeOK
<1> DEFINE d == Head(queue)
<1>3. /\ d = queue[1] /\ 1 \in DOMAIN queue /\ d \in Datagram /\ queue' \in Seq(Datagram)
      /\ \A k \in DOMAIN queue' : /\ k + 1 \in DOMAIN queue /\ k \in Nat /\ k + 1 # 1
                                  /\ queue'[k] = queue[k + 1]
    BY <1>2, TailOfSeq
<1>4. Cut(d, data_size) = d
    <2>1. data_size = Size(d.piece)
        BY DEF Receive, IInv, PeekInv
    <2> QED
        BY <1>3, <2>1, NothingIsCut
<1>5. printed' = Append(printed, d)
    BY <1>4 DEF Receive
<1> HIDE DEF d
<1>6. /\ printed' \in Seq(Datagram)
      /\ DOMAIN printed' = DOMAIN printed \cup {Len(printed) + 1}
      /\ Len(printed) + 1 \notin DOMAIN printed
      /\ printed'[Len(printed) + 1] = d
      /\ \A k \in DOMAIN printed : printed'[k] = printed[k]
    BY <1>2, <1>3, <1>5, AppendToSeq
<1>7. TypeOK'
    BY <1>1, <1>2, <1>3, <1>6 DEF IInv, TypeOK
<1>8. DatagramsInv'
    <2>1. \A x \in net' : WasSent(wire', x)
        BY <1>1, <1>2 DEF IInv, DatagramsInv
    <2>2. \A k \in DOMAIN queue' : WasSent(wire', queue'[k]) /\ queue'[k] \notin net'
        BY <1>1, <1>2, <1>3 DEF IInv, DatagramsInv
    <2>3. \A k \in DOMAIN printed' : WasSent(wire', printed'[k]) /\ printed'[k] \notin net'
        BY <1>1, <1>2, <1>3, <1>6 DEF IInv, DatagramsInv
    <2>4. \A j, k \in DOMAIN queue' : queue'[j] = queue'[k] => j = k
        <3> SUFFICES ASSUME NEW j \in DOMAIN queue', NEW k \in DOMAIN queue',
                            queue'[j] = queue'[k]
                     PROVE  j = k
            OBVIOUS
        <3>1. j + 1 = k + 1
            BY <1>3 DEF IInv, DatagramsInv
        <3> QED
            BY <1>3, <3>1
    <2>5. \A k \in DOMAIN queue' : queue'[k] # d
        BY <1>3 DEF IInv, DatagramsInv
    <2>6. \A j \in DOMAIN queue', k \in DOMAIN printed' : queue'[j] # printed'[k]
        BY <1>3, <1>6, <2>5 DEF IInv, DatagramsInv
    <2>7. \A k \in DOMAIN printed : printed[k] # d
        BY <1>3 DEF IInv, DatagramsInv
    <2>8. \A j, k \in DOMAIN printed' : printed'[j] = printed'[k] => j = k
        BY <1>6, <2>7 DEF IInv, DatagramsInv
    <2> QED
        BY <2>1, <2>2, <2>3, <2>4, <2>6, <2>8 DEF DatagramsInv
<1>9. PeekInv'
    BY <1>2 DEF PeekInv
<1> QED
    BY <1>1, <1>7, <1>8, <1>9 DEF IInv

\* Every step keeps the invariant.
LEMMA NextInv == IInv /\ [Next]_vars => IInv'
<1> SUFFICES ASSUME IInv, [Next]_vars
             PROVE  IInv'
    OBVIOUS
<1>1. ASSUME NEW s \in Senders, Client(s) \/ Refused(s)
      PROVE  IInv'
    BY <1>1, QuietSender DEF Client, Refused
<1>2. ASSUME NEW s \in Senders, Send(s)
      PROVE  IInv'
    BY <1>2, SendKeeps
<1>3. CASE Arrive \/ Lose \/ SizeIt \/ Receive
    BY <1>3, ArriveKeeps, LoseKeeps, SizeItKeeps, ReceiveKeeps
<1>4. CASE ServerStops \/ UNCHANGED vars
    <2>1. /\ UNCHANGED <<send_vars, net, queue, data_size, printed>>
          /\ spc' \in {spc, "stopped"}
        BY <1>4 DEF ServerStops, vars, server
    <2>2. /\ SendTypeOK' /\ (\A t \in Senders : SenderInv(t)') /\ wire' = wire
        BY <2>1, SendersUntouched DEF IInv, TypeOK
    <2>3. TypeOK'
        BY <2>1, <2>2 DEF IInv, TypeOK
    <2>4. DatagramsInv' /\ PeekInv'
        BY <2>1, <2>2 DEF IInv, DatagramsInv, PeekInv
    <2> QED
        BY <2>2, <2>3, <2>4 DEF IInv
<1> QED
    BY <1>1, <1>2, <1>3, <1>4 DEF Next

(***************************************************************************)
(* The theorems.                                                           *)
(***************************************************************************)
\* The invariant holds in every state of every run.
THEOREM Invariant == Spec => []IInv
<1> QED
    BY InitInv, NextInv, PTL DEF Spec

\* Every variable of the senders, the network and the server keeps its type.
THEOREM TypeCorrect == Spec => []TypeOK
<1>1. IInv => TypeOK
    BY DEF IInv
<1> QED
    BY <1>1, Invariant, PTL

\* send_to_socket(): what the kernel has is a beginning of the message, over
\* chunks, partial sends and errors.
THEOREM BeginningIsSent == Spec => []PiecesFollow
<1>1. IInv => PiecesFollow
    BY DEF IInv, SenderInv, Follows, PiecesFollow
<1> QED
    BY <1>1, Invariant, PTL

\* What send_to() and send_to_chunk() return is how much the kernel has, or -1 when
\* it has nothing.
THEOREM CountIsKept == Spec => []CountIsRight
<1>1. IInv => CountIsRight
    BY DEF IInv, SenderInv, CountOK, CountIsRight
<1> QED
    BY <1>1, Invariant, PTL

\* send_to_chunk(): a success leaves out nothing but a whole last chunk.
THEOREM SuccessLacksOneChunk == Spec => []ChunksAreSent
<1>1. IInv => ChunksAreSent
    BY DEF IInv, SenderInv, ChunksOK, ChunksAreSent
<1> QED
    BY <1>1, Invariant, PTL

\* recv_from_socket(): the server prints whole datagrams, each at most once.
THEOREM DatagramsArePrinted == Spec => []PrintedWasSent
<1>1. IInv => PrintedWasSent
    <2> SUFFICES ASSUME IInv
                 PROVE  PrintedWasSent
        OBVIOUS
    <2>1. \A k \in DOMAIN printed : WasSent(wire, printed[k])
        BY DEF IInv, DatagramsInv
    <2>2. IsInjective(printed)
        BY DEF IInv, DatagramsInv, IsInjective
    <2> QED
        BY <2>1, <2>2 DEF PrintedWasSent, WasSent
<1> QED
    BY <1>1, Invariant, PTL
=============================================================================
