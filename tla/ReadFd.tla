-------------------------------- MODULE ReadFd --------------------------------
(***************************************************************************)
(* read_fd(): one caller reads a descriptor into a heap buffer until end   *)
(* of file, while the other end of the descriptor writes and hangs up.     *)
(*                                                                         *)
(* One step is one round of the loop: a read(2), with the growing of the   *)
(* buffer and the copy that follow it.  A read returns some, not           *)
(* necessarily all, of what is there; a descriptor with O_NONBLOCK fails   *)
(* with EAGAIN when nothing is; any read may fail (EIO stands for the      *)
(* other errnos, EINTR among them) and any allocation may (ENOMEM).        *)
(***************************************************************************)
EXTENDS GrowBuffer

CONSTANTS
    MaxData,   \* bound on the bytes the other end writes
    Stacks     \* the texts that may lie on the stack behind local_buf

ASSUME ReadFdBounds == MaxData \in Nat /\ Stacks \subseteq Seq(Byte \ {NUL})

VARIABLES
    pc,             \* where read_fd is
    data,           \* the bytes written to the descriptor so far
    closed,         \* no writer is left
    nonblock,       \* O_NONBLOCK
    stack,          \* the text behind local_buf
    taken,          \* bytes read(2) has returned so far
    text, size,     \* *output_buf and *output_size
    behind,         \* bytes strncat has written behind *output_buf
    read_something, \* one read worked
    result          \* the errno of the call

vars == <<pc, data, closed, nonblock, stack, taken, text, size, behind,
          read_something, result>>
fd == <<data, closed, nonblock, stack>>

Errno == {"ENOERR", "EAGAIN", "EIO", "ENOMEM", "EOVERFLOW"}

Init ==
    /\ pc = "alloc"
    /\ data = << >>
    /\ closed = FALSE
    /\ nonblock \in BOOLEAN
    /\ stack \in Stacks
    /\ taken = 0
    /\ text = << >>
    /\ size = 0
    /\ behind = 0
    /\ read_something = FALSE
    /\ result = "ENOERR"

(***************************************************************************)
(* The other end of the descriptor.                                        *)
(***************************************************************************)
PeerWrites ==
    /\ ~closed
    /\ Len(data) < MaxData
    /\ data' \in {Append(data, Len(data) + 1), Append(data, NUL)}
    /\ UNCHANGED <<pc, closed, nonblock, stack, taken, text, size,
                   behind, read_something, result>>

PeerCloses ==
    /\ ~closed
    /\ closed' = TRUE
    /\ UNCHANGED <<pc, data, nonblock, stack, taken, text, size,
                   behind, read_something, result>>

(***************************************************************************)
(* The call.                                                               *)
(***************************************************************************)

\* An error: the buffer is freed and the size forgotten.
Fails(errno) ==
    /\ pc' = "done"
    /\ result' = errno
    /\ text' = Freed
    /\ size' = 0

\* alloc_skid_mem() returns NULL.
AllocFails == Fails("ENOMEM")

\* check_for_pre_alloc
PreAlloc ==
    /\ pc = "alloc"
    /\ \/ pc' = "reading" /\ size' = BuffSize /\ UNCHANGED <<text, result>>
       \/ AllocFails
    /\ UNCHANGED <<fd, taken, behind, read_something>>

\* check_for_space
HasRoomToSpare(n, len, sz) == n > 0 /\ sz > 0 /\ sz - len > n
HasRoom(n, len, sz) == n > 0 /\ sz > 0 /\ sz - len >= n

\* The sizes one read(2) may return.
ReadSizes == 1 .. Min2(BuffSize, Len(data) - taken)

AfterCopyWide(n, sz) ==
    Strncat(text, LocalString(SubSeq(data, taken + 1, taken + n), stack), sz)

AfterCopy(n, sz) ==
    Strncat(text, LocalString(SubSeq(data, taken + 1, taken + n), stack),
            sz - Len(text))

\* The chunk goes behind the text, and a NUL behind that.
Copies(n, sz) ==
    /\ text' = AfterCopy(n, sz)
    /\ behind' = IF Behind(text', sz) > behind THEN Behind(text', sz) ELSE behind

Took(n) == taken' = taken + n /\ read_something' = TRUE

ReadFits ==
    /\ pc = "reading"
    /\ \E n \in ReadSizes :
          /\ HasRoom(n, Len(text), size)
          /\ Copies(n, size)
          /\ Took(n)
    /\ UNCHANGED <<pc, fd, size, result>>

\* No room: the buffer is doubled first.  Should there still be no room (the
\* "Logic Failure"), the chunk is dropped, errno is set and the loop goes on.
ReadGrows ==
    /\ pc = "reading"
    /\ CanDouble(size)
    /\ size' = Doubled(size)
    /\ \E n \in ReadSizes :
          /\ ~HasRoom(n, Len(text), size)
          /\ IF HasRoom(n, Len(text), Doubled(size))
             THEN Copies(n, Doubled(size)) /\ UNCHANGED result
             ELSE result' = "EOVERFLOW" /\ UNCHANGED <<text, behind>>
          /\ Took(n)
    /\ UNCHANGED <<pc, fd>>

\* realloc_fd_dynamic fails.
GrowFails ==
    /\ pc = "reading"
    /\ \E n \in ReadSizes : ~HasRoom(n, Len(text), size) /\ Took(n)
    /\ Fails(IF CanDouble(size) THEN "ENOMEM" ELSE "EOVERFLOW")
    /\ UNCHANGED <<fd, behind>>

\* Only a read of nothing is the end; a short one is not.
AtEofShort == taken = Len(data) /\ (closed \/ read_something)
AtEofAfterData == closed /\ taken = Len(data) /\ read_something
AtEof == closed /\ taken = Len(data)

ReadEof ==
    /\ pc = "reading"
    /\ AtEof
    /\ pc' = "verify"
    /\ UNCHANGED <<fd, taken, text, size, behind, read_something, result>>

\* EAGAIN ends the call well if anything was read before.
ReadAgain ==
    /\ pc = "reading"
    /\ nonblock
    /\ ~closed
    /\ taken = Len(data)
    /\ IF read_something
       THEN /\ pc' = "verify"
            /\ result' = "ENOERR"
            /\ UNCHANGED <<text, size>>
       ELSE Fails("EAGAIN")
    /\ UNCHANGED <<fd, taken, behind, read_something>>

ReadFails ==
    /\ pc = "reading"
    /\ Fails("EIO")
    /\ UNCHANGED <<fd, taken, behind, read_something>>

\* A text that fills its buffer, whose NUL is behind it, is copied to one with
\* room for both.
UnterminatedOffByOne == Len(text) = size + 1
Unterminated == Len(text) = size

Verify ==
    /\ pc = "verify"
    /\ IF result # "ENOERR" THEN Fails(result)
       ELSE IF Unterminated
       THEN \/ /\ size' = CopySize(text)
               /\ pc' = "done"
               /\ UNCHANGED <<text, result>>
            \/ AllocFails
       ELSE pc' = "done" /\ UNCHANGED <<text, size, result>>
    /\ UNCHANGED <<fd, taken, behind, read_something>>

Call ==
    \/ PreAlloc
    \/ ReadFits
    \/ ReadGrows
    \/ GrowFails
    \/ ReadEof
    \/ ReadAgain
    \/ Verify

Next == PeerWrites \/ PeerCloses \/ Call \/ ReadFails

Spec == Init /\ [][Next]_vars

\* The caller runs, and read(2) returns once there is data or an end; that it
\* fails is not counted on.
FairSpec == Spec /\ WF_vars(Call)
-----------------------------------------------------------------------------
TypeOK ==
    /\ pc \in {"alloc", "reading", "verify", "done"}
    /\ data \in Seq(Byte)
    /\ closed \in BOOLEAN
    /\ nonblock \in BOOLEAN
    /\ stack \in Stacks
    /\ taken \in 0 .. Len(data)
    /\ text \in Seq(Byte)
    /\ size \in 0 .. MaxSize + 1
    /\ behind \in Nat
    /\ read_something \in BOOLEAN
    /\ result \in Errno

\* The text never outgrows its buffer, whatever the reads return and whatever
\* lies on the stack: strncat's bound and the doubling keep in step.
TextFits ==
    /\ Len(text) <= size
    /\ pc = "reading" => size \in BuffSize .. MaxSize

\* A call that succeeds returns a string whose terminator is inside its buffer.
ReturnsAString ==
    pc = "done" /\ result = "ENOERR" => Extent(text) <= size

\* check_for_space has no byte to spare for the terminator, so that strncat
\* writes it behind a buffer that a read fills.
NoWriteBehind == behind = 0

\* That byte, a NUL, is all that is ever written behind the buffer, while it is
\* being filled; what is returned is inside, its terminator included.
StringFits == TextFits /\ behind <= 1 /\ ReturnsAString

\* EOVERFLOW is only reported of a stream that does not fit the buffer at its
\* largest, never of one byte less, and never by the "Logic Failure" branch.
\* (Text taken from the stack needs room too.)
RefusedOnlyWhenFull ==
    [][result # "EOVERFLOW" /\ result' = "EOVERFLOW" =>
          /\ ~CanDouble(size)
          /\ stack = << >> => taken' > size]_vars

\* Success means everything: a blocking read_fd of a text returns all of it,
\* a non-blocking one a part that is not empty unless the stream is.
TextOnly == NUL \notin {data[i] : i \in 1 .. Len(data)}

ReturnsWhatWasRead ==
    TextOnly /\ stack = << >> /\ pc = "done" /\ result = "ENOERR" =>
        /\ text = SubSeq(data, 1, taken)
        /\ ~nonblock => text = data
        /\ text = << >> => closed /\ data = << >>

\* The same without regard to what lies behind local_buf: "the contents of the
\* file descriptor", whatever the length of the text.
ReturnsTheContents ==
    TextOnly /\ pc = "done" /\ result = "ENOERR" => text = SubSeq(data, 1, taken)

\* Once the other end hung up, the call returns.
CallEnds == closed ~> pc = "done"

\* The strengthening that makes the invariants above inductive: no error is set
\* before the end, so far the text is what was read, and a call that is past
\* the loop saw the end of the stream or was told there is no more for now.
NoErrorYet == pc # "done" => result = "ENOERR"

SizeInRange ==
    /\ pc = "alloc" => size = 0
    /\ pc \in {"reading", "verify"} => size \in BuffSize .. MaxSize

TextWasTaken == stack = << >> => Len(text) <= taken

ReadSoFar ==
    TextOnly /\ stack = << >> /\ result = "ENOERR" =>
        text = SubSeq(data, 1, taken)

SawTheEnd ==
    /\ read_something => taken > 0
    /\ pc \in {"verify", "done"} /\ result = "ENOERR" =>
          (closed /\ taken = Len(data)) \/ (nonblock /\ read_something)

IInv ==
    /\ TypeOK
    /\ StringFits
    /\ NoErrorYet
    /\ SizeInRange
    /\ TextWasTaken
    /\ ReadSoFar
    /\ SawTheEnd
===============================================================================
