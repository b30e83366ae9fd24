------------------------------ MODULE GrowBuffer ------------------------------
(***************************************************************************)
(* The growing buffer of read_fd_dynamic() and recv_socket_dynamic(): a    *)
(* local buffer of BuffSize bytes is filled by one read(2) or recv(2) and  *)
(* strncat()ed onto a heap buffer that doubles when there is no room.      *)
(*                                                                         *)
(* A byte is a number: NUL, or the place a text byte had in its stream.    *)
(* The heap buffer is its text, which a NUL ends, and its size.  What lies *)
(* on the stack behind local_buf is outside the program's control: the     *)
(* text found there, up to the next NUL, is a parameter.                   *)
(***************************************************************************)
EXTENDS Integers, Sequences, FiniteSets

CONSTANTS
    BuffSize,  \* SKID_FD_BUFF_SIZE and SKID_NET_BUFF_SIZE
    MaxSize    \* SKID_MAX_SZ

ASSUME BuffSizePositive == BuffSize \in Nat \ {0}
ASSUME MaxSizeHoldsOne == MaxSize \in Nat /\ MaxSize >= BuffSize

NUL == 0
Byte == Int
Min2(a, b) == IF a <= b THEN a ELSE b

\* The C string a sequence of bytes starts with: what no NUL comes before.
CString(bytes) ==
    SubSeq(bytes, 1, Cardinality({k \in 1 .. Len(bytes) :
                                     \A i \in 1 .. k : bytes[i] # NUL}))

\* What strncat finds in local_buf: it was zeroized before the read, so a
\* short chunk is terminated; a full one runs on into the stack.
LocalString(chunk, stack) ==
    CString(IF Len(chunk) < BuffSize THEN chunk ELSE chunk \o stack)

\* strncat(text, source, n): at most n bytes of the source, and then a NUL.
Strncat(text, source, n) == text \o SubSeq(source, 1, Min2(n, Len(source)))

\* The bytes a string takes, its NUL included.
Extent(string) == Len(string) + 1

\* How many of them lie behind a buffer of that size.
Behind(string, size) ==
    IF Extent(string) > size THEN Extent(string) - size ELSE 0

\* realloc_fd_dynamic and realloc_sock_dynamic double the size, unless that
\* overflows size_t.
CanDoubleAlways(size) == TRUE
CanDouble(size) == size <= MaxSize - size

Doubled(size) == 2 * size

\* copy_skid_string() allocates what the string and its terminator need.
CopySize(string) == Extent(string)

\* free_skid_mem() makes the pointer NULL: there is no text.
Freed == << >>
===============================================================================
