----------------------------- MODULE ReadFd_proofs -----------------------------
(***************************************************************************)
(* Proofs about ReadFd, for every buffer size, maximum size and stream:    *)
(* the text always fits its buffer, a call that succeeds returns a string, *)
(* and what it returns is what it read.  The inductive invariant is IInv.  *)
(* The second part is about RecvSocket, an instance over the same buffer:  *)
(* there is always room for the terminator, and the text is the datagrams  *)
(* in the order in which they were sent.                                   *)
(***************************************************************************)
EXTENDS ReadFd, TLAPS, SequenceTheorems, FiniteSetTheorems

(***************************************************************************)
(* What the operators of GrowBuffer return.                                *)
(***************************************************************************)
\* A C string is a part of its bytes, and all of them when no NUL is there.
LEMMA CStringProperties ==
    ASSUME NEW bytes \in Seq(Byte)
    PROVE  /\ CString(bytes) \in Seq(Byte)
           /\ Len(CString(bytes)) <= Len(bytes)
           /\ (\A i \in 1 .. Len(bytes) : bytes[i] # NUL) =>
                  CString(bytes) = SubSeq(bytes, 1, Len(bytes))
<1> DEFINE S == {k \in 1 .. Len(bytes) : \A i \in 1 .. k : bytes[i] # NUL}
           n == Cardinality(S)
<1>1. Len(bytes) \in Nat /\ \A i \in 1 .. Len(bytes) : bytes[i] \in Byte
  BY LenProperties
<1>2. /\ IsFiniteSet(1 .. Len(bytes))
      /\ Cardinality(1 .. Len(bytes)) = IF 1 > Len(bytes) THEN 0
                                        ELSE Len(bytes) - 1 + 1
  BY <1>1, FS_Interval
<1>3. Cardinality(1 .. Len(bytes)) = Len(bytes)
  BY <1>1, <1>2
<1>4. S \in SUBSET (1 .. Len(bytes))
  OBVIOUS
<1>5. IsFiniteSet(S) /\ n <= Len(bytes)
  BY <1>2, <1>3, <1>4, FS_Subset
<1>6. n \in Nat
  BY <1>5, FS_CardinalityType
<1> HIDE DEF n
<1>7. CString(bytes) = SubSeq(bytes, 1, n)
  BY DEF CString, n
<1>8. \A i \in 1 .. n : bytes[i] \in Byte
  BY <1>1, <1>5, <1>6
<1>9. /\ SubSeq(bytes, 1, n) \in Seq(Byte)
      /\ Len(SubSeq(bytes, 1, n)) = IF 1 <= n THEN n - 1 + 1 ELSE 0
  BY <1>6, <1>8, SubSeqProperties
<1>10. Len(SubSeq(bytes, 1, n)) = n
  BY <1>6, <1>9
<1>11. ASSUME \A i \in 1 .. Len(bytes) : bytes[i] # NUL
       PROVE  n = Len(bytes)
  <2>1. S = 1 .. Len(bytes)
    BY <1>1, <1>11
  <2> QED
    BY <1>3, <2>1 DEF n
<1> QED
  BY <1>5, <1>7, <1>9, <1>10, <1>11

\* strncat finds bytes in local_buf: no more than the chunk and the stack, and
\* no more than the chunk when the stack starts with a NUL.
LEMMA LocalStringProperties ==
    ASSUME NEW chunk \in Seq(Byte), NEW tail \in Seq(Byte)
    PROVE  /\ LocalString(chunk, tail) \in Seq(Byte)
           /\ tail = << >> => Len(LocalString(chunk, tail)) <= Len(chunk)
           /\ tail = << >> /\ (\A i \in 1 .. Len(chunk) : chunk[i] # NUL) =>
                  LocalString(chunk, tail) = SubSeq(chunk, 1, Len(chunk))
<1>1. chunk \o tail \in Seq(Byte)
  BY ConcatProperties
<1>2. tail = << >> => chunk \o tail = chunk
  BY ConcatEmptySeq
<1>3. LocalString(chunk, tail) \in {CString(chunk), CString(chunk \o tail)}
  BY DEF LocalString
<1> QED
  BY <1>1, <1>2, <1>3, CStringProperties

\* strncat adds at most n bytes, and at most its source.
LEMMA StrncatProperties ==
    ASSUME NEW string \in Seq(Byte), NEW source \in Seq(Byte), NEW n \in Nat
    PROVE  /\ Strncat(string, source, n) \in Seq(Byte)
           /\ Len(Strncat(string, source, n)) <= Len(string) + n
           /\ Len(Strncat(string, source, n)) <= Len(string) + Len(source)
<1> DEFINE m == Min2(n, Len(source))
<1>1. Len(string) \in Nat /\ Len(source) \in Nat
      /\ \A i \in 1 .. Len(source) : source[i] \in Byte
  BY LenProperties
<1>2. m \in Nat /\ m <= n /\ m <= Len(source)
  BY <1>1 DEF Min2
<1> HIDE DEF m
<1>3. \A i \in 1 .. m : source[i] \in Byte
  BY <1>1, <1>2
<1>4. /\ SubSeq(source, 1, m) \in Seq(Byte)
      /\ Len(SubSeq(source, 1, m)) = IF 1 <= m THEN m - 1 + 1 ELSE 0
  BY <1>2, <1>3, SubSeqProperties
<1>5. Len(SubSeq(source, 1, m)) = m
  BY <1>2, <1>4
<1>6. Strncat(string, source, n) = string \o SubSeq(source, 1, m)
  BY DEF Strncat, m
<1>7. /\ string \o SubSeq(source, 1, m) \in Seq(Byte)
      /\ Len(string \o SubSeq(source, 1, m))
             = Len(string) + Len(SubSeq(source, 1, m))
  BY <1>4, ConcatProperties
<1> QED
  BY <1>1, <1>2, <1>5, <1>6, <1>7

\* A part of a sequence of bytes.
LEMMA PartProperties ==
    ASSUME NEW bytes \in Seq(Byte), NEW m \in Nat \ {0}, NEW n \in Nat,
           n <= Len(bytes)
    PROVE  /\ SubSeq(bytes, m, n) \in Seq(Byte)
           /\ Len(SubSeq(bytes, m, n)) = IF m <= n THEN n - m + 1 ELSE 0
           /\ \A i \in 1 .. n - m + 1 : SubSeq(bytes, m, n)[i] = bytes[m + i - 1]
<1>1. \A i \in m .. n : bytes[i] \in Byte
  BY LenProperties
<1> QED
  BY <1>1, SubSeqProperties

\* What read(2) took next, appended to what it took before, is what it took.
LEMMA NextPart ==
    ASSUME NEW bytes \in Seq(Byte), NEW t \in 0 .. Len(bytes),
           NEW n \in Nat, t + n <= Len(bytes)
    PROVE  /\ SubSeq(bytes, t + 1, t + n) \in Seq(Byte)
           /\ Len(SubSeq(bytes, t + 1, t + n)) = n
           /\ \A i \in 1 .. n : SubSeq(bytes, t + 1, t + n)[i] = bytes[t + i]
           /\ SubSeq(bytes, 1, t) \o SubSeq(bytes, t + 1, t + n)
                  = SubSeq(bytes, 1, t + n)
<1>1. Len(bytes) \in Nat /\ \A i \in 1 .. Len(bytes) : bytes[i] \in Byte
  BY LenProperties
<1> DEFINE a == SubSeq(bytes, 1, t)
           b == SubSeq(bytes, t + 1, t + n)
           c == SubSeq(bytes, 1, t + n)
<1>2. t \in Nat /\ t + n \in Nat /\ t + 1 \in Nat \ {0} /\ 1 \in Nat \ {0}
      /\ t <= Len(bytes)
  BY <1>1
<1>3. /\ a \in Seq(Byte)
      /\ Len(a) = IF 1 <= t THEN t - 1 + 1 ELSE 0
      /\ \A i \in 1 .. t - 1 + 1 : a[i] = bytes[1 + i - 1]
  BY <1>2, PartProperties
<1>4. /\ b \in Seq(Byte)
      /\ Len(b) = IF t + 1 <= t + n THEN t + n - (t + 1) + 1 ELSE 0
      /\ \A i \in 1 .. t + n - (t + 1) + 1 : b[i] = bytes[t + 1 + i - 1]
  BY <1>2, PartProperties
<1>5. /\ c \in Seq(Byte)
      /\ Len(c) = IF 1 <= t + n THEN t + n - 1 + 1 ELSE 0
      /\ \A i \in 1 .. t + n - 1 + 1 : c[i] = bytes[1 + i - 1]
  BY <1>2, PartProperties
<1> HIDE DEF a, b, c
<1>6. Len(a) = t /\ Len(b) = n /\ Len(c) = t + n
  BY <1>3, <1>4, <1>5
<1>7. /\ \A i \in 1 .. t : a[i] = bytes[i]
      /\ \A i \in 1 .. n : b[i] = bytes[t + i]
      /\ \A i \in 1 .. t + n : c[i] = bytes[i]
  BY <1>3, <1>4, <1>5
<1>8. /\ a \o b \in Seq(Byte)
      /\ Len(a \o b) = t + n
      /\ \A i \in 1 .. t + n : (a \o b)[i] = IF i <= t THEN a[i] ELSE b[i - t]
  <2>1. /\ a \o b \in Seq(Byte)
        /\ Len(a \o b) = Len(a) + Len(b)
        /\ \A i \in 1 .. Len(a) + Len(b) :
              (a \o b)[i] = IF i <= Len(a) THEN a[i] ELSE b[i - Len(a)]
    BY <1>3, <1>4, ConcatProperties
  <2> QED
    BY <1>6, <2>1
<1>9. \A i \in 1 .. t + n : (a \o b)[i] = c[i]
  BY <1>7, <1>8
<1>10. a \o b = c
  BY <1>5, <1>6, <1>8, <1>9, SeqEqual
<1> QED
  BY <1>4, <1>6, <1>7, <1>10 DEF a, b, c

(***************************************************************************)
(* The inductive invariant.                                                *)
(***************************************************************************)
\* The stack holds a sequence of bytes.
LEMMA StackType == ASSUME TypeOK PROVE stack \in Seq(Byte)
<1>1. stack \in Seq(Byte \ {NUL})
  BY ReadFdBounds DEF TypeOK
<1>2. Len(stack) \in Nat /\ \A i \in 1 .. Len(stack) : stack[i] \in Byte
  BY <1>1, LenProperties
<1> QED
  BY <1>1, <1>2, SeqDef DEF Byte

\* The initial state satisfies the inductive invariant.
LEMMA InitIInv == Init => IInv
<1> SUFFICES ASSUME Init PROVE IInv
  OBVIOUS
<1>1. << >> \in Seq(Byte) /\ Len(<< >>) = 0 /\ SubSeq(<< >>, 1, 0) = << >>
  BY EmptySeq, SubSeqEmpty
<1>2. /\ pc = "alloc" /\ data = << >> /\ text = << >> /\ taken = 0 /\ size = 0
      /\ read_something = FALSE /\ result = "ENOERR" /\ closed = FALSE
      /\ behind = 0 /\ nonblock \in BOOLEAN /\ stack \in Stacks
  BY DEF Init
<1>3. TypeOK
  <2>1. data \in Seq(Byte) /\ text \in Seq(Byte) /\ taken \in 0 .. Len(data)
    BY <1>1, <1>2
  <2>2. size \in 0 .. MaxSize + 1
    BY <1>2, MaxSizeHoldsOne
  <2> QED
    BY <1>2, <2>1, <2>2 DEF TypeOK, Errno
<1>4. StringFits /\ NoErrorYet /\ SizeInRange
  BY <1>1, <1>2 DEF StringFits, TextFits, ReturnsAString, NoErrorYet, SizeInRange
<1>5. TextWasTaken /\ ReadSoFar /\ SawTheEnd
  BY <1>1, <1>2 DEF TextWasTaken, ReadSoFar, SawTheEnd
<1> QED
  BY <1>3, <1>4, <1>5 DEF IInv

\* The sizes and the room the loop works with.
LEMMA ReadingFacts ==
    ASSUME IInv, pc = "reading", NEW n \in ReadSizes
    PROVE  /\ n \in 1 .. BuffSize /\ taken \in 0 .. Len(data)
           /\ taken + n <= Len(data) /\ Len(data) \in Nat
           /\ size \in BuffSize .. MaxSize
           /\ Len(text) \in 0 .. size
           /\ BuffSize \in Nat \ {0} /\ MaxSize \in Nat
           /\ result = "ENOERR"
<1>1. Len(data) \in Nat /\ Len(text) \in Nat
  BY LenProperties DEF IInv, TypeOK
<1> QED
  BY <1>1, BuffSizePositive, MaxSizeHoldsOne
  DEF IInv, TypeOK, ReadSizes, Min2, StringFits, TextFits, NoErrorYet

\* One round of the loop adds at most what was read, and all of it when it is
\* text and nothing lies behind local_buf.
LEMMA AfterCopyProperties ==
    ASSUME IInv, pc = "reading", NEW n \in ReadSizes,
           NEW sz \in Nat, HasRoom(n, Len(text), sz)
    PROVE  /\ AfterCopy(n, sz) \in Seq(Byte)
           /\ Len(AfterCopy(n, sz)) <= sz
           /\ stack = << >> => Len(AfterCopy(n, sz)) <= Len(text) + n
           /\ TextOnly /\ stack = << >> =>
                  AfterCopy(n, sz) = SubSeq(data, 1, taken + n)
<1> DEFINE chunk == SubSeq(data, taken + 1, taken + n)
           src == LocalString(chunk, stack)
<1>1. /\ n \in 1 .. BuffSize /\ taken \in 0 .. Len(data)
      /\ taken + n <= Len(data) /\ Len(data) \in Nat
      /\ Len(text) \in Nat /\ BuffSize \in Nat /\ result = "ENOERR"
  BY ReadingFacts
<1>2. data \in Seq(Byte) /\ text \in Seq(Byte) /\ stack \in Seq(Byte)
  BY StackType DEF IInv, TypeOK
<1>3. n \in Nat /\ sz - Len(text) \in Nat /\ sz - Len(text) >= n
  BY <1>1 DEF HasRoom
<1>4. /\ chunk \in Seq(Byte) /\ Len(chunk) = n
      /\ \A i \in 1 .. n : chunk[i] = data[taken + i]
      /\ SubSeq(data, 1, taken) \o chunk = SubSeq(data, 1, taken + n)
  BY <1>1, <1>2, <1>3, NextPart
<1> HIDE DEF chunk
<1>5. /\ src \in Seq(Byte)
      /\ stack = << >> => Len(src) <= n
      /\ stack = << >> /\ (\A i \in 1 .. n : chunk[i] # NUL) =>
            src = SubSeq(chunk, 1, n)
  BY <1>2, <1>4, LocalStringProperties
<1> HIDE DEF src
<1>6. AfterCopy(n, sz) = Strncat(text, src, sz - Len(text))
  BY DEF AfterCopy, src, chunk
<1>7. /\ Strncat(text, src, sz - Len(text)) \in Seq(Byte)
      /\ Len(Strncat(text, src, sz - Len(text))) <= Len(text) + (sz - Len(text))
      /\ Len(Strncat(text, src, sz - Len(text))) <= Len(text) + Len(src)
  BY <1>2, <1>3, <1>5, StrncatProperties
<1>8. Len(src) \in Nat /\ Len(AfterCopy(n, sz)) \in Nat
  BY <1>5, <1>6, <1>7, LenProperties
<1>9. ASSUME TextOnly, stack = << >>
      PROVE  AfterCopy(n, sz) = SubSeq(data, 1, taken + n)
  <2>1. \A i \in 1 .. n : chunk[i] # NUL
    BY <1>1, <1>4, <1>9 DEF TextOnly
  <2>2. /\ SubSeq(chunk, 1, n) \in Seq(Byte) /\ Len(SubSeq(chunk, 1, n)) = n
        /\ \A i \in 1 .. n : SubSeq(chunk, 1, n)[i] = chunk[i]
    BY <1>1, <1>3, <1>4, PartProperties
  <2>3. SubSeq(chunk, 1, n) = chunk
    BY <1>4, <2>2, SeqEqual
  <2>4. src = chunk
    BY <1>5, <1>9, <2>1, <2>3
  <2>5. Strncat(text, src, sz - Len(text)) = text \o SubSeq(chunk, 1, n)
    BY <1>3, <1>4, <2>4 DEF Strncat, Min2
  <2>6. text = SubSeq(data, 1, taken)
    BY <1>1, <1>9 DEF IInv, ReadSoFar
  <2> QED
    BY <1>4, <1>6, <2>3, <2>5, <2>6
<1> QED
  BY <1>1, <1>3, <1>5, <1>6, <1>7, <1>8, <1>9

\* A step of the peer adds to the stream, behind what was read, or ends it.
LEMMA StepPeer ==
    ASSUME IInv, PeerWrites \/ PeerCloses
    PROVE  IInv'
<1>1. CASE PeerWrites
  <2>1. PICK c \in Byte : data' = Append(data, c)
    <3>1. Len(data) + 1 \in Byte /\ NUL \in Byte
      BY LenProperties DEF IInv, TypeOK, Byte, NUL
    <3> QED
      BY <1>1, <3>1 DEF PeerWrites
  <2>2. /\ data \in Seq(Byte) /\ data' \in Seq(Byte)
        /\ Len(data') = Len(data) + 1 /\ Len(data) \in Nat
        /\ \A i \in 1 .. Len(data) : data'[i] = data[i]
    BY <2>1, LenProperties, AppendProperties DEF IInv, TypeOK
  <2>3. /\ ~closed /\ pc' = pc /\ closed' = closed /\ nonblock' = nonblock
        /\ stack' = stack /\ taken' = taken /\ text' = text /\ size' = size
        /\ read_something' = read_something /\ result' = result
        /\ behind' = behind
    BY <1>1 DEF PeerWrites
  <2>4. taken \in 0 .. Len(data) /\ taken \in Nat
    BY <2>2 DEF IInv, TypeOK
  <2>5. TypeOK'
    BY <2>2, <2>3 DEF IInv, TypeOK
  <2>6. SubSeq(data', 1, taken) = SubSeq(data, 1, taken)
    <3>1. /\ SubSeq(data, 1, taken) \in Seq(Byte)
          /\ Len(SubSeq(data, 1, taken)) = IF 1 <= taken THEN taken - 1 + 1 ELSE 0
          /\ \A i \in 1 .. taken - 1 + 1 :
                SubSeq(data, 1, taken)[i] = data[1 + i - 1]
      BY <2>2, <2>4, PartProperties
    <3>2. /\ SubSeq(data', 1, taken) \in Seq(Byte)
          /\ Len(SubSeq(data', 1, taken)) = IF 1 <= taken THEN taken - 1 + 1 ELSE 0
          /\ \A i \in 1 .. taken - 1 + 1 :
                SubSeq(data', 1, taken)[i] = data'[1 + i - 1]
      BY <2>2, <2>4, PartProperties
    <3>3. \A i \in 1 .. taken : SubSeq(data', 1, taken)[i] = SubSeq(data, 1, taken)[i]
      BY <2>2, <2>4, <3>1, <3>2
    <3>4. Len(SubSeq(data, 1, taken)) = taken /\ Len(SubSeq(data', 1, taken)) = taken
      BY <2>4, <3>1, <3>2
    <3> QED
      BY <3>1, <3>2, <3>3, <3>4, SeqEqual
  <2>7. TextOnly' => TextOnly
    BY <2>2 DEF TextOnly
  <2>8. ReadSoFar'
    BY <2>3, <2>6, <2>7 DEF IInv, ReadSoFar
  <2>9. (StringFits /\ NoErrorYet /\ SizeInRange /\ TextWasTaken)'
    BY <2>3 DEF IInv, StringFits, TextFits, ReturnsAString, NoErrorYet,
                SizeInRange, TextWasTaken
  <2>10. SawTheEnd'
    BY <2>3 DEF IInv, SawTheEnd
  <2> QED
    BY <2>5, <2>8, <2>9, <2>10 DEF IInv
<1>2. CASE PeerCloses
  BY <1>2 DEF PeerCloses, IInv, TypeOK, StringFits, TextFits, ReturnsAString, NoErrorYet,
              SizeInRange, TextWasTaken, ReadSoFar, TextOnly, SawTheEnd
<1> QED
  BY <1>1, <1>2

\* A call that fails frees its buffer: nothing is left to be wrong.
LEMMA FailsKeepsIInv ==
    ASSUME IInv, NEW e \in Errno \ {"ENOERR"}, Fails(e), UNCHANGED <<fd, behind>>,
           taken' \in taken .. Len(data), read_something' \in BOOLEAN,
           read_something' => taken' > 0
    PROVE  IInv'
<1>1. << >> \in Seq(Byte) /\ Len(<< >>) = 0
  BY EmptySeq
<1>2. /\ pc' = "done" /\ result' = e /\ text' = << >> /\ size' = 0
      /\ data' = data /\ closed' = closed /\ nonblock' = nonblock
      /\ stack' = stack /\ behind' = behind
  BY DEF Fails, Freed, fd
<1>3. taken \in 0 .. Len(data) /\ Len(data) \in Nat
  BY LenProperties DEF IInv, TypeOK
<1>4. taken' \in 0 .. Len(data)
  BY <1>3
<1>5. TypeOK'
  BY <1>1, <1>2, <1>4, BuffSizePositive, MaxSizeHoldsOne DEF IInv, TypeOK
<1>6. (StringFits /\ NoErrorYet /\ SizeInRange)'
  BY <1>1, <1>2 DEF IInv, StringFits, TextFits, ReturnsAString, NoErrorYet, SizeInRange
<1>7. TextWasTaken'
  BY <1>1, <1>2, <1>4 DEF TextWasTaken
<1>8. ReadSoFar' /\ SawTheEnd'
  BY <1>2 DEF ReadSoFar, SawTheEnd
<1> QED
  BY <1>5, <1>6, <1>7, <1>8 DEF IInv

\* A chunk is copied into a buffer with room for it.
LEMMA CopyKeepsIInv ==
    ASSUME IInv, pc = "reading", NEW n \in ReadSizes,
           NEW sz \in BuffSize .. MaxSize, HasRoom(n, Len(text), sz),
           Copies(n, sz), size' = sz, Took(n),
           UNCHANGED <<pc, fd, result>>
    PROVE  IInv'
<1>1. /\ n \in 1 .. BuffSize /\ taken \in 0 .. Len(data)
      /\ taken + n <= Len(data) /\ Len(data) \in Nat /\ Len(text) \in Nat
      /\ BuffSize \in Nat \ {0} /\ MaxSize \in Nat /\ result = "ENOERR"
  BY ReadingFacts
<1>2. /\ text' \in Seq(Byte) /\ Len(text') <= sz
      /\ stack = << >> => Len(text') <= Len(text) + n
      /\ TextOnly /\ stack = << >> => text' = SubSeq(data, 1, taken + n)
  <2>1. sz \in Nat /\ text' = AfterCopy(n, sz)
    BY <1>1 DEF Copies
  <2> QED
    BY <2>1, AfterCopyProperties
<1>3. /\ pc' = "reading" /\ result' = "ENOERR" /\ data' = data
      /\ closed' = closed /\ nonblock' = nonblock /\ stack' = stack
      /\ taken' = taken + n /\ read_something' = TRUE
  BY <1>1 DEF fd, Took
<1>8. behind' \in Nat /\ behind' <= 1
  <2>1. Len(text') \in Nat /\ sz \in Nat
    BY <1>1, <1>2, LenProperties
  <2>2. Behind(text', sz) \in {0, 1}
    BY <1>2, <2>1 DEF Behind, Extent
  <2>3. behind \in Nat /\ behind <= 1
    BY DEF IInv, TypeOK, StringFits
  <2>4. behind' \in {behind, Behind(text', sz)}
    BY DEF Copies
  <2> QED
    BY <2>2, <2>3, <2>4
<1>4. TypeOK'
  BY <1>1, <1>2, <1>3, <1>8 DEF IInv, TypeOK
<1>5. (StringFits /\ NoErrorYet /\ SizeInRange)'
  BY <1>2, <1>3, <1>8 DEF StringFits, TextFits, ReturnsAString, NoErrorYet, SizeInRange
<1>6. TextWasTaken'
  <2>1. Len(text') \in Nat
    BY <1>2, LenProperties
  <2> QED
    BY <1>1, <1>2, <1>3, <2>1 DEF IInv, TextWasTaken
<1>7. ReadSoFar' /\ SawTheEnd'
  BY <1>1, <1>2, <1>3 DEF ReadSoFar, TextOnly, SawTheEnd
<1> QED
  BY <1>4, <1>5, <1>6, <1>7 DEF IInv

\* Doubling always makes room: the "Logic Failure" branch is dead.
LEMMA DoublingMakesRoom ==
    ASSUME IInv, pc = "reading", CanDouble(size), NEW n \in ReadSizes
    PROVE  /\ HasRoom(n, Len(text), Doubled(size))
           /\ Doubled(size) \in BuffSize .. MaxSize
  BY ReadingFacts DEF HasRoom, Doubled, CanDouble

\* Every step of the call preserves the inductive invariant.
LEMMA StepCall ==
    ASSUME IInv, Call \/ ReadFails
    PROVE  IInv'
<1>0. taken \in 0 .. Len(data) /\ Len(data) \in Nat /\ Len(text) \in Nat
      /\ read_something \in BOOLEAN
  BY LenProperties DEF IInv, TypeOK
<1>1. CASE PreAlloc
  <2>1. CASE Fails("ENOMEM")
    <3>1. UNCHANGED <<fd, taken, behind, read_something>>
      BY <1>1 DEF PreAlloc, AllocFails
    <3> QED
      BY <1>0, <2>1, <3>1, FailsKeepsIInv DEF Errno, IInv, SawTheEnd
  <2>2. CASE ~Fails("ENOMEM")
    <3>1. /\ pc' = "reading" /\ size' = BuffSize /\ text' = text
          /\ result' = result /\ data' = data /\ closed' = closed
          /\ nonblock' = nonblock /\ stack' = stack /\ taken' = taken
          /\ read_something' = read_something /\ pc = "alloc"
          /\ behind' = behind
      BY <1>1, <2>2 DEF PreAlloc, AllocFails, fd
    <3>2. Len(text) <= BuffSize
      BY <1>0, <3>1, BuffSizePositive DEF IInv, StringFits, TextFits, SizeInRange
    <3> QED
      BY <1>0, <3>1, <3>2, BuffSizePositive, MaxSizeHoldsOne
      DEF IInv, TypeOK, StringFits, TextFits, ReturnsAString, NoErrorYet,
          SizeInRange, TextWasTaken, ReadSoFar, TextOnly, SawTheEnd
  <2> QED
    BY <2>1, <2>2
<1>2. CASE ReadFits
  <2>1. PICK n \in ReadSizes :
          HasRoom(n, Len(text), size) /\ Copies(n, size) /\ Took(n)
    BY <1>2 DEF ReadFits
  <2>2. pc = "reading" /\ UNCHANGED <<pc, fd, size, result>>
    BY <1>2 DEF ReadFits
  <2>3. size \in BuffSize .. MaxSize
    BY <2>2 DEF IInv, SizeInRange
  <2> QED
    BY <2>1, <2>2, <2>3, CopyKeepsIInv
<1>3. CASE ReadGrows
  <2>1. pc = "reading" /\ CanDouble(size) /\ size' = Doubled(size)
        /\ UNCHANGED <<pc, fd>>
    BY <1>3 DEF ReadGrows
  <2>2. PICK n \in ReadSizes :
          /\ IF HasRoom(n, Len(text), Doubled(size))
             THEN Copies(n, Doubled(size)) /\ UNCHANGED result
             ELSE result' = "EOVERFLOW" /\ UNCHANGED <<text, behind>>
          /\ Took(n)
    BY <1>3 DEF ReadGrows
  <2>3. /\ HasRoom(n, Len(text), Doubled(size))
        /\ Doubled(size) \in BuffSize .. MaxSize
    BY <2>1, DoublingMakesRoom
  <2> QED
    BY <2>1, <2>2, <2>3, CopyKeepsIInv
<1>4. CASE GrowFails
  <2>1. PICK n \in ReadSizes : Took(n)
    BY <1>4 DEF GrowFails
  <2>2. pc = "reading" /\ UNCHANGED <<fd, behind>>
        /\ Fails(IF CanDouble(size) THEN "ENOMEM" ELSE "EOVERFLOW")
    BY <1>4 DEF GrowFails
  <2>3. taken' \in taken .. Len(data) /\ read_something' = TRUE /\ taken' > 0
    BY <2>1, <2>2, ReadingFacts DEF Took
  <2>4. PICK e \in Errno \ {"ENOERR"} : Fails(e)
    BY <2>2 DEF Errno
  <2> QED
    BY <2>2, <2>3, <2>4, FailsKeepsIInv
<1>5. CASE ReadEof
  BY <1>0, <1>5 DEF ReadEof, AtEof, fd, IInv, TypeOK, StringFits, TextFits, ReturnsAString,
     NoErrorYet, SizeInRange, TextWasTaken, ReadSoFar, TextOnly, SawTheEnd
<1>6. CASE ReadAgain
  <2>1. CASE read_something
    BY <1>0, <1>6, <2>1
    DEF ReadAgain, fd, IInv, TypeOK, StringFits, TextFits, ReturnsAString,
        NoErrorYet, SizeInRange, TextWasTaken, ReadSoFar, TextOnly, SawTheEnd
  <2>2. CASE ~read_something
    <3>1. Fails("EAGAIN") /\ UNCHANGED <<fd, taken, behind, read_something>>
      BY <1>6, <2>2 DEF ReadAgain
    <3> QED
      BY <1>0, <2>2, <3>1, FailsKeepsIInv DEF Errno
  <2> QED
    BY <2>1, <2>2
<1>7. CASE ReadFails
  <2>1. Fails("EIO") /\ UNCHANGED <<fd, taken, behind, read_something>>
    BY <1>7 DEF ReadFails
  <2> QED
    BY <1>0, <2>1, FailsKeepsIInv DEF Errno, IInv, SawTheEnd
<1>8. CASE Verify
  <2>1. pc = "verify" /\ result = "ENOERR" /\ size \in BuffSize .. MaxSize
        /\ Len(text) <= size /\ UNCHANGED <<fd, taken, behind, read_something>>
    BY <1>8 DEF Verify, AllocFails, IInv, NoErrorYet, SizeInRange, StringFits, TextFits
  <2>2. CASE Fails("ENOMEM")
    BY <1>0, <2>1, <2>2, FailsKeepsIInv DEF Errno, IInv, SawTheEnd
  <2>3. CASE ~Fails("ENOMEM")
    <3>1. /\ pc' = "done" /\ text' = text /\ result' = "ENOERR"
          /\ size' = IF Len(text) = size THEN size + 1 ELSE size
      BY <1>8, <2>1, <2>3 DEF Verify, Unterminated, AllocFails, CopySize, Extent
    <3>2. data' = data /\ closed' = closed /\ nonblock' = nonblock
          /\ stack' = stack /\ taken' = taken
          /\ read_something' = read_something /\ behind' = behind
      BY <2>1 DEF fd
    <3>3. size' \in 0 .. MaxSize + 1 /\ Len(text) < size'
      BY <1>0, <2>1, <3>1, BuffSizePositive, MaxSizeHoldsOne
    <3>4. TypeOK'
      BY <3>1, <3>2, <3>3 DEF IInv, TypeOK, Errno
    <3>5. (StringFits /\ NoErrorYet /\ SizeInRange)'
      BY <1>0, <3>1, <3>2, <3>3
      DEF IInv, StringFits, TextFits, ReturnsAString, Extent, NoErrorYet, SizeInRange
    <3>6. (TextWasTaken /\ ReadSoFar /\ SawTheEnd)'
      BY <2>1, <3>1, <3>2
      DEF IInv, TextWasTaken, ReadSoFar, TextOnly, SawTheEnd
    <3> QED
      BY <3>4, <3>5, <3>6 DEF IInv
  <2> QED
    BY <2>2, <2>3
<1> QED
  BY <1>1, <1>2, <1>3, <1>4, <1>5, <1>6, <1>7, <1>8 DEF Call

\* IInv is an invariant.
LEMMA InductiveInvariant == Spec => []IInv
<1>1. IInv /\ [Next]_vars => IInv'
  <2> SUFFICES ASSUME IInv, [Next]_vars PROVE IInv'
    OBVIOUS
  <2>1. CASE Next
    BY <2>1, StepPeer, StepCall DEF Next
  <2>2. CASE UNCHANGED vars
    BY <2>2 DEF vars, fd, IInv, TypeOK, StringFits, TextFits, ReturnsAString, NoErrorYet,
                SizeInRange, TextWasTaken, ReadSoFar, TextOnly, SawTheEnd
  <2> QED
    BY <2>1, <2>2
<1> QED
  BY <1>1, InitIInv, PTL DEF Spec

\* Every variable keeps its type; in particular the size stays in size_t.
THEOREM TypeCorrect == Spec => []TypeOK
  BY InductiveInvariant, PTL DEF IInv

\* Whatever the reads return and the stack holds, read_fd_dynamic's text fits
\* its buffer; at most the NUL behind it is written one byte too far, and a
\* call that succeeds returns a string with its terminator inside.
THEOREM StringAlwaysFits == Spec => []StringFits
  BY InductiveInvariant, PTL DEF IInv

\* A read_fd that succeeds returns, of a text, what it read: everything from a
\* blocking descriptor, and never nothing from a stream that has something.
THEOREM WhatWasReadIsReturned == Spec => []ReturnsWhatWasRead
<1>1. IInv => ReturnsWhatWasRead
  <2> SUFFICES ASSUME IInv, TextOnly, stack = << >>, pc = "done",
                      result = "ENOERR"
               PROVE  /\ text = SubSeq(data, 1, taken)
                      /\ ~nonblock => text = data
                      /\ text = << >> => closed /\ data = << >>
    BY DEF ReturnsWhatWasRead
  <2>1. text = SubSeq(data, 1, taken)
    BY DEF IInv, ReadSoFar
  <2>2. data \in Seq(Byte) /\ Len(data) \in Nat /\ taken \in 0 .. Len(data)
    BY LenProperties DEF IInv, TypeOK
  <2>3. /\ SubSeq(data, 1, taken) \in Seq(Byte)
        /\ Len(SubSeq(data, 1, taken)) = IF 1 <= taken THEN taken - 1 + 1 ELSE 0
        /\ \A i \in 1 .. taken - 1 + 1 :
              SubSeq(data, 1, taken)[i] = data[1 + i - 1]
    BY <2>2, PartProperties
  <2>4. Len(text) = taken /\ text \in Seq(Byte)
        /\ \A i \in 1 .. taken : text[i] = data[i]
    BY <2>1, <2>2, <2>3
  <2>5. taken = Len(data) => text = data
    BY <2>2, <2>4, SeqEqual
  <2>6. (closed /\ taken = Len(data)) \/ (nonblock /\ read_something)
    BY DEF IInv, SawTheEnd
  <2>7. text = << >> => taken = 0
    BY <2>4, EmptySeq
  <2>8. read_something => taken > 0
    BY DEF IInv, SawTheEnd
  <2> QED
    BY <2>1, <2>2, <2>5, <2>6, <2>7, <2>8
<1> QED
  BY <1>1, InductiveInvariant, PTL

\* read_fd refuses a stream only when it does not fit the largest buffer.
THEOREM RefusalIsRight == Spec => RefusedOnlyWhenFull
<1> DEFINE Refusal == result # "EOVERFLOW" /\ result' = "EOVERFLOW" =>
                          /\ ~CanDouble(size)
                          /\ stack = << >> => taken' > size
<1>1. IInv /\ [Next]_vars => [Refusal]_vars
  <2> SUFFICES ASSUME IInv, Next, result # "EOVERFLOW", result' = "EOVERFLOW"
               PROVE  ~CanDouble(size) /\ (stack = << >> => taken' > size)
    OBVIOUS
  <2>1. GrowFails \/ ReadGrows
    BY DEF Next, PeerWrites, PeerCloses, Call, PreAlloc, ReadFits, ReadEof,
           ReadAgain, ReadFails, Verify, AllocFails, Fails, fd
  <2>2. CASE ReadGrows
    <3>1. PICK n \in ReadSizes :
            IF HasRoom(n, Len(text), Doubled(size)) THEN UNCHANGED result
                                                    ELSE TRUE
      BY <2>2 DEF ReadGrows
    <3>2. pc = "reading" /\ CanDouble(size)
      BY <2>2 DEF ReadGrows
    <3> QED
      BY <3>1, <3>2, DoublingMakesRoom
  <2>3. CASE GrowFails
    <3>1. PICK n \in ReadSizes : ~HasRoom(n, Len(text), size) /\ Took(n)
      BY <2>3 DEF GrowFails
    <3>2. pc = "reading" /\ ~CanDouble(size)
      BY <2>3 DEF GrowFails, Fails
    <3>3. stack = << >> => Len(text) <= taken
      BY DEF IInv, TextWasTaken
    <3> QED
      BY <3>1, <3>2, <3>3, ReadingFacts DEF HasRoom, Took
  <2> QED
    BY <2>1, <2>2, <2>3
<1> QED
  BY <1>1, InductiveInvariant, PTL DEF Spec, RefusedOnlyWhenFull

(***************************************************************************)
(* RecvSocket: the other reader into a growing buffer.                     *)
(***************************************************************************)
CONSTANTS WordSize, MaxDatagrams
VARIABLES sent, broken, dontwait, spins

R == INSTANCE RecvSocket

\* What RecvSocket assumes of its constants.
ReceiverConstants ==
    /\ WordSize \in Nat /\ WordSize > MaxSize /\ WordSize > BuffSize + 1
    /\ MaxDatagrams \in Nat

\* The buffer is the same in both.
LEMMA SameBuffer ==
    /\ \A bytes : R!CString(bytes) = CString(bytes)
    /\ \A chunk, tail : R!LocalString(chunk, tail) = LocalString(chunk, tail)
    /\ \A string, source, n : R!Strncat(string, source, n) = Strncat(string, source, n)
<1>1. ASSUME NEW S PROVE R!Cardinality(S) = Cardinality(S)
  BY Zenon DEF R!Cardinality, Cardinality
<1>2. ASSUME NEW bytes PROVE R!CString(bytes) = CString(bytes)
  BY <1>1 DEF R!CString, CString, R!NUL, NUL
<1> QED
  BY <1>2 DEF R!LocalString, LocalString, R!Strncat, Strncat, R!Min2, Min2

USE DEF R!Byte, Byte, R!NUL, NUL, R!Min2, Min2, R!CanDouble, CanDouble, R!Doubled, Doubled,
        R!CopySize, R!Extent, R!Freed

LEMMA LocalStringLength ==
    ASSUME NEW chunk \in Seq(Byte), NEW tail \in Seq(Byte)
    PROVE  /\ LocalString(chunk, tail) \in Seq(Byte)
           /\ tail = << >> \/ Len(chunk) < BuffSize =>
                  Len(LocalString(chunk, tail)) <= Len(chunk)
<1>1. chunk \o tail \in Seq(Byte) /\ (tail = << >> => chunk \o tail = chunk)
  BY ConcatProperties, ConcatEmptySeq
<1> QED
  BY <1>1, CStringProperties DEF LocalString

\* The stack holds a sequence of bytes.
LEMMA ReceiverStack == ASSUME R!TypeOK PROVE stack \in Seq(Byte)
<1>1. stack \in Seq(Byte \ {NUL})
  BY ReadFdBounds DEF R!TypeOK
<1>2. Len(stack) \in Nat /\ \A i \in 1 .. Len(stack) : stack[i] \in Byte
  BY <1>1, LenProperties
<1> QED
  BY <1>1, <1>2, SeqDef DEF Byte

\* What recv(2) leaves in local_buf.
LEMMA ReceivedType ==
    ASSUME R!TypeOK
    PROVE  R!Received \in Seq(Byte) /\ Len(R!Received) \in 0 .. BuffSize
<1>1. << >> \in Seq(Byte) /\ Len(<< >>) = 0 /\ BuffSize \in Nat \ {0}
  BY EmptySeq, BuffSizePositive
<1>2. ASSUME taken < Len(sent)
      PROVE  R!Chunk(taken + 1) \in Seq(Byte)
             /\ Len(R!Chunk(taken + 1)) \in 0 .. BuffSize
  <2>1. taken + 1 \in 1 .. Len(sent) /\ Len(sent) \in Nat
    BY <1>2, LenProperties DEF R!TypeOK
  <2>2. sent[taken + 1] \in 0 .. BuffSize + 1
    BY <2>1, LenProperties DEF R!TypeOK, R!Lengths
  <2> DEFINE n == Min2(sent[taken + 1], BuffSize)
  <2>3. n \in 0 .. BuffSize /\ n \in Nat
    BY <1>1, <2>2 DEF Min2
  <2> HIDE DEF n
  <2>4. R!Chunk(taken + 1)
           = [k \in 1 .. n |-> (taken + 1) * (BuffSize + 2) + k]
    BY DEF R!Chunk, n
  <2>5. \A k \in 1 .. n : (taken + 1) * (BuffSize + 2) + k \in Byte
    BY <1>1, <2>1, <2>3 DEF Byte
  <2>6. R!Chunk(taken + 1) \in [1 .. n -> Byte]
    BY <2>4, <2>5
  <2>7. R!Chunk(taken + 1) \in Seq(Byte) /\ Len(R!Chunk(taken + 1)) = n
    BY <2>3, <2>6, SeqDef
  <2> QED
    BY <2>3, <2>7
<1> QED
  BY <1>1, <1>2 DEF R!Received

\* The sum of check_sn_space wraps for no chunk, and for -1 it is 0.
LEMMA Wraps ==
    ASSUME ReceiverConstants
    PROVE  /\ \A n \in 0 .. BuffSize : (n + 1) % WordSize = n + 1
           /\ ((WordSize - 1) + 1) % WordSize = 0
<1>1. WordSize \in Nat \ {0} /\ WordSize > BuffSize + 1 /\ BuffSize \in Nat
  BY BuffSizePositive DEF ReceiverConstants
<1>2. \A a \in 0 .. WordSize - 1 : a % WordSize = a
  BY <1>1
<1>3. WordSize % WordSize = 0
  BY <1>1
<1> QED
  BY <1>1, <1>2, <1>3

\* There is room: what R!IInv says but for the order of the datagrams.
RoomInv == R!TypeOK /\ R!TerminatorFits /\ R!NoErrorYet /\ R!SizeInRange /\ R!TextFits

\* The initial state satisfies the inductive invariant.
LEMMA RoomInit == R!Init => RoomInv
<1> SUFFICES ASSUME R!Init PROVE RoomInv
  OBVIOUS
<1>1. << >> \in Seq(Byte) /\ Len(<< >>) = 0 /\ << >> \in Seq(R!Lengths)
  BY EmptySeq
<1>2. /\ pc = "alloc" /\ sent = << >> /\ text = << >> /\ taken = 0 /\ size = 0
      /\ closed = FALSE /\ broken = FALSE /\ spins = FALSE
      /\ result = "ENOERR" /\ dontwait \in BOOLEAN /\ stack \in Stacks
  BY DEF R!Init
<1>3. R!TypeOK
  <2>1. taken \in 0 .. Len(sent) /\ size \in 0 .. MaxSize + 1
    BY <1>1, <1>2, MaxSizeHoldsOne
  <2> QED
    BY <1>1, <1>2, <2>1 DEF R!TypeOK, R!Errno
<1>4. R!TerminatorFits /\ R!NoErrorYet /\ R!SizeInRange /\ R!TextFits
  BY <1>1, <1>2 DEF R!TerminatorFits, R!NoErrorYet, R!SizeInRange, R!TextFits
<1> QED
  BY <1>3, <1>4 DEF RoomInv

\* The sizes the loop works with.
LEMMA ReceivingFacts ==
    ASSUME RoomInv, pc = "receiving"
    PROVE  /\ Len(R!Received) \in 0 .. BuffSize
           /\ BuffSize \in Nat \ {0} /\ MaxSize \in Nat
           /\ size \in BuffSize .. MaxSize
           /\ size = BuffSize \/ size >= 2 * BuffSize
           /\ Len(text) \in 0 .. size
           /\ size = BuffSize => Len(text) < size
           /\ stack = << >> => Len(text) < size
           /\ taken \in 0 .. Len(sent) /\ Len(sent) \in Nat
           /\ result = "ENOERR"
<1>1. Len(sent) \in Nat /\ Len(text) \in Nat
  BY LenProperties DEF RoomInv, R!TypeOK
<1>2. Len(R!Received) \in 0 .. BuffSize
  BY ReceivedType DEF RoomInv
<1> QED
  BY <1>1, <1>2, BuffSizePositive, MaxSizeHoldsOne
  DEF RoomInv, R!TypeOK, R!TerminatorFits, R!SizeInRange, R!TextFits, R!NoErrorYet

\* HasRoom without the wrap.
LEMMA RoomForChunk ==
    ASSUME ReceiverConstants, NEW n \in 1 .. BuffSize, NEW len \in Nat, NEW sz \in Nat \ {0}
    PROVE  R!HasRoom(n, len, sz) <=> sz - len >= n + 1
  BY Wraps, BuffSizePositive DEF R!HasRoom

\* Doubling always makes room: the "Logic Failure" branch is dead.
LEMMA DoublingMakesRoomForNul ==
    ASSUME ReceiverConstants, RoomInv, pc = "receiving", CanDouble(size), Len(R!Received) > 0
    PROVE  /\ R!HasRoom(Len(R!Received), Len(text), Doubled(size))
           /\ Doubled(size) \in BuffSize .. MaxSize
           /\ Doubled(size) >= 2 * BuffSize
<1>1. /\ Len(R!Received) \in 1 .. BuffSize /\ Len(text) \in Nat
      /\ Doubled(size) \in Nat \ {0}
      /\ Doubled(size) - Len(text) >= Len(R!Received) + 1
      /\ Doubled(size) \in BuffSize .. MaxSize
      /\ Doubled(size) >= 2 * BuffSize
  BY ReceivingFacts DEF Doubled, CanDouble
<1> QED
  BY <1>1, RoomForChunk

\* One round of the loop stays inside the buffer.
LEMMA CopiedChunk ==
    ASSUME ReceiverConstants, RoomInv, pc = "receiving", NEW sz \in BuffSize .. MaxSize,
           Len(R!Received) > 0, Len(text) <= sz,
           R!HasRoom(Len(R!Received), Len(text), sz)
    PROVE  /\ R!AfterCopy(sz) \in Seq(Byte)
           /\ Len(R!AfterCopy(sz)) <= sz
           /\ stack = << >> => Len(R!AfterCopy(sz)) < sz
           /\ sz = BuffSize => Len(R!AfterCopy(sz)) < sz
<1> DEFINE src == LocalString(R!Received, stack)
<1>1. /\ Len(R!Received) \in 1 .. BuffSize /\ BuffSize \in Nat \ {0}
      /\ Len(text) \in Nat /\ sz \in Nat \ {0} /\ sz - Len(text) \in Nat
  BY ReceivingFacts
<1>2. sz - Len(text) >= Len(R!Received) + 1
  BY <1>1, RoomForChunk
<1>3. R!Received \in Seq(Byte) /\ stack \in Seq(Byte) /\ text \in Seq(Byte)
  BY ReceivedType, ReceiverStack DEF RoomInv, R!TypeOK
<1>4. /\ src \in Seq(Byte)
      /\ stack = << >> => Len(src) <= Len(R!Received)
      /\ Len(R!Received) < BuffSize => Len(src) <= Len(R!Received)
  BY <1>1, <1>3, LocalStringLength
<1> HIDE DEF src
<1>5. R!AfterCopy(sz) = Strncat(text, src, sz - Len(text))
  BY SameBuffer DEF R!AfterCopy, src
<1>6. /\ R!AfterCopy(sz) \in Seq(Byte)
      /\ Len(R!AfterCopy(sz)) <= Len(text) + (sz - Len(text))
      /\ Len(R!AfterCopy(sz)) <= Len(text) + Len(src)
  BY <1>1, <1>3, <1>4, <1>5, StrncatProperties
<1>7. Len(src) \in Nat /\ Len(R!AfterCopy(sz)) \in Nat
  BY <1>4, <1>6, LenProperties
<1> QED
  BY <1>1, <1>2, <1>4, <1>6, <1>7

\* A chunk is copied into a buffer with room for it.
LEMMA CopyKeepsReceiver ==
    ASSUME ReceiverConstants, RoomInv, pc = "receiving", taken < Len(sent),
           NEW sz \in BuffSize .. MaxSize, sz = BuffSize \/ sz >= 2 * BuffSize,
           Len(R!Received) > 0, Len(text) <= sz,
           R!HasRoom(Len(R!Received), Len(text), sz),
           text' = R!AfterCopy(sz), size' = sz, taken' = taken + 1,
           spins' = FALSE, UNCHANGED <<pc, R!socket, result>>
    PROVE  RoomInv'
<1>1. /\ taken \in 0 .. Len(sent) /\ Len(sent) \in Nat /\ result = "ENOERR"
      /\ BuffSize \in Nat \ {0} /\ MaxSize \in Nat
  BY ReceivingFacts
<1>2. /\ text' \in Seq(Byte) /\ Len(text') <= sz
      /\ stack = << >> => Len(text') < sz
      /\ sz = BuffSize => Len(text') < sz
  BY CopiedChunk
<1>3. /\ pc' = "receiving" /\ result' = "ENOERR" /\ sent' = sent
      /\ closed' = closed /\ broken' = broken /\ dontwait' = dontwait
      /\ stack' = stack
  BY <1>1 DEF R!socket
<1>4. taken' \in 0 .. Len(sent) /\ size' \in 0 .. MaxSize + 1
  BY <1>1
<1>5. R!TypeOK'
  BY <1>2, <1>3, <1>4 DEF RoomInv, R!TypeOK, R!Errno
<1>6. (R!TerminatorFits /\ R!NoErrorYet /\ R!SizeInRange /\ R!TextFits)'
  BY <1>2, <1>3 DEF R!TerminatorFits, R!NoErrorYet, R!SizeInRange, R!TextFits
<1> QED
  BY <1>5, <1>6 DEF RoomInv

\* A call that fails frees its buffer.
LEMMA FailsKeepsReceiver ==
    ASSUME RoomInv, NEW e \in R!Errno \ {"ENOERR"}, R!Fails(e), UNCHANGED R!socket,
           taken' \in 0 .. Len(sent), spins' \in BOOLEAN
    PROVE  RoomInv'
<1>1. << >> \in Seq(Byte) /\ Len(<< >>) = 0
  BY EmptySeq
<1>2. /\ pc' = "done" /\ result' = e /\ text' = << >> /\ size' = 0
      /\ sent' = sent /\ closed' = closed /\ broken' = broken
      /\ dontwait' = dontwait /\ stack' = stack
  BY DEF R!Fails, Freed, R!socket
<1>3. size' \in 0 .. MaxSize + 1
  BY <1>2, MaxSizeHoldsOne
<1>4. R!TypeOK'
  BY <1>1, <1>2, <1>3 DEF RoomInv, R!TypeOK
<1>5. (R!TerminatorFits /\ R!NoErrorYet /\ R!SizeInRange /\ R!TextFits)'
  BY <1>1, <1>2 DEF R!TerminatorFits, R!NoErrorYet, R!SizeInRange, R!TextFits
<1> QED
  BY <1>4, <1>5 DEF RoomInv

\* A step of the network leaves the call alone.
LEMMA NetworkStep ==
    ASSUME RoomInv, R!PeerSends \/ R!PeerCloses \/ R!Breaks
    PROVE  RoomInv'
<1>1. CASE R!PeerSends
  <2>1. PICK n \in R!Lengths : sent' = Append(sent, n)
    BY <1>1 DEF R!PeerSends
  <2>2. /\ sent' \in Seq(R!Lengths) /\ Len(sent') = Len(sent) + 1
        /\ Len(sent) \in Nat
    BY <2>1, LenProperties, AppendProperties DEF RoomInv, R!TypeOK
  <2>3. /\ pc' = pc /\ taken' = taken /\ text' = text /\ size' = size
        /\ spins' = spins /\ result' = result /\ closed' = closed
        /\ broken' = broken /\ dontwait' = dontwait /\ stack' = stack
    BY <1>1 DEF R!PeerSends, R!call
  <2>4. R!TypeOK'
    BY <2>2, <2>3 DEF RoomInv, R!TypeOK
  <2> QED
    BY <2>3, <2>4 DEF RoomInv, R!TerminatorFits, R!NoErrorYet, R!SizeInRange, R!TextFits
<1>2. CASE R!PeerCloses \/ R!Breaks
  BY <1>2 DEF R!PeerCloses, R!Breaks, R!call, RoomInv, R!TypeOK, R!TerminatorFits,
              R!NoErrorYet, R!SizeInRange, R!TextFits
<1> QED
  BY <1>1, <1>2

\* Every step of the call preserves the inductive invariant.
LEMMA RoomStep ==
    ASSUME ReceiverConstants, RoomInv, R!Call
    PROVE  RoomInv'
<1>0. /\ taken \in 0 .. Len(sent) /\ Len(sent) \in Nat /\ Len(text) \in Nat
      /\ spins \in BOOLEAN
  BY LenProperties DEF RoomInv, R!TypeOK
<1>1. CASE R!PreAlloc
  <2>1. CASE R!Fails("ENOMEM")
    <3>1. UNCHANGED <<R!socket, taken, spins>>
      BY <1>1 DEF R!PreAlloc, R!AllocFails
    <3> QED
      BY <1>0, <2>1, <3>1, FailsKeepsReceiver DEF R!Errno
  <2>2. CASE ~R!Fails("ENOMEM")
    <3>1. /\ pc' = "receiving" /\ size' = BuffSize /\ text' = text
          /\ result' = result /\ sent' = sent /\ closed' = closed
          /\ broken' = broken /\ dontwait' = dontwait /\ stack' = stack
          /\ taken' = taken /\ spins' = spins /\ pc = "alloc"
      BY <1>1, <2>2 DEF R!PreAlloc, R!AllocFails, R!socket
    <3>2. Len(text) < BuffSize
      BY <1>0, <3>1, BuffSizePositive DEF RoomInv, R!TextFits, R!SizeInRange
    <3> QED
      BY <1>0, <3>1, <3>2, BuffSizePositive, MaxSizeHoldsOne
      DEF RoomInv, R!TypeOK, R!TerminatorFits, R!NoErrorYet, R!SizeInRange, R!TextFits
  <2> QED
    BY <2>1, <2>2
<1>2. CASE R!RecvFits
  <2>1. /\ pc = "receiving" /\ R!Received # << >>
        /\ R!HasRoom(Len(R!Received), Len(text), size)
        /\ text' = R!AfterCopy(size) /\ taken' = taken + 1 /\ spins' = FALSE
        /\ UNCHANGED <<pc, R!socket, size, result>>
    BY <1>2 DEF R!RecvFits, R!Ready
  <2>2. taken < Len(sent)
    BY <2>1 DEF R!Received
  <2>3. Len(R!Received) > 0
    BY <2>1, ReceivedType, EmptySeq DEF RoomInv
  <2>4. /\ size \in BuffSize .. MaxSize
        /\ size = BuffSize \/ size >= 2 * BuffSize
        /\ Len(text) <= size
    BY <2>1, ReceivingFacts
  <2>5. /\ size' = size
        /\ UNCHANGED <<pc, R!socket, result>>
    BY <2>1
  <2> QED
    BY <2>1, <2>2, <2>3, <2>4, <2>5, CopyKeepsReceiver
<1>3. CASE R!RecvGrows
  <2>1. /\ pc = "receiving" /\ R!Received # << >> /\ CanDouble(size)
        /\ size' = Doubled(size) /\ taken' = taken + 1 /\ spins' = FALSE
        /\ IF R!HasRoom(Len(R!Received), Len(text), Doubled(size))
           THEN text' = R!AfterCopy(Doubled(size)) /\ UNCHANGED result
           ELSE result' = "EOVERFLOW" /\ UNCHANGED text
        /\ UNCHANGED <<pc, R!socket>>
    BY <1>3 DEF R!RecvGrows, R!Ready
  <2>2. taken < Len(sent)
    BY <2>1 DEF R!Received
  <2>3. Len(R!Received) > 0
    BY <2>1, ReceivedType, EmptySeq DEF RoomInv
  <2>4. /\ R!HasRoom(Len(R!Received), Len(text), Doubled(size))
        /\ Doubled(size) \in BuffSize .. MaxSize
        /\ Doubled(size) >= 2 * BuffSize
    BY <2>1, <2>3, DoublingMakesRoomForNul
  <2>5. Len(text) <= Doubled(size)
    BY <2>1, ReceivingFacts DEF Doubled
  <2>6. /\ text' = R!AfterCopy(Doubled(size))
        /\ UNCHANGED <<pc, R!socket, result>>
    BY <2>1, <2>4
  <2> QED
    BY <2>1, <2>2, <2>3, <2>4, <2>5, <2>6, CopyKeepsReceiver
<1>4. CASE R!GrowFails
  <2>1. /\ pc = "receiving" /\ R!Received # << >> /\ taken' = taken + 1
        /\ spins' = FALSE /\ UNCHANGED R!socket
        /\ R!Fails(IF CanDouble(size) THEN "ENOMEM" ELSE "EOVERFLOW")
    BY <1>4 DEF R!GrowFails, R!Ready
  <2>2. taken < Len(sent)
    BY <2>1 DEF R!Received
  <2>3. PICK e \in R!Errno \ {"ENOERR"} : R!Fails(e)
    BY <2>1 DEF R!Errno
  <2>4. taken' = taken + 1 /\ spins' = FALSE
    BY <2>1
  <2>5. taken' \in 0 .. Len(sent)
    BY <1>0, <2>2, <2>4
  <2> QED
    BY <2>1, <2>3, <2>4, <2>5, FailsKeepsReceiver
<1>5. CASE R!RecvEnd
  <2>1. /\ pc = "receiving" /\ pc' = "verify" /\ spins' = FALSE
        /\ taken' = IF taken < Len(sent) THEN taken + 1 ELSE taken
        /\ sent' = sent /\ closed' = closed /\ broken' = broken
        /\ dontwait' = dontwait /\ stack' = stack /\ text' = text
        /\ size' = size /\ result' = result
    BY <1>5 DEF R!RecvEnd, R!Ready, R!socket
  <2>2. taken' \in 0 .. Len(sent)
    BY <1>0, <2>1
  <2> QED
    BY <2>1, <2>2, ReceivingFacts
    DEF RoomInv, R!TypeOK, R!TerminatorFits, R!NoErrorYet, R!SizeInRange, R!TextFits
<1>6. CASE R!RecvFails
  BY <1>6 DEF R!RecvFails, R!socket, RoomInv, R!TypeOK, R!TerminatorFits, R!NoErrorYet,
              R!SizeInRange, R!TextFits
<1>7. CASE R!Verify
  <2>1. /\ pc = "verify" /\ result = "ENOERR" /\ size \in BuffSize .. MaxSize
        /\ Len(text) <= size /\ UNCHANGED <<R!socket, taken, spins>>
    BY <1>7 DEF R!Verify, R!AllocFails, RoomInv, R!NoErrorYet, R!SizeInRange, R!TextFits
  <2>2. CASE R!Fails("ENOMEM")
    BY <1>0, <2>1, <2>2, FailsKeepsReceiver DEF R!Errno
  <2>3. CASE ~R!Fails("ENOMEM")
    <3>1. /\ pc' = "done" /\ text' = text /\ result' = "ENOERR"
          /\ size' = IF Len(text) = size THEN size + 1 ELSE size
      BY <1>7, <2>1, <2>3 DEF R!Verify, R!AllocFails, CopySize
    <3>2. sent' = sent /\ closed' = closed /\ broken' = broken
          /\ dontwait' = dontwait /\ stack' = stack /\ taken' = taken
          /\ spins' = spins
      BY <2>1 DEF R!socket
    <3>3. size' \in 0 .. MaxSize + 1 /\ Len(text) < size'
      BY <1>0, <2>1, <3>1, BuffSizePositive, MaxSizeHoldsOne
    <3>4. R!TypeOK'
      BY <3>1, <3>2, <3>3 DEF RoomInv, R!TypeOK, R!Errno
    <3>5. (R!TerminatorFits /\ R!NoErrorYet /\ R!SizeInRange /\ R!TextFits)'
      BY <1>0, <3>1, <3>3
      DEF R!TerminatorFits, R!NoErrorYet, R!SizeInRange, R!TextFits
    <3> QED
      BY <3>4, <3>5 DEF RoomInv
  <2> QED
    BY <2>2, <2>3
<1> QED
  BY <1>1, <1>2, <1>3, <1>4, <1>5, <1>6, <1>7 DEF R!Call

(***************************************************************************)
(* The datagrams in order.                                                 *)
(***************************************************************************)
\* The bytes of the first n datagrams that reach local_buf.
Bytes(i) == {R!Chunk(i)[k] : k \in DOMAIN R!Chunk(i)}
Taken(n) == UNION {Bytes(i) : i \in 1 .. n}
Increases(string) == \A j, k \in DOMAIN string : j < k => string[j] < string[k]

LEMMA OrderIs ==
    R!DatagramsInOrder <=>
        (stack = << >> /\ result = "ENOERR" =>
            {text[k] : k \in DOMAIN text} = Taken(taken) /\ Increases(text))
  BY DEF R!DatagramsInOrder, Taken, Bytes, Increases

LEMMA ChunkBytes ==
    ASSUME R!TypeOK, NEW i \in 1 .. Len(sent)
    PROVE  /\ R!Chunk(i) \in Seq(Byte) /\ Len(R!Chunk(i)) \in 0 .. BuffSize
           /\ DOMAIN R!Chunk(i) = 1 .. Len(R!Chunk(i))
           /\ \A k \in DOMAIN R!Chunk(i) : R!Chunk(i)[k] = i * (BuffSize + 2) + k
<1>1. sent[i] \in 0 .. BuffSize + 1 /\ Len(sent) \in Nat /\ BuffSize \in Nat \ {0}
  BY BuffSizePositive DEF R!TypeOK, R!Lengths
<1>2. PICK n \in 0 .. BuffSize : n = Min2(sent[i], BuffSize)
  BY <1>1
<1>3. PICK b \in Int : b = i * (BuffSize + 2)
  BY <1>1
<1>4. R!Chunk(i) = [k \in 1 .. n |-> b + k]
  BY <1>2, <1>3 DEF R!Chunk
<1>5. R!Chunk(i) \in Seq(Byte) /\ Len(R!Chunk(i)) = n
  BY <1>4
<1> QED
  BY <1>3, <1>4, <1>5

\* A later datagram has later bytes.
LEMMA LaterBytes ==
    ASSUME NEW i \in Nat, NEW t \in Nat, i <= t, NEW k \in 0 .. BuffSize, NEW m \in Nat \ {0}
    PROVE  0 < (t + 1) * (BuffSize + 2) + m
           /\ i * (BuffSize + 2) + k < (t + 1) * (BuffSize + 2) + m
<1>1. PICK b \in Nat : b = BuffSize + 2
  BY BuffSizePositive
<1>2. PICK d \in Nat : t = i + d
  BY t - i \in Nat
<1>3. (i + d + 1) * b = i * b + d * b + b /\ d * b >= 0 /\ i * b >= 0
  BY <1>1
<1>4. k < b
  BY <1>1, BuffSizePositive
<1>5. i * b \in Int /\ d * b \in Int
  BY <1>1
<1> QED
  BY <1>1, <1>2, <1>3, <1>4, <1>5

\* One more datagram at the end.
LEMMA OneMoreDatagram ==
    ASSUME R!TypeOK, taken < Len(sent), NEW t \in Seq(Byte), NEW new \in Seq(Byte),
           new = t \o R!Chunk(taken + 1),
           {t[k] : k \in DOMAIN t} = Taken(taken), Increases(t)
    PROVE  {new[k] : k \in DOMAIN new} = Taken(taken + 1) /\ Increases(new)
<1>1. taken \in Nat /\ Len(sent) \in Nat /\ taken + 1 \in 1 .. Len(sent)
  BY DEF R!TypeOK
<1>2. PICK c : c = R!Chunk(taken + 1)
  OBVIOUS
<1>3. /\ c \in Seq(Byte) /\ Len(c) \in 0 .. BuffSize /\ DOMAIN c = 1 .. Len(c)
      /\ \A k \in DOMAIN c : c[k] = (taken + 1) * (BuffSize + 2) + k
  BY <1>1, <1>2, ChunkBytes
<1>4. PICK l \in Nat : l = Len(t)
  OBVIOUS
<1>5. PICK m \in Nat : m = Len(c) /\ m <= BuffSize
  <2>1. Len(c) \in Nat /\ Len(c) <= BuffSize
    BY <1>3, LenProperties, BuffSizePositive
  <2> QED
    BY <2>1
<1>6. /\ DOMAIN t = 1 .. l /\ DOMAIN c = 1 .. m /\ DOMAIN new = 1 .. l + m
      /\ \A k \in 1 .. l : new[k] = t[k]
      /\ \A k \in 1 .. m : new[l + k] = c[k]
      /\ \A k \in l + 1 .. l + m : new[k] = c[k - l]
  BY <1>2, <1>3, <1>4, <1>5
<1>7. ASSUME NEW j \in 1 .. l, NEW k \in 1 .. m PROVE t[j] < c[k]
  <2>1. t[j] \in Taken(taken)
    BY <1>6
  <2>2. PICK i \in 1 .. taken : t[j] \in Bytes(i)
    BY <2>1 DEF Taken
  <2>3. i \in 1 .. Len(sent) /\ i \in Nat /\ i <= taken
    BY <1>1
  <2>4. PICK h \in DOMAIN R!Chunk(i) : t[j] = R!Chunk(i)[h]
    BY <2>2 DEF Bytes
  <2>5. t[j] = i * (BuffSize + 2) + h /\ h \in 0 .. BuffSize
    BY <2>3, <2>4, ChunkBytes, BuffSizePositive
  <2>6. c[k] = (taken + 1) * (BuffSize + 2) + k
    BY <1>3, <1>6
  <2>9. k \in Nat \ {0}
    OBVIOUS
  <2>7. PICK tk \in Nat : tk = taken
    BY <1>1
  <2>8. i * (BuffSize + 2) + h < (tk + 1) * (BuffSize + 2) + k
    BY <2>3, <2>5, <2>7, <2>9, LaterBytes
  <2> QED
    BY <2>5, <2>6, <2>7, <2>8
<1>8. Increases(new)
  <2> SUFFICES ASSUME NEW j \in 1 .. l + m, NEW k \in 1 .. l + m, j < k
               PROVE  new[j] < new[k]
    BY <1>6 DEF Increases
  <2>1. CASE k <= l
    <3>1. j \in 1 .. l /\ k \in 1 .. l
      BY <2>1
    <3>2. t[j] < t[k] /\ new[j] = t[j] /\ new[k] = t[k]
      BY <1>6, <3>1 DEF Increases
    <3> QED
      BY <3>2
  <2>2. CASE j <= l /\ k > l
    <3>1. j \in 1 .. l /\ k - l \in 1 .. m /\ k \in l + 1 .. l + m
      BY <2>2
    <3>2. new[j] = t[j] /\ new[k] = c[k - l] /\ t[j] < c[k - l]
      BY <1>6, <1>7, <3>1
    <3> QED
      BY <3>2
  <2>3. CASE j > l
    <3>1. j - l \in 1 .. m /\ k - l \in 1 .. m /\ j \in l + 1 .. l + m /\ k \in l + 1 .. l + m
      BY <2>3
    <3>2. PICK b \in Int : b = (taken + 1) * (BuffSize + 2)
      BY <1>1, BuffSizePositive
    <3>3. c[j - l] = b + (j - l) /\ c[k - l] = b + (k - l)
      BY <1>3, <1>6, <3>1, <3>2
    <3>4. new[j] = c[j - l] /\ new[k] = c[k - l]
      BY <1>6, <3>1
    <3>5. b + (j - l) < b + (k - l)
      OBVIOUS
    <3> QED
      BY <3>3, <3>4, <3>5
  <2>4. k <= l \/ (j <= l /\ k > l) \/ j > l
    OBVIOUS
  <2> QED
    BY <2>1, <2>2, <2>3, <2>4
<1>9. {new[k] : k \in DOMAIN new} = {t[k] : k \in DOMAIN t} \cup {c[k] : k \in DOMAIN c}
  <2>1. ASSUME NEW k \in 1 .. l + m PROVE k \in 1 .. l \/ (k \in l + 1 .. l + m /\ k - l \in 1 .. m)
    OBVIOUS
  <2>2. ASSUME NEW k \in 1 .. m PROVE l + k \in 1 .. l + m
    OBVIOUS
  <2>3. ASSUME NEW k \in 1 .. l PROVE k \in 1 .. l + m
    OBVIOUS
  <2>4. ASSUME NEW k \in DOMAIN new
        PROVE  new[k] \in {t[h] : h \in DOMAIN t} \cup {c[h] : h \in DOMAIN c}
    BY <1>6, <2>1
  <2>5. ASSUME NEW k \in DOMAIN t PROVE t[k] \in {new[h] : h \in DOMAIN new}
    BY <1>6, <2>3
  <2>6. ASSUME NEW k \in DOMAIN c PROVE c[k] \in {new[h] : h \in DOMAIN new}
    <3>1. k \in 1 .. m /\ l + k \in DOMAIN new
      BY <1>6, <2>2
    <3>2. c[k] = new[l + k]
      BY <1>6, <3>1
    <3> QED
      BY <3>1, <3>2
  <2>7. {new[k] : k \in DOMAIN new} \subseteq {t[k] : k \in DOMAIN t} \cup {c[k] : k \in DOMAIN c}
    BY <2>4
  <2>8. {t[k] : k \in DOMAIN t} \subseteq {new[k] : k \in DOMAIN new}
    BY <2>5
  <2>9. {c[k] : k \in DOMAIN c} \subseteq {new[k] : k \in DOMAIN new}
    BY <2>6
  <2> QED
    BY Zenon, <2>7, <2>8, <2>9
<1>10. Taken(taken + 1) = Taken(taken) \cup Bytes(taken + 1)
  <2>1. 1 .. taken + 1 = (1 .. taken) \cup {taken + 1}
    BY <1>1
  <2> QED
    BY <2>1 DEF Taken
<1> QED
  BY <1>2, <1>8, <1>9, <1>10 DEF Bytes

\* What was sent before is as it was.
LEMMA TakenStays ==
    ASSUME NEW n \in Nat, \A i \in 1 .. n : sent'[i] = sent[i]
    PROVE  Taken(n)' = Taken(n)
<1>1. \A i \in 1 .. n : R!Chunk(i)' = R!Chunk(i)
  BY DEF R!Chunk
<1>2. \A i \in 1 .. n : Bytes(i)' = Bytes(i)
  BY <1>1 DEF Bytes
<1> QED
  BY <1>2 DEF Taken

LEMMA OrderKept ==
    ASSUME R!TypeOK, R!DatagramsInOrder, text' = text, taken' = taken, stack' = stack,
           result' = "ENOERR" => result = "ENOERR", \A i \in 1 .. taken : sent'[i] = sent[i]
    PROVE  R!DatagramsInOrder'
<1>1. PICK n \in Nat : n = taken
  BY DEF R!TypeOK
<1>2. Taken(n)' = Taken(n)
  BY <1>1, TakenStays
<1>3. Taken(taken)' = Taken(n)'
  BY <1>1
<1>4. stack' = << >> /\ result' = "ENOERR" =>
          {text[k] : k \in DOMAIN text} = Taken(taken)' /\ Increases(text)
  BY <1>1, <1>2, <1>3, OrderIs
<1> QED
  BY <1>4 DEF R!DatagramsInOrder, Taken, Bytes, Increases

\* With nothing on the stack, strncat finds the whole datagram in local_buf.
LEMMA WholeChunk ==
    ASSUME R!TypeOK, taken < Len(sent), stack = << >>
    PROVE  LocalString(R!Received, stack) = R!Received
<1>1. taken \in Nat /\ taken + 1 \in 1 .. Len(sent) /\ R!Received = R!Chunk(taken + 1)
  BY LenProperties DEF R!TypeOK, R!Received
<1>2. PICK c : c = R!Received
  OBVIOUS
<1>3. PICK m \in 0 .. BuffSize : m = Len(c)
  BY <1>1, <1>2, ReceivedType
<1>4. /\ c \in Seq(Byte) /\ DOMAIN c = 1 .. m
      /\ \A k \in 1 .. m : c[k] = (taken + 1) * (BuffSize + 2) + k
  BY <1>1, <1>2, <1>3, ChunkBytes
<1>5. PICK b \in Nat : b = (taken + 1) * (BuffSize + 2)
  BY <1>1, BuffSizePositive
<1>6. \A k \in 1 .. m : c[k] # NUL
  BY <1>4, <1>5
<1>7. LocalString(c, << >>) = SubSeq(c, 1, m)
  BY <1>3, <1>4, <1>6, EmptySeq, LocalStringProperties
<1>8. SubSeq(c, 1, m) = c
  BY <1>3, <1>4
<1> QED
  BY <1>2, <1>7, <1>8

\* The datagram is added to the text, all of it.
LEMMA CopiedWhole ==
    ASSUME ReceiverConstants, RoomInv, pc = "receiving", taken < Len(sent), stack = << >>,
           Len(R!Received) > 0, NEW sz \in BuffSize .. MaxSize,
           R!HasRoom(Len(R!Received), Len(text), sz)
    PROVE  R!AfterCopy(sz) = text \o R!Chunk(taken + 1)
<1>1. /\ Len(R!Received) \in 1 .. BuffSize /\ BuffSize \in Nat \ {0}
      /\ Len(text) \in Nat /\ sz \in Nat \ {0}
  BY ReceivingFacts
<1>2. sz - Len(text) >= Len(R!Received) + 1
  BY <1>1, RoomForChunk
<1>3. R!Received = R!Chunk(taken + 1)
  BY DEF R!Received
<1>4. PICK c \in Seq(Byte) : c = R!Received
  BY ReceivedType DEF RoomInv
<1>5. R!AfterCopy(sz) = Strncat(text, c, sz - Len(text))
  BY <1>4, SameBuffer, WholeChunk DEF R!AfterCopy, RoomInv
<1>6. PICK m \in 1 .. BuffSize : m = Len(c)
  BY <1>1, <1>4
<1>7. Strncat(text, c, sz - Len(text)) = text \o SubSeq(c, 1, m)
  BY <1>1, <1>2, <1>4, <1>6 DEF Strncat
<1>8. SubSeq(c, 1, m) = c
  BY <1>4, <1>6
<1> QED
  BY <1>3, <1>4, <1>5, <1>7, <1>8

\* A copy of a datagram keeps the order.
LEMMA CopyKeepsOrder ==
    ASSUME ReceiverConstants, RoomInv, R!DatagramsInOrder, pc = "receiving",
           taken < Len(sent), Len(R!Received) > 0,
           NEW sz \in BuffSize .. MaxSize, R!HasRoom(Len(R!Received), Len(text), sz),
           text' = R!AfterCopy(sz), taken' = taken + 1, UNCHANGED <<R!socket, result>>
    PROVE  R!DatagramsInOrder'
<1>1. sent' = sent /\ stack' = stack /\ result' = result
  BY DEF R!socket
<1> SUFFICES ASSUME stack = << >>, result = "ENOERR"
             PROVE  R!DatagramsInOrder'
  BY <1>1 DEF R!DatagramsInOrder
<1>2. text' = text \o R!Chunk(taken + 1)
  BY CopiedWhole
<1>3. text \in Seq(Byte) /\ taken + 1 \in Nat
  BY DEF RoomInv, R!TypeOK
<1>4. {text[k] : k \in DOMAIN text} = Taken(taken) /\ Increases(text)
  BY OrderIs
<1>5. PICK new : new = text'
  OBVIOUS
<1>6. {new[k] : k \in DOMAIN new} = Taken(taken + 1) /\ Increases(new)
  <2>1. PICK t \in Seq(Byte) : t = text
    BY <1>3
  <2>2. {t[k] : k \in DOMAIN t} = Taken(taken) /\ Increases(t)
    BY <1>4, <2>1
  <2>3. new = t \o R!Chunk(taken + 1) /\ R!TypeOK
    BY <1>2, <1>5, <2>1 DEF RoomInv
  <2>4. R!Chunk(taken + 1) \in Seq(Byte)
    BY <2>3, ReceivedType DEF R!Received
  <2>5. new \in Seq(Byte)
    BY <2>3, <2>4, ConcatProperties
  <2> QED
    BY <2>2, <2>3, <2>5, OneMoreDatagram
<1>7. PICK n \in Nat : n = taken + 1
  BY <1>3
<1>8. Taken(n)' = Taken(n)
  BY <1>1, TakenStays
<1>9. Taken(taken)' = Taken(n)'
  BY <1>7
<1>10. {new[k] : k \in DOMAIN new} = Taken(taken)' /\ Increases(new)
  BY <1>6, <1>7, <1>8, <1>9
<1> QED
  BY <1>5, <1>10 DEF R!DatagramsInOrder, Taken, Bytes, Increases

\* Every step keeps the order.
LEMMA OrderStep ==
    ASSUME ReceiverConstants, RoomInv, R!DatagramsInOrder, R!Next
    PROVE  R!DatagramsInOrder'
<1>0. /\ R!TypeOK /\ taken \in 0 .. Len(sent) /\ Len(sent) \in Nat /\ taken \in Nat
      /\ pc # "done" => result = "ENOERR"
  BY LenProperties DEF RoomInv, R!TypeOK, R!NoErrorYet
<1>f. ASSUME NEW e \in R!Errno \ {"ENOERR"}, R!Fails(e) PROVE R!DatagramsInOrder'
  BY <1>f DEF R!Fails, R!DatagramsInOrder
<1>1. CASE R!PeerSends
  <2>1. PICK n \in R!Lengths : sent' = Append(sent, n)
    BY <1>1 DEF R!PeerSends
  <2>2. \A i \in 1 .. taken : sent'[i] = sent[i]
    BY <1>0, <2>1 DEF R!TypeOK
  <2> QED
    BY <1>0, <1>1, <2>2, OrderKept DEF R!PeerSends, R!call
<1>2. CASE R!PeerCloses \/ R!Breaks \/ R!RecvFails
  BY <1>0, <1>2, OrderKept DEF R!PeerCloses, R!Breaks, R!RecvFails, R!call, R!socket
<1>3. CASE R!PreAlloc
  <2>1. CASE R!Fails("ENOMEM")
    BY <1>f, <2>1 DEF R!Errno
  <2>2. CASE ~R!Fails("ENOMEM")
    BY <1>0, <1>3, <2>2, OrderKept DEF R!PreAlloc, R!AllocFails, R!socket
  <2> QED
    BY <2>1, <2>2
<1>4. CASE R!RecvFits
  <2>1. /\ pc = "receiving" /\ R!Received # << >>
        /\ R!HasRoom(Len(R!Received), Len(text), size)
        /\ text' = R!AfterCopy(size) /\ taken' = taken + 1
        /\ UNCHANGED <<R!socket, result>>
    BY <1>4 DEF R!RecvFits, R!Ready
  <2>2. taken < Len(sent)
    BY <2>1 DEF R!Received
  <2>3. Len(R!Received) > 0
    BY <1>0, <2>1, ReceivedType, EmptySeq
  <2>4. size \in BuffSize .. MaxSize
    BY <2>1, ReceivingFacts
  <2> QED
    BY <2>1, <2>2, <2>3, <2>4, CopyKeepsOrder
<1>5. CASE R!RecvGrows
  <2>1. /\ pc = "receiving" /\ R!Received # << >> /\ CanDouble(size)
        /\ taken' = taken + 1
        /\ IF R!HasRoom(Len(R!Received), Len(text), Doubled(size))
           THEN text' = R!AfterCopy(Doubled(size)) /\ UNCHANGED result
           ELSE result' = "EOVERFLOW" /\ UNCHANGED text
        /\ UNCHANGED R!socket
    BY <1>5 DEF R!RecvGrows, R!Ready
  <2>2. taken < Len(sent)
    BY <2>1 DEF R!Received
  <2>3. Len(R!Received) > 0
    BY <1>0, <2>1, ReceivedType, EmptySeq
  <2>4. /\ R!HasRoom(Len(R!Received), Len(text), Doubled(size))
        /\ Doubled(size) \in BuffSize .. MaxSize
    BY <2>1, <2>3, DoublingMakesRoomForNul
  <2>5. text' = R!AfterCopy(Doubled(size)) /\ UNCHANGED <<R!socket, result>>
    BY <2>1, <2>4
  <2> QED
    BY <2>1, <2>2, <2>3, <2>4, <2>5, CopyKeepsOrder
<1>6. CASE R!GrowFails
  <2>1. PICK e \in R!Errno \ {"ENOERR"} : R!Fails(e)
    BY <1>6 DEF R!GrowFails, R!Errno
  <2> QED
    BY <1>f, <2>1
<1>7. CASE R!RecvEnd
  <2>1. /\ R!Received = << >> /\ taken' = IF taken < Len(sent) THEN taken + 1 ELSE taken
        /\ text' = text /\ result' = result /\ sent' = sent /\ stack' = stack
    BY <1>7 DEF R!RecvEnd, R!IsEnd, R!socket
  <2>2. CASE taken < Len(sent)
    <3>1. R!Chunk(taken + 1) = << >>
      BY <2>1, <2>2 DEF R!Received
    <3>2. text \in Seq(Byte) /\ text = text \o R!Chunk(taken + 1)
      BY <1>0, <3>1, ConcatEmptySeq DEF R!TypeOK
    <3> SUFFICES ASSUME stack = << >>, result = "ENOERR"
                 PROVE  R!DatagramsInOrder'
      BY <2>1 DEF R!DatagramsInOrder
    <3>3. {text[k] : k \in DOMAIN text} = Taken(taken) /\ Increases(text)
      BY OrderIs
    <3>4. {text[k] : k \in DOMAIN text} = Taken(taken + 1) /\ Increases(text)
      BY <1>0, <2>2, <3>2, <3>3, OneMoreDatagram
    <3>5. PICK n \in Nat : n = taken + 1
      BY <1>0
    <3>6. Taken(n)' = Taken(n)
      BY <2>1, TakenStays
    <3>7. Taken(taken)' = Taken(n)'
      BY <2>1, <2>2, <3>5
    <3>8. {text[k] : k \in DOMAIN text} = Taken(taken)' /\ Increases(text)
      BY <3>4, <3>5, <3>6, <3>7
    <3> QED
      BY <2>1, <3>8 DEF R!DatagramsInOrder, Taken, Bytes, Increases
  <2>3. CASE ~(taken < Len(sent))
    BY <1>0, <2>1, <2>3, OrderKept
  <2> QED
    BY <2>2, <2>3
<1>8. CASE R!Verify
  <2>1. pc = "verify" /\ result = "ENOERR"
    BY <1>0, <1>8 DEF R!Verify
  <2>2. CASE R!Fails("ENOMEM")
    BY <1>f, <2>2 DEF R!Errno
  <2>3. CASE ~R!Fails("ENOMEM")
    BY <1>0, <1>8, <2>1, <2>3, OrderKept DEF R!Verify, R!AllocFails, R!socket
  <2> QED
    BY <2>2, <2>3
<1> QED
  BY <1>1, <1>2, <1>3, <1>4, <1>5, <1>6, <1>7, <1>8 DEF R!Next, R!Call

\* The initial state satisfies the inductive invariant.
LEMMA ReceiverInit == R!Init => R!IInv
<1> SUFFICES ASSUME R!Init PROVE R!IInv
  OBVIOUS
<1>1. text = << >> /\ taken = 0
  BY DEF R!Init
<1>2. DOMAIN text = {} /\ 1 .. taken = {}
  BY <1>1
<1>3. R!DatagramsInOrder
  BY <1>2, OrderIs DEF Taken, Increases
<1> QED
  BY <1>3, RoomInit DEF RoomInv, R!IInv

\* IInv is an invariant.
LEMMA ReceiverInvariant ==
    ASSUME ReceiverConstants
    PROVE  R!Spec => []R!IInv
<1>1. R!IInv /\ [R!Next]_(R!vars) => R!IInv'
  <2> SUFFICES ASSUME R!IInv, [R!Next]_(R!vars) PROVE R!IInv'
    OBVIOUS
  <2>0. RoomInv /\ R!DatagramsInOrder
    BY DEF R!IInv, RoomInv
  <2>1. CASE R!Next
    <3>1. RoomInv'
      BY <2>0, <2>1, NetworkStep, RoomStep DEF R!Next
    <3>2. R!DatagramsInOrder'
      BY <2>0, <2>1, OrderStep
    <3> QED
      BY <3>1, <3>2 DEF R!IInv, RoomInv
  <2>2. CASE UNCHANGED R!vars
    <3>1. RoomInv'
      BY <2>0, <2>2 DEF R!vars, RoomInv, R!TypeOK, R!TerminatorFits, R!NoErrorYet,
                        R!SizeInRange, R!TextFits
    <3>2. R!DatagramsInOrder'
      BY <2>0, <2>2, OrderKept DEF R!vars, RoomInv
    <3> QED
      BY <3>1, <3>2 DEF R!IInv, RoomInv
  <2> QED
    BY <2>1, <2>2
<1> QED
  BY <1>1, ReceiverInit, PTL DEF R!Spec

\* Every variable keeps its type; in particular the size stays in size_t.
THEOREM ReceiverTypes ==
    ASSUME ReceiverConstants
    PROVE  R!Spec => []R!TypeOK
  BY ReceiverInvariant, PTL DEF R!IInv

\* check_sn_space always leaves the terminator its byte.
THEOREM TerminatorAlwaysFits ==
    ASSUME ReceiverConstants
    PROVE  R!Spec => []R!TerminatorFits
  BY ReceiverInvariant, PTL DEF R!IInv

\* A call without error holds every byte of the datagrams recv(2) returned, each
\* once and in the order in which they were sent.
THEOREM ReceivedInOrder ==
    ASSUME ReceiverConstants
    PROVE  R!Spec => []R!DatagramsInOrder
  BY ReceiverInvariant, PTL DEF R!IInv

\* recv_socket refuses a text only when it does not fit the largest buffer.
THEOREM ReceiverRefusalIsRight ==
    ASSUME ReceiverConstants
    PROVE  R!Spec => R!RefusedOnlyWhenFull
<1> DEFINE Refusal == result # "EOVERFLOW" /\ result' = "EOVERFLOW" =>
                          /\ ~R!CanDouble(size)
                          /\ Len(text) + Len(R!Received) + 1 > size
<1>1. R!IInv /\ [R!Next]_(R!vars) => [Refusal]_(R!vars)
  <2> SUFFICES ASSUME R!IInv, R!Next, result # "EOVERFLOW", result' = "EOVERFLOW"
               PROVE  ~CanDouble(size) /\ Len(text) + Len(R!Received) + 1 > size
    OBVIOUS
  <2>0. RoomInv
    BY DEF R!IInv, RoomInv
  <2>1. R!GrowFails \/ R!RecvGrows
    BY DEF R!Next, R!PeerSends, R!PeerCloses, R!Breaks, R!call, R!Call, R!PreAlloc, R!RecvFits,
           R!RecvEnd, R!RecvFails, R!Verify, R!AllocFails, R!Fails, R!socket
  <2>2. pc = "receiving" /\ R!Received # << >>
    BY <2>1 DEF R!GrowFails, R!RecvGrows, R!Ready
  <2>3. Len(R!Received) > 0
    BY <2>2, ReceivedType, EmptySeq DEF R!IInv
  <2>4. CASE R!RecvGrows
    <3>1. CanDouble(size)
      BY <2>4 DEF R!RecvGrows
    <3>2. R!HasRoom(Len(R!Received), Len(text), Doubled(size))
      BY <2>0, <2>2, <2>3, <3>1, DoublingMakesRoomForNul
    <3>3. result' = result
      BY <2>4, <3>2 DEF R!RecvGrows
    <3> QED
      BY <3>3
  <2>5. CASE R!GrowFails
    <3>1. ~R!HasRoom(Len(R!Received), Len(text), size) /\ ~CanDouble(size)
      BY <2>5 DEF R!GrowFails, R!Fails
    <3>2. /\ Len(R!Received) \in 1 .. BuffSize /\ Len(text) \in Nat
          /\ size \in Nat \ {0}
      BY <2>0, <2>2, <2>3, ReceivingFacts
    <3>3. ~(size - Len(text) >= Len(R!Received) + 1)
      BY <3>1, <3>2, RoomForChunk
    <3> QED
      BY <3>1, <3>2, <3>3
  <2> QED
    BY <2>1, <2>4, <2>5
<1> QED
  BY <1>1, ReceiverInvariant, PTL DEF R!Spec, R!RefusedOnlyWhenFull
===============================================================================
