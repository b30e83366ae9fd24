---------------------------- MODULE LockedFd_proofs ----------------------------
(***************************************************************************)
(* Proofs about LockedFd for any number of processes, messages and cells:  *)
(* its types, the exclusion its locks give and the snapshots its reads     *)
(* return, from the inductive invariant IInv; then, from WriteInv, that a  *)
(* message is whole when it is acknowledged and that the calls implement a *)
(* file with atomic ones.                                                  *)
(***************************************************************************)
EXTENDS LockedFd, TLAPS, SequenceTheorems

\* A function over 1..n with values in S is a sequence over S.
LEMMA FunIsSeq ==
    ASSUME NEW S, NEW n \in Nat, NEW f \in [1 .. n -> S]
    PROVE  f \in Seq(S) /\ Len(f) = n
  BY SeqDef

\* The initial state satisfies the inductive invariant.
LEMMA InitIInv == Init => IInv
<1> SUFFICES ASSUME Init PROVE IInv
  OBVIOUS
<1>1. TypeOK
  BY SizesPositive, EmptySeq DEF Init, TypeOK, Places, Locks, Errno
<1>2. NoHole /\ FreshReader /\ ExclusiveLock /\ CallHoldsLock /\ ReadIsSnapshot
  BY DEF Init, NoHole, FreshReader, ExclusiveLock, CallHoldsLock, ReadIsSnapshot, Snapshot, Proc
<1> QED
  BY <1>1, <1>2 DEF IInv

\* A write(2) puts cells of its own message into the file and takes them off
\* what is left of the message.
LEMMA WriteSomeType ==
    ASSUME TypeOK, NoHole, CallHoldsLock, NEW p \in Proc, WriteSome(p)
    PROVE  /\ file' \in Seq(Cell)
           /\ pos' \in [Proc -> Nat]
           /\ left' \in [Proc -> 0 .. MsgLen]
           /\ \A q \in Proc : pos'[q] <= Len(file')
<1>1. PICK n \in 1 .. left[p] :
         /\ file' = [i \in 1 .. (IF pos[p] + n > Len(file)
                                 THEN pos[p] + n ELSE Len(file)) |->
                       IF i \in pos[p] + 1 .. pos[p] + n
                       THEN <<p, round[p], MsgLen - left[p] + i - pos[p]>>
                       ELSE file[i]]
         /\ pos' = [pos EXCEPT ![p] = pos[p] + n]
         /\ left' = [left EXCEPT ![p] = @ - n]
  BY DEF WriteSome, Partial
<1> DEFINE at == pos[p]
           size == IF at + n > Len(file) THEN at + n ELSE Len(file)
<1>2. /\ left[p] \in 0 .. MsgLen /\ n \in Nat /\ MsgLen \in Nat
      /\ round[p] \in Nat /\ Len(file) \in Nat /\ pos[p] \in Nat
      /\ at \in Nat /\ at <= Len(file)
  BY SizesPositive, LenProperties DEF TypeOK, NoHole
<1>3. size \in Nat
  BY <1>2
<1>4. p \in Writers \cup Holders
  BY DEF CallHoldsLock, WriteSome, Proc
<1>5. ASSUME NEW i \in 1 .. size
      PROVE  (IF i \in at + 1 .. at + n
              THEN <<p, round[p], MsgLen - left[p] + i - at>>
              ELSE file[i]) \in Cell
  <2>1. CASE i \in at + 1 .. at + n
    <3>1. MsgLen - left[p] + i - at \in Nat
      BY <1>2, <2>1
    <3> QED
      BY <1>2, <1>4, <2>1, <3>1 DEF Cell
  <2>2. CASE i \notin at + 1 .. at + n
    <3>1. i \in 1 .. Len(file)
      BY <1>2, <2>2
    <3> QED
      BY <2>2, <3>1, ElementOfSeq DEF TypeOK
  <2> QED
    BY <2>1, <2>2
<1>6. file' \in [1 .. size -> Cell]
  BY <1>1, <1>5
<1>7. file' \in Seq(Cell) /\ Len(file') = size
  BY <1>3, <1>6, FunIsSeq
<1>8. pos' \in [Proc -> Nat] /\ left' \in [Proc -> 0 .. MsgLen]
  BY <1>1, <1>2 DEF TypeOK
<1>9. ASSUME NEW q \in Proc PROVE pos'[q] <= Len(file')
  <2>1. pos'[q] = IF q = p THEN at + n ELSE pos[q]
    BY <1>1 DEF TypeOK
  <2>2. pos[q] <= Len(file) /\ pos[q] \in Nat
    BY DEF NoHole, TypeOK
  <2> QED
    BY <1>2, <1>7, <2>1, <2>2
<1> QED
  BY <1>7, <1>8, <1>9

\* A read(2) extends the buffer to a longer prefix of the file.
LEMMA ReadSomeType ==
    ASSUME TypeOK, NoHole, CallHoldsLock, ReadIsSnapshot,
           NEW p \in Proc, ReadSome(p)
    PROVE  /\ buf' \in [Proc -> Seq(Cell) \cup {NULL}]
           /\ pos' \in [Proc -> Nat]
           /\ pos'[p] <= Len(file)
           /\ buf'[p] = [i \in 1 .. pos'[p] |-> file[i]]
           /\ \A q \in Proc \ {p} : pos'[q] = pos[q] /\ buf'[q] = buf[q]
<1>1. PICK n \in 1 .. Len(file) - pos[p] :
         /\ buf' = [buf EXCEPT ![p] =
                       [i \in 1 .. pos[p] + n |->
                           IF i <= pos[p] THEN buf[p][i] ELSE file[i]]]
         /\ pos' = [pos EXCEPT ![p] = @ + n]
  BY DEF ReadSome
<1>2. p \in Readers /\ pc[p] = "reading"
  BY DEF CallHoldsLock, ReadSome
<1>3. pos[p] \in Nat /\ Len(file) \in Nat /\ n \in Nat
      /\ pos[p] + n <= Len(file)
  BY <1>1, LenProperties DEF TypeOK
<1>4. buf'[p] = [i \in 1 .. pos[p] + n |->
                    IF i <= pos[p] THEN buf[p][i] ELSE file[i]]
  BY <1>1 DEF TypeOK
<1>5. ASSUME NEW i \in 1 .. pos[p] + n
      PROVE  (IF i <= pos[p] THEN buf[p][i] ELSE file[i]) = file[i]
  <2>1. CASE i <= pos[p]
    <3>1. pos[p] > 0 /\ i \in 1 .. pos[p]
      BY <1>3, <2>1
    <3>2. buf[p] = [j \in 1 .. pos[p] |-> file[j]]
      BY <1>2, <3>1 DEF ReadIsSnapshot, Snapshot
    <3> QED
      BY <3>1, <3>2
  <2> QED
    BY <2>1
<1>6. buf'[p] = [i \in 1 .. pos[p] + n |-> file[i]]
  BY <1>4, <1>5
<1>7. buf'[p] \in Seq(Cell)
  <2>1. \A i \in 1 .. pos[p] + n : file[i] \in Cell
    BY <1>3, ElementOfSeq DEF TypeOK
  <2>2. buf'[p] \in [1 .. pos[p] + n -> Cell]
    BY <1>6, <2>1
  <2>3. pos[p] + n \in Nat
    BY <1>3
  <2> QED
    BY <2>2, <2>3, FunIsSeq
<1>8. pos'[p] = pos[p] + n /\ pos' \in [Proc -> Nat]
  BY <1>1, <1>3 DEF TypeOK
<1>9. buf' \in [Proc -> Seq(Cell) \cup {NULL}]
  BY <1>1, <1>4, <1>7 DEF TypeOK
<1>10. \A q \in Proc \ {p} : pos'[q] = pos[q] /\ buf'[q] = buf[q]
  BY <1>1 DEF TypeOK
<1> QED
  BY <1>3, <1>6, <1>8, <1>9, <1>10

\* Every step keeps the variables in their types and the offsets in the file.
LEMMA StepType ==
    ASSUME IInv, NEW p \in Proc, Call(p) \/ Interrupt(p) \/ Crash(p), Settle
    PROVE  TypeOK' /\ NoHole'
<1> SUFFICES ASSUME settled' \in Seq(Cell) PROVE TypeOK' /\ NoHole'
  <2>1. file' \in Seq(Cell)
    <3>1. CASE WriteSome(p)
      BY <3>1, WriteSomeType DEF IInv
    <3>2. CASE ~WriteSome(p)
      BY <3>2 DEF IInv, TypeOK, Call, Interrupt, Crash, OpenForRead, NextMessage,
         AskToHold, TryToWrite, InputEnds, Granted, Refused, LockFails, ReadSome, ReadEof,
         ReadFails, WriteDone, WriteFails, Release, ReleaseFails, Leave, Close
    <3> QED
      BY <3>1, <3>2
  <2>2. settled' \in Seq(Cell)
    BY <2>1 DEF IInv, TypeOK, Settle
  <2> QED
    BY <2>2
<1> USE DEF IInv
<1>0. Len(<< >>) = 0 /\ << >> \in Seq(Cell) /\ 0 \in 0 .. MsgLen
      /\ MsgLen \in 0 .. MsgLen /\ 0 \in Nat /\ Len(file) \in Nat
  BY EmptySeq, SizesPositive, LenProperties DEF TypeOK
<1>1. CASE OpenForRead(p)
  <2>1. round' \in [Proc -> 0 .. MaxRounds]
    BY <1>1, SizesPositive DEF OpenForRead, TypeOK
  <2>2. pos' \in [Proc -> Nat] /\ \A q \in Proc : pos'[q] <= Len(file)
    BY <1>0, <1>1 DEF OpenForRead, TypeOK, NoHole
  <2>3. /\ pc' \in [Proc -> Places] /\ result' \in [Proc -> Errno]
        /\ buf' \in [Proc -> Seq(Cell) \cup {NULL}]
    BY <1>1 DEF OpenForRead, TypeOK, Goto, Fail, Places, Errno
  <2> QED
    BY <1>1, <2>1, <2>2, <2>3 DEF OpenForRead, TypeOK, NoHole
<1>2. CASE NextMessage(p)
  <2>1. round' \in [Proc -> 0 .. MaxRounds]
    BY <1>2, SizesPositive DEF NextMessage, TypeOK
  <2>2. /\ pc' \in [Proc -> Places] /\ result' \in [Proc -> Errno]
        /\ left' \in [Proc -> 0 .. MsgLen]
    BY <1>0, <1>2 DEF NextMessage, TypeOK, Goto, Fail, Places, Errno
  <2> QED
    BY <1>2, <2>1, <2>2 DEF NextMessage, TypeOK, NoHole
<1>3. CASE AskToHold(p)
  BY <1>3 DEF AskToHold, TypeOK, NoHole, Goto, Fail, Places, Errno
<1>4. CASE Granted(p)
  BY <1>4 DEF Granted, TypeOK, NoHole, Goto, Places, Locks, LockType
<1>5. CASE Refused(p)
  BY <1>5 DEF Refused, TypeOK, NoHole, Goto, Fail, NotRead, Places, Errno
<1>19. CASE LockFails(p)
  BY <1>19 DEF LockFails, TypeOK, NoHole, Goto, Fail, NotRead, Places, Errno
<1>21. CASE InputEnds(p)
  BY <1>21 DEF InputEnds, TypeOK, NoHole, Goto, Places
<1>20. CASE TryToWrite(p)
  BY <1>20 DEF TryToWrite, TypeOK, NoHole, Goto, Places
<1>6. CASE ReadSome(p)
  <2>1. NoHole'
    BY <1>6, ReadSomeType DEF NoHole, ReadSome
  <2>2. TypeOK'
    BY <1>6, ReadSomeType DEF TypeOK, ReadSome
  <2> QED
    BY <2>1, <2>2
<1>7. CASE ReadEof(p)
  BY <1>0, <1>7 DEF ReadEof, TypeOK, NoHole, Goto, Places
<1>8. CASE ReadFails(p)
  BY <1>8 DEF ReadFails, TypeOK, NoHole, Goto, Fail, Places, Errno
<1>9. CASE WriteSome(p)
  <2>1. NoHole'
    BY <1>9, WriteSomeType DEF NoHole
  <2>2. TypeOK'
    BY <1>9, WriteSomeType DEF TypeOK, WriteSome
  <2> QED
    BY <2>1, <2>2
<1>10. CASE WriteDone(p)
  <2>1. p \in Writers \cup Holders
    BY <1>10 DEF CallHoldsLock, WriteDone, Proc
  <2>2. acked' \subseteq (Writers \cup Holders) \X (0 .. MaxRounds)
    BY <1>10, <2>1 DEF WriteDone, TypeOK
  <2> QED
    BY <1>10, <2>2 DEF WriteDone, TypeOK, NoHole, Goto, AfterWrite, Places
<1>11. CASE WriteFails(p)
  BY <1>11 DEF WriteFails, TypeOK, NoHole, Goto, Fail, Places, Errno
<1>12. ASSUME NEW e \in Errno, Report(p, e)
       PROVE  /\ pc' \in [Proc -> Places]
              /\ result' \in [Proc -> Errno]
              /\ returned' \in [Readers -> [buf : Seq(Cell) \cup {NULL},
                                            errnum : Errno]]
              /\ acked' \subseteq (Writers \cup Holders) \X (0 .. MaxRounds)
  BY <1>12 DEF Report, TypeOK, Goto, Fail, Places
<1>13. CASE Release(p)
  <2>1. result[p] \in Errno
    BY DEF TypeOK
  <2> QED
    BY <1>12, <1>13, <2>1 DEF Release, TypeOK, NoHole, Locks
<1>14. CASE ReleaseFails(p)
  <2>1. "EIO" \in Errno
    BY DEF Errno
  <2> QED
    BY <1>12, <1>14, <2>1 DEF ReleaseFails, TypeOK, NoHole
<1>15. CASE Leave(p)
  BY <1>15 DEF Leave, TypeOK, NoHole, Goto, Places
<1>16. CASE Close(p)
  BY <1>16 DEF Close, TypeOK, NoHole, Goto, Places, Locks
<1>17. CASE Interrupt(p)
  BY <1>17 DEF Interrupt, TypeOK, NoHole
<1>18. CASE Crash(p)
  BY <1>18 DEF Crash, TypeOK, NoHole, Goto, Places, Locks
<1> QED
  BY <1>1, <1>2, <1>3, <1>4, <1>5, <1>6, <1>7, <1>8, <1>9, <1>10, <1>11,
     <1>13, <1>14, <1>15, <1>16, <1>17, <1>18, <1>19, <1>20, <1>21 DEF Call

\* F_SETLK grants a write lock only when nobody else has a lock, and a call
\* enters read_fd or write_fd only through it.
LEMMA StepLocks ==
    ASSUME IInv, NEW p \in Proc, Call(p) \/ Interrupt(p) \/ Crash(p)
    PROVE  ExclusiveLock' /\ CallHoldsLock'
<1> USE DEF IInv, TypeOK, ExclusiveLock, CallHoldsLock, Goto
<1>1. CASE OpenForRead(p) \/ NextMessage(p) \/ AskToHold(p)
  BY <1>1, RolesDisjoint DEF OpenForRead, NextMessage, AskToHold
<1>2. CASE Granted(p)
  <2>1. ExclusiveLock'
    BY <1>2 DEF Granted, Conflicts, LockType, Locks
  <2>2. CallHoldsLock'
    BY <1>2, RolesDisjoint DEF Granted, LockType
  <2> QED
    BY <2>1, <2>2
<1>8. CASE InputEnds(p)
  <2>1. lock' = lock /\ pc' = [pc EXCEPT ![p] = "writing"] /\ pc[p] = "typing"
    BY <1>8 DEF InputEnds
  <2> QED
    BY <2>1
<1>3. CASE Refused(p) \/ LockFails(p) \/ TryToWrite(p)
  <2>1. lock' = lock /\ \A q \in Proc \ {p} : pc'[q] = pc[q]
    BY <1>3 DEF Refused, LockFails, TryToWrite
  <2>2. pc'[p] \in {"idle", "waiting", "closing", "locking"}
    BY <1>3 DEF Refused, LockFails, TryToWrite
  <2> QED
    BY <2>1, <2>2
<1>4. CASE ReadSome(p) \/ ReadEof(p) \/ ReadFails(p)
  BY <1>4 DEF ReadSome, ReadEof, ReadFails
<1>5. CASE WriteSome(p) \/ WriteDone(p) \/ WriteFails(p)
  <2>1. p \in Proc \ Readers /\ lock[p] = "F_WRLCK" /\ lock' = lock
    BY <1>5 DEF WriteSome, WriteDone, WriteFails
  <2>2. \A q \in Proc \ {p} : pc'[q] = pc[q]
    BY <1>5 DEF WriteSome, WriteDone, WriteFails
  <2>3. pc'[p] \in {"idle", "writing", "unlocking"}
    BY <1>5 DEF WriteSome, WriteDone, WriteFails, AfterWrite
  <2> QED
    BY <2>1, <2>2, <2>3
<1>6. CASE Release(p) \/ ReleaseFails(p)
  <2>1. lock' = [lock EXCEPT ![p] = "F_UNLCK"] \/ lock' = lock
    BY <1>6 DEF Release, ReleaseFails
  <2>2. pc' = [pc EXCEPT ![p] = "idle"] \/ pc' = [pc EXCEPT ![p] = "closing"]
    BY <1>6 DEF Release, ReleaseFails, Report
  <2>3. ExclusiveLock'
    BY <2>1 DEF Locks
  <2>4. \A q \in Proc : pc'[q] \in {"reading", "typing", "writing", "unlocking"} =>
                          q # p /\ pc'[q] = pc[q] /\ lock'[q] = lock[q]
    BY <2>1, <2>2
  <2> QED
    BY <2>3, <2>4
<1>7. CASE Leave(p) \/ Close(p) \/ Interrupt(p) \/ Crash(p)
  <2>1. lock' = [lock EXCEPT ![p] = "F_UNLCK"] \/ lock' = lock
    BY <1>7 DEF Leave, Close, Interrupt, Crash
  <2>2. ExclusiveLock'
    BY <2>1 DEF Locks
  <2>3. CallHoldsLock'
    <3>1. CASE Leave(p)
      BY <3>1 DEF Leave
    <3>2. CASE Close(p)
      BY <3>2 DEF Close
    <3>3. CASE Interrupt(p)
      BY <3>3 DEF Interrupt
    <3>4. CASE Crash(p)
      BY <3>4 DEF Crash
    <3> QED
      BY <1>7, <3>1, <3>2, <3>3, <3>4
  <2> QED
    BY <2>2, <2>3
<1> QED
  BY <1>1, <1>2, <1>3, <1>4, <1>5, <1>6, <1>7, <1>8 DEF Call


\* What another process does to itself is nothing to a reader.
LEMMA ReaderFrame ==
    ASSUME IInv, NEW q \in Readers, pc'[q] = pc[q], pos'[q] = pos[q],
           buf'[q] = buf[q], result'[q] = result[q], file' = file
    PROVE  Snapshot(q)' /\ (pc'[q] = "locking" => pos'[q] = 0)
  BY DEF IInv, ReadIsSnapshot, Snapshot, FreshReader

\* A reader's buffer follows its offset, and the file stays as it is while any
\* reader has its lock.
LEMMA StepSnapshot ==
    ASSUME IInv, NEW p \in Proc, Call(p) \/ Interrupt(p) \/ Crash(p),
           NEW q \in Readers
    PROVE  Snapshot(q)' /\ (pc'[q] = "locking" => pos'[q] = 0)
<1> USE DEF IInv, Goto, Fail
<1>0. q \in Proc
  BY DEF Proc
<1>1. CASE OpenForRead(p)
  BY <1>0, <1>1, ReaderFrame DEF OpenForRead, TypeOK, Snapshot
<1>2. CASE NextMessage(p) \/ AskToHold(p)
  BY <1>0, <1>2, ReaderFrame, RolesDisjoint DEF NextMessage, AskToHold, TypeOK
<1>3. CASE Granted(p)
  <2>1. CASE p = q
    BY <1>0, <1>3, <2>1 DEF Granted, TypeOK, Snapshot, FreshReader
  <2>2. CASE p # q
    BY <1>0, <1>3, <2>2, ReaderFrame DEF Granted, TypeOK
  <2> QED
    BY <2>1, <2>2
<1>4. CASE Refused(p) \/ LockFails(p)
  <2>1. CASE p = q
    BY <1>0, <1>4, <2>1 DEF Refused, LockFails, TypeOK, Snapshot
  <2>2. CASE p # q
    BY <1>0, <1>4, <2>2, ReaderFrame DEF Refused, LockFails, TypeOK
  <2> QED
    BY <2>1, <2>2
<1>5. CASE ReadSome(p)
  <2>1. pc[p] = "reading" /\ pc' = pc /\ file' = file /\ result' = result
    BY <1>5 DEF ReadSome
  <2>2. /\ buf'[p] = [i \in 1 .. pos'[p] |-> file[i]]
        /\ \A r \in Proc \ {p} : pos'[r] = pos[r] /\ buf'[r] = buf[r]
    BY <1>5, ReadSomeType
  <2>3. CASE p = q
    BY <2>1, <2>2, <2>3 DEF Snapshot
  <2>4. CASE p # q
    BY <1>0, <2>1, <2>2, <2>4, ReaderFrame
  <2> QED
    BY <2>3, <2>4
<1>6. CASE ReadEof(p)
  <2>1. p \in Readers /\ pos[p] \in Nat /\ file \in Seq(Cell)
    BY <1>6 DEF ReadEof, CallHoldsLock, TypeOK
  <2>2. buf'[p] = file
    <3>1. CASE pos[p] = 0
      BY <1>6, <2>1, <3>1, EmptySeq DEF ReadEof, TypeOK
    <3>2. CASE pos[p] > 0
      <4>1. pc[p] = "reading" /\ pos[p] = Len(file) /\ buf'[p] = buf[p]
        BY <1>6, <2>1, <3>2 DEF ReadEof, TypeOK
      <4>2. buf[p] = [i \in 1 .. pos[p] |-> file[i]]
        BY <2>1, <3>2, <4>1 DEF ReadIsSnapshot, Snapshot
      <4> QED
        BY <2>1, <4>1, <4>2, LenProperties
    <3> QED
      BY <2>1, <3>1, <3>2
  <2>3. /\ pc' = [pc EXCEPT ![p] = "unlocking"] /\ file' = file /\ pos' = pos
        /\ result' = result /\ \A r \in Proc \ {p} : buf'[r] = buf[r]
    BY <1>6 DEF ReadEof, TypeOK
  <2>4. CASE p = q
    BY <1>0, <2>2, <2>3, <2>4 DEF Snapshot, TypeOK
  <2>5. CASE p # q
    BY <1>0, <2>3, <2>5, ReaderFrame DEF TypeOK
  <2> QED
    BY <2>4, <2>5
<1>7. CASE ReadFails(p)
  <2>1. CASE p = q
    BY <1>0, <1>7, <2>1 DEF ReadFails, TypeOK, Snapshot
  <2>2. CASE p # q
    BY <1>0, <1>7, <2>2, ReaderFrame DEF ReadFails, TypeOK
  <2> QED
    BY <2>1, <2>2
<1>8. CASE WriteSome(p)
  <2>1. pc[q] \notin {"reading", "unlocking"} /\ p # q
    BY <1>0, <1>8 DEF WriteSome, CallHoldsLock, ExclusiveLock
  <2>2. pc' = pc /\ pos'[q] = pos[q]
    BY <1>0, <1>8, <2>1 DEF WriteSome, TypeOK
  <2> QED
    BY <2>1, <2>2 DEF Snapshot, FreshReader
<1>9. CASE WriteDone(p) \/ WriteFails(p)
  <2>1. p # q
    BY <1>9 DEF WriteDone, WriteFails, CallHoldsLock
  <2> QED
    BY <1>0, <1>9, <2>1, ReaderFrame DEF WriteDone, WriteFails, TypeOK
<1>10. CASE Release(p) \/ ReleaseFails(p)
  <2>1. buf' = buf /\ pos' = pos /\ file' = file
    BY <1>10 DEF Release, ReleaseFails
  <2>2. CASE p = q
    <3>1. pc'[q] \in {"idle", "closing"}
      BY <1>0, <1>10, <2>2 DEF Release, ReleaseFails, Report, TypeOK
    <3> QED
      BY <3>1 DEF Snapshot
  <2>3. CASE p # q
    BY <1>0, <1>10, <2>1, <2>3, ReaderFrame
    DEF Release, ReleaseFails, Report, TypeOK
  <2> QED
    BY <2>2, <2>3
<1>11. CASE Leave(p) \/ Close(p) \/ Interrupt(p) \/ Crash(p)
  <2>1. CASE p = q /\ ~Interrupt(p)
    BY <1>0, <1>11, <2>1 DEF Leave, Close, Crash, TypeOK, Snapshot
  <2>2. CASE p # q \/ Interrupt(p)
    BY <1>0, <1>11, <2>2, ReaderFrame DEF Leave, Close, Crash, Interrupt, TypeOK
  <2> QED
    BY <2>1, <2>2
<1>12. CASE TryToWrite(p) \/ InputEnds(p)
  <2>1. CASE p = q
    BY <1>0, <1>12, <2>1, RolesDisjoint DEF TryToWrite, InputEnds, CallHoldsLock
  <2>2. CASE p # q
    BY <1>0, <1>12, <2>2, ReaderFrame DEF TryToWrite, InputEnds, TypeOK
  <2> QED
    BY <2>1, <2>2
<1> QED
  BY <1>1, <1>2, <1>3, <1>4, <1>5, <1>6, <1>7, <1>8, <1>9, <1>10, <1>11, <1>12
  DEF Call

\* IInv is an invariant.
LEMMA InductiveInvariant == Spec => []IInv
<1>1. IInv /\ [Next]_vars => IInv'
  <2> SUFFICES ASSUME IInv, [Next]_vars PROVE IInv'
    OBVIOUS
  <2>1. CASE Next
    <3>1. PICK p \in Proc : (Call(p) \/ Interrupt(p) \/ Crash(p)) /\ Settle
      BY <2>1 DEF Next
    <3>2. TypeOK' /\ NoHole' /\ ExclusiveLock' /\ CallHoldsLock'
      BY <3>1, StepType, StepLocks
    <3>3. ReadIsSnapshot' /\ FreshReader'
      BY <3>1, StepSnapshot DEF ReadIsSnapshot, FreshReader
    <3> QED
      BY <3>2, <3>3 DEF IInv
  <2>2. CASE UNCHANGED vars
    BY <2>2 DEF vars, IInv, TypeOK, NoHole, FreshReader, ExclusiveLock,
                CallHoldsLock, ReadIsSnapshot, Snapshot
  <2> QED
    BY <2>1, <2>2
<1> QED
  BY <1>1, InitIInv, PTL DEF Spec

\* Every variable keeps its type, for any processes, messages and offsets.
THEOREM TypeCorrect == Spec => []TypeOK
  BY InductiveInvariant, PTL DEF IInv

\* While write_fd writes, no other process is inside read_fd or write_fd.
THEOREM WritersAreAlone == Spec => []WriterAlone
<1>1. IInv => WriterAlone
  BY DEF IInv, WriterAlone, CallHoldsLock, ExclusiveLock
<1> QED
  BY <1>1, InductiveInvariant, PTL

\* A successful read_locked_fd collects exactly the file, however many read(2)
\* calls it takes and whatever the other processes do meanwhile.
THEOREM ReadsAreSnapshots == Spec => []ReadIsSnapshot
  BY InductiveInvariant, PTL DEF IInv

-----------------------------------------------------------------------------
(***************************************************************************)
(* The writes: AckedIsWhole and the refinement of AtomicFile.              *)
(***************************************************************************)

\* Only one message is on its way into the file: its call has the write lock.
LEMMA SoleWriter ==
    ASSUME IInv, WriterLock, NEW p \in Proc, Unsettled(p)
    PROVE  /\ p \in Writers \cup Holders
           /\ lock[p] = "F_WRLCK"
           /\ \A q \in Proc : Unsettled(q) => q = p
<1>1. \A q \in Proc : Unsettled(q) => q \notin Readers /\ lock[q] = "F_WRLCK"
  BY RolesDisjoint DEF IInv, CallHoldsLock, WriterLock, Unsettled
<1> QED
  BY <1>1 DEF IInv, ExclusiveLock, Proc

\* The cells of a file g that is f with k cells of a message put over it.
LEMMA PutCells ==
    ASSUME NEW f \in Seq(Cell), NEW at \in 0 .. Len(f), NEW k \in Nat,
           NEW p \in Writers \cup Holders, NEW r \in Nat,
           NEW g, g = [i \in 1 .. (IF at + k > Len(f) THEN at + k ELSE Len(f)) |->
                         IF i \in at + 1 .. at + k THEN <<p, r, i - at>> ELSE f[i]]
    PROVE  /\ g \in Seq(Cell)
           /\ Len(g) = IF at + k > Len(f) THEN at + k ELSE Len(f)
           /\ \A i \in 1 .. Len(g) :
                 g[i] = IF i \in at + 1 .. at + k THEN <<p, r, i - at>> ELSE f[i]
<1> DEFINE size == IF at + k > Len(f) THEN at + k ELSE Len(f)
<1>1. Len(f) \in Nat /\ at \in Nat /\ size \in Nat
  BY LenProperties
<1>2. ASSUME NEW i \in 1 .. size PROVE g[i] \in Cell
  <2>1. CASE i \in at + 1 .. at + k
    <3>1. i - at \in Nat
      BY <1>1, <2>1
    <3> QED
      BY <2>1, <3>1 DEF Cell
  <2>2. CASE i \notin at + 1 .. at + k
    <3>1. i \in 1 .. Len(f)
      BY <1>1, <2>2
    <3> QED
      BY <2>2, <3>1, ElementOfSeq
  <2> QED
    BY <2>1, <2>2
<1>3. g \in [1 .. size -> Cell]
  BY <1>2
<1>4. g \in Seq(Cell) /\ Len(g) = size
  BY <1>1, <1>3, FunIsSeq
<1> QED
  BY <1>4

\* How far a file reaches after two writes, of k and of n cells, is how far it
\* reaches after one of both.
LEMMA Reach ==
    ASSUME NEW a \in Nat, NEW k \in Nat, NEW n \in Nat, NEW l \in Nat, NEW m \in Nat,
           m = IF a + k > l THEN a + k ELSE l
    PROVE  (IF a + k + n > m THEN a + k + n ELSE m) = (IF a + (k + n) > l THEN a + (k + n) ELSE l)
OBVIOUS

\* Putting the next n cells of a message behind the k that are there is putting
\* k + n of them: a partial write lengthens the piece that is over the old file.
LEMMA PutMore ==
    ASSUME NEW f \in Seq(Cell), NEW at \in 0 .. Len(f), NEW k \in Nat, NEW n \in Nat,
           NEW p \in Writers \cup Holders, NEW r \in Nat,
           NEW g, g = [i \in 1 .. (IF at + k > Len(f) THEN at + k ELSE Len(f)) |->
                         IF i \in at + 1 .. at + k THEN <<p, r, i - at>> ELSE f[i]]
    PROVE  [i \in 1 .. (IF at + k + n > Len(g) THEN at + k + n ELSE Len(g)) |->
              IF i \in at + k + 1 .. at + k + n THEN <<p, r, k + i - (at + k)>> ELSE g[i]]
           = [i \in 1 .. (IF at + (k + n) > Len(f) THEN at + (k + n) ELSE Len(f)) |->
                IF i \in at + 1 .. at + (k + n) THEN <<p, r, i - at>> ELSE f[i]]
<1> DEFINE size(m) == IF at + m > Len(f) THEN at + m ELSE Len(f)
<1>1. /\ Len(f) \in Nat /\ at \in Nat /\ k \in Nat /\ n \in Nat
      /\ size(k) \in Nat /\ size(k + n) \in Nat
  BY LenProperties
<1>2. /\ Len(g) = size(k)
      /\ \A i \in 1 .. size(k) :
            g[i] = IF i \in at + 1 .. at + k THEN <<p, r, i - at>> ELSE f[i]
  BY PutCells
<1>3. (IF at + k + n > Len(g) THEN at + k + n ELSE Len(g)) = size(k + n)
  <2>1. Len(g) \in Nat /\ Len(g) = IF at + k > Len(f) THEN at + k ELSE Len(f)
    BY <1>1, <1>2
  <2> QED
    BY <1>1, <2>1, Reach
<1>4. ASSUME NEW i \in 1 .. size(k + n)
      PROVE  (IF i \in at + k + 1 .. at + k + n THEN <<p, r, k + i - (at + k)>> ELSE g[i])
             = (IF i \in at + 1 .. at + (k + n) THEN <<p, r, i - at>> ELSE f[i])
  <2>1. CASE i \in at + k + 1 .. at + k + n
    <3>1. k + i - (at + k) = i - at /\ i \in at + 1 .. at + (k + n)
      BY <1>1, <2>1
    <3> QED
      BY <2>1, <3>1
  <2>2. CASE i \notin at + k + 1 .. at + k + n
    <3>1. i \in 1 .. size(k)
      BY <1>1, <2>2
    <3>2. i \in at + 1 .. at + (k + n) <=> i \in at + 1 .. at + k
      BY <1>1, <2>2
    <3> QED
      BY <1>2, <2>2, <3>1, <3>2
  <2> QED
    BY <2>1, <2>2
<1> QED
  BY <1>3, <1>4

\* Putting nothing changes nothing.
LEMMA PutNothing ==
    ASSUME NEW f \in Seq(Cell), NEW at \in 0 .. Len(f), NEW p, NEW r
    PROVE  [i \in 1 .. (IF at + 0 > Len(f) THEN at + 0 ELSE Len(f)) |->
              IF i \in at + 1 .. at + 0 THEN <<p, r, i - at>> ELSE f[i]] = f
<1>1. Len(f) \in Nat /\ at \in Nat /\ ~(at + 0 > Len(f)) /\ at + 1 > at + 0
  BY LenProperties
<1>2. \A i \in 1 .. Len(f) : i \notin at + 1 .. at + 0
  BY <1>1
<1>3. f = [i \in 1 .. Len(f) |-> f[i]]
  BY LenProperties
<1> QED
  BY <1>1, <1>2, <1>3

\* The initial state satisfies the invariant of the writes.
LEMMA InitWriteInv == Init => WriteInv
<1> SUFFICES ASSUME Init PROVE WriteInv
  OBVIOUS
<1>1. WriterLock /\ MessageProgress /\ FileIsOverlaid /\ ReaderResult
  BY RolesDisjoint DEF Init, WriterLock, MessageProgress, FileIsOverlaid, ReaderResult,
         Pending, Unsettled, Proc
<1>2. CellsAreKnown
  BY EmptySeq DEF Init, CellsAreKnown
<1> QED
  BY <1>1, <1>2 DEF WriteInv

\* A writer's lock comes with F_SETLK and goes with the end of its call.
LEMMA StepWriterLock ==
    ASSUME IInv, WriterLock, NEW p \in Proc, Call(p) \/ Interrupt(p) \/ Crash(p)
    PROVE  WriterLock'
<1> USE DEF IInv, TypeOK, WriterLock, Goto
<1>0. ASSUME NEW q \in Writers PROVE q \in Proc /\ q \notin Readers /\ q \notin Holders
  BY RolesDisjoint DEF Proc
<1>1. CASE OpenForRead(p) \/ NextMessage(p) \/ AskToHold(p) \/ TryToWrite(p)
           \/ InputEnds(p)
  BY <1>0, <1>1 DEF OpenForRead, NextMessage, AskToHold, TryToWrite, InputEnds
<1>2. CASE Granted(p)
  BY <1>0, <1>2 DEF Granted
<1>3. CASE Refused(p) \/ LockFails(p)
  BY <1>0, <1>3 DEF Refused, LockFails
<1>4. CASE ReadSome(p) \/ ReadEof(p) \/ ReadFails(p)
  BY <1>0, <1>4 DEF ReadSome, ReadEof, ReadFails, CallHoldsLock
<1>5. CASE WriteSome(p) \/ WriteDone(p) \/ WriteFails(p)
  <2>1. lock[p] = "F_WRLCK" /\ lock' = lock
    BY <1>5 DEF WriteSome, WriteDone, WriteFails, CallHoldsLock
  <2>2. pc' = pc \/ (p \in Holders /\ pc' = [pc EXCEPT ![p] = "idle"])
        \/ pc' = [pc EXCEPT ![p] = "unlocking"]
    BY <1>5 DEF WriteSome, WriteDone, WriteFails, AfterWrite
  <2> QED
    BY <1>0, <2>1, <2>2
<1>6. CASE Release(p)
  BY <1>0, <1>6 DEF Release, Report
<1>7. CASE ReleaseFails(p)
  BY <1>0, <1>7 DEF ReleaseFails, Report
<1>8. CASE Leave(p)
  BY <1>0, <1>8 DEF Leave
<1>9. CASE Close(p) \/ Crash(p)
  BY <1>0, <1>9 DEF Close, Crash
<1>10. CASE Interrupt(p)
  BY <1>10 DEF Interrupt
<1> QED
  BY <1>1, <1>2, <1>3, <1>4, <1>5, <1>6, <1>7, <1>8, <1>9, <1>10 DEF Call

\* A message is numbered and whole when it is taken up, and a writer's call ends
\* well only when nothing of it is left.
LEMMA StepProgress ==
    ASSUME IInv, WriterLock, MessageProgress,
           NEW p \in Proc, Call(p) \/ Interrupt(p) \/ Crash(p)
    PROVE  MessageProgress'
<1> USE DEF IInv, TypeOK, MessageProgress, Pending, Unsettled, Goto, Fail
<1>0. ASSUME NEW q \in Writers \cup Holders
      PROVE  q \in Proc /\ q \notin Readers /\ ~(q \in Writers /\ q \in Holders)
  BY RolesDisjoint DEF Proc
<1>1. CASE OpenForRead(p)
  <2>1. p \notin Writers \cup Holders
    BY <1>0, <1>1 DEF OpenForRead
  <2> QED
    BY <1>0, <1>1, <2>1 DEF OpenForRead
<1>2. CASE NextMessage(p)
  <2>1. /\ \A q \in Proc \ {p} : pc'[q] = pc[q] /\ round'[q] = round[q]
                               /\ left'[q] = left[q] /\ result'[q] = result[q]
        /\ round'[p] = round[p] + 1 /\ left'[p] = MsgLen
        /\ pc'[p] \in {"waiting", "typing"}
    BY <1>2 DEF NextMessage
  <2>2. round[p] \in Nat
    BY SizesPositive
  <2>3. round'[p] > 0 /\ p \in Proc
    BY <2>1, <2>2
  <2>4. pc'[p] # "unlocking" /\ pc'[p] # "writing"
    BY <2>1
  <2> QED
    BY <1>0, <2>1, <2>3, <2>4
<1>3. CASE AskToHold(p) \/ TryToWrite(p) \/ InputEnds(p)
  BY <1>0, <1>3 DEF AskToHold, TryToWrite, InputEnds
<1>4. CASE Granted(p)
  BY <1>0, <1>4 DEF Granted
<1>5. CASE Refused(p) \/ LockFails(p)
  BY <1>0, <1>5 DEF Refused, LockFails
<1>6. CASE ReadSome(p) \/ ReadEof(p) \/ ReadFails(p)
  <2>1. p \in Readers
    BY <1>6 DEF ReadSome, ReadEof, ReadFails, CallHoldsLock
  <2>2. round' = round /\ left' = left
        /\ \A q \in Proc \ {p} : pc'[q] = pc[q] /\ result'[q] = result[q]
    BY <1>6 DEF ReadSome, ReadEof, ReadFails
  <2> QED
    BY <1>0, <2>1, <2>2
<1>7. CASE WriteSome(p)
  <2>1. pc' = pc /\ round' = round /\ result' = result /\ pc[p] = "writing"
    BY <1>7 DEF WriteSome
  <2>2. \A q \in Proc \ {p} : left'[q] = left[q]
    BY <1>7 DEF WriteSome
  <2> QED
    BY <1>0, <2>1, <2>2
<1>8. CASE WriteDone(p)
  BY <1>0, <1>8 DEF WriteDone, AfterWrite, Finished
<1>9. CASE WriteFails(p)
  BY <1>0, <1>9 DEF WriteFails
<1>10. CASE Release(p) \/ ReleaseFails(p)
  <2>1. round' = round /\ left' = left
    BY <1>10 DEF Release, ReleaseFails
  <2>2. /\ pc'[p] \in {"idle", "closing"}
        /\ \A q \in Proc \ {p} : pc'[q] = pc[q] /\ result'[q] = result[q]
    BY <1>10 DEF Release, ReleaseFails, Report
  <2> QED
    BY <1>0, <2>1, <2>2
<1>11. CASE Leave(p)
  BY <1>0, <1>11 DEF Leave, WriterLock
<1>12. CASE Close(p) \/ Crash(p)
  BY <1>0, <1>12 DEF Close, Crash
<1>13. CASE Interrupt(p)
  BY <1>13 DEF Interrupt
<1> QED
  BY <1>1, <1>2, <1>3, <1>4, <1>5, <1>6, <1>7, <1>8, <1>9, <1>10, <1>11, <1>12, <1>13
  DEF Call

\* A reader's errno is settled by read_fd, which frees the buffer if it fails.
LEMMA StepReaderResult ==
    ASSUME IInv, ReaderResult, NEW p \in Proc, Call(p) \/ Interrupt(p) \/ Crash(p)
    PROVE  ReaderResult'
<1> USE DEF IInv, TypeOK, ReaderResult, Goto, Fail
<1>0. ASSUME NEW q \in Readers PROVE q \in Proc /\ q \notin Writers /\ q \notin Holders
  BY RolesDisjoint DEF Proc
<1>1. CASE OpenForRead(p)
  BY <1>0, <1>1 DEF OpenForRead
<1>2. CASE NextMessage(p) \/ AskToHold(p) \/ TryToWrite(p) \/ InputEnds(p)
  <2>1. p \notin Readers
    BY <1>0, <1>2 DEF NextMessage, AskToHold, TryToWrite, InputEnds, CallHoldsLock
  <2>2. buf' = buf /\ \A q \in Proc \ {p} : pc'[q] = pc[q] /\ result'[q] = result[q]
    BY <1>2 DEF NextMessage, AskToHold, TryToWrite, InputEnds
  <2> QED
    BY <1>0, <2>1, <2>2
<1>3. CASE Granted(p)
  BY <1>0, <1>3 DEF Granted
<1>4. CASE Refused(p) \/ LockFails(p)
  BY <1>0, <1>4 DEF Refused, LockFails
<1>5. CASE ReadSome(p)
  <2>1. pc' = pc /\ result' = result /\ pc[p] = "reading"
        /\ \A q \in Proc \ {p} : buf'[q] = buf[q]
    BY <1>5 DEF ReadSome
  <2> QED
    BY <1>0, <2>1
<1>6. CASE ReadEof(p) \/ ReadFails(p)
  <2>1. /\ pc' = [pc EXCEPT ![p] = "unlocking"] /\ p \in Readers
        /\ pc[p] = "reading"
        /\ \A q \in Proc \ {p} : buf'[q] = buf[q] /\ result'[q] = result[q]
    BY <1>6 DEF ReadEof, ReadFails, CallHoldsLock
  <2>2. result'[p] # "ENOERR" => buf'[p] = NULL
    BY <1>6, <2>1 DEF ReadEof, ReadFails
  <2> QED
    BY <1>0, <2>1, <2>2
<1>7. CASE WriteSome(p) \/ WriteDone(p) \/ WriteFails(p)
  <2>1. p \notin Readers
    BY <1>7 DEF WriteSome, WriteDone, WriteFails, CallHoldsLock
  <2>2. buf' = buf /\ \A q \in Proc \ {p} : pc'[q] = pc[q] /\ result'[q] = result[q]
    BY <1>7 DEF WriteSome, WriteDone, WriteFails
  <2> QED
    BY <1>0, <2>1, <2>2
<1>8. CASE Release(p) \/ ReleaseFails(p)
  <2>1. /\ buf' = buf /\ pc'[p] \in {"idle", "closing"}
        /\ \A q \in Proc \ {p} : pc'[q] = pc[q] /\ result'[q] = result[q]
    BY <1>8 DEF Release, ReleaseFails, Report
  <2> QED
    BY <1>0, <2>1
<1>9. CASE Leave(p) \/ Close(p) \/ Crash(p)
  BY <1>0, <1>9 DEF Leave, Close, Crash
<1>10. CASE Interrupt(p)
  BY <1>10 DEF Interrupt
<1> QED
  BY <1>1, <1>2, <1>3, <1>4, <1>5, <1>6, <1>7, <1>8, <1>9, <1>10 DEF Call

\* Only write(2) changes the file.  Any other step leaves a call that is under way
\* where it is, or takes up a message of which nothing is written.
LEMMA OtherSteps ==
    ASSUME IInv, WriterLock, MessageProgress,
           NEW p \in Proc, Call(p) \/ Interrupt(p) \/ Crash(p), ~WriteSome(p)
    PROVE  /\ file' = file
           /\ \A q \in Writers \cup Holders :
                 /\ round[q] <= round'[q]
                 /\ Unsettled(q)' => /\ round'[q] = round[q] /\ left'[q] = left[q]
                                     /\ Unsettled(q) \/ left[q] = MsgLen
                 /\ Pending(q)' => \/ Pending(q) /\ round'[q] = round[q] /\ left'[q] = left[q]
                                   \/ round'[q] = round[q] + 1
<1> USE DEF IInv, TypeOK, MessageProgress, Pending, Unsettled, Goto
<1>0. /\ \A q \in Writers \cup Holders : /\ q \in Proc /\ q \notin Readers
                                       /\ ~(q \in Writers /\ q \in Holders)
      /\ \A q \in Proc : round[q] \in Nat
  BY RolesDisjoint, SizesPositive DEF Proc
<1>1. CASE OpenForRead(p)
  <2>1. p \notin Writers \cup Holders
    BY <1>0, <1>1 DEF OpenForRead
  <2>2. file' = file /\ left' = left
        /\ \A q \in Proc \ {p} : pc'[q] = pc[q] /\ round'[q] = round[q]
    BY <1>1 DEF OpenForRead
  <2> QED
    BY <1>0, <2>1, <2>2
<1>2. CASE NextMessage(p)
  <2>1. /\ file' = file /\ round'[p] = round[p] + 1
        /\ \A q \in Proc \ {p} : pc'[q] = pc[q] /\ round'[q] = round[q]
                               /\ left'[q] = left[q]
        /\ pc'[p] \in {"waiting", "typing"}
    BY <1>2 DEF NextMessage
  <2> QED
    BY <1>0, <2>1
<1>3. CASE AskToHold(p) \/ TryToWrite(p) \/ InputEnds(p)
  BY <1>0, <1>3 DEF AskToHold, TryToWrite, InputEnds
<1>4. CASE Granted(p)
  BY <1>0, <1>4 DEF Granted
<1>5. CASE Refused(p) \/ LockFails(p)
  BY <1>0, <1>5 DEF Refused, LockFails
<1>6. CASE ReadSome(p) \/ ReadEof(p) \/ ReadFails(p)
  <2>1. p \in Readers
    BY <1>6 DEF ReadSome, ReadEof, ReadFails, CallHoldsLock
  <2>2. round' = round /\ left' = left /\ file' = file
        /\ \A q \in Proc \ {p} : pc'[q] = pc[q]
    BY <1>6 DEF ReadSome, ReadEof, ReadFails
  <2> QED
    BY <1>0, <2>1, <2>2
<1>7. CASE WriteDone(p) \/ WriteFails(p)
  <2>1. /\ round' = round /\ left' = left /\ file' = file /\ pc[p] = "writing"
        /\ pc'[p] \in {"idle", "unlocking"}
        /\ \A q \in Proc \ {p} : pc'[q] = pc[q]
    BY <1>7 DEF WriteDone, WriteFails, AfterWrite
  <2> QED
    BY <1>0, <2>1
<1>8. CASE Release(p) \/ ReleaseFails(p)
  <2>1. /\ round' = round /\ left' = left /\ file' = file
        /\ pc'[p] \in {"idle", "closing"}
        /\ \A q \in Proc \ {p} : pc'[q] = pc[q]
    BY <1>8 DEF Release, ReleaseFails, Report
  <2> QED
    BY <1>0, <2>1
<1>9. CASE Leave(p)
  BY <1>0, <1>9 DEF Leave, WriterLock
<1>10. CASE Close(p) \/ Crash(p)
  BY <1>0, <1>10 DEF Close, Crash
<1>11. CASE Interrupt(p)
  BY <1>0, <1>11 DEF Interrupt
<1> QED
  BY <1>1, <1>2, <1>3, <1>4, <1>5, <1>6, <1>7, <1>8, <1>9, <1>10, <1>11 DEF Call

\* Only write(2) moves the offset of a process that writes.
LEMMA OffsetsStay ==
    ASSUME IInv, NEW p \in Proc, Call(p) \/ Interrupt(p) \/ Crash(p), ~WriteSome(p),
           NEW q \in Writers \cup Holders
    PROVE  pos'[q] = pos[q]
<1>1. CASE OpenForRead(p) \/ ReadSome(p)
  <2>1. p \in Readers /\ q # p
    BY <1>1, RolesDisjoint DEF OpenForRead, ReadSome, IInv, CallHoldsLock
  <2> QED
    BY <1>1, <2>1 DEF OpenForRead, ReadSome, IInv, TypeOK, Proc
<1>2. CASE ~(OpenForRead(p) \/ ReadSome(p))
  BY <1>2 DEF Call, Interrupt, Crash, NextMessage, AskToHold, TryToWrite, InputEnds,
     Granted, Refused, LockFails, ReadEof, ReadFails, WriteDone, WriteFails, Release,
     ReleaseFails, Leave, Close
<1> QED
  BY <1>1, <1>2

\* A step moves one process.
LEMMA OneMoves ==
    ASSUME IInv, NEW p \in Proc, Call(p) \/ Interrupt(p) \/ Crash(p), NEW q \in Proc \ {p}
    PROVE  Unsettled(q)' = Unsettled(q) /\ left'[q] = left[q]
<1>1. pc'[q] = pc[q] /\ left'[q] = left[q]
  BY DEF IInv, TypeOK, Call, Interrupt, Crash, OpenForRead, NextMessage, AskToHold,
     TryToWrite, InputEnds, Granted, Refused, LockFails, ReadSome, ReadEof, ReadFails,
     WriteSome, WriteDone, WriteFails, Release, ReleaseFails, Report, Leave, Close, Goto
<1> QED
  BY <1>1 DEF Unsettled

\* At most one call is under way in the next state as well.
LEMMA SoleWriterNext ==
    (IInv /\ WriterLock =>
        \A p \in Proc : Unsettled(p) =>
            p \in Writers \cup Holders /\ \A q \in Proc : Unsettled(q) => q = p)'
<1>1. IInv /\ WriterLock =>
        \A p \in Proc : Unsettled(p) =>
            p \in Writers \cup Holders /\ \A q \in Proc : Unsettled(q) => q = p
  BY SoleWriter
<1> QED
  BY <1>1, PTL

\* A partial write lengthens the piece by which the file differs from the
\* settled one; where the piece starts does not change.
LEMMA WriteOverlays ==
    ASSUME IInv, WriterLock, MessageProgress, FileIsOverlaid, NEW p \in Proc, WriteSome(p)
    PROVE  /\ Unsettled(p) /\ Unsettled(p)' /\ p \in Writers \cup Holders
           /\ Start(p)' = Start(p)
           /\ file' = Atomic!Put(settled, Start(p), p, round[p], Sent(p)')
<1>1. Unsettled(p) /\ pc' = pc /\ round' = round
  BY DEF WriteSome, Unsettled
<1>2. Unsettled(p)'
  BY <1>1 DEF Unsettled
<1>3. p \in Writers \cup Holders
  BY <1>1, SoleWriter
<1>4. PICK n \in 1 .. left[p] :
         /\ file' = [i \in 1 .. (IF pos[p] + n > Len(file)
                                 THEN pos[p] + n ELSE Len(file)) |->
                       IF i \in pos[p] + 1 .. pos[p] + n
                       THEN <<p, round[p], MsgLen - left[p] + i - pos[p]>>
                       ELSE file[i]]
         /\ pos' = [pos EXCEPT ![p] = pos[p] + n]
         /\ left' = [left EXCEPT ![p] = @ - n]
  BY DEF WriteSome, Partial
<1>5. /\ left[p] \in 0 .. MsgLen /\ n \in Nat /\ MsgLen \in Nat
      /\ round[p] \in Nat /\ pos[p] \in Nat /\ settled \in Seq(Cell)
      /\ pos'[p] = pos[p] + n /\ left'[p] = left[p] - n
  BY <1>4, SizesPositive DEF IInv, TypeOK
<1> DEFINE k == Sent(p)
           at == Start(p)
<1>6. /\ k \in Nat /\ Sent(p)' = k + n /\ at + k = pos[p] /\ Start(p)' = at
      /\ at \in 0 .. Len(settled) /\ file = Atomic!Put(settled, at, p, round[p], k)
  <2>1. at = pos[p] - k
    BY <1>1 DEF Start
  <2>2. Start(p)' = pos'[p] - Sent(p)'
    BY <1>2 DEF Start
  <2>3. k = MsgLen - left[p] /\ Sent(p)' = MsgLen - left'[p]
    BY DEF Sent
  <2>4. at \in 0 .. Len(settled) /\ file = Atomic!Put(settled, at, p, round[p], k)
    BY <1>1 DEF FileIsOverlaid
  <2> QED
    BY <1>5, <2>1, <2>2, <2>3, <2>4
<1>7. MsgLen - left[p] = k
  BY DEF Sent
<1> HIDE DEF k, at
<1>8. file' = [i \in 1 .. (IF at + k + n > Len(file) THEN at + k + n ELSE Len(file)) |->
                 IF i \in at + k + 1 .. at + k + n
                 THEN <<p, round[p], k + i - (at + k)>> ELSE file[i]]
  BY <1>4, <1>6, <1>7
<1>9. file = [i \in 1 .. (IF at + k > Len(settled) THEN at + k ELSE Len(settled)) |->
                IF i \in at + 1 .. at + k THEN <<p, round[p], i - at>> ELSE settled[i]]
  BY <1>6 DEF Atomic!Put
<1>10. file' = [i \in 1 .. (IF at + (k + n) > Len(settled)
                           THEN at + (k + n) ELSE Len(settled)) |->
                  IF i \in at + 1 .. at + (k + n) THEN <<p, round[p], i - at>>
                                                 ELSE settled[i]]
  BY <1>3, <1>5, <1>6, <1>8, <1>9, PutMore
<1>11. file' = Atomic!Put(settled, at, p, round[p], k + n)
  BY <1>10 DEF Atomic!Put
<1> QED
  BY <1>1, <1>2, <1>3, <1>6, <1>11 DEF at

\* A step that leaves some write under way leaves the settled file, any other
\* makes it the file: what the history variable is after each kind of step.
LEMMA StepSettles ==
    ASSUME IInv, WriterLock, MessageProgress, FileIsOverlaid,
           NEW p \in Proc, Call(p) \/ Interrupt(p) \/ Crash(p), Settle
    PROVE  IF Unsettled(p) /\ ~Unsettled(p)' THEN settled' = file /\ file' = file
                                             ELSE settled' = settled
<1>1. CASE \E q \in Proc : Unsettled(q)'
  <2>1. settled' = settled
    BY <1>1 DEF Settle
  <2>2. CASE Unsettled(p) /\ ~Unsettled(p)'
    <3>1. PICK q \in Proc : Unsettled(q)'
      BY <1>1
    <3>2. Unsettled(q) /\ q # p
      BY <2>2, <3>1, OneMoves
    <3> QED
      BY <2>2, <3>2, SoleWriter
  <2> QED
    BY <2>1, <2>2
<1>2. CASE \A q \in Proc : ~Unsettled(q)'
  <2>1. settled' = file'
    BY <1>2 DEF Settle
  <2>2. ~WriteSome(p)
    BY <1>2 DEF WriteSome, Unsettled
  <2>3. file' = file
    BY <2>2, OtherSteps
  <2>4. CASE ~Unsettled(p)
    <3>1. \A q \in Proc : ~Unsettled(q)
      BY <1>2, <2>4, OneMoves
    <3> QED
      BY <2>1, <2>3, <2>4, <3>1 DEF FileIsOverlaid
  <2> QED
    BY <1>2, <2>1, <2>3, <2>4
<1> QED
  BY <1>1, <1>2

\* The file remains the settled one with the cells of the open call over it.
LEMMA StepOverlaid ==
    ASSUME IInv, IInv', WriterLock, WriterLock', MessageProgress, FileIsOverlaid,
           NEW p \in Proc, Call(p) \/ Interrupt(p) \/ Crash(p), Settle
    PROVE  FileIsOverlaid'
<1>1. ASSUME NEW q \in Proc, Unsettled(q)'
      PROVE  /\ Start(q)' \in 0 .. Len(settled')
             /\ file' = Atomic!Put(settled', Start(q)', q, round'[q], Sent(q)')
  <2>1. settled' = settled
    BY <1>1 DEF Settle
  <2>2. CASE WriteSome(p)
    <3>1. p = q
      BY <1>1, <2>2, WriteOverlays, SoleWriterNext
    <3>2. round' = round
      BY <2>2 DEF WriteSome
    <3>3. Start(p) \in 0 .. Len(settled)
      BY <2>2, WriteOverlays DEF FileIsOverlaid
    <3> QED
      BY <2>1, <2>2, <3>1, <3>2, <3>3, WriteOverlays
  <2>3. CASE ~WriteSome(p)
    <3>1. q \in Writers \cup Holders
      BY <1>1, SoleWriterNext
    <3>2. /\ file' = file /\ round'[q] = round[q] /\ left'[q] = left[q]
          /\ pos'[q] = pos[q] /\ (Unsettled(q) \/ left[q] = MsgLen)
      BY <1>1, <2>3, <3>1, OtherSteps, OffsetsStay
    <3>3. Sent(q)' = Sent(q)
      BY <3>2 DEF Sent
    <3>4. CASE Unsettled(q)
      <4>1. Start(q)' = Start(q)
        BY <1>1, <3>2, <3>3, <3>4 DEF Start
      <4> QED
        BY <2>1, <3>2, <3>3, <3>4, <4>1 DEF FileIsOverlaid
    <3>5. CASE ~Unsettled(q) /\ left[q] = MsgLen
      <4>1. \A r \in Proc : ~Unsettled(r)
        <5>1. \A r \in Proc : Unsettled(r) /\ r # q => r = p
          BY <1>1, OneMoves, SoleWriterNext
        <5>2. q = p
          BY <1>1, <3>5, OneMoves
        <5> QED
          BY <3>5, <5>1, <5>2
      <4>2. settled = file
        BY <4>1 DEF FileIsOverlaid
      <4>3. Sent(q) = 0 /\ pos[q] \in Nat /\ pos[q] <= Len(file) /\ file \in Seq(Cell)
        BY <3>5, SizesPositive DEF Sent, IInv, TypeOK, NoHole
      <4>4. Start(q)' = pos[q] /\ pos[q] \in 0 .. Len(file)
        BY <1>1, <3>2, <3>3, <4>3, LenProperties DEF Start
      <4>5. Atomic!Put(file, pos[q], q, round'[q], 0) = file
        BY <4>3, <4>4, PutNothing DEF Atomic!Put
      <4> QED
        BY <2>1, <3>2, <3>3, <4>2, <4>3, <4>4, <4>5
    <3> QED
      BY <3>2, <3>4, <3>5
  <2> QED
    BY <2>2, <2>3
<1>2. ASSUME \A q \in Proc : ~Unsettled(q)' PROVE file' = settled'
  BY <1>2 DEF Settle
<1> QED
  BY <1>1, <1>2 DEF FileIsOverlaid

\* Which cells the file has when the call of p ends: those of the settled file,
\* and of p's message.
LEMMA CellsWhenSettled ==
    ASSUME IInv, WriterLock, MessageProgress, FileIsOverlaid, NEW p \in Proc, Unsettled(p)
    PROVE  /\ p \in Writers \cup Holders /\ round[p] \in 1 .. MaxRounds
           /\ Sent(p) \in 0 .. MsgLen /\ Start(p) \in 0 .. Len(settled)
           /\ Start(p) + Sent(p) = pos[p] /\ pos[p] <= Len(file)
           /\ \A i \in 1 .. Len(file) :
                 file[i] = IF i \in Start(p) + 1 .. pos[p]
                           THEN <<p, round[p], i - Start(p)>> ELSE settled[i]
           /\ \A i \in 1 .. Len(file) : i \notin Start(p) + 1 .. pos[p] => i \in 1 .. Len(settled)
<1>1. p \in Writers \cup Holders
  BY SoleWriter
<1>2. Pending(p)
  BY DEF Unsettled, Pending
<1>3. /\ round[p] \in 1 .. MaxRounds /\ round[p] \in Nat /\ MsgLen \in Nat
      /\ left[p] \in 0 .. MsgLen /\ pos[p] \in Nat /\ settled \in Seq(Cell)
  BY <1>1, <1>2, SizesPositive DEF IInv, TypeOK, MessageProgress
<1>4. Sent(p) \in 0 .. MsgLen /\ Sent(p) \in Nat
  BY <1>3 DEF Sent
<1>5. /\ Start(p) \in 0 .. Len(settled) /\ Start(p) = pos[p] - Sent(p)
      /\ file = Atomic!Put(settled, Start(p), p, round[p], Sent(p))
  BY DEF FileIsOverlaid, Start
<1>6. Start(p) + Sent(p) = pos[p]
  BY <1>3, <1>4, <1>5
<1>7. /\ Len(file) = IF Start(p) + Sent(p) > Len(settled) THEN Start(p) + Sent(p) ELSE Len(settled)
      /\ \A i \in 1 .. Len(file) :
            file[i] = IF i \in Start(p) + 1 .. Start(p) + Sent(p)
                      THEN <<p, round[p], i - Start(p)>> ELSE settled[i]
  <2>1. file = [i \in 1 .. (IF Start(p) + Sent(p) > Len(settled)
                           THEN Start(p) + Sent(p) ELSE Len(settled)) |->
                  IF i \in Start(p) + 1 .. Start(p) + Sent(p)
                  THEN <<p, round[p], i - Start(p)>> ELSE settled[i]]
    BY <1>5 DEF Atomic!Put
  <2> DEFINE k == Sent(p)
             at == Start(p)
  <2>2. /\ settled \in Seq(Cell) /\ at \in 0 .. Len(settled) /\ k \in Nat
        /\ p \in Writers \cup Holders /\ round[p] \in Nat
    BY <1>1, <1>3, <1>4, <1>5
  <2>3. file = [i \in 1 .. (IF at + k > Len(settled) THEN at + k ELSE Len(settled)) |->
                  IF i \in at + 1 .. at + k THEN <<p, round[p], i - at>> ELSE settled[i]]
    BY <2>1
  <2> HIDE DEF k, at
  <2>4. /\ Len(file) = IF at + k > Len(settled) THEN at + k ELSE Len(settled)
        /\ \A i \in 1 .. Len(file) :
              file[i] = IF i \in at + 1 .. at + k THEN <<p, round[p], i - at>>
                                                 ELSE settled[i]
    BY <2>2, <2>3, PutCells
  <2> QED
    BY <2>4 DEF k, at
<1>8. Len(settled) \in Nat
  BY <1>3, LenProperties
<1>9. pos[p] <= Len(file)
  BY <1>3, <1>6, <1>7, <1>8
<1>10. ASSUME NEW i \in 1 .. Len(file), i \notin Start(p) + 1 .. pos[p]
       PROVE  i \in 1 .. Len(settled)
  <2>1. Start(p) \in Nat /\ Len(file) \in Nat
    BY <1>3, <1>5, <1>6, <1>7, <1>8
  <2>2. i <= Len(settled) \/ i > Len(settled)
    BY <1>8
  <2>3. i > Len(settled) => i \in Start(p) + 1 .. pos[p]
    BY <1>3, <1>5, <1>6, <1>7, <1>8, <2>1
  <2> QED
    BY <1>8, <1>10, <2>1, <2>2, <2>3
<1> QED
  BY <1>1, <1>3, <1>4, <1>5, <1>6, <1>7, <1>9, <1>10

\* No cell of a pending message is in the settled file: the step that settles
\* one ends its call.
LEMMA StepCells ==
    ASSUME IInv, WriterLock, MessageProgress, FileIsOverlaid, CellsAreKnown,
           NEW p \in Proc, Call(p) \/ Interrupt(p) \/ Crash(p), Settle
    PROVE  CellsAreKnown'
<1> SUFFICES ASSUME NEW i \in 1 .. Len(settled'), NEW q, q = settled'[i][1]
             PROVE  /\ settled'[i][2] <= round'[q]
                    /\ Pending(q)' => settled'[i][2] < round'[q]
  BY DEF CellsAreKnown
<1>0. /\ \A r \in Proc : round[r] \in Nat /\ round'[r] \in Nat
      /\ settled \in Seq(Cell)
  <2>1. TypeOK'
    BY StepType
  <2> QED
    BY <2>1, SizesPositive DEF IInv, TypeOK
<1>1. ASSUME NEW r \in Writers \cup Holders
      PROVE  /\ round[r] <= round'[r]
             /\ Pending(r)' => \/ Pending(r) /\ round'[r] = round[r]
                               \/ round'[r] = round[r] + 1
  <2>1. CASE WriteSome(p)
    <3>1. pc' = pc /\ round' = round /\ r \in Proc
      BY <2>1 DEF WriteSome, Proc
    <3> QED
      BY <1>0, <3>1 DEF Pending
  <2>2. CASE ~WriteSome(p)
    BY <2>2, OtherSteps
  <2> QED
    BY <2>1, <2>2
<1>2. ASSUME NEW j \in 1 .. Len(settled), NEW r, r = settled[j][1]
      PROVE  /\ settled[j][2] <= round'[r]
             /\ Pending(r)' => settled[j][2] < round'[r]
  <2>1. settled[j] \in Cell
    BY <1>0, ElementOfSeq
  <2>2. r \in Writers \cup Holders /\ r \in Proc /\ settled[j][2] \in Nat
    BY <1>2, <2>1 DEF Cell, Proc
  <2>3. settled[j][2] <= round[r] /\ (Pending(r) => settled[j][2] < round[r])
    BY <1>2 DEF CellsAreKnown
  <2> QED
    BY <1>0, <1>1, <2>2, <2>3
<1>3. CASE Unsettled(p) /\ ~Unsettled(p)'
  <2>1. settled' = file
    BY <1>3, StepSettles
  <2>2. CASE i \in Start(p) + 1 .. pos[p]
    <3>1. q = p /\ settled'[i][2] = round[p] /\ p \in Writers \cup Holders
      <4>1. i \in 1 .. Len(file)
        BY <2>1
      <4>2. file[i] = <<p, round[p], i - Start(p)>> /\ p \in Writers \cup Holders
        BY <1>3, <2>2, <4>1, CellsWhenSettled
      <4> QED
        BY <2>1, <4>2
    <3>2. ~Pending(p)'
      <4>1. pc[p] \in {"writing", "unlocking"} /\ ~WriteSome(p)
        BY <1>3 DEF WriteSome, Unsettled
      <4>2. p \in Holders \/ pc'[p] # "unlocking"
        BY <1>3, <3>1 DEF Unsettled
      <4>3. pc'[p] \in {"idle", "unlocking", "closing", "done", pc[p]}
        BY <4>1 DEF IInv, TypeOK, Call, Interrupt, Crash, OpenForRead, NextMessage,
           AskToHold, TryToWrite, InputEnds, Granted, Refused, LockFails, ReadSome,
           ReadEof, ReadFails, WriteDone, WriteFails, Release, ReleaseFails, Report,
           Leave, Close, Goto, AfterWrite
      <4> QED
        BY <1>3, <3>1, <4>1, <4>2, <4>3, RolesDisjoint DEF Pending, Unsettled
    <3> QED
      BY <1>1, <3>1, <3>2
  <2>3. CASE i \notin Start(p) + 1 .. pos[p]
    <3>1. settled'[i] = settled[i] /\ i \in 1 .. Len(settled)
      BY <1>3, <2>1, <2>3, CellsWhenSettled
    <3> QED
      BY <1>2, <3>1
  <2> QED
    BY <2>2, <2>3
<1>4. CASE ~(Unsettled(p) /\ ~Unsettled(p)')
  <2>1. settled' = settled
    BY <1>4, StepSettles
  <2> QED
    BY <1>2, <2>1
<1> QED
  BY <1>3, <1>4

\* A write is acknowledged by the step that settles it, when nothing is left.
LEMMA Acknowledges ==
    ASSUME IInv, WriterLock, MessageProgress,
           NEW p \in Proc, Call(p) \/ Interrupt(p) \/ Crash(p)
    PROVE  \/ acked' = acked
           \/ /\ acked' = acked \cup {<<p, round[p]>>} /\ file' = file /\ pos' = pos
              /\ Unsettled(p) /\ left[p] = 0
<1>1. CASE WriteDone(p)
  BY <1>1 DEF WriteDone, Unsettled, Finished
<1>2. CASE Release(p)
  BY <1>2 DEF Release, Report, Unsettled, MessageProgress
<1>3. CASE ReleaseFails(p)
  BY <1>3 DEF ReleaseFails, Report
<1>4. CASE ~(WriteDone(p) \/ Release(p) \/ ReleaseFails(p))
  BY <1>4 DEF Call, Interrupt, Crash, OpenForRead, NextMessage, AskToHold, TryToWrite,
     InputEnds, Granted, Refused, LockFails, ReadSome, ReadEof, ReadFails, WriteSome,
     WriteFails, Leave, Close
<1> QED
  BY <1>1, <1>2, <1>3, <1>4

\* WriteInv is an invariant.
LEMMA WriteInvariant == Spec => [](IInv /\ WriteInv)
<1>1. IInv /\ WriteInv /\ [Next]_vars /\ IInv' => WriteInv'
  <2> SUFFICES ASSUME IInv, WriteInv, [Next]_vars, IInv' PROVE WriteInv'
    OBVIOUS
  <2>1. CASE Next
    <3>1. PICK p \in Proc : (Call(p) \/ Interrupt(p) \/ Crash(p)) /\ Settle
      BY <2>1 DEF Next
    <3>2. WriterLock' /\ MessageProgress' /\ ReaderResult'
      BY <3>1, StepWriterLock, StepProgress, StepReaderResult DEF WriteInv
    <3>3. FileIsOverlaid'
      BY <3>1, <3>2, StepOverlaid DEF WriteInv
    <3>4. CellsAreKnown'
      BY <3>1, StepCells DEF WriteInv
    <3> QED
      BY <3>2, <3>3, <3>4 DEF WriteInv
  <2>2. CASE UNCHANGED vars
    BY <2>2 DEF vars, WriteInv, WriterLock, MessageProgress, FileIsOverlaid, CellsAreKnown,
                ReaderResult, Pending, Unsettled, Sent, Start, Atomic!Put
  <2> QED
    BY <2>1, <2>2
<1> QED
  BY <1>1, InitWriteInv, InductiveInvariant, PTL DEF Spec

\* A message whose write call returns ENOERR is in the file whole and in one
\* piece at that moment, whatever else was written, failed or died meanwhile.
THEOREM AckedWritesAreWhole == Spec => AckedIsWhole
<1>1. IInv /\ WriteInv /\ [Next]_vars => \A m \in acked' \ acked : Whole(m)'
  <2> SUFFICES ASSUME IInv, WriteInv, Next, NEW m \in acked' \ acked PROVE Whole(m)'
    BY DEF vars
  <2>1. PICK p \in Proc : (Call(p) \/ Interrupt(p) \/ Crash(p)) /\ Settle
    BY DEF Next
  <2>2. m = <<p, round[p]>> /\ file' = file /\ pos' = pos /\ Unsettled(p) /\ left[p] = 0
    BY <2>1, Acknowledges DEF WriteInv
  <2>3. /\ Start(p) \in 0 .. Len(settled) /\ Start(p) + Sent(p) = pos[p]
        /\ pos[p] <= Len(file)
        /\ \A i \in 1 .. Len(file) :
              file[i] = IF i \in Start(p) + 1 .. pos[p]
                        THEN <<p, round[p], i - Start(p)>> ELSE settled[i]
    BY <2>2, CellsWhenSettled DEF WriteInv
  <2>4. /\ MsgLen \in Nat /\ Sent(p) = MsgLen /\ Len(settled) \in Nat
        /\ DOMAIN file = 1 .. Len(file) /\ Len(file) \in Nat
    BY <2>2, SizesPositive, LenProperties DEF Sent, IInv, TypeOK
  <2>5. pos[p] - MsgLen = Start(p) /\ Start(p) \in Nat
    BY <2>3, <2>4
  <2>6. ASSUME NEW i \in 1 .. MsgLen
        PROVE  Start(p) + i \in DOMAIN file /\ file[Start(p) + i] = <<p, round[p], i>>
    <3>1. /\ Start(p) + i \in 1 .. Len(file) /\ Start(p) + i \in Start(p) + 1 .. pos[p]
          /\ Start(p) + i - Start(p) = i
      BY <2>3, <2>4, <2>5
    <3> QED
      BY <2>3, <2>4, <3>1
  <2>7. Start(p) >= 0
    BY <2>5
  <2> QED
    BY <2>2, <2>5, <2>6, <2>7 DEF Whole
<1> QED
  BY <1>1, WriteInvariant, PTL DEF Spec, AckedIsWhole

-----------------------------------------------------------------------------
(***************************************************************************)
(* The refinement.  The history variable is the file without the cells of  *)
(* the call that is under way; the step that ends the call, well or badly, *)
(* is the abstract write, and the end of read_locked_fd the abstract read. *)
(***************************************************************************)

\* Only a reader is returned anything, and by steps that leave the file alone.
LEMMA Returns ==
    ASSUME IInv, WriteInv, NEW p \in Proc, Call(p) \/ Interrupt(p) \/ Crash(p),
           returned' # returned
    PROVE  /\ p \in Readers /\ acked' = acked
           /\ \E e \in Errno, b \in {NULL, settled} :
                 /\ e = "ENOERR" => b = settled
                 /\ returned' = [returned EXCEPT ![p] = [buf |-> b, errnum |-> e]]
<1>1. CASE Refused(p)
  BY <1>1 DEF Refused, NotRead, Errno
<1>2. CASE LockFails(p)
  BY <1>2 DEF LockFails, NotRead, Errno
<1>3. CASE Release(p) \/ ReleaseFails(p)
  <2>1. PICK e \in Errno : /\ Report(p, e) /\ (e = "ENOERR" => result[p] = "ENOERR")
                            /\ pc[p] = "unlocking"
    BY <1>3 DEF Release, ReleaseFails, IInv, TypeOK, Errno
  <2>2. /\ p \in Readers /\ acked' = acked
        /\ returned' = [returned EXCEPT ![p] = [buf |-> buf[p], errnum |-> e]]
    BY <2>1, RolesDisjoint DEF Report
  <2>3. \A q \in Proc : ~Unsettled(q)
    <3>1. lock[p] = "F_RDLCK"
      BY <2>1, <2>2 DEF IInv, CallHoldsLock
    <3> QED
      BY <3>1, SoleWriter DEF IInv, WriteInv, ExclusiveLock
  <2>4. settled = file
    BY <2>3 DEF WriteInv, FileIsOverlaid
  <2>5. buf[p] = IF result[p] = "ENOERR" THEN settled ELSE NULL
    BY <2>1, <2>2, <2>4 DEF IInv, ReadIsSnapshot, Snapshot, WriteInv, ReaderResult
  <2> QED
    BY <2>1, <2>2, <2>5
<1>4. CASE ~(Refused(p) \/ LockFails(p) \/ Release(p) \/ ReleaseFails(p))
  BY <1>4 DEF Call, Interrupt, Crash, OpenForRead, NextMessage, AskToHold, TryToWrite,
     InputEnds, Granted, ReadSome, ReadEof, ReadFails, WriteSome, WriteDone, WriteFails,
     Leave, Close
<1> QED
  BY <1>1, <1>2, <1>3, <1>4

\* Where the next write of each process goes moves only when its call settles.
LEMMA OffsetsMove ==
    ASSUME IInv, WriteInv, NEW p \in Proc, Call(p) \/ Interrupt(p) \/ Crash(p),
           NEW q \in Writers \cup Holders
    PROVE  Start(q)' = IF q = p /\ Unsettled(p) /\ ~Unsettled(p)' THEN pos[q] ELSE Start(q)
<1>0. q \in Proc
  BY DEF Proc
<1>1. CASE WriteSome(p)
  <2>1. Unsettled(p)' /\ Start(p)' = Start(p)
    BY <1>1, WriteOverlays DEF WriteInv
  <2>2. q # p => Start(q)' = Start(q)
    BY <1>0, <1>1, OneMoves DEF WriteSome, IInv, TypeOK, Start, Sent
  <2> QED
    BY <2>1, <2>2
<1>2. CASE ~WriteSome(p)
  <2>1. /\ pos'[q] = pos[q] /\ pos[q] \in Nat
        /\ Unsettled(q)' => left'[q] = left[q] /\ (Unsettled(q) \/ left[q] = MsgLen)
    BY <1>0, <1>2, OtherSteps, OffsetsStay DEF WriteInv, IInv, TypeOK
  <2>2. CASE Unsettled(q)'
    <3>1. left[q] = MsgLen => pos[q] - Sent(q) = pos[q]
      BY <2>1, SizesPositive DEF Sent
    <3> QED
      BY <2>1, <2>2, <3>1 DEF Start, Sent
  <2>3. CASE ~Unsettled(q)'
    <3>1. q # p => ~Unsettled(q)
      BY <1>0, <2>3, OneMoves
    <3> QED
      BY <2>1, <2>3, <3>1 DEF Start
  <2> QED
    BY <2>2, <2>3
<1> QED
  BY <1>1, <1>2

\* Every step is a step of the abstract file or leaves it as it is.
LEMMA StepRefines ==
    ASSUME IInv, WriteInv, [Next]_vars
    PROVE  [Atomic!Next]_<<settled, [p \in Writers \cup Holders |-> Start(p)],
                           returned, acked>>
<1> DEFINE offset == [p \in Writers \cup Holders |-> Start(p)]
<1>1. CASE UNCHANGED vars
  <2>1. offset' = offset
    BY <1>1 DEF vars, Start, Unsettled, Sent
  <2> QED
    BY <1>1, <2>1 DEF vars
<1>2. CASE Next
  <2>1. PICK p \in Proc : (Call(p) \/ Interrupt(p) \/ Crash(p)) /\ Settle
    BY <1>2 DEF Next
  <2>2. CASE Unsettled(p) /\ ~Unsettled(p)'
    <3>1. settled' = file /\ file = Atomic!Put(settled, Start(p), p, round[p], Sent(p))
      BY <2>1, <2>2, StepSettles DEF WriteInv, FileIsOverlaid
    <3>2. /\ p \in Writers \cup Holders /\ round[p] \in 1 .. MaxRounds
          /\ Sent(p) \in 0 .. MsgLen /\ Start(p) + Sent(p) = pos[p]
      BY <2>2, CellsWhenSettled DEF WriteInv
    <3>3. \A i \in DOMAIN settled : ~(settled[i][1] = p /\ settled[i][2] = round[p])
      <4>1. Pending(p) /\ round[p] \in Nat /\ DOMAIN settled = 1 .. Len(settled)
        BY <2>2, <3>2, LenProperties DEF Unsettled, Pending, IInv, TypeOK
      <4> QED
        BY <3>2, <4>1 DEF WriteInv, CellsAreKnown
    <3>4. offset' = [offset EXCEPT ![p] = @ + Sent(p)]
      BY <2>1, <2>2, <3>2, OffsetsMove
    <3>5. returned' = returned
      BY <2>1, <3>2, RolesDisjoint, Returns
    <3>6. \/ acked' = acked
          \/ Sent(p) = MsgLen /\ acked' = acked \cup {<<p, round[p]>>}
      <4>1. left[p] = 0 => Sent(p) = MsgLen
        BY SizesPositive DEF Sent
      <4> QED
        BY <2>1, <4>1, Acknowledges DEF WriteInv
    <3>7. offset[p] = Start(p)
      BY <3>2
    <3>8. Atomic!Write(p)
      BY <3>1, <3>2, <3>3, <3>4, <3>5, <3>6, <3>7 DEF Atomic!Write
    <3> QED
      BY <3>2, <3>8 DEF Atomic!Next
  <2>3. CASE ~(Unsettled(p) /\ ~Unsettled(p)')
    <3>1. settled' = settled /\ offset' = offset
      BY <2>1, <2>3, StepSettles, OffsetsMove DEF WriteInv
    <3>2. acked' = acked
      <4>1. Unsettled(p) /\ Unsettled(p)' => acked' = acked
        BY <2>1 DEF Unsettled, IInv, TypeOK, Call, Interrupt, Crash, OpenForRead,
           NextMessage, AskToHold, TryToWrite, InputEnds, Granted, Refused, LockFails,
           ReadSome, ReadEof, ReadFails, WriteSome, WriteDone, AfterWrite, WriteFails,
           Release, ReleaseFails, Report, Leave, Close, Goto
      <4> QED
        BY <2>1, <2>3, <4>1, Acknowledges DEF WriteInv
    <3>3. CASE returned' = returned
      BY <3>1, <3>2, <3>3
    <3>4. CASE returned' # returned
      <4>1. /\ p \in Readers
            /\ \E e \in Errno, b \in {NULL, settled} :
                 /\ e = "ENOERR" => b = settled
                 /\ returned' = [returned EXCEPT ![p] = [buf |-> b, errnum |-> e]]
        BY <2>1, <3>4, Returns
      <4>2. Atomic!Read(p)
        BY <3>1, <3>2, <4>1 DEF Atomic!Read, Errno
      <4> QED
        BY <4>1, <4>2 DEF Atomic!Next
    <3> QED
      BY <3>3, <3>4
  <2> QED
    BY <2>2, <2>3
<1> QED
  BY <1>1, <1>2

\* The calls that lock, and then read or write a part at a time, implement a
\* file that is read and written in single steps.
THEOREM CallsAreAtomic == Spec => ImplementsAtomicFile
<1>1. Init => Atomic!Init
  BY DEF Init, Start, Unsettled, Proc, Atomic!Init
<1>2. IInv /\ WriteInv /\ [Next]_vars
         => [Atomic!Next]_<<settled, [p \in Writers \cup Holders |-> Start(p)],
                            returned, acked>>
  BY StepRefines
<1>3. Spec => Atomic!Spec
  BY <1>1, <1>2, WriteInvariant, PTL DEF Spec, Atomic!Spec
<1> QED
  BY <1>3 DEF ImplementsAtomicFile
=============================================================================
