--------------------------- MODULE ChildSwarm_proofs ---------------------------
(***************************************************************************)
(* Proofs about ChildSwarm for any number of children, any capacity of the *)
(* pipes and any number of messages, signals, kills and failing calls: no  *)
(* message is lost, an orphaned pipe has no reader, and the parent waits   *)
(* for its children.  The inductive invariant is IInv.  The second part is *)
(* about LogServer, another program of processes that are signalled and    *)
(* killed: its logs are complete, and its socket file is not left behind.  *)
(***************************************************************************)
EXTENDS ChildSwarm, TLAPS, SequenceTheorems

\* Who a process is.
LEMMA Identities ==
    /\ Parent \in Procs /\ Parent \notin Children
    /\ \A i \in Children : i \in Procs /\ i \in Nat /\ i # Parent /\ 1 <= i /\ i <= N
    /\ 1 \in Children /\ N \in Nat
  BY SwarmBounds DEF Parent, Procs, Children

\* The initial state satisfies the inductive invariant.
LEMMA InitIInv == Init => IInv
<1> SUFFICES ASSUME Init PROVE IInv
  OBVIOUS
<1>1. TypeOK
  BY Identities, EmptySeq DEF Init, TypeOK, Places, ChildPlaces, Creating
<1>2. NotYet /\ WriteEndsHeld /\ ParentReads /\ BufInUse /\ ReadEndsHeld /\ WaitedFor
  BY Identities DEF Init, NotYet, Creating, WriteEndsHeld, Running, ParentReads, BufInUse,
     ReadEndsHeld, WaitedFor
<1>3. NothingLost
  <2>1. ASSUME NEW i \in Children
        PROVE  printed[i] \o (IF i = idx THEN buf ELSE << >>) \o pipe[i] = << >>
    BY EmptySeq, ConcatEmptySeq DEF Init
  <2>2. ASSUME NEW i \in Children PROVE [k \in 1 .. wrote[i] |-> k] = << >>
    BY DEF Init
  <2> QED
    BY <2>1, <2>2 DEF NothingLost
<1> QED
  BY <1>1, <1>2, <1>3 DEF IInv

\* Closing a read end takes it from those that hold it, and the last one to go
\* takes the data along.
LEMMA ClosesReadEffect ==
    ASSUME TypeOK, NEW p \in Procs, NEW S, ClosesRead(p, S)
    PROVE  /\ readers' \in [Children -> SUBSET Procs]
           /\ pipe' \in [Children -> Seq(Nat)]
           /\ \A i \in Children :
                 /\ readers'[i] = IF i \in S THEN readers[i] \ {p} ELSE readers[i]
                 /\ pipe'[i] = IF readers'[i] = {} THEN << >> ELSE pipe[i]
<1>1. /\ readers' \in [Children -> SUBSET Procs]
      /\ \A i \in Children : readers'[i] = IF i \in S THEN readers[i] \ {p} ELSE readers[i]
  BY DEF ClosesRead, TypeOK
<1>2. \A i \in Children : pipe'[i] = IF readers'[i] = {} THEN << >> ELSE pipe[i]
  BY DEF ClosesRead
<1>3. \A i \in Children : (IF readers'[i] = {} THEN << >> ELSE pipe[i]) \in Seq(Nat)
  BY EmptySeq DEF TypeOK
<1>4. pipe' \in [Children -> Seq(Nat)]
  BY <1>3 DEF ClosesRead
<1> QED
  BY <1>1, <1>2, <1>4

\* Nobody gets a read end by that, and nobody else loses one.
LEMMA ClosesReadShrinks ==
    ASSUME TypeOK, NEW p \in Procs, NEW S, ClosesRead(p, S), NEW i \in Children
    PROVE  /\ readers'[i] \subseteq readers[i]
           /\ \A q \in readers[i] : q # p \/ i \notin S => q \in readers'[i]
<1>1. readers'[i] = IF i \in S THEN readers[i] \ {p} ELSE readers[i]
  BY DEF ClosesRead
<1> QED
  BY <1>1

\* The loops over the children stay among them.
LEMMA IndexType ==
    ASSUME TypeOK
    PROVE  /\ idx # N => idx + 1 \in Children
           /\ NextEntry => idx' \in Children /\ pc' \in Places
           /\ NextChild => idx' \in Children /\ pc' \in Places
<1>1. idx # N => idx + 1 \in Children
  BY SwarmBounds DEF TypeOK, Children
<1> QED
  BY <1>1, Identities DEF TypeOK, NextEntry, NextChild, Places

\* The parent's entry is closed, or nothing is.
LEMMA ClosesEntryType ==
    ASSUME TypeOK, ClosesEntry
    PROVE  /\ watched' \subseteq Children
           /\ readers' \in [Children -> SUBSET Procs]
           /\ pipe' \in [Children -> Seq(Nat)]
<1>1. CASE Closing(idx)
  BY <1>1, Identities, ClosesReadEffect DEF ClosesEntry, TypeOK
<1>2. CASE ~Closing(idx)
  BY <1>2 DEF ClosesEntry, TypeOK
<1> QED
  BY <1>1, <1>2

\* Every variable keeps its type when the parent takes a step.
LEMMA ParentType ==
    ASSUME TypeOK, ParentSteps
    PROVE  TypeOK'
<1> USE DEF Goes, parent, ends, bounds
<1>1. CASE CreatesPipes
  BY <1>1, Identities DEF CreatesPipes, TypeOK, Places, Creating
<1>2. CASE Forks
  <2>1. /\ readers' \in [Children -> SUBSET Procs] /\ writers' \in [Children -> SUBSET Procs]
        /\ flag' \in [Procs -> BOOLEAN]
    BY <1>2, Identities DEF Forks, TypeOK
  <2> QED
    BY <1>2, <2>1 DEF Forks, TypeOK, Places, Creating, ChildPlaces, Running
<1>3. CASE ClosesWrite
  <2>1. idx' \in Children /\ pc' \in Places
    BY <1>3, IndexType, Identities DEF ClosesWrite, TypeOK, Places, Creating
  <2> QED
    BY <1>3, <2>1 DEF ClosesWrite, TypeOK, Watches, WriteEndClosed
<1>4. CASE ChecksSignal \/ Blocks
  BY <1>4 DEF ChecksSignal, Blocks, TypeOK, Places
<1>5. CASE Wakes
  <2>1. revents' \in [Children -> SUBSET {"POLLIN", "POLLHUP"}]
    BY <1>5 DEF Wakes, Reported, Events
  <2> QED
    BY <1>5, <2>1, Identities DEF Wakes, TypeOK, Places
<1>6. CASE ReadsSome
  <2>1. buf' \in Seq(Nat) /\ pipe' \in [Children -> Seq(Nat)]
    BY <1>6, ConcatProperties, EmptySeq DEF ReadsSome, TypeOK
  <2> QED
    BY <1>6, <2>1 DEF ReadsSome, TypeOK
<1>7. CASE ReadEnds
  <2>1. printed' \in [Children -> Seq(Nat)] /\ buf' \in Seq(Nat)
    BY <1>7, ConcatProperties, EmptySeq DEF ReadEnds, TypeOK
  <2> QED
    BY <1>7, <2>1, IndexType, ClosesEntryType DEF ReadEnds, TypeOK
<1>8. CASE PassesEntry
  BY <1>8, IndexType, ClosesEntryType DEF PassesEntry, TypeOK
<1>9. CASE KillsChildren
  BY <1>9, Identities DEF KillsChildren, TypeOK, Places
<1>10. CASE Waits
  <2>1. child' \in [Children -> ChildPlaces]
    BY <1>10 DEF Waits, TypeOK, ChildPlaces
  <2> QED
    BY <1>10, <2>1, IndexType DEF Waits, TypeOK
<1>11. CASE ParentExits
  <2>1. /\ readers' \in [Children -> SUBSET Procs] /\ pipe' \in [Children -> Seq(Nat)]
        /\ writers' \in [Children -> SUBSET Procs]
    BY <1>11, Identities, ClosesReadEffect DEF ParentExits, Drops, TypeOK
  <2> QED
    BY <1>11, <2>1 DEF ParentExits, TypeOK, Places, Ended
<1> QED
  BY <1>1, <1>2, <1>3, <1>4, <1>5, <1>6, <1>7, <1>8, <1>9, <1>10, <1>11 DEF ParentSteps

\* Every variable keeps its type when a child takes a step.
LEMMA ChildType ==
    ASSUME TypeOK, NEW i \in Children, ChildSteps(i) \/ NapFails(i)
    PROVE  TypeOK'
<1> USE DEF ChildGoes, parent, ends, bounds, ChildPlaces, Running
<1>1. CASE ClosesOwnRead(i)
  BY <1>1, Identities, ClosesReadEffect DEF ClosesOwnRead, TypeOK
<1>2. CASE CleansUp(i)
  BY <1>2, Identities, ClosesReadEffect DEF CleansUp, TypeOK
<1>3. CASE WakesUp(i) \/ NapFails(i) \/ PipeIsFull(i)
  BY <1>3 DEF WakesUp, NapFails, PipeIsFull, TypeOK
<1>4. CASE Writes(i)
  <2>1. Append(pipe[i], wrote[i] + 1) \in Seq(Nat) /\ wrote[i] + 1 \in Nat
    BY AppendProperties DEF TypeOK
  <2> QED
    BY <1>4, <2>1 DEF Writes, TypeOK
<1>5. CASE ChildEnds(i)
  <2>1. /\ readers' \in [Children -> SUBSET Procs] /\ pipe' \in [Children -> Seq(Nat)]
        /\ writers' \in [Children -> SUBSET Procs]
    BY <1>5, Identities, ClosesReadEffect DEF ChildEnds, Drops, TypeOK
  <2> QED
    BY <1>5, <2>1 DEF ChildEnds, TypeOK
<1> QED
  BY <1>1, <1>2, <1>3, <1>4, <1>5 DEF ChildSteps

\* Every variable keeps its type when a call fails or a signal comes.
LEMMA OutsideType ==
    ASSUME TypeOK,
           ForkFails \/ WatchFails \/ ReadFails \/ Interrupts \/ \E p \in Procs : IsKilled(p)
    PROVE  TypeOK'
<1> USE DEF Goes, parent, ends, bounds, Error
<1>1. CASE ForkFails \/ WatchFails
  BY <1>1 DEF ForkFails, WatchFails, TypeOK, Places
<1>2. CASE ReadFails
  <2>1. buf' \in Seq(Nat)
    BY <1>2, EmptySeq DEF ReadFails
  <2>2. /\ idx' \in Children /\ pc' \in Places /\ watched' \subseteq Children
        /\ readers' \in [Children -> SUBSET Procs] /\ pipe' \in [Children -> Seq(Nat)]
    BY <1>2, IndexType, ClosesEntryType DEF ReadFails, TypeOK, Places
  <2> QED
    BY <1>2, <2>1, <2>2 DEF ReadFails, TypeOK
<1>3. CASE Interrupts
  <2>1. flag' \in [Procs -> BOOLEAN]
    BY <1>3 DEF Interrupts, TypeOK
  <2>2. /\ idx' \in Children /\ pc' \in Places /\ skipped' \subseteq Children
        /\ UNCHANGED <<variant, watched, revents, buf, printed, failed>>
    BY <1>3, IndexType DEF Interrupts, TypeOK, Places
  <2> QED
    BY <1>3, <2>1, <2>2 DEF Interrupts, TypeOK
<1>4. ASSUME NEW p \in Procs, IsKilled(p) PROVE TypeOK'
  <2>1. /\ readers' \in [Children -> SUBSET Procs] /\ pipe' \in [Children -> Seq(Nat)]
        /\ writers' \in [Children -> SUBSET Procs]
    BY <1>4, ClosesReadEffect DEF IsKilled, Drops, TypeOK
  <2>2. child' \in [Children -> ChildPlaces] /\ pc' \in Places
        /\ UNCHANGED <<variant, idx, watched, revents, buf, printed, failed, skipped>>
    BY <1>4 DEF IsKilled, TypeOK, ChildPlaces, Places, Ended
  <2> QED
    BY <1>4, <2>1, <2>2 DEF IsKilled, TypeOK
<1> QED
  BY <1>1, <1>2, <1>3, <1>4

\* Every variable keeps its type.
LEMMA StepType == TypeOK /\ Next => TypeOK'
  BY ParentType, ChildType, OutsideType DEF Next

\* Ends are made by pipe2() and inherited by fork(); all other steps only close
\* them, and a child keeps its own write end for as long as it runs.
LEMMA OnlyCloses ==
    ASSUME TypeOK, Next, ~CreatesPipes, ~Forks, NEW i \in Children
    PROVE  /\ readers'[i] \subseteq readers[i] /\ writers'[i] \subseteq writers[i]
           /\ child'[i] \in Running =>
                 child[i] \in Running /\ (i \in writers[i] => i \in writers'[i])
           /\ child[i] = "none" <=> child'[i] = "none"
           /\ Wakes \/ revents' = revents
<1> USE DEF Goes, parent, ends, bounds, Running
<1>1. CASE ClosesWrite
  BY <1>1, Identities DEF ClosesWrite, WriteEndClosed, TypeOK
<1>2. CASE ChecksSignal \/ Blocks \/ Wakes \/ KillsChildren \/ ForkFails \/ WatchFails
           \/ Interrupts
  BY <1>2 DEF ChecksSignal, Blocks, Wakes, KillsChildren, ForkFails, WatchFails, Interrupts
<1>3. CASE ReadsSome
  BY <1>3 DEF ReadsSome
<1>4. CASE ReadEnds \/ PassesEntry \/ ReadFails
  <2>1. /\ writers' = writers /\ child' = child /\ revents' = revents
        /\ ClosesRead(Parent, {idx}) \/ readers' = readers
    BY <1>4 DEF ReadEnds, PassesEntry, ReadFails, ClosesEntry
  <2>2. readers'[i] \subseteq readers[i]
    BY <2>1, Identities, ClosesReadShrinks
  <2> QED
    BY <2>1, <2>2
<1>5. CASE Waits
  <2>1. readers' = readers /\ writers' = writers /\ revents' = revents
    BY <1>5 DEF Waits
  <2>2. child'[i] = child[i] \/ (child[i] = "zombie" /\ child'[i] = "reaped")
    BY <1>5 DEF Waits, TypeOK
  <2> QED
    BY <2>1, <2>2
<1>6. CASE ParentExits
  <2>1. /\ ClosesRead(Parent, Children) /\ writers'[i] = writers[i] \ {Parent}
        /\ child' = child /\ revents' = revents
    BY <1>6 DEF ParentExits, Drops
  <2>2. readers'[i] \subseteq readers[i]
    BY <2>1, Identities, ClosesReadShrinks
  <2> QED
    BY <2>1, <2>2, Identities
<1>7. ASSUME NEW j \in Children, ChildSteps(j) \/ NapFails(j)
      PROVE  /\ readers'[i] \subseteq readers[i] /\ writers'[i] \subseteq writers[i]
             /\ child'[i] \in Running =>
                   child[i] \in Running /\ (i \in writers[i] => i \in writers'[i])
             /\ child[i] = "none" <=> child'[i] = "none"
             /\ revents' = revents
  <2>1. /\ ClosesRead(j, {j}) \/ ClosesRead(j, Inherited(j)) \/ ClosesRead(j, Children)
              \/ readers' = readers
        /\ revents' = revents
    BY <1>7 DEF ChildSteps, ClosesOwnRead, CleansUp, WakesUp, NapFails, PipeIsFull, Writes,
       ChildEnds, Drops, ChildGoes
  <2>2. readers'[i] \subseteq readers[i]
    BY <2>1, Identities, ClosesReadShrinks
  <2>3. \E to \in (Running \ {"close"}) \cup {"zombie"} :
           /\ child[j] \in Running /\ child' = [child EXCEPT ![j] = to]
           /\ IF to = "zombie" THEN writers'[i] = writers[i] \ {j} ELSE writers' = writers
    BY <1>7 DEF ChildSteps, ClosesOwnRead, CleansUp, WakesUp, NapFails, PipeIsFull, Writes,
       ChildEnds, Drops, ChildGoes
  <2>4. /\ writers'[i] \subseteq writers[i]
        /\ child'[i] \in Running =>
              child[i] \in Running /\ (i \in writers[i] => i \in writers'[i])
        /\ child[i] = "none" <=> child'[i] = "none"
    BY <2>3 DEF TypeOK
  <2> QED
    BY <2>1, <2>2, <2>4
<1>8. ASSUME NEW p \in Procs, IsKilled(p)
      PROVE  /\ readers'[i] \subseteq readers[i] /\ writers'[i] \subseteq writers[i]
             /\ child'[i] \in Running =>
                   child[i] \in Running /\ (i \in writers[i] => i \in writers'[i])
             /\ child[i] = "none" <=> child'[i] = "none"
             /\ revents' = revents
  <2>1. ClosesRead(p, Children) /\ writers'[i] = writers[i] \ {p} /\ revents' = revents
    BY <1>8 DEF IsKilled, Drops
  <2>2. readers'[i] \subseteq readers[i]
    BY <2>1, ClosesReadShrinks
  <2>3. IF p = Parent THEN child' = child
        ELSE child[p] \in Running /\ child' = [child EXCEPT ![p] = "zombie"]
    BY <1>8 DEF IsKilled
  <2>4. /\ child'[i] \in Running =>
              child[i] \in Running /\ (i \in writers[i] => i \in writers'[i])
        /\ child[i] = "none" <=> child'[i] = "none"
    BY <2>1, <2>3, Identities DEF TypeOK
  <2> QED
    BY <2>1, <2>2, <2>4
<1> QED
  BY <1>1, <1>2, <1>3, <1>4, <1>5, <1>6, <1>7, <1>8 DEF Next, ParentSteps

\* The parent makes its pipes and children in order and never goes back to it.
LEMMA Creates ==
    ASSUME TypeOK, Next, ~CreatesPipes, ~Forks, ~ClosesWrite, pc' \in Creating
    PROVE  /\ pc' = pc /\ idx' = idx /\ revents' = revents
           /\ \A i \in Children : Parent \in writers[i] => Parent \in writers'[i]
<1> USE DEF Goes, parent, ends, bounds, Creating
<1>1. ~ParentSteps
  BY DEF ParentSteps, ChecksSignal, Blocks, Wakes, ReadsSome, ReadEnds, PassesEntry,
     KillsChildren, Waits, ParentExits, NextEntry, NextChild
<1>2. ~ForkFails /\ ~WatchFails /\ ~ReadFails
  BY DEF ForkFails, WatchFails, ReadFails, NextEntry
<1>3. CASE Interrupts
  BY <1>3 DEF Interrupts, NextChild
<1>4. ASSUME NEW j \in Children, ChildSteps(j) \/ NapFails(j)
      PROVE  /\ parent' = parent
             /\ \A i \in Children : Parent \in writers[i] => Parent \in writers'[i]
  BY <1>4, Identities DEF ChildSteps, NapFails, ClosesOwnRead, CleansUp, WakesUp, Writes,
     PipeIsFull, ChildEnds, Drops, ChildGoes
<1>5. ASSUME NEW p \in Procs, IsKilled(p)
      PROVE  /\ parent' = parent
             /\ \A i \in Children : Parent \in writers[i] => Parent \in writers'[i]
  BY <1>5, Identities DEF IsKilled, Drops, Ended
<1> QED
  BY <1>1, <1>2, <1>3, <1>4, <1>5 DEF Next

\* What is not made yet stays so until its turn.
LEMMA StepNotYet ==
    ASSUME TypeOK, NotYet, Next
    PROVE  NotYet'
<1> SUFFICES ASSUME pc' \in Creating
             PROVE  /\ \A i \in Children : i > idx' => child'[i] = "none" /\ readers'[i] = {}
                    /\ pc' # "close" => child'[idx'] = "none"
                    /\ pc' = "pipe" => readers'[idx'] = {}
                    /\ pc' = "fork" => Parent \in writers'[idx']
                    /\ \A i \in Children : revents'[i] = {}
  BY DEF NotYet
<1> USE DEF Goes
<1>1. CASE CreatesPipes
  BY <1>1, Identities DEF CreatesPipes, TypeOK, NotYet, Creating
<1>2. CASE Forks
  BY <1>2, Identities DEF Forks, TypeOK, NotYet, Creating
<1>3. CASE ClosesWrite
  <2>1. /\ pc = "close" /\ idx # N /\ pc' = "pipe" /\ idx' = idx + 1
        /\ UNCHANGED <<child, readers, revents>>
    BY <1>3 DEF ClosesWrite, Creating
  <2>2. idx + 1 \in Children /\ \A i \in Children : i > idx + 1 => i > idx
    <3>1. idx \in Nat /\ \A i \in Children : i \in Nat
      BY Identities DEF TypeOK
    <3> QED
      BY <2>1, <3>1, IndexType
  <2>3. idx + 1 > idx
    BY Identities DEF TypeOK
  <2> QED
    BY <2>1, <2>2, <2>3 DEF NotYet, Creating
<1>4. CASE ~CreatesPipes /\ ~Forks /\ ~ClosesWrite
  <2>1. /\ pc' = pc /\ idx' = idx /\ revents' = revents /\ idx \in Children
        /\ \A i \in Children : Parent \in writers[i] => Parent \in writers'[i]
    BY <1>4, Creates DEF TypeOK
  <2>2. \A i \in Children : /\ readers'[i] \subseteq readers[i]
                            /\ child[i] = "none" <=> child'[i] = "none"
    BY <1>4, OnlyCloses
  <2> QED
    BY <2>1, <2>2 DEF NotYet
<1> QED
  BY <1>1, <1>2, <1>3, <1>4

\* A write end is open for as long as its child runs, and once all are closed
\* none is opened again.
LEMMA StepWriteEnds ==
    ASSUME TypeOK, NotYet, WriteEndsHeld, Next
    PROVE  WriteEndsHeld'
<1> SUFFICES ASSUME NEW i \in Children
             PROVE  /\ child'[i] \in Running => i \in writers'[i]
                    /\ "POLLHUP" \in revents'[i] => writers'[i] = {}
  BY DEF WriteEndsHeld
<1> USE DEF Goes
<1>1. CASE CreatesPipes
  <2>1. child' = child /\ revents' = revents /\ writers' = [writers EXCEPT ![idx] = {Parent}]
        /\ pc = "pipe"
    BY <1>1 DEF CreatesPipes
  <2>2. child[idx] = "none" /\ revents[i] = {}
    BY <2>1 DEF NotYet, Creating
  <2> QED
    BY <2>1, <2>2 DEF TypeOK, WriteEndsHeld, Running
<1>2. CASE Forks
  <2>1. /\ child' = [child EXCEPT ![idx] = "close"] /\ revents' = revents /\ pc = "fork"
        /\ writers'[i] = writers[i] \cup (IF Parent \in writers[i] THEN {idx} ELSE {})
    BY <1>2 DEF Forks
  <2>2. Parent \in writers[idx] /\ revents[i] = {}
    BY <2>1 DEF NotYet, Creating
  <2> QED
    BY <2>1, <2>2 DEF TypeOK, WriteEndsHeld
<1>3. CASE ~CreatesPipes /\ ~Forks
  <2>1. /\ writers'[i] \subseteq writers[i]
        /\ child'[i] \in Running =>
                 child[i] \in Running /\ (i \in writers[i] => i \in writers'[i])
        /\ Wakes \/ revents' = revents
    BY <1>3, OnlyCloses
  <2>2. CASE Wakes
    <3>1. writers' = writers /\ revents' = Reported
      BY <2>2 DEF Wakes, ends
    <3>2. "POLLHUP" \in Reported[i] => writers[i] = {}
      BY DEF Reported, Events
    <3> QED
      BY <2>1, <3>1, <3>2 DEF WriteEndsHeld
  <2> QED
    BY <2>1, <2>2 DEF WriteEndsHeld
<1> QED
  BY <1>1, <1>2, <1>3

\* The parent closes an entry only for a pipe that hung up, and it reads such an
\* entry first.
LEMMA ClosingHungUp ==
    ASSUME TypeOK, WriteEndsHeld, Closing(idx)
    PROVE  writers[idx] = {} /\ Wanted(idx)
<1>1. /\ idx \in watched /\ variant = "poll" /\ revents[idx] \subseteq {"POLLIN", "POLLHUP"}
      /\ ~IsGood(revents[idx])
  BY DEF Closing, WillClose, TypeOK
<1>2. "POLLHUP" \in revents[idx]
  BY <1>1 DEF IsGood
<1> QED
  BY <1>1, <1>2 DEF WriteEndsHeld, TypeOK, Wanted, WillRead

\* While it runs, the parent closes no read end but that of the entry it is at.
LEMMA ParentKeeps ==
    ASSUME TypeOK, WriteEndsHeld, Next, pc' \notin Ended, NEW i \in Children,
           Parent \in readers[i]
    PROVE  \/ Parent \in readers'[i]
           \/ i = idx /\ Closing(idx) /\ (ReadEnds \/ ReadFails)
<1> USE DEF Goes, parent, ends
<1>1. CASE CreatesPipes \/ Forks
  BY <1>1 DEF CreatesPipes, Forks, TypeOK
<1>2. CASE ClosesWrite \/ ChecksSignal \/ Blocks \/ Wakes \/ ReadsSome \/ KillsChildren \/ Waits
           \/ ForkFails \/ WatchFails \/ Interrupts
  BY <1>2 DEF ClosesWrite, ChecksSignal, Blocks, Wakes, ReadsSome, KillsChildren, Waits,
     ForkFails, WatchFails, Interrupts
<1>3. CASE ReadEnds \/ ReadFails
  <2>1. IF Closing(idx) THEN readers' = readers \/ ClosesRead(Parent, {idx})
        ELSE readers' = readers
    BY <1>3 DEF ReadEnds, ReadFails, ClosesEntry
  <2> QED
    BY <1>3, <2>1, Identities, ClosesReadShrinks
<1>4. CASE PassesEntry
  BY <1>4, ClosingHungUp DEF PassesEntry, ClosesEntry
<1>5. CASE ParentExits
  BY <1>5 DEF ParentExits, Ended
<1>6. ASSUME NEW j \in Children, ChildSteps(j) \/ NapFails(j) PROVE Parent \in readers'[i]
  <2>1. \/ ClosesRead(j, {j}) \/ ClosesRead(j, Inherited(j)) \/ ClosesRead(j, Children)
        \/ readers' = readers
    BY <1>6 DEF ChildSteps, ClosesOwnRead, CleansUp, WakesUp, NapFails, PipeIsFull, Writes,
       ChildEnds, Drops
  <2> QED
    BY <2>1, Identities, ClosesReadShrinks
<1>7. ASSUME NEW p \in Procs, IsKilled(p) PROVE Parent \in readers'[i]
  <2>1. p # Parent /\ ClosesRead(p, Children)
    BY <1>7 DEF IsKilled, Drops, Ended
  <2> QED
    BY <2>1, Identities, ClosesReadShrinks
<1> QED
  BY <1>1, <1>2, <1>3, <1>4, <1>5, <1>6, <1>7 DEF Next, ParentSteps

\* Only its child puts messages into a pipe, and only what is read or left
\* without a reader goes out of it.
LEMMA PipeChange ==
    ASSUME TypeOK, Next, NEW i \in Children
    PROVE  \/ pipe'[i] = pipe[i]
           \/ pipe'[i] = << >> /\ readers'[i] = {}
           \/ pipe'[i] = << >> /\ ReadsSome /\ i = idx
           \/ Writes(i) /\ pipe'[i] = Append(pipe[i], wrote[i] + 1)
<1> USE DEF Goes, parent, ends
<1>1. CASE CreatesPipes \/ Forks \/ ClosesWrite \/ ChecksSignal \/ Blocks \/ Wakes
           \/ KillsChildren \/ Waits \/ ForkFails \/ WatchFails \/ Interrupts
  BY <1>1 DEF CreatesPipes, Forks, ClosesWrite, ChecksSignal, Blocks, Wakes, KillsChildren,
     Waits, ForkFails, WatchFails, Interrupts
<1>2. CASE ReadsSome
  BY <1>2 DEF ReadsSome, TypeOK
<1>3. ASSUME NEW p \in Procs, NEW S, ClosesRead(p, S)
      PROVE  pipe'[i] = pipe[i] \/ (pipe'[i] = << >> /\ readers'[i] = {})
  BY <1>3, ClosesReadEffect
<1>4. CASE ReadEnds \/ PassesEntry \/ ReadFails \/ ParentExits
  <2>1. ClosesRead(Parent, {idx}) \/ ClosesRead(Parent, Children) \/ pipe' = pipe
    BY <1>4 DEF ReadEnds, PassesEntry, ReadFails, ParentExits, ClosesEntry, Drops
  <2> QED
    BY <1>3, <2>1, Identities
<1>5. ASSUME NEW j \in Children, ChildSteps(j) \/ NapFails(j), ~Writes(j)
      PROVE  pipe'[i] = pipe[i] \/ (pipe'[i] = << >> /\ readers'[i] = {})
  <2>1. \/ ClosesRead(j, {j}) \/ ClosesRead(j, Inherited(j)) \/ ClosesRead(j, Children)
        \/ pipe' = pipe
    BY <1>5 DEF ChildSteps, ClosesOwnRead, CleansUp, WakesUp, NapFails, PipeIsFull,
       ChildEnds, Drops
  <2> QED
    BY <1>3, <2>1, Identities
<1>6. ASSUME NEW j \in Children, Writes(j)
      PROVE  \/ pipe'[i] = pipe[i]
             \/ Writes(i) /\ pipe'[i] = Append(pipe[i], wrote[i] + 1)
  BY <1>6 DEF Writes, TypeOK
<1>7. ASSUME NEW p \in Procs, IsKilled(p)
      PROVE  pipe'[i] = pipe[i] \/ (pipe'[i] = << >> /\ readers'[i] = {})
  <2>1. ClosesRead(p, Children)
    BY <1>7 DEF IsKilled, Drops
  <2> QED
    BY <1>3, <2>1
<1> QED
  BY <1>1, <1>2, <1>4, <1>5, <1>6, <1>7 DEF Next, ParentSteps

\* A read that failed stays failed, and the parent does not come back to life.
LEMMA Monotone ==
    ASSUME Next
    PROVE  /\ failed \subseteq failed' /\ skipped \subseteq skipped'
           /\ pc \in Ended => pc' \in Ended
<1> USE DEF Goes, parent, ends
<1>1. ASSUME ParentSteps PROVE failed' = failed /\ skipped' = skipped /\ pc \notin Ended
  BY <1>1 DEF ParentSteps, CreatesPipes, Forks, ClosesWrite, ChecksSignal, Blocks, Wakes,
     ReadsSome, ReadEnds, PassesEntry, KillsChildren, Waits, ParentExits, Ended
<1>2. ASSUME NEW j \in Children, ChildSteps(j) \/ NapFails(j)
      PROVE  failed' = failed /\ skipped' = skipped /\ pc' = pc
  BY <1>2 DEF ChildSteps, ClosesOwnRead, CleansUp, WakesUp, NapFails, PipeIsFull, Writes,
     ChildEnds, ChildGoes
<1>3. CASE ForkFails \/ WatchFails \/ ReadFails \/ Interrupts
  BY <1>3 DEF ForkFails, WatchFails, ReadFails, Interrupts, Ended
<1>4. ASSUME NEW p \in Procs, IsKilled(p)
      PROVE  failed' = failed /\ skipped' = skipped /\ (pc' = pc \/ pc' = "killed")
  BY <1>4 DEF IsKilled
<1> QED
  BY <1>1, <1>2, <1>3, <1>4 DEF Next, Ended

\* The parent has the read end of every pipe that matters to it.
LEMMA StepParentReads ==
    ASSUME TypeOK, NotYet, WriteEndsHeld, ParentReads, Next
    PROVE  ParentReads'
<1> SUFFICES ASSUME pc' \notin Ended, NEW i \in Children
             PROVE  \/ Parent \in readers'[i]
                    \/ writers'[i] = {} /\ (pipe'[i] = << >> \/ i \in failed')
  BY DEF ParentReads
<1>0. pc \notin Ended /\ failed \subseteq failed'
  BY Monotone
<1>1. CASE Parent \in readers[i] /\ Parent \notin readers'[i]
  <2>1. i = idx /\ Closing(idx) /\ (ReadEnds \/ ReadFails)
    BY <1>1, ParentKeeps
  <2>2. writers[i] = {}
    BY <2>1, ClosingHungUp
  <2>3. CASE ReadEnds
    <3>1. pipe[i] = << >> /\ writers' = writers
      BY <2>1, <2>3 DEF ReadEnds
    <3>2. pipe'[i] = << >>
      <4>1. ~Writes(i)
        BY <2>2, <3>1, <1>1 DEF Writes, WriteEndsHeld, Running
      <4> QED
        BY <3>1, <4>1, PipeChange
    <3> QED
      BY <2>2, <3>1, <3>2
  <2>4. CASE ReadFails
    BY <2>1, <2>2, <2>4 DEF ReadFails
  <2> QED
    BY <2>1, <2>3, <2>4
<1>2. CASE Parent \notin readers[i]
  <2>1. writers[i] = {} /\ (pipe[i] = << >> \/ i \in failed)
    BY <1>0, <1>2 DEF ParentReads
  <2>2. pipe'[i] = << >> \/ i \in failed'
    <3>1. ~Writes(i)
      BY <2>1 DEF Writes, WriteEndsHeld, Running
    <3> QED
      BY <1>0, <2>1, <3>1, PipeChange
  <2>3. CASE CreatesPipes
    BY <1>2, <2>1, <2>2, <2>3 DEF CreatesPipes, TypeOK
  <2>4. CASE Forks
    <3>1. writers'[i] = {}
      BY <2>1, <2>4 DEF Forks
    <3> QED
      BY <2>2, <3>1
  <2>5. CASE ~CreatesPipes /\ ~Forks
    BY <2>1, <2>2, <2>5, OnlyCloses
  <2> QED
    BY <2>3, <2>4, <2>5
<1> QED
  BY <1>1, <1>2

\* A buffer is in use only between the read()s of one read_fd().
LEMMA StepBuf ==
    ASSUME TypeOK, BufInUse, Next
    PROVE  BufInUse'
<1> USE DEF Goes, parent, ends
<1>1. CASE ReadsSome
  BY <1>1 DEF ReadsSome, BufInUse, Wanted
<1>2. CASE ReadEnds \/ ReadFails
  BY <1>2 DEF ReadEnds, ReadFails, BufInUse
<1>3. CASE ParentSteps /\ ~ReadsSome /\ ~ReadEnds
  BY <1>3 DEF ParentSteps, CreatesPipes, Forks, ClosesWrite, ChecksSignal, Blocks, Wakes,
     PassesEntry, KillsChildren, Waits, ParentExits, BufInUse, Ended
<1>4. ASSUME NEW j \in Children, ChildSteps(j) \/ NapFails(j) PROVE BufInUse'
  <2>1. parent' = parent
    BY <1>4 DEF ChildSteps, ClosesOwnRead, CleansUp, WakesUp, NapFails, PipeIsFull, Writes,
       ChildEnds, ChildGoes
  <2> QED
    BY <2>1 DEF BufInUse, Wanted
<1>5. CASE ForkFails \/ WatchFails
  BY <1>5 DEF ForkFails, WatchFails, BufInUse, Ended
<1>6. CASE Interrupts
  <2>1. parent' = parent \/ (pc \in {"blocked", "wait"} /\ buf' = buf)
    BY <1>6 DEF Interrupts
  <2> QED
    BY <2>1 DEF BufInUse, Wanted, Ended
<1>7. ASSUME NEW p \in Procs, IsKilled(p) PROVE BufInUse'
  <2>1. parent' = parent \/ pc' = "killed"
    BY <1>7 DEF IsKilled
  <2> QED
    BY <2>1 DEF BufInUse, Wanted, Ended
<1> QED
  BY <1>1, <1>2, <1>3, <1>4, <1>5, <1>6, <1>7 DEF Next

\* The numbers up to n, and one more.
LEMMA OneMore ==
    ASSUME NEW n \in Nat
    PROVE  /\ [k \in 1 .. n |-> k] \in Seq(Nat)
           /\ Append([k \in 1 .. n |-> k], n + 1) = [k \in 1 .. n + 1 |-> k]
<1> DEFINE c(m) == [k \in 1 .. m |-> k]
<1>1. ASSUME NEW m \in Nat PROVE c(m) \in Seq(Nat) /\ Len(c(m)) = m
  <2>1. c(m) \in [1 .. m -> Nat]
    OBVIOUS
  <2>2. c(m) \in Seq(Nat)
    BY <2>1, SeqDef
  <2> QED
    BY <2>2, LenProperties
<1>2. /\ Append(c(n), n + 1) \in Seq(Nat) /\ Len(Append(c(n), n + 1)) = n + 1
      /\ \A i \in 1 .. n : Append(c(n), n + 1)[i] = c(n)[i]
      /\ Append(c(n), n + 1)[n + 1] = n + 1
  <2>1. c(n) \in Seq(Nat) /\ Len(c(n)) = n /\ n + 1 \in Nat
    BY <1>1
  <2> HIDE DEF c
  <2> QED
    BY <2>1, AppendProperties
<1>3. c(n + 1) \in Seq(Nat) /\ Len(c(n + 1)) = n + 1
  BY <1>1
<1>4. ASSUME NEW i \in 1 .. n + 1 PROVE Append(c(n), n + 1)[i] = c(n + 1)[i]
  BY <1>2
<1>5. Append(c(n), n + 1) = c(n + 1)
  <2> HIDE DEF c
  <2> QED
    BY <1>2, <1>3, <1>4, SeqEqual
<1> QED
  BY <1>1, <1>5

\* Concatenation is associative.
LEMMA Assoc ==
    \A s, t, u \in Seq(Nat) : (s \o t) \o u = s \o (t \o u)
  BY ConcatAssociative

\* What is printed and what is in the buffer of a pipe changes together.
LEMMA PrintedKept ==
    ASSUME TypeOK, BufInUse, Next, pc' \notin Ended,
           NEW i \in Children, i \notin failed', ~ReadsSome
    PROVE  printed'[i] \o (IF i = idx' THEN buf' ELSE << >>)
              = printed[i] \o (IF i = idx THEN buf ELSE << >>)
<1> USE DEF Goes, parent, ends
<1>0. pc \notin Ended /\ printed[i] \in Seq(Nat) /\ buf \in Seq(Nat)
  BY Monotone DEF TypeOK
<1>1. CASE ReadEnds
  <2>1. buf' = << >> /\ printed' = [printed EXCEPT ![idx] = @ \o buf]
    BY <1>1 DEF ReadEnds
  <2>2. CASE i = idx
    <3>1. printed'[i] = printed[i] \o buf /\ printed[i] \o buf \in Seq(Nat)
      BY <1>0, <2>1, <2>2, ConcatProperties DEF TypeOK
    <3> QED
      BY <2>1, <2>2, <3>1, ConcatEmptySeq
  <2>3. CASE i # idx
    BY <2>1, <2>3 DEF TypeOK
  <2> QED
    BY <2>2, <2>3
<1>2. CASE ReadFails
  <2>1. i # idx /\ buf' = << >> /\ printed' = printed
    BY <1>2 DEF ReadFails
  <2> QED
    BY <2>1
<1>3. CASE ~ReadEnds /\ ~ReadFails
  <2>1. printed' = printed /\ buf' = buf /\ (idx' = idx \/ buf = << >>)
    <3>1. CASE PassesEntry
      BY <1>0, <3>1 DEF PassesEntry, BufInUse
    <3>2. CASE ParentSteps /\ ~PassesEntry
      BY <1>0, <1>3, <3>2 DEF ParentSteps, CreatesPipes, Forks, ClosesWrite, ChecksSignal,
         Blocks, Wakes, KillsChildren, Waits, ParentExits, BufInUse
    <3>3. ASSUME NEW j \in Children, ChildSteps(j) \/ NapFails(j) PROVE parent' = parent
      BY <3>3 DEF ChildSteps, ClosesOwnRead, CleansUp, WakesUp, NapFails, PipeIsFull, Writes,
         ChildEnds, ChildGoes
    <3>4. CASE ForkFails \/ WatchFails \/ Interrupts
      BY <1>0, <3>4 DEF ForkFails, WatchFails, Interrupts, BufInUse
    <3>5. ASSUME NEW p \in Procs, IsKilled(p) PROVE parent' = parent
      BY <3>5 DEF IsKilled, Ended
    <3> QED
      BY <1>3, <3>1, <3>2, <3>3, <3>4, <3>5 DEF Next
  <2> QED
    BY <2>1
<1> QED
  BY <1>1, <1>2, <1>3

\* A child counts its messages as it writes them.
LEMMA WroteKept ==
    ASSUME TypeOK, Next, NEW i \in Children
    PROVE  wrote'[i] = IF Writes(i) THEN wrote[i] + 1 ELSE wrote[i]
<1>1. ASSUME NEW j \in Children, Writes(j)
      PROVE  wrote'[i] = IF Writes(i) THEN wrote[i] + 1 ELSE wrote[i]
  <2>1. child'[j] = "sleep" /\ child[j] = "write" /\ wrote' = [wrote EXCEPT ![j] = @ + 1]
        /\ \A k \in Children \ {j} : child'[k] = child[k]
    BY <1>1 DEF Writes, ChildGoes, TypeOK
  <2>2. i # j => ~Writes(i)
    BY <2>1 DEF Writes, ChildGoes, TypeOK
  <2> QED
    BY <1>1, <2>1, <2>2 DEF TypeOK
<1>2. CASE \A j \in Children : ~Writes(j)
  <2>1. wrote' = wrote
    BY <1>2 DEF Next, ParentSteps, CreatesPipes, Forks, ClosesWrite, ChecksSignal, Blocks,
       Wakes, ReadsSome, ReadEnds, PassesEntry, KillsChildren, Waits, ParentExits,
       ChildSteps, ClosesOwnRead, CleansUp, WakesUp, NapFails, PipeIsFull, ChildEnds,
       ForkFails, WatchFails, ReadFails, Interrupts, IsKilled
  <2> QED
    BY <1>2, <2>1
<1> QED
  BY <1>1, <1>2

\* What a child wrote is printed, in the buffer or in its pipe, in this order.
LEMMA StepNothingLost ==
    ASSUME TypeOK, WriteEndsHeld, ParentReads, BufInUse, NothingLost, Next
    PROVE  NothingLost'
<1> SUFFICES ASSUME NEW i \in Children, i \notin failed', pc' \notin Ended
             PROVE  printed'[i] \o (IF i = idx' THEN buf' ELSE << >>) \o pipe'[i]
                       = [k \in 1 .. wrote'[i] |-> k]
  BY DEF NothingLost
<1> DEFINE read == printed[i] \o (IF i = idx THEN buf ELSE << >>)
           readNext == printed'[i] \o (IF i = idx' THEN buf' ELSE << >>)
<1>1. i \notin failed /\ pc \notin Ended
  BY Monotone
<1>2. read \o pipe[i] = [k \in 1 .. wrote[i] |-> k]
  BY <1>1 DEF NothingLost
<1>3. /\ printed[i] \in Seq(Nat) /\ buf \in Seq(Nat) /\ pipe[i] \in Seq(Nat) /\ wrote[i] \in Nat
      /\ idx \in Children /\ << >> \in Seq(Nat)
  BY EmptySeq DEF TypeOK
<1>4. read \in Seq(Nat)
  BY <1>3, ConcatProperties
<1>5. CASE ReadsSome /\ i = idx
  <2>1. /\ buf' = buf \o pipe[i] /\ pipe'[i] = << >> /\ idx' = idx /\ printed' = printed
        /\ wrote' = wrote
    BY <1>5 DEF ReadsSome, TypeOK
  <2>2. printed[i] \o (buf \o pipe[i]) = (printed[i] \o buf) \o pipe[i]
    BY <1>3, Assoc, Zenon
  <2>3. readNext = read \o pipe[i] /\ read \o pipe[i] \in Seq(Nat)
    BY <1>3, <1>4, <1>5, <2>1, <2>2, ConcatProperties
  <2>4. readNext \o pipe'[i] = read \o pipe[i]
    BY <2>1, <2>3, ConcatEmptySeq
  <2> QED
    BY <1>2, <2>1, <2>4
<1>6. CASE ~(ReadsSome /\ i = idx)
  <2>1. readNext = read
    <3>1. CASE ReadsSome
      BY <1>6, <3>1 DEF ReadsSome
    <3>2. CASE ~ReadsSome
      BY <3>2, PrintedKept
    <3> QED
      BY <3>1, <3>2
  <2>2. CASE Writes(i)
    <3>1. pipe'[i] = Append(pipe[i], wrote[i] + 1) /\ wrote'[i] = wrote[i] + 1
      BY <2>2 DEF Writes, TypeOK
    <3>2. wrote[i] + 1 \in Nat /\ << wrote[i] + 1 >> \in Seq(Nat)
      BY <1>3
    <3>3. /\ Append(pipe[i], wrote[i] + 1) = pipe[i] \o << wrote[i] + 1 >>
          /\ read \o pipe[i] \in Seq(Nat)
      BY <1>3, <1>4, <3>2, AppendIsConcat, ConcatProperties
    <3> HIDE DEF read
    <3>4. read \o (pipe[i] \o << wrote[i] + 1 >>) = (read \o pipe[i]) \o << wrote[i] + 1 >>
      BY <1>3, <1>4, <3>2, Assoc, Zenon
    <3>5. (read \o pipe[i]) \o << wrote[i] + 1 >> = Append(read \o pipe[i], wrote[i] + 1)
      BY <3>2, <3>3, AppendIsConcat
    <3>6. Append(read \o pipe[i], wrote[i] + 1) = [k \in 1 .. wrote[i] + 1 |-> k]
      BY <1>2, <1>3, OneMore
    <3> QED
      BY <2>1, <3>1, <3>3, <3>4, <3>5, <3>6
  <2>3. CASE ~Writes(i)
    <3>1. wrote'[i] = wrote[i]
      BY <2>3, WroteKept
    <3>2. pipe'[i] = pipe[i]
      <4>1. CASE pipe'[i] = << >> /\ readers'[i] = {}
        <5>1. CASE Parent \in readers[i]
          <6>1. i = idx /\ (ReadEnds \/ ReadFails)
            BY <4>1, <5>1, ParentKeeps
          <6>2. ~ReadFails
            BY <6>1 DEF ReadFails
          <6> QED
            BY <4>1, <6>1, <6>2 DEF ReadEnds
        <5>2. CASE Parent \notin readers[i]
          BY <1>1, <4>1, <5>2 DEF ParentReads
        <5> QED
          BY <5>1, <5>2
      <4> QED
        BY <1>6, <2>3, <4>1, PipeChange
    <3> QED
      BY <1>2, <2>1, <3>1, <3>2
  <2> QED
    BY <2>2, <2>3
<1> QED
  BY <1>5, <1>6

\* A read end is given up where the programs say so and by whoever ends.
LEMMA StepReadEnds ==
    ASSUME TypeOK, NotYet, ReadEndsHeld, Next
    PROVE  ReadEndsHeld'
<1> SUFFICES ASSUME NEW i \in Children, NEW p \in readers'[i]
             PROVE  IF p = Parent THEN pc' \notin Ended
                    ELSE \/ child'[p] = "close" /\ i <= p
                         \/ child'[p] = "clean_up" /\ i < p
  BY DEF ReadEndsHeld
<1> USE DEF Goes, parent, ends
<1>0. /\ p \in Procs /\ (p # Parent => p \in Children)
      /\ p \in readers[i] => IF p = Parent THEN pc \notin Ended
                              ELSE \/ child[p] = "close" /\ i <= p
                                   \/ child[p] = "clean_up" /\ i < p
  BY StepType DEF TypeOK, Procs, ReadEndsHeld
<1>1. CASE CreatesPipes
  <2>1. pc' = "fork" /\ child' = child
    BY <1>1 DEF CreatesPipes
  <2>2. p \in readers[i] \/ p = Parent
    BY <1>1 DEF CreatesPipes, TypeOK
  <2> QED
    BY <1>0, <2>1, <2>2 DEF Ended
<1>2. CASE Forks
  <2>1. /\ pc' = "close" /\ pc = "fork" /\ child' = [child EXCEPT ![idx] = "close"]
        /\ readers'[i] = readers[i] \cup (IF Parent \in readers[i] THEN {idx} ELSE {})
    BY <1>2 DEF Forks
  <2>2. CASE p \in readers[i]
    <3>1. p # idx
      <4>1. child[idx] = "none" /\ idx # Parent
        BY <2>1, Identities DEF NotYet, Creating, TypeOK
      <4> QED
        BY <1>0, <2>2, <4>1
    <3> QED
      BY <1>0, <2>1, <2>2, <3>1 DEF TypeOK, Ended
  <2>3. CASE p \notin readers[i]
    <3>1. p = idx /\ readers[i] # {}
      BY <2>1, <2>3
    <3>2. i <= idx
      <4>1. ~(i > idx) /\ i \in Nat /\ idx \in Nat
        BY <2>1, <3>1, Identities DEF NotYet, Creating, TypeOK
      <4> QED
        BY <4>1
    <3> QED
      BY <2>1, <3>1, <3>2, Identities DEF TypeOK
  <2> QED
    BY <2>2, <2>3
<1>3. CASE ~CreatesPipes /\ ~Forks
  <2>1. p \in readers[i]
    BY <1>3, OnlyCloses
  <2>2. CASE ParentSteps
    <3>1. CASE ParentExits
      <4>1. p # Parent /\ child' = child
        BY <3>1, Identities DEF ParentExits, Drops, ClosesRead
      <4> QED
        BY <1>0, <2>1, <4>1
    <3>2. CASE ~ParentExits
      <4>1. pc' \notin Ended
        BY <1>3, <2>2, <3>2 DEF ParentSteps, ClosesWrite, ChecksSignal, Blocks, Wakes,
           ReadsSome, ReadEnds, PassesEntry, KillsChildren, Waits, NextEntry, NextChild, Ended
      <4>2. p # Parent => child'[p] = child[p] \/ child[p] = "zombie"
        <5>1. CASE Waits
          BY <1>0, <5>1 DEF Waits, TypeOK
        <5>2. CASE ~Waits
          BY <1>3, <2>2, <3>2, <5>2 DEF ParentSteps, ClosesWrite, ChecksSignal, Blocks, Wakes,
             ReadsSome, ReadEnds, PassesEntry, KillsChildren
        <5> QED
          BY <5>1, <5>2
      <4> QED
        BY <1>0, <2>1, <4>1, <4>2
    <3> QED
      BY <3>1, <3>2
  <2>3. ASSUME NEW j \in Children, ChildSteps(j) \/ NapFails(j)
        PROVE  IF p = Parent THEN pc' \notin Ended
               ELSE \/ child'[p] = "close" /\ i <= p
                    \/ child'[p] = "clean_up" /\ i < p
    <3>1. pc' = pc
      BY <2>3 DEF ChildSteps, ClosesOwnRead, CleansUp, WakesUp, NapFails, PipeIsFull, Writes,
         ChildEnds, ChildGoes
    <3>2. CASE p # j
      <4>1. p # Parent => child'[p] = child[p]
        BY <1>0, <2>3, <3>2 DEF ChildSteps, ClosesOwnRead, CleansUp, WakesUp, NapFails,
           PipeIsFull, Writes, ChildEnds, ChildGoes, TypeOK
      <4> QED
        BY <1>0, <2>1, <3>1, <4>1
    <3>3. CASE p = j
      <4>1. p # Parent /\ i \in Nat /\ p \in Nat
        BY <3>3, Identities
      <4>2. CASE ClosesOwnRead(j)
        <5>1. i # p /\ child'[p] = "clean_up" /\ child[p] = "close"
          BY <3>3, <4>2 DEF ClosesOwnRead, ClosesRead, ChildGoes, TypeOK
        <5> QED
          BY <1>0, <2>1, <4>1, <5>1
      <4>3. CASE CleansUp(j)
        <5>1. ~(i < p) /\ child[p] = "clean_up"
          BY <3>3, <4>3 DEF CleansUp, ClosesRead, Inherited
        <5> QED
          BY <1>0, <2>1, <4>1, <5>1
      <4>4. CASE ChildEnds(j)
        <5>1. p \notin readers'[i]
          BY <3>3, <4>4 DEF ChildEnds, Drops, ClosesRead
        <5> QED
          BY <5>1
      <4>5. CASE WakesUp(j) \/ NapFails(j) \/ PipeIsFull(j) \/ Writes(j)
        <5>1. child[p] \in {"sleep", "write"}
          BY <3>3, <4>5 DEF WakesUp, NapFails, PipeIsFull, Writes
        <5> QED
          BY <1>0, <2>1, <4>1, <5>1
      <4> QED
        BY <2>3, <4>2, <4>3, <4>4, <4>5 DEF ChildSteps
    <3> QED
      BY <3>2, <3>3
  <2>4. CASE ForkFails \/ WatchFails \/ ReadFails \/ Interrupts
    <3>1. child' = child
      BY <2>4 DEF ForkFails, WatchFails, ReadFails, Interrupts
    <3>2. pc \notin Ended => pc' \notin Ended
      BY <2>4 DEF ForkFails, WatchFails, ReadFails, Interrupts, NextEntry, NextChild, Ended
    <3> QED
      BY <1>0, <2>1, <3>1, <3>2
  <2>5. ASSUME NEW q \in Procs, IsKilled(q)
        PROVE  IF p = Parent THEN pc' \notin Ended
               ELSE \/ child'[p] = "close" /\ i <= p
                    \/ child'[p] = "clean_up" /\ i < p
    <3>1. p # q
      BY <2>5 DEF IsKilled, Drops, ClosesRead
    <3>2. /\ p = Parent => pc' = pc
          /\ p # Parent => child'[p] = child[p]
      BY <1>0, <2>5, <3>1, Identities DEF IsKilled, TypeOK
    <3> QED
      BY <1>0, <2>1, <3>2
  <2> QED
    BY <1>3, <2>2, <2>3, <2>4, <2>5 DEF Next
<1> QED
  BY <1>1, <1>2, <1>3

\* The parent goes past a child in its waitpid() loop only when that child has
\* ended, or when a signal interrupts the call.
LEMMA StepWaitedFor ==
    ASSUME TypeOK, WaitedFor, Next
    PROVE  WaitedFor'
<1> SUFFICES ASSUME skipped' = {}, NEW j \in Children,
                    pc' \in {"exit", "ended"} \/ (pc' = "wait" /\ j < idx')
             PROVE  child'[j] \notin Running
  BY DEF WaitedFor
<1> USE DEF Goes, parent, ends
<1>0. /\ skipped = {}
      /\ pc \in {"exit", "ended"} \/ (pc = "wait" /\ j < idx) => child[j] \notin Running
      /\ j \in Nat /\ idx \in Nat /\ N \in Nat /\ 1 <= j /\ j <= N
  BY Monotone, Identities DEF WaitedFor, TypeOK
<1>1. CASE Waits
  <2>1. j < idx \/ j = idx
    <3>1. idx = N \/ (idx' = idx + 1 /\ pc' = "wait")
      BY <1>1 DEF Waits, NextChild
    <3>2. j <= idx
      BY <1>0, <3>1
    <3> QED
      BY <1>0, <3>2
  <2>2. child[j] \notin Running => child'[j] \notin Running
    BY <1>1 DEF Waits, TypeOK, Running
  <2>3. CASE j < idx
    BY <1>0, <1>1, <2>2, <2>3 DEF Waits
  <2>4. CASE j = idx
    <3>1. CASE Awaited(idx) = {}
      <4>1. child[j] \in {"none", "reaped"}
        BY <2>4, <3>1 DEF Awaited
      <4> QED
        BY <2>2, <4>1 DEF Running
    <3>2. CASE Awaited(idx) # {}
      <4>1. PICK k \in Awaited(idx) : child[k] = "zombie"
        BY <1>1, <3>2 DEF Waits, Reapable
      <4>2. child[j] = "none" \/ k = j
        BY <2>4, <4>1 DEF Awaited
      <4> QED
        BY <2>2, <4>1, <4>2 DEF Running
    <3> QED
      BY <3>1, <3>2
  <2> QED
    BY <2>1, <2>3, <2>4
<1>2. CASE ~Waits
  <2>1. pc \in {"exit", "ended"} \/ (pc = "wait" /\ j < idx)
    <3>1. CASE ParentSteps
      <4>1. ~KillsChildren
        BY <1>0 DEF KillsChildren
      <4> QED
        BY <1>2, <3>1, <4>1 DEF ParentSteps, CreatesPipes, Forks, ClosesWrite, ChecksSignal,
           Blocks, Wakes, ReadsSome, ReadEnds, PassesEntry, ParentExits, NextEntry
    <3>2. ASSUME NEW k \in Children, ChildSteps(k) \/ NapFails(k) PROVE pc' = pc /\ idx' = idx
      BY <3>2 DEF ChildSteps, ClosesOwnRead, CleansUp, WakesUp, NapFails, PipeIsFull, Writes,
         ChildEnds, ChildGoes
    <3>3. CASE ForkFails \/ WatchFails \/ ReadFails
      BY <3>3 DEF ForkFails, WatchFails, ReadFails, NextEntry
    <3>4. CASE Interrupts
      BY <3>4 DEF Interrupts
    <3>5. ASSUME NEW p \in Procs, IsKilled(p) PROVE pc' = "killed" \/ (pc' = pc /\ idx' = idx)
      BY <3>5 DEF IsKilled
    <3> QED
      BY <3>1, <3>2, <3>3, <3>4, <3>5 DEF Next
  <2>2. ~CreatesPipes /\ ~Forks
    BY <2>1 DEF CreatesPipes, Forks
  <2> QED
    BY <1>0, <2>1, <2>2, OnlyCloses
<1> QED
  BY <1>1, <1>2

\* IInv is an invariant.
LEMMA InductiveInvariant == Spec => []IInv
<1>1. IInv /\ [Next]_vars => IInv'
  <2> SUFFICES ASSUME IInv, [Next]_vars PROVE IInv'
    OBVIOUS
  <2>1. CASE Next
    BY <2>1, StepType, StepNotYet, StepWriteEnds, StepParentReads, StepBuf, StepNothingLost,
       StepReadEnds, StepWaitedFor DEF IInv
  <2>2. CASE UNCHANGED vars
    BY <2>2 DEF vars, parent, ends, bounds, IInv, TypeOK, NotYet, WriteEndsHeld, ParentReads,
       BufInUse, Wanted, NothingLost, ReadEndsHeld, WaitedFor
  <2> QED
    BY <2>1, <2>2
<1> QED
  BY <1>1, InitIInv, PTL DEF Spec

\* Every variable keeps its type, for any swarm.
THEOREM TypeCorrect == Spec => []TypeOK
  BY InductiveInvariant, PTL DEF IInv

\* As long as the parent runs, every message of every child is printed, in the
\* parent's buffer or in the pipe, in the order written, unless a read failed.
THEOREM MessagesAreKept == Spec => []NothingLost
  BY InductiveInvariant, PTL DEF IInv

\* Once the parent is gone and the children have closed what they inherited, no
\* pipe has a reader, so that the next write ends its child.
THEOREM OrphansAreTold == Spec => []DeadParentIsNoticed
<1>1. IInv => DeadParentIsNoticed
  <2> SUFFICES ASSUME IInv, pc \in Ended,
                      \A i \in Children : child[i] \notin {"close", "clean_up"},
                      NEW i \in Children, NEW p \in readers[i]
               PROVE  FALSE
    BY DEF DeadParentIsNoticed
  <2>1. p = Parent \/ p \in Children
    BY DEF IInv, TypeOK, Procs
  <2> QED
    BY <2>1 DEF IInv, ReadEndsHeld
<1> QED
  BY <1>1, InductiveInvariant, PTL

\* The parent ends after all its children, unless SIGINT interrupted a waitpid().
THEOREM ChildrenAreReaped == Spec => []NoChildLeft
<1>1. IInv => NoChildLeft
  BY DEF IInv, NoChildLeft, WaitedFor
<1> QED
  BY <1>1, InductiveInvariant, PTL

--------------------------------------------------------------------------------
(***************************************************************************)
(* LogServer: the logging server and its clients, for any servers and      *)
(* clients, any length of message and any number of starts and faults.  A  *)
(* log is complete, and no socket file is left behind.                     *)
(***************************************************************************)
CONSTANTS Servers, Clients, NoOne, MessageLen, MaxStarts, MaxFaults
VARIABLES path, server, listening, backlog, serving, taken, accepted, log,
          client, to, sent, broken, lost, starts, faults, stopping

L == INSTANCE LogServer WITH flag <- stopping

\* What LogServer assumes of the names of its processes.
LogConstants == NoOne \notin Servers \cup Clients

\* The parts of LogIsComplete that are about one server.
Complete(s) ==
    server[s] # "crashed" =>
        \A k \in DOMAIN accepted[s] :
            \/ accepted[s][k] \in lost
            \/ L!InHand(s, accepted[s][k])
            \/ \E i \in DOMAIN log[s] : L!Whole(log[s][i], accepted[s][k])
InOrder(s) ==
    \A i, j \in DOMAIN log[s], k, l \in DOMAIN accepted[s] :
        i < j /\ log[s][i][1] = accepted[s][k] /\ log[s][j][1] = accepted[s][l] => k < l

ServerInv(s) == L!Waiting(s) /\ L!Accepted(s) /\ L!Logged(s) /\ Complete(s) /\ InOrder(s)

\* IInv, one server at a time.
LEMMA LogParts ==
    L!IInv <=> L!TypeOK /\ L!LostOnes /\ L!PathHasOwner /\ \A s \in Servers : ServerInv(s)
<1>1. ASSUME L!IInv, NEW s \in Servers PROVE Complete(s) /\ InOrder(s)
  BY <1>1 DEF L!IInv, L!LogIsComplete, Complete, InOrder
<1>2. ASSUME NEW s \in Servers, ServerInv(s), NEW i \in DOMAIN log[s]
      PROVE  \E k \in DOMAIN accepted[s] : \/ L!Whole(log[s][i], accepted[s][k])
                                           \/ L!IsTorn(log[s][i], accepted[s][k])
  BY <1>2 DEF ServerInv, L!Logged
<1>3. ASSUME \A s \in Servers : ServerInv(s) PROVE L!LogIsComplete
  BY <1>2, <1>3 DEF L!LogIsComplete, ServerInv, Complete, InOrder
<1> QED
  BY <1>1, <1>3 DEF L!IInv, ServerInv

\* The types of what belongs to one server.
LEMMA ServerTypes ==
    ASSUME L!TypeOK, NEW s \in Servers
    PROVE  /\ accepted[s] \in Seq(Clients) /\ backlog[s] \in Seq(Clients)
           /\ log[s] \in Seq(Clients \X (Nat \cup {L!Torn}))
           /\ serving[s] \in Clients \cup {NoOne}
           /\ DOMAIN accepted[s] = 1 .. Len(accepted[s]) /\ Len(accepted[s]) \in Nat
           /\ DOMAIN backlog[s] = 1 .. Len(backlog[s]) /\ Len(backlog[s]) \in Nat
           /\ DOMAIN log[s] = 1 .. Len(log[s]) /\ Len(log[s]) \in Nat
           /\ \A k \in DOMAIN accepted[s] : accepted[s][k] \in Clients
           /\ \A k \in DOMAIN backlog[s] : backlog[s][k] \in Clients
  BY LenProperties DEF L!TypeOK

\* Who was logged in full will not write any more.
LEMMA WholeIsClosed ==
    ASSUME NEW s \in Servers, ServerInv(s), NEW i \in DOMAIN log[s], NEW c,
           L!Whole(log[s][i], c)
    PROVE  L!Closed(c)
<1>1. PICK k \in DOMAIN accepted[s] :
          \/ L!Whole(log[s][i], accepted[s][k]) /\ L!Closed(accepted[s][k])
          \/ L!IsTorn(log[s][i], accepted[s][k])
  BY DEF ServerInv, L!Logged
<1>2. c = accepted[s][k]
  BY <1>1 DEF L!Whole, L!IsTorn
<1> QED
  BY <1>1, <1>2 DEF L!Whole, L!IsTorn

\* What belongs to server t is as it was, but for those that wait.
SameServer(t) ==
    /\ server'[t] = server[t] /\ serving'[t] = serving[t] /\ taken'[t] = taken[t]
    /\ accepted'[t] = accepted[t] /\ log'[t] = log[t]
    /\ t \in listening' <=> t \in listening

\* The clients of t, and those that have closed, are as they were.
SameClients(t) ==
    /\ \A d \in Clients : L!ClientOf(t, d) => L!ClientOf(t, d)' /\ (d \in lost' <=> d \in lost)
    /\ \A d \in Clients : L!Closed(d) => L!Closed(d)' /\ sent'[d] = sent[d]

\* What a server has logged stays as it is in a step of somebody else.
LEMMA LoggedKept ==
    ASSUME L!TypeOK, NEW t \in Servers, ServerInv(t), SameServer(t), SameClients(t)
    PROVE  L!Logged(t)' /\ Complete(t)' /\ InOrder(t)'
<1>1. \A k \in DOMAIN accepted[t] : accepted[t][k] \in Clients /\ L!ClientOf(t, accepted[t][k])
  BY ServerTypes DEF ServerInv, L!Accepted
<1>2. L!Logged(t)'
  <2> SUFFICES ASSUME NEW i \in DOMAIN log[t]
               PROVE  \E k \in DOMAIN accepted[t] :
                        /\ \/ L!Whole(log[t][i], accepted[t][k])' /\ L!Closed(accepted[t][k])'
                           \/ L!IsTorn(log[t][i], accepted[t][k])'
                        /\ L!InHand(t, serving[t])' => k < Len(accepted[t])
    BY DEF L!Logged, SameServer
  <2>1. PICK k \in DOMAIN accepted[t] :
          /\ \/ L!Whole(log[t][i], accepted[t][k]) /\ L!Closed(accepted[t][k])
             \/ L!IsTorn(log[t][i], accepted[t][k])
          /\ L!InHand(t, serving[t]) => k < Len(accepted[t])
    BY DEF ServerInv, L!Logged
  <2>2. L!InHand(t, serving[t])' <=> L!InHand(t, serving[t])
    BY DEF L!InHand, SameServer
  <2>3. log'[t][i] = log[t][i] /\ accepted'[t][k] = accepted[t][k]
    BY DEF SameServer
  <2> QED
    BY <1>1, <2>1, <2>2, <2>3 DEF L!Whole, L!IsTorn, SameClients
<1>3. Complete(t)'
  <2> SUFFICES ASSUME server[t] # "crashed", NEW k \in DOMAIN accepted[t],
                      accepted[t][k] \notin lost', ~L!InHand(t, accepted[t][k])
               PROVE  \E i \in DOMAIN log[t] : L!Whole(log[t][i], accepted[t][k])'
    BY DEF Complete, SameServer, L!InHand
  <2>1. accepted[t][k] \notin lost
    BY <1>1 DEF SameClients
  <2>2. PICK i \in DOMAIN log[t] : L!Whole(log[t][i], accepted[t][k])
    BY <2>1 DEF ServerInv, Complete
  <2>3. L!Closed(accepted[t][k])
    BY <2>2, WholeIsClosed
  <2>4. sent'[accepted[t][k]] = sent[accepted[t][k]]
    BY <1>1, <2>3 DEF SameClients
  <2> QED
    BY <2>2, <2>4 DEF L!Whole, SameServer
<1>4. InOrder(t)'
  BY DEF ServerInv, InOrder, SameServer
<1> QED
  BY <1>2, <1>3, <1>4

\* So does who waits and who was accepted.
LEMMA OthersKept ==
    ASSUME L!TypeOK, NEW t \in Servers, ServerInv(t), SameServer(t), SameClients(t),
           backlog'[t] = backlog[t] \/ \E c \in Clients : /\ ~L!ClientOf(t, c) /\ c \notin lost'
                                                          /\ L!ClientOf(t, c)' /\ t \in listening
                                                          /\ backlog'[t] = Append(backlog[t], c)
    PROVE  ServerInv(t)'
<1>1. /\ \A k \in DOMAIN accepted[t] : accepted[t][k] \in Clients /\ L!ClientOf(t, accepted[t][k])
      /\ \A k \in DOMAIN backlog[t] : backlog[t][k] \in Clients /\ L!ClientOf(t, backlog[t][k])
                                      /\ backlog[t][k] \notin lost
  BY ServerTypes DEF ServerInv, L!Waiting, L!Accepted
<1>2. /\ server[t] \in L!Busy => accepted'[t] # << >>
                                 /\ serving'[t] = accepted'[t][Len(accepted'[t])]
      /\ server[t] \in {"receive", "log"} => serving'[t] \notin lost'
      /\ server[t] = "log" => taken'[t] = sent'[serving'[t]] /\ L!Closed(serving[t])'
  <2>1. server[t] \in L!Busy => accepted[t] # << >>
                                /\ serving[t] = accepted[t][Len(accepted[t])]
    BY DEF ServerInv, L!Accepted
  <2>2. server[t] \in L!Busy => serving[t] \in Clients /\ L!ClientOf(t, serving[t])
    BY <1>1, <2>1, ServerTypes
  <2> QED
    BY <2>1, <2>2 DEF ServerInv, SameServer, SameClients, L!Accepted, L!Busy
<1>3. CASE backlog'[t] = backlog[t]
  <2>1. L!Waiting(t)'
    BY <1>1, <1>3 DEF ServerInv, SameServer, SameClients, L!Waiting
  <2>2. L!Accepted(t)'
    BY <1>1, <1>2, <1>3 DEF ServerInv, SameServer, SameClients, L!Accepted
  <2> QED
    BY <2>1, <2>2, LoggedKept DEF ServerInv
<1>4. ASSUME NEW c \in Clients, ~L!ClientOf(t, c), c \notin lost', L!ClientOf(t, c)',
             t \in listening, backlog'[t] = Append(backlog[t], c)
      PROVE  ServerInv(t)'
  <2>1. PICK b \in Seq(Clients) : b = backlog[t]
    BY ServerTypes
  <2>2. PICK n \in Nat : n = Len(b)
    BY <2>1
  <2>3. PICK b2 : b2 = Append(b, c)
    OBVIOUS
  <2>4. /\ DOMAIN b = 1 .. n /\ DOMAIN b2 = 1 .. n + 1 /\ b2[n + 1] = c
        /\ \A k \in 1 .. n : b2[k] = b[k]
    BY <2>1, <2>2, <2>3
  <2>5. backlog'[t] = b2
    BY <1>4, <2>1, <2>3
  <2>6. \A k \in 1 .. n : b[k] # c /\ L!ClientOf(t, b[k])' /\ b[k] \notin lost'
    BY <1>1, <1>4, <2>1, <2>4 DEF SameClients
  <2>7. \A j, k \in 1 .. n : b[j] = b[k] => j = k
    BY <2>1, <2>4 DEF ServerInv, L!Waiting
  <2>8. L!Waiting(t)'
    <3>1. \A k \in 1 .. n + 1 : L!ClientOf(t, b2[k])' /\ b2[k] \notin lost'
      BY <1>4, <2>4, <2>6
    <3>2. \A j, k \in 1 .. n + 1 : b2[j] = b2[k] => j = k
      BY <2>4, <2>6, <2>7
    <3>3. t \in listening' /\ server'[t] \in L!Open
      BY <1>4 DEF ServerInv, SameServer, L!Waiting
    <3> QED
      BY <2>4, <2>5, <3>1, <3>2, <3>3 DEF L!Waiting
  <2>9. \A j \in DOMAIN accepted[t], k \in 1 .. n + 1 : accepted[t][j] # b2[k]
    <3> SUFFICES ASSUME NEW j \in DOMAIN accepted[t], NEW k \in 1 .. n + 1
                 PROVE  accepted[t][j] # b2[k]
      OBVIOUS
    <3>1. CASE k \in 1 .. n
      BY <2>1, <2>4, <3>1 DEF ServerInv, L!Accepted
    <3>2. CASE k = n + 1
      BY <1>1, <1>4, <2>4, <3>2
    <3> QED
      BY <3>1, <3>2
  <2>10. L!Accepted(t)'
    BY <1>1, <1>2, <2>4, <2>5, <2>9 DEF ServerInv, SameServer, SameClients, L!Accepted
  <2> QED
    BY <2>8, <2>10, LoggedKept DEF ServerInv
<1> QED
  BY <1>3, <1>4

\* A server that has nobody in hand goes on, or a server dies.
LEMMA Rests ==
    ASSUME L!TypeOK, NEW s \in Servers, ServerInv(s), UNCHANGED <<client, to, sent, lost>>,
           accepted'[s] = accepted[s], log'[s] = log[s],
           server'[s] \notin L!Busy,
           server[s] \notin {"receive", "log", "crashed"} \/ server'[s] = "crashed",
           backlog'[s] = backlog[s] \/ backlog'[s] = << >>,
           s \notin listening' => backlog'[s] = << >>,
           s \in listening' => server'[s] \in L!Open
    PROVE  ServerInv(s)'
<1>1. L!Waiting(s)'
  BY DEF ServerInv, L!Waiting, L!ClientOf
<1>2. L!Accepted(s)'
  BY DEF ServerInv, L!Accepted, L!ClientOf, L!Busy
<1>3. L!Logged(s)'
  BY DEF ServerInv, L!Logged, L!Whole, L!IsTorn, L!Closed, L!InHand, L!Busy
<1>4. Complete(s)'
  BY DEF ServerInv, Complete, L!Whole, L!InHand
<1>5. InOrder(s)'
  BY DEF ServerInv, InOrder
<1> QED
  BY <1>1, <1>2, <1>3, <1>4, <1>5 DEF ServerInv

\* Everything of a server starts empty.
LEMMA EmptyServer ==
    ASSUME NEW s \in Servers, accepted[s] = << >>, log[s] = << >>, backlog[s] = << >>,
           server[s] \notin L!Busy, s \notin listening
    PROVE  ServerInv(s)
<1>1. DOMAIN << >> = {}
  OBVIOUS
<1>2. \A k \in DOMAIN accepted[s] : FALSE
  BY <1>1
<1>3. \A k \in DOMAIN log[s] : FALSE
  BY <1>1
<1>4. \A k \in DOMAIN backlog[s] : FALSE
  BY <1>1
<1> QED
  BY <1>2, <1>3, <1>4
  DEF ServerInv, L!Waiting, L!Accepted, L!Logged, Complete, InOrder, L!Busy

\* The next client is accepted.
LEMMA AcceptsKeeps ==
    ASSUME L!TypeOK, NEW s \in Servers, ServerInv(s), L!Accepts(s)
    PROVE  ServerInv(s)'
<1>1. /\ server[s] = "accept" /\ backlog[s] # << >> /\ server'[s] = "receive"
      /\ serving'[s] = Head(backlog[s]) /\ backlog'[s] = Tail(backlog[s])
      /\ accepted'[s] = Append(accepted[s], Head(backlog[s]))
      /\ listening' = listening /\ log' = log /\ lost' = lost
      /\ client' = client /\ to' = to /\ sent' = sent
  BY DEF L!Accepts, L!TypeOK, L!Goes, L!clients
<1>2. PICK a \in Seq(Clients) : a = accepted[s]
  BY ServerTypes
<1>3. PICK b \in Seq(Clients) : b = backlog[s]
  BY ServerTypes
<1>4. PICK m \in Nat : m = Len(a)
  BY <1>2
<1>5. PICK n \in Nat : n = Len(b) /\ n > 0
  BY <1>1, <1>3
<1>6. PICK c \in Clients : c = Head(b) /\ c = b[1]
  BY <1>3, <1>5
<1>7. PICK a2 \in Seq(Clients) : a2 = Append(a, c)
  BY <1>2, <1>6, AppendProperties
<1>8. PICK b2 \in Seq(Clients) : b2 = Tail(b)
  BY <1>1, <1>3, HeadTailProperties
<1>9. /\ DOMAIN a = 1 .. m /\ DOMAIN a2 = 1 .. m + 1 /\ Len(a2) = m + 1
      /\ \A k \in 1 .. m : a2[k] = a[k]
      /\ a2[m + 1] = c
  BY <1>2, <1>4, <1>6, <1>7
<1>10. /\ DOMAIN b = 1 .. n /\ DOMAIN b2 = 1 .. n - 1
       /\ \A k \in 1 .. n - 1 : b2[k] = b[k + 1]
  BY <1>3, <1>5, <1>8
<1>11. accepted'[s] = a2 /\ backlog'[s] = b2 /\ serving'[s] = c
  BY <1>1, <1>2, <1>3, <1>6, <1>7, <1>8
<1>12. /\ \A k \in 1 .. n : L!ClientOf(s, b[k]) /\ b[k] \notin lost
       /\ \A j, k \in 1 .. n : b[j] = b[k] => j = k
       /\ s \in listening
  BY <1>1, <1>3, <1>10 DEF ServerInv, L!Waiting
<1>13. /\ \A k \in 1 .. m : L!ClientOf(s, a[k])
       /\ \A j, k \in 1 .. m : a[j] = a[k] => j = k
       /\ \A j \in 1 .. m, k \in 1 .. n : a[j] # b[k]
  <2>1. DOMAIN accepted[s] = 1 .. m /\ DOMAIN backlog[s] = 1 .. n
    BY <1>2, <1>3, <1>9, <1>10
  <2>2. \A k \in 1 .. m : L!ClientOf(s, accepted[s][k])
    BY <2>1 DEF ServerInv, L!Accepted
  <2>3. \A j, k \in 1 .. m : accepted[s][j] = accepted[s][k] => j = k
    BY <2>1 DEF ServerInv, L!Accepted
  <2>4. \A j \in 1 .. m, k \in 1 .. n : accepted[s][j] # backlog[s][k]
    BY <2>1 DEF ServerInv, L!Accepted
  <2> QED
    BY <1>2, <1>3, <2>2, <2>3, <2>4
<1>14. 1 \in 1 .. n /\ \A k \in 1 .. n - 1 : k + 1 \in 1 .. n /\ k + 1 # 1
  BY <1>5
<1>15. L!Waiting(s)'
  <2>1. \A k \in 1 .. n - 1 : L!ClientOf(s, b2[k])' /\ b2[k] \notin lost'
    BY <1>1, <1>10, <1>12, <1>14 DEF L!ClientOf
  <2>2. \A j, k \in 1 .. n - 1 : b2[j] = b2[k] => j = k
    <3> SUFFICES ASSUME NEW j \in 1 .. n - 1, NEW k \in 1 .. n - 1, b2[j] = b2[k] PROVE j = k
      OBVIOUS
    <3>1. j + 1 = k + 1
      BY <1>10, <1>12, <1>14
    <3> QED
      BY <3>1
  <2>3. s \in listening' /\ server'[s] \in L!Open
    BY <1>1, <1>12 DEF L!Open
  <2> QED
    BY <1>10, <1>11, <2>1, <2>2, <2>3 DEF L!Waiting
<1>16. L!Accepted(s)'
  <2>1. \A k \in 1 .. m + 1 : L!ClientOf(s, a2[k])'
    <3> SUFFICES ASSUME NEW k \in 1 .. m + 1 PROVE L!ClientOf(s, a2[k])'
      OBVIOUS
    <3>1. CASE k \in 1 .. m
      BY <1>1, <1>9, <1>13, <3>1 DEF L!ClientOf
    <3>2. CASE k = m + 1
      BY <1>1, <1>6, <1>9, <1>12, <1>14, <3>2 DEF L!ClientOf
    <3> QED
      BY <3>1, <3>2
  <2>2. \A j, k \in 1 .. m + 1 : a2[j] = a2[k] => j = k
    <3>1. \A j \in 1 .. m : a[j] # c
      BY <1>6, <1>13, <1>14
    <3> QED
      BY <1>9, <1>13, <3>1
  <2>3. \A j \in 1 .. m + 1, k \in 1 .. n - 1 : a2[j] # b2[k]
    <3> SUFFICES ASSUME NEW j \in 1 .. m + 1, NEW k \in 1 .. n - 1 PROVE a2[j] # b2[k]
      OBVIOUS
    <3>1. b2[k] = b[k + 1] /\ k + 1 \in 1 .. n /\ b[k + 1] # b[1]
      BY <1>10, <1>12, <1>14
    <3>2. CASE j \in 1 .. m
      BY <1>9, <1>13, <3>1, <3>2
    <3>3. CASE j = m + 1
      BY <1>6, <1>9, <3>1, <3>3
    <3> QED
      BY <3>2, <3>3
  <2>4. a2 # << >> /\ c = a2[Len(a2)]
    BY <1>9
  <2>5. c \notin lost'
    BY <1>1, <1>6, <1>12, <1>14
  <2> QED
    BY <1>1, <1>9, <1>10, <1>11, <2>1, <2>2, <2>3, <2>4, <2>5 DEF L!Accepted
<1>17. L!Logged(s)'
  <2> SUFFICES ASSUME NEW i \in DOMAIN log[s]
               PROVE  \E k \in 1 .. m + 1 :
                        /\ \/ L!Whole(log[s][i], a2[k])' /\ L!Closed(a2[k])'
                           \/ L!IsTorn(log[s][i], a2[k])'
                        /\ k < m + 1
    BY <1>1, <1>9, <1>11 DEF L!Logged
  <2>1. PICK k \in 1 .. m : \/ L!Whole(log[s][i], a[k]) /\ L!Closed(a[k])
                            \/ L!IsTorn(log[s][i], a[k])
    BY <1>2, <1>9 DEF ServerInv, L!Logged
  <2>2. k \in 1 .. m + 1 /\ k < m + 1 /\ a2[k] = a[k]
    BY <1>9
  <2> QED
    BY <1>1, <2>1, <2>2 DEF L!Whole, L!IsTorn, L!Closed
<1>18. Complete(s)'
  <2> SUFFICES ASSUME NEW k \in 1 .. m + 1
               PROVE  \/ a2[k] \in lost
                      \/ L!InHand(s, a2[k])'
                      \/ \E i \in DOMAIN log[s] : L!Whole(log[s][i], a2[k])
    BY <1>1, <1>9, <1>11 DEF Complete, L!Whole
  <2>1. CASE k \in 1 .. m
    <3>1. \/ a[k] \in lost \/ L!InHand(s, a[k])
          \/ \E i \in DOMAIN log[s] : L!Whole(log[s][i], a[k])
      BY <1>1, <1>2, <1>9, <2>1 DEF ServerInv, Complete
    <3> QED
      BY <1>1, <1>9, <2>1, <3>1 DEF L!InHand
  <2>2. CASE k = m + 1
    BY <1>1, <1>9, <1>11, <2>2 DEF L!InHand
  <2> QED
    BY <2>1, <2>2
<1>19. InOrder(s)'
  <2>1. \A i \in DOMAIN log[s] : \E k \in 1 .. m : log[s][i][1] = a[k]
    BY <1>2, <1>9 DEF ServerInv, L!Logged, L!Whole, L!IsTorn
  <2>2. \A i \in DOMAIN log[s] : log[s][i][1] # c
    BY <1>6, <1>13, <1>14, <2>1
  <2>3. \A i, j \in DOMAIN log[s], k, l \in 1 .. m :
            i < j /\ log[s][i][1] = a[k] /\ log[s][j][1] = a[l] => k < l
    BY <1>2, <1>9 DEF ServerInv, InOrder
  <2>4. \A i, j \in DOMAIN log[s], k, l \in 1 .. m + 1 :
            i < j /\ log[s][i][1] = a2[k] /\ log[s][j][1] = a2[l] => k < l
    BY <1>9, <2>2, <2>3
  <2> QED
    BY <1>1, <1>9, <1>11, <2>4 DEF InOrder
<1> QED
  BY <1>15, <1>16, <1>17, <1>18, <1>19 DEF ServerInv

\* A message is taken, a piece at a time, until its client has closed.
LEMMA ReadsOnKeeps ==
    ASSUME L!TypeOK, NEW s \in Servers, ServerInv(s), L!Takes(s) \/ L!ReceiveEnds(s)
    PROVE  ServerInv(s)'
<1>1. /\ server[s] = "receive" /\ server'[s] \in {"receive", "log"}
      /\ server'[s] = "log" => taken'[s] = sent[serving[s]] /\ L!Closed(serving[s])
      /\ backlog' = backlog /\ listening' = listening /\ accepted' = accepted /\ log' = log
      /\ serving' = serving /\ lost' = lost /\ client' = client /\ to' = to /\ sent' = sent
  BY DEF L!Takes, L!ReceiveEnds, L!AtEnd, L!TypeOK, L!Goes, L!socket, L!progress, L!clients
<1>2. L!Waiting(s)'
  BY <1>1 DEF ServerInv, L!Waiting, L!ClientOf, L!Open
<1>3. L!Accepted(s)'
  BY <1>1 DEF ServerInv, L!Accepted, L!ClientOf, L!Busy, L!Closed
<1>4. L!Logged(s)'
  BY <1>1 DEF ServerInv, L!Logged, L!Whole, L!IsTorn, L!Closed, L!InHand
<1>5. Complete(s)'
  BY <1>1 DEF ServerInv, Complete, L!Whole, L!InHand
<1>6. InOrder(s)'
  BY <1>1 DEF ServerInv, InOrder
<1> QED
  BY <1>2, <1>3, <1>4, <1>5, <1>6 DEF ServerInv

\* Of the client in hand nothing is logged yet.
LEMMA InHandFacts ==
    ASSUME L!TypeOK, NEW s \in Servers, ServerInv(s), server[s] \in {"receive", "log"}
    PROVE  /\ serving[s] \in Clients /\ serving[s] \notin lost /\ L!ClientOf(s, serving[s])
           /\ Len(accepted[s]) \in DOMAIN accepted[s]
           /\ serving[s] = accepted[s][Len(accepted[s])]
           /\ \A k \in DOMAIN accepted[s] : serving[s] = accepted[s][k] => k = Len(accepted[s])
           /\ \A k \in DOMAIN backlog[s] : backlog[s][k] # serving[s]
           /\ \A i \in DOMAIN log[s] : \E k \in DOMAIN accepted[s] :
                 /\ \/ L!Whole(log[s][i], accepted[s][k]) /\ L!Closed(accepted[s][k])
                    \/ L!IsTorn(log[s][i], accepted[s][k])
                 /\ k < Len(accepted[s])
<1>1. /\ accepted[s] # << >> /\ serving[s] = accepted[s][Len(accepted[s])]
      /\ serving[s] \notin lost
  BY DEF ServerInv, L!Accepted, L!Busy
<1>2. PICK a \in Seq(Clients) : a = accepted[s]
  BY ServerTypes
<1>3. Len(a) \in DOMAIN a /\ a[Len(a)] \in Clients
  BY <1>1, <1>2
<1>4. L!InHand(s, serving[s])
  BY DEF L!InHand
<1> QED
  BY <1>1, <1>2, <1>3, <1>4 DEF ServerInv, L!Accepted, L!Logged

\* The one in hand is lost: it goes to the lost ones, and nothing else changes
\* of what is known of the others.
LEMMA LosesKeeps ==
    ASSUME L!TypeOK, NEW s \in Servers, ServerInv(s), server[s] \in {"receive", "log"},
           server'[s] = "close", lost' = lost \cup {serving[s]}, serving'[s] = serving[s],
           log'[s] = log[s], accepted'[s] = accepted[s], backlog'[s] = backlog[s],
           UNCHANGED <<listening, client, to, sent>>
    PROVE  ServerInv(s)'
<1>1. L!Waiting(s)'
  BY InHandFacts DEF ServerInv, L!Waiting, L!ClientOf, L!Open
<1>2. L!Accepted(s)'
  BY DEF ServerInv, L!Accepted, L!ClientOf, L!Busy
<1>3. L!Logged(s)'
  <2> SUFFICES ASSUME NEW i \in DOMAIN log[s]
               PROVE  \E k \in DOMAIN accepted[s] :
                          \/ L!Whole(log[s][i], accepted[s][k])' /\ L!Closed(accepted[s][k])'
                          \/ L!IsTorn(log[s][i], accepted[s][k])'
    BY DEF L!Logged, L!InHand
  <2>1. PICK k \in DOMAIN accepted[s] :
          /\ \/ L!Whole(log[s][i], accepted[s][k]) /\ L!Closed(accepted[s][k])
             \/ L!IsTorn(log[s][i], accepted[s][k])
          /\ k < Len(accepted[s])
    BY InHandFacts
  <2>2. accepted[s][k] # serving[s]
    BY <2>1, InHandFacts, ServerTypes
  <2> QED
    BY <2>1, <2>2 DEF L!Whole, L!IsTorn, L!Closed
<1>4. Complete(s)'
  <2> SUFFICES ASSUME NEW k \in DOMAIN accepted[s], accepted[s][k] \notin lost'
               PROVE  \E i \in DOMAIN log[s] : L!Whole(log[s][i], accepted[s][k])'
    BY DEF Complete
  <2>1. accepted[s][k] \notin lost /\ accepted[s][k] # serving[s]
    OBVIOUS
  <2>2. PICK i \in DOMAIN log[s] : L!Whole(log[s][i], accepted[s][k])
    BY <2>1 DEF ServerInv, Complete, L!InHand
  <2> QED
    BY <2>1, <2>2 DEF L!Whole
<1>5. InOrder(s)'
  BY DEF ServerInv, InOrder
<1> QED
  BY <1>1, <1>2, <1>3, <1>4, <1>5 DEF ServerInv

\* An entry for the one in hand, whole or torn, is the last one.
LEMMA EntryKeeps ==
    ASSUME L!TypeOK, NEW s \in Servers, ServerInv(s), server[s] \in {"receive", "log"},
           server'[s] = "close", NEW z \in Nat \cup {L!Torn},
           log'[s] = Append(log[s], <<serving[s], z>>),
           \/ z = L!Torn /\ lost' = lost \cup {serving[s]}
           \/ z = sent[serving[s]] /\ lost' = lost /\ L!Closed(serving[s]),
           accepted'[s] = accepted[s], backlog'[s] = backlog[s], serving'[s] = serving[s],
           UNCHANGED <<listening, client, to, sent>>
    PROVE  ServerInv(s)'
<1>1. PICK g \in Seq(Clients \X (Nat \cup {L!Torn})) : g = log[s]
  BY ServerTypes
<1>2. PICK n \in Nat : n = Len(g)
  BY <1>1
<1>3. PICK e \in Clients \X (Nat \cup {L!Torn}) : e = <<serving[s], z>>
  BY InHandFacts
<1>4. PICK g2 : g2 = Append(g, e)
  OBVIOUS
<1>5. /\ DOMAIN g = 1 .. n /\ DOMAIN g2 = 1 .. n + 1 /\ g2[n + 1] = e
      /\ \A i \in 1 .. n : g2[i] = g[i]
  BY <1>1, <1>2, <1>3, <1>4
<1>6. log'[s] = g2
  BY <1>1, <1>3, <1>4
<1>7. \A i \in 1 .. n : \E k \in DOMAIN accepted[s] :
          /\ \/ L!Whole(g[i], accepted[s][k]) /\ L!Closed(accepted[s][k])
             \/ L!IsTorn(g[i], accepted[s][k])
          /\ k < Len(accepted[s])
  BY <1>1, <1>5, InHandFacts
<1>8. \A k \in DOMAIN accepted[s] : k < Len(accepted[s]) => accepted[s][k] # serving[s]
  BY InHandFacts, ServerTypes
<1>9. /\ e[1] = serving[s]
      /\ \/ L!Whole(e, serving[s])' /\ L!Closed(serving[s])
         \/ L!IsTorn(e, serving[s])'
  BY <1>3, InHandFacts DEF L!Whole, L!IsTorn
<1>10. L!Waiting(s)'
  BY InHandFacts DEF ServerInv, L!Waiting, L!ClientOf, L!Open
<1>11. L!Accepted(s)'
  BY DEF ServerInv, L!Accepted, L!ClientOf, L!Busy
<1>12. L!Logged(s)'
  <2> SUFFICES ASSUME NEW i \in 1 .. n + 1
               PROVE  \E k \in DOMAIN accepted[s] :
                          \/ L!Whole(g2[i], accepted[s][k])' /\ L!Closed(accepted[s][k])
                          \/ L!IsTorn(g2[i], accepted[s][k])'
    BY <1>5, <1>6 DEF L!Logged, L!InHand, L!Closed, L!Whole, L!IsTorn
  <2>1. CASE i \in 1 .. n
    <3>1. PICK k \in DOMAIN accepted[s] :
            /\ \/ L!Whole(g[i], accepted[s][k]) /\ L!Closed(accepted[s][k])
               \/ L!IsTorn(g[i], accepted[s][k])
            /\ k < Len(accepted[s])
      BY <1>7, <2>1
    <3>2. accepted[s][k] # serving[s] /\ g2[i] = g[i]
      BY <1>5, <1>8, <2>1, <3>1
    <3> QED
      BY <3>1, <3>2 DEF L!Whole, L!IsTorn
  <2>2. CASE i = n + 1
    <3>1. g2[i] = e
      BY <1>5, <2>2
    <3>2. PICK k \in DOMAIN accepted[s] : serving[s] = accepted[s][k]
      BY InHandFacts
    <3> QED
      BY <1>9, <3>1, <3>2 DEF L!Whole, L!IsTorn
  <2> QED
    BY <2>1, <2>2
<1>13. Complete(s)'
  <2> SUFFICES ASSUME NEW k \in DOMAIN accepted[s], accepted[s][k] \notin lost'
               PROVE  \E i \in 1 .. n + 1 : L!Whole(g2[i], accepted[s][k])'
    BY <1>5, <1>6 DEF Complete, L!Whole
  <2>1. CASE accepted[s][k] = serving[s]
    <3>1. n + 1 \in 1 .. n + 1
      OBVIOUS
    <3> QED
      BY <1>5, <1>9, <2>1, <3>1 DEF L!Whole, L!IsTorn
  <2>2. CASE accepted[s][k] # serving[s]
    <3>1. accepted[s][k] \notin lost
      BY <2>2
    <3>2. PICK i \in 1 .. n : L!Whole(g[i], accepted[s][k])
      BY <1>1, <1>5, <2>2, <3>1 DEF ServerInv, Complete, L!InHand
    <3>3. i \in 1 .. n + 1 /\ g2[i] = g[i]
      BY <1>5
    <3> QED
      BY <2>2, <3>1, <3>2, <3>3 DEF L!Whole
  <2> QED
    BY <2>1, <2>2
<1>14. InOrder(s)'
  <2> SUFFICES ASSUME NEW i \in 1 .. n + 1, NEW j \in 1 .. n + 1, i < j,
                      NEW k \in DOMAIN accepted[s], NEW l \in DOMAIN accepted[s],
                      g2[i][1] = accepted[s][k], g2[j][1] = accepted[s][l]
               PROVE  k < l
    BY <1>5, <1>6 DEF InOrder
  <2>1. i \in 1 .. n /\ g2[i] = g[i]
    BY <1>5
  <2>2. CASE j \in 1 .. n
    BY <1>1, <1>5, <2>1, <2>2 DEF ServerInv, InOrder
  <2>3. CASE j = n + 1
    <3>1. l = Len(accepted[s])
      BY <1>5, <1>9, <2>3, InHandFacts
    <3>2. PICK h \in DOMAIN accepted[s] : g[i][1] = accepted[s][h] /\ h < Len(accepted[s])
      BY <1>7, <2>1 DEF L!Whole, L!IsTorn
    <3>3. h = k
      BY <2>1, <3>2 DEF ServerInv, L!Accepted
    <3> QED
      BY <3>1, <3>2, <3>3
  <2> QED
    BY <2>2, <2>3
<1> QED
  BY <1>10, <1>11, <1>12, <1>13, <1>14 DEF ServerInv

(***************************************************************************)
(* The steps of the servers and of the clients.                            *)
(***************************************************************************)

\* Every variable keeps its type.
LEMMA LogTypeServer ==
    ASSUME L!TypeOK, NEW s \in Servers, ServerInv(s),
           \/ L!ServerSteps(s) \/ L!Starts(s) \/ L!Interrupts(s) \/ L!ServerCrashes(s)
           \/ L!SetupFails(s) \/ L!LoopFails(s) \/ L!ReceiveFails(s)
           \/ L!StampFails(s) \/ L!AppendFails(s)
    PROVE  L!TypeOK'
<1> USE DEF L!socket, L!progress, L!clients, L!bounds, L!Goes, L!Fault, L!Stopped, L!Open
<1>1. CASE L!Binds(s)
  BY <1>1 DEF L!Binds, L!TypeOK
<1>2. CASE L!Listens(s)
  BY <1>2 DEF L!Listens, L!TypeOK
<1>3. CASE L!ChecksSignal(s) \/ L!LooksForPath(s)
  BY <1>3 DEF L!ChecksSignal, L!LooksForPath, L!TypeOK
<1>4. CASE L!Accepts(s)
  <2>1. PICK b \in Seq(Clients) : b = backlog[s] /\ b # << >>
    BY <1>4, ServerTypes DEF L!Accepts
  <2>2. Head(b) \in Clients /\ Tail(b) \in Seq(Clients)
    BY <2>1
  <2>3. Append(accepted[s], Head(b)) \in Seq(Clients)
    BY <2>2, ServerTypes
  <2> QED
    BY <1>4, <2>1, <2>2, <2>3 DEF L!Accepts, L!TypeOK
<1>5. CASE L!Takes(s)
  <2>1. PICK n \in taken[s] + 1 .. sent[serving[s]] : taken' = [taken EXCEPT ![s] = n]
    BY <1>5 DEF L!Takes
  <2>2. n \in Nat
    BY <2>1 DEF L!TypeOK
  <2> QED
    BY <1>5, <2>1, <2>2 DEF L!Takes, L!TypeOK
<1>6. CASE L!ReceiveEnds(s)
  BY <1>6 DEF L!ReceiveEnds, L!TypeOK
<1>7. CASE L!Logs(s) \/ L!AppendFails(s)
  <2>1. server[s] = "log" /\ serving[s] \in Clients /\ taken[s] \in Nat
    BY <1>7, InHandFacts DEF L!Logs, L!AppendFails, L!TypeOK
  <2>2. \A z \in Nat \cup {L!Torn} :
            Append(log[s], <<serving[s], z>>) \in Seq(Clients \X (Nat \cup {L!Torn}))
    BY <2>1, ServerTypes
  <2>3. PICK z \in Nat \cup {L!Torn} : log' = [log EXCEPT ![s] = Append(@, <<serving[s], z>>)]
    BY <1>7, <2>1 DEF L!Logs, L!AppendFails, L!Appends, L!Stamped
  <2>4. log' \in [Servers -> Seq(Clients \X (Nat \cup {L!Torn}))]
    BY <2>2, <2>3 DEF L!TypeOK
  <2>5. server' \in [Servers -> L!Stopped \cup L!Open \cup {"bind", "listen", "delete", "unlink"}]
    BY <1>7 DEF L!Logs, L!AppendFails, L!Loses, L!TypeOK
  <2>6. lost' \subseteq Clients
    BY <1>7, <2>1 DEF L!Logs, L!AppendFails, L!Loses, L!TypeOK
  <2>7. {starts', faults'} \subseteq Nat
    BY <1>7 DEF L!Logs, L!AppendFails, L!TypeOK
  <2>8. UNCHANGED <<path, listening, backlog, stopping, serving, taken, accepted, client, to, sent,
                    broken>>
    BY <1>7 DEF L!Logs, L!AppendFails
  <2> QED
    BY <2>4, <2>5, <2>6, <2>7, <2>8 DEF L!TypeOK
<1>8. CASE L!ClosesClient(s)
  <2>1. serving[s] \in Clients
    <3>1. accepted[s] # << >> /\ serving[s] = accepted[s][Len(accepted[s])]
      BY <1>8 DEF L!ClosesClient, ServerInv, L!Accepted, L!Busy
    <3> QED
      BY <3>1, ServerTypes
  <2> QED
    BY <1>8, <2>1 DEF L!ClosesClient, L!TypeOK
<1>9. CASE L!ClosesSocket(s) \/ L!ServerCrashes(s)
  <2>1. backlog' \in [Servers -> Seq(Clients)]
    <3>1. backlog' = [backlog EXCEPT ![s] = << >>]
      BY <1>9 DEF L!ClosesSocket, L!ServerCrashes, L!Shuts
    <3> QED
      BY <3>1, EmptySeq DEF L!TypeOK
  <2>2. server' \in [Servers -> L!Stopped \cup L!Open \cup {"bind", "listen", "delete", "unlink"}]
    BY <1>9 DEF L!ClosesSocket, L!ServerCrashes, L!TypeOK
  <2>3. /\ serving' \in [Servers -> Clients \cup {NoOne}]
        /\ listening' \subseteq Servers /\ broken' \subseteq Clients
    BY <1>9 DEF L!ClosesSocket, L!ServerCrashes, L!Shuts, L!TypeOK
  <2>4. {starts', faults'} \subseteq Nat
    BY <1>9 DEF L!ClosesSocket, L!ServerCrashes, L!TypeOK
  <2>5. UNCHANGED <<path, stopping, taken, accepted, log, lost, client, to, sent>>
    BY <1>9 DEF L!ClosesSocket, L!ServerCrashes
  <2> QED
    BY <2>1, <2>2, <2>3, <2>4, <2>5 DEF L!TypeOK
<1>10. CASE L!LooksToDelete(s) \/ L!DeletesPath(s)
  BY <1>10 DEF L!LooksToDelete, L!DeletesPath, L!TypeOK
<1>11. CASE L!Starts(s)
  <2>1. accepted' \in [Servers -> Seq(Clients)]
    <3>1. accepted' = [accepted EXCEPT ![s] = << >>]
      BY <1>11 DEF L!Starts
    <3> QED
      BY <3>1, EmptySeq DEF L!TypeOK
  <2>2. log' \in [Servers -> Seq(Clients \X (Nat \cup {L!Torn}))]
    <3>1. log' = [log EXCEPT ![s] = << >>]
      BY <1>11 DEF L!Starts
    <3> QED
      BY <3>1, EmptySeq DEF L!TypeOK
  <2>3. /\ server' \in [Servers -> L!Stopped \cup L!Open \cup {"bind", "listen", "delete", "unlink"}]
        /\ stopping' \in [Servers -> BOOLEAN]
    BY <1>11 DEF L!Starts, L!TypeOK
  <2>4. {starts', faults'} \subseteq Nat
    BY <1>11 DEF L!Starts, L!TypeOK
  <2>5. UNCHANGED <<path, listening, backlog, serving, taken, lost, client, to, sent, broken>>
    BY <1>11 DEF L!Starts
  <2> QED
    BY <2>1, <2>2, <2>3, <2>4, <2>5 DEF L!TypeOK
<1>12. CASE L!Interrupts(s)
  <2>1. server' = server \/ \E z \in {"check", "close"} : server' = [server EXCEPT ![s] = z]
    BY <1>12 DEF L!Interrupts, L!Loses
  <2>2. server' \in [Servers -> L!Stopped \cup L!Open \cup {"bind", "listen", "delete", "unlink"}]
    BY <2>1 DEF L!TypeOK
  <2>3. lost' \subseteq Clients
    BY <1>12, InHandFacts DEF L!Interrupts, L!Loses, L!TypeOK
  <2>4. stopping' \in [Servers -> BOOLEAN] /\ {starts', faults'} \subseteq Nat
    BY <1>12 DEF L!Interrupts, L!TypeOK
  <2>5. UNCHANGED <<path, listening, backlog, serving, taken, accepted, log, client, to, sent,
                    broken>>
    BY <1>12 DEF L!Interrupts
  <2> QED
    BY <2>2, <2>3, <2>4, <2>5 DEF L!TypeOK
<1>13. CASE L!SetupFails(s) \/ L!LoopFails(s) \/ L!ReceiveFails(s) \/ L!StampFails(s)
  <2>1. \E z \in {"cleanup", "check", "close"} : server' = [server EXCEPT ![s] = z]
    BY <1>13 DEF L!SetupFails, L!LoopFails, L!ReceiveFails, L!StampFails, L!Loses
  <2>2. server' \in [Servers -> L!Stopped \cup L!Open \cup {"bind", "listen", "delete", "unlink"}]
    BY <2>1 DEF L!TypeOK
  <2>3. lost' \subseteq Clients
    BY <1>13, InHandFacts
    DEF L!SetupFails, L!LoopFails, L!ReceiveFails, L!StampFails, L!Loses, L!TypeOK
  <2>4. {starts', faults'} \subseteq Nat
    BY <1>13 DEF L!SetupFails, L!LoopFails, L!ReceiveFails, L!StampFails, L!TypeOK
  <2>5. UNCHANGED <<path, listening, backlog, stopping, serving, taken, accepted, log, client, to, sent,
                    broken>>
    BY <1>13 DEF L!SetupFails, L!LoopFails, L!ReceiveFails, L!StampFails
  <2> QED
    BY <2>2, <2>3, <2>4, <2>5 DEF L!TypeOK
<1> QED
  BY <1>1, <1>2, <1>3, <1>4, <1>5, <1>6, <1>7, <1>8, <1>9, <1>10, <1>11, <1>12, <1>13
  DEF L!ServerSteps

\* So it does in a step of a client.
LEMMA LogTypeClient ==
    ASSUME L!TypeOK, NEW c \in Clients,
           L!ClientSteps(c) \/ L!LooksForSocket(c) \/ L!ClientCrashes(c)
    PROVE  L!TypeOK'
<1> USE DEF L!socket, L!progress, L!clients, L!bounds, L!ClientGoes, L!ClientOnly, L!Fault
<1>1. UNCHANGED <<path, listening, server, stopping, serving, taken, accepted, log, lost, broken>>
  BY DEF L!ClientSteps, L!Connects, L!Writes, L!Closes, L!LooksForSocket, L!ClientCrashes
<1>2. client' \in [Clients -> {"idle", "connect", "write", "close", "done", "failed"}]
  <2>1. client' = client \/ \E z \in {"connect", "write", "close", "done", "failed"} :
                                client' = [client EXCEPT ![c] = z]
    BY DEF L!ClientSteps, L!Connects, L!Writes, L!Closes, L!LooksForSocket, L!ClientCrashes
  <2> QED
    BY <2>1 DEF L!TypeOK
<1>3. sent' \in [Clients -> Nat]
  <2>1. sent' = sent \/ sent' = [sent EXCEPT ![c] = sent[c] + 1]
    BY DEF L!ClientSteps, L!Connects, L!Writes, L!Closes, L!LooksForSocket, L!ClientCrashes
  <2>2. sent \in [Clients -> Nat] /\ sent[c] + 1 \in Nat
    BY DEF L!TypeOK
  <2> QED
    BY <2>1, <2>2
<1>4. {starts', faults'} \subseteq Nat
  BY DEF L!ClientSteps, L!Connects, L!Writes, L!Closes, L!LooksForSocket, L!ClientCrashes, L!TypeOK
<1>5. backlog' \in [Servers -> Seq(Clients)] /\ to' \in [Clients -> Servers \cup {NoOne}]
  <2>1. CASE UNCHANGED <<backlog, to>>
    BY <2>1 DEF L!TypeOK
  <2>2. CASE L!Connects(c) /\ path \in listening
    <3>1. backlog' = [backlog EXCEPT ![path] = Append(@, c)] /\ to' = [to EXCEPT ![c] = path]
      BY <2>2 DEF L!Connects
    <3>2. path \in Servers /\ backlog \in [Servers -> Seq(Clients)]
      BY <2>2 DEF L!TypeOK
    <3>3. Append(backlog[path], c) \in Seq(Clients)
      BY <3>2, AppendProperties
    <3> QED
      BY <3>1, <3>2, <3>3 DEF L!TypeOK
  <2> QED
    BY <2>1, <2>2
    DEF L!ClientSteps, L!Connects, L!Writes, L!Closes, L!LooksForSocket, L!ClientCrashes
<1> QED
  BY <1>1, <1>2, <1>3, <1>4, <1>5 DEF L!TypeOK

\* Whoever bound the socket file deletes it before it ends.
LEMMA LogPathStep ==
    ASSUME LogConstants, L!TypeOK, L!PathHasOwner, L!Next
    PROVE  L!PathHasOwner'
<1> USE DEF L!socket, L!progress, L!clients, L!bounds, L!Goes, L!Fault, L!Stopped
<1>1. ASSUME NEW c \in Clients, L!ClientSteps(c) \/ L!LooksForSocket(c) \/ L!ClientCrashes(c)
      PROVE  path' = path /\ server' = server
  BY <1>1 DEF L!ClientSteps, L!Connects, L!Writes, L!Closes, L!LooksForSocket, L!ClientCrashes,
              L!ClientOnly
<1>2. ASSUME NEW s \in Servers,
             \/ L!ServerSteps(s) \/ L!Starts(s) \/ L!Interrupts(s) \/ L!ServerCrashes(s)
             \/ L!SetupFails(s) \/ L!LoopFails(s) \/ L!ReceiveFails(s)
             \/ L!StampFails(s) \/ L!AppendFails(s)
      PROVE  /\ \A t \in Servers \ {s} : server'[t] = server[t]
             /\ \/ path' = NoOne
                \/ path' = s /\ server'[s] = "listen"
                \/ path' = path /\ (server'[s] \in {"off", "ended"} => path # s)
  <2>1. CASE L!Binds(s)
    BY <2>1 DEF L!Binds, L!TypeOK
  <2>2. CASE \/ L!Listens(s) \/ L!ChecksSignal(s) \/ L!LooksForPath(s) \/ L!Accepts(s)
             \/ L!Takes(s) \/ L!ReceiveEnds(s) \/ L!Logs(s) \/ L!ClosesClient(s)
             \/ L!ClosesSocket(s)
    BY <2>2 DEF L!Listens, L!ChecksSignal, L!LooksForPath, L!Accepts, L!Takes, L!ReceiveEnds,
                L!Logs, L!ClosesClient, L!ClosesSocket, L!TypeOK, L!PathHasOwner
  <2>3. CASE L!LooksToDelete(s)
    BY <2>3 DEF LogConstants, L!LooksToDelete, L!Deletes, L!TypeOK
  <2>4. CASE L!DeletesPath(s)
    BY <2>4 DEF L!DeletesPath, L!TypeOK
  <2>5. CASE L!Starts(s)
    BY <2>5 DEF L!Starts, L!TypeOK
  <2>6. CASE L!Interrupts(s)
    BY <2>6 DEF L!Interrupts, L!Loses, L!TypeOK
  <2>7. CASE \/ L!ServerCrashes(s) \/ L!SetupFails(s) \/ L!LoopFails(s) \/ L!ReceiveFails(s)
             \/ L!StampFails(s) \/ L!AppendFails(s)
    BY <2>7 DEF L!ServerCrashes, L!SetupFails, L!LoopFails, L!ReceiveFails, L!StampFails,
                L!AppendFails, L!Loses, L!TypeOK
  <2> QED
    BY <1>2, <2>1, <2>2, <2>3, <2>4, <2>5, <2>6, <2>7 DEF L!ServerSteps
<1>3. path \in Servers \cup {NoOne}
  BY DEF L!TypeOK
<1>4. CASE \E c \in Clients : L!ClientSteps(c) \/ L!LooksForSocket(c) \/ L!ClientCrashes(c)
  BY <1>1, <1>4 DEF L!PathHasOwner
<1>5. CASE \E s \in Servers :
             \/ L!ServerSteps(s) \/ L!Starts(s) \/ L!Interrupts(s) \/ L!ServerCrashes(s)
             \/ L!SetupFails(s) \/ L!LoopFails(s) \/ L!ReceiveFails(s)
             \/ L!StampFails(s) \/ L!AppendFails(s)
  <2>1. PICK s \in Servers :
             \/ L!ServerSteps(s) \/ L!Starts(s) \/ L!Interrupts(s) \/ L!ServerCrashes(s)
             \/ L!SetupFails(s) \/ L!LoopFails(s) \/ L!ReceiveFails(s)
             \/ L!StampFails(s) \/ L!AppendFails(s)
    BY <1>5
  <2> QED
    BY <1>2, <1>3, <2>1 DEF L!PathHasOwner
<1> QED
  BY <1>4, <1>5 DEF L!Next

\* A step of a client leaves what is known of every server as it is.
LEMMA ClientStepKeeps ==
    ASSUME L!TypeOK, L!LostOnes, NEW c \in Clients, NEW t \in Servers, ServerInv(t),
           L!ClientSteps(c) \/ L!LooksForSocket(c) \/ L!ClientCrashes(c)
    PROVE  ServerInv(t)'
<1> USE DEF L!ClientGoes, L!ClientOnly, L!progress, L!clients, L!socket, L!bounds, L!Fault
<1>1. UNCHANGED <<server, serving, taken, accepted, log, lost, listening>>
  BY DEF L!ClientSteps, L!Connects, L!Writes, L!Closes, L!LooksForSocket, L!ClientCrashes
<1>2. \A d \in Clients : L!Closed(d) => L!Closed(d)' /\ sent'[d] = sent[d]
  <2>1. CASE L!Writes(c)
    BY <2>1 DEF L!Writes, L!Closed, L!TypeOK
  <2>2. CASE L!Connects(c) \/ L!Closes(c) \/ L!LooksForSocket(c) \/ L!ClientCrashes(c)
    BY <2>2 DEF L!Connects, L!Closes, L!LooksForSocket, L!ClientCrashes, L!Closed, L!TypeOK
  <2> QED
    BY <2>1, <2>2 DEF L!ClientSteps
<1>3. \A d \in Clients : L!ClientOf(t, d) => L!ClientOf(t, d)'
  <2>1. CASE L!Connects(c)
    BY <2>1 DEF L!Connects, L!ClientOf, L!TypeOK
  <2>2. CASE L!Writes(c) \/ L!Closes(c) \/ L!LooksForSocket(c) \/ L!ClientCrashes(c)
    BY <2>2 DEF L!Writes, L!Closes, L!LooksForSocket, L!ClientCrashes, L!ClientOf, L!TypeOK
  <2> QED
    BY <2>1, <2>2 DEF L!ClientSteps
<1>4. SameServer(t) /\ SameClients(t)
  BY <1>1, <1>2, <1>3 DEF SameServer, SameClients
<1>5. backlog'[t] = backlog[t] \/ /\ ~L!ClientOf(t, c) /\ c \notin lost' /\ L!ClientOf(t, c)'
                                  /\ t \in listening /\ backlog'[t] = Append(backlog[t], c)
  <2>1. CASE L!Connects(c)
    <3>1. client[c] = "connect" /\ c \notin lost
      BY <2>1 DEF L!Connects, L!LostOnes, L!ClientOf
    <3>2. CASE path \in listening /\ path = t
      <4>1. /\ to'[c] = t /\ client'[c] = "write"
            /\ backlog'[t] = Append(backlog[t], c)
        BY <2>1, <3>2 DEF L!Connects, L!TypeOK
      <4> QED
        BY <1>1, <3>1, <3>2, <4>1 DEF L!ClientOf
    <3>3. CASE ~(path \in listening /\ path = t)
      BY <2>1, <3>3 DEF L!Connects, L!TypeOK
    <3> QED
      BY <3>2, <3>3
  <2>2. CASE L!Writes(c) \/ L!Closes(c) \/ L!LooksForSocket(c) \/ L!ClientCrashes(c)
    BY <2>2 DEF L!Writes, L!Closes, L!LooksForSocket, L!ClientCrashes
  <2> QED
    BY <2>1, <2>2 DEF L!ClientSteps
<1> QED
  BY <1>4, <1>5, OthersKept

\* A step of a server leaves what is known of the others as it is.
LEMMA OtherServers ==
    ASSUME L!TypeOK, NEW s \in Servers, ServerInv(s), NEW t \in Servers, t # s, ServerInv(t),
           \/ L!ServerSteps(s) \/ L!Starts(s) \/ L!Interrupts(s) \/ L!ServerCrashes(s)
           \/ L!SetupFails(s) \/ L!LoopFails(s) \/ L!ReceiveFails(s)
           \/ L!StampFails(s) \/ L!AppendFails(s)
    PROVE  ServerInv(t)'
<1> USE DEF L!socket, L!progress, L!clients, L!bounds, L!Goes, L!Fault, L!Loses, L!Shuts
<1>1. /\ SameServer(t) /\ backlog'[t] = backlog[t] /\ UNCHANGED <<client, to, sent>>
      /\ lost' = lost \/ (server[s] \in {"receive", "log"} /\ lost' = lost \cup {serving[s]})
  <2>1. CASE L!Binds(s) \/ L!Listens(s) \/ L!ChecksSignal(s) \/ L!LooksForPath(s)
    BY <2>1 DEF L!Binds, L!Listens, L!ChecksSignal, L!LooksForPath, L!TypeOK, SameServer
  <2>2. CASE L!Accepts(s) \/ L!Takes(s) \/ L!ReceiveEnds(s)
    BY <2>2 DEF L!Accepts, L!Takes, L!ReceiveEnds, L!TypeOK, SameServer
  <2>3. CASE L!Logs(s) \/ L!ClosesClient(s) \/ L!ClosesSocket(s)
    BY <2>3 DEF L!Logs, L!Appends, L!ClosesClient, L!ClosesSocket, L!TypeOK, SameServer
  <2>4. CASE L!LooksToDelete(s) \/ L!DeletesPath(s) \/ L!Starts(s)
    BY <2>4 DEF L!LooksToDelete, L!DeletesPath, L!Starts, L!TypeOK, SameServer
  <2>5. CASE L!Interrupts(s)
    BY <2>5 DEF L!Interrupts, L!TypeOK, SameServer
  <2>6. CASE L!ServerCrashes(s) \/ L!SetupFails(s) \/ L!LoopFails(s)
    BY <2>6 DEF L!ServerCrashes, L!SetupFails, L!LoopFails, L!TypeOK, SameServer
  <2>7. CASE L!ReceiveFails(s) \/ L!StampFails(s) \/ L!AppendFails(s)
    BY <2>7 DEF L!ReceiveFails, L!StampFails, L!AppendFails, L!Appends, L!TypeOK, SameServer
  <2> QED
    BY <2>1, <2>2, <2>3, <2>4, <2>5, <2>6, <2>7 DEF L!ServerSteps
<1>2. server[s] \in {"receive", "log"} => to[serving[s]] = s
  BY InHandFacts DEF L!ClientOf
<1>3. SameClients(t)
  BY <1>1, <1>2 DEF SameClients, L!ClientOf, L!Closed
<1> QED
  BY <1>1, <1>3, OthersKept

\* What is known of a server holds after a step of its own.
LEMMA OwnStep ==
    ASSUME L!TypeOK, NEW s \in Servers, ServerInv(s),
           \/ L!ServerSteps(s) \/ L!Starts(s) \/ L!Interrupts(s) \/ L!ServerCrashes(s)
           \/ L!SetupFails(s) \/ L!LoopFails(s) \/ L!ReceiveFails(s)
           \/ L!StampFails(s) \/ L!AppendFails(s)
    PROVE  ServerInv(s)'
<1> USE DEF L!socket, L!progress, L!clients, L!bounds, L!Goes, L!Fault
<1>0. /\ server[s] \in L!Stopped \cup L!Open \cup {"bind", "listen", "delete", "unlink"}
      /\ s \in listening => server[s] \in L!Open
      /\ s \notin listening => backlog[s] = << >>
  BY DEF L!TypeOK, ServerInv, L!Waiting
<1>1. CASE \/ L!Binds(s) \/ L!Listens(s) \/ L!ChecksSignal(s) \/ L!LooksForPath(s)
           \/ L!ClosesClient(s) \/ L!ClosesSocket(s) \/ L!LooksToDelete(s) \/ L!DeletesPath(s)
           \/ L!ServerCrashes(s) \/ L!SetupFails(s) \/ L!LoopFails(s)
  <2>1. /\ UNCHANGED <<client, to, sent, lost>> /\ accepted' = accepted /\ log' = log
        /\ server'[s] \notin L!Busy
        /\ server[s] \notin {"receive", "log", "crashed"} \/ server'[s] = "crashed"
        /\ backlog'[s] = backlog[s] \/ backlog'[s] = << >>
        /\ s \notin listening' => backlog'[s] = << >>
        /\ s \in listening' => server'[s] \in L!Open
    <3>1. CASE \/ L!Binds(s) \/ L!Listens(s) \/ L!ChecksSignal(s) \/ L!LooksForPath(s)
      BY <1>0, <3>1 DEF L!Binds, L!Listens, L!ChecksSignal, L!LooksForPath, L!TypeOK, L!Busy,
                        L!Open, L!Stopped
    <3>2. CASE \/ L!ClosesClient(s) \/ L!ClosesSocket(s) \/ L!ServerCrashes(s)
      BY <1>0, <3>2 DEF L!ClosesClient, L!ClosesSocket, L!ServerCrashes, L!Shuts, L!TypeOK,
                        L!Busy, L!Open, L!Stopped
    <3>3. CASE \/ L!LooksToDelete(s) \/ L!DeletesPath(s) \/ L!SetupFails(s) \/ L!LoopFails(s)
      BY <1>0, <3>3 DEF L!LooksToDelete, L!DeletesPath, L!SetupFails, L!LoopFails, L!TypeOK,
                        L!Busy, L!Open, L!Stopped
    <3> QED
      BY <1>1, <3>1, <3>2, <3>3
  <2> QED
    BY <2>1, Rests
<1>2. CASE L!Accepts(s)
  BY <1>2, AcceptsKeeps
<1>3. CASE L!Takes(s) \/ L!ReceiveEnds(s)
  BY <1>3, ReadsOnKeeps
<1>4. CASE L!Logs(s)
  <2>1. /\ server[s] = "log" /\ server'[s] = "close" /\ lost' = lost
        /\ log'[s] = Append(log[s], <<serving[s], taken[s]>>)
        /\ UNCHANGED <<listening, backlog, serving, accepted, client, to, sent>>
    BY <1>4 DEF L!Logs, L!Appends, L!Stamped, L!TypeOK
  <2>2. taken[s] \in Nat /\ taken[s] = sent[serving[s]] /\ L!Closed(serving[s])
    BY <2>1 DEF ServerInv, L!Accepted, L!TypeOK
  <2> QED
    BY <2>1, <2>2, EntryKeeps
<1>5. CASE L!AppendFails(s)
  <2>1. /\ server[s] = "log" /\ server'[s] = "close" /\ lost' = lost \cup {serving[s]}
        /\ log'[s] = Append(log[s], <<serving[s], L!Torn>>)
        /\ UNCHANGED <<listening, backlog, serving, accepted, client, to, sent>>
    BY <1>5 DEF L!AppendFails, L!Appends, L!Loses, L!TypeOK
  <2> QED
    BY <2>1, EntryKeeps
<1>6. CASE L!ReceiveFails(s) \/ L!StampFails(s)
  <2>1. /\ server[s] \in {"receive", "log"} /\ server'[s] = "close"
        /\ lost' = lost \cup {serving[s]}
        /\ UNCHANGED <<listening, backlog, serving, accepted, log, client, to, sent>>
    BY <1>6 DEF L!ReceiveFails, L!StampFails, L!Loses, L!TypeOK
  <2> QED
    BY <2>1, LosesKeeps
<1>7. CASE L!Interrupts(s)
  <2>1. UNCHANGED <<listening, backlog, serving, taken, accepted, log, client, to, sent>>
    BY <1>7 DEF L!Interrupts
  <2>2. CASE UNCHANGED <<server, lost>>
    <3>1. SameServer(s) /\ SameClients(s)
      BY <2>1, <2>2 DEF SameServer, SameClients, L!ClientOf, L!Closed
    <3> QED
      BY <2>1, <3>1, OthersKept
  <2>3. CASE server[s] = "accept" /\ L!Goes(s, "check") /\ UNCHANGED lost
    <3>1. server'[s] = "check" /\ server[s] = "accept"
      BY <2>3 DEF L!TypeOK
    <3>2. server'[s] \in L!Open /\ server'[s] \notin L!Busy
      BY <3>1 DEF L!Open, L!Busy
    <3> QED
      BY <1>0, <2>1, <2>3, <3>1, <3>2, Rests
  <2>4. CASE server[s] = "receive" /\ L!Loses(s)
    <3>1. server'[s] = "close" /\ lost' = lost \cup {serving[s]}
      BY <2>4 DEF L!Loses, L!TypeOK
    <3> QED
      BY <2>1, <2>4, <3>1, LosesKeeps
  <2> QED
    BY <1>7, <2>2, <2>3, <2>4 DEF L!Interrupts
<1>8. CASE L!Starts(s)
  <2>1. /\ accepted'[s] = << >> /\ log'[s] = << >> /\ server'[s] \in {"bind", "cleanup"}
        /\ server[s] \in L!Stopped /\ backlog' = backlog /\ listening' = listening
    BY <1>8 DEF L!Starts, L!TypeOK
  <2>2. s \notin listening
    BY <1>0, <2>1 DEF L!Stopped, L!Open
  <2>3. backlog'[s] = << >> /\ server'[s] \notin L!Busy /\ s \notin listening'
    BY <1>0, <2>1, <2>2 DEF L!Busy
  <2>4. (/\ accepted[s] = << >> /\ log[s] = << >> /\ backlog[s] = << >>
         /\ server[s] \notin L!Busy /\ s \notin listening)' => ServerInv(s)'
    BY EmptyServer, PTL
  <2> QED
    BY <2>1, <2>3, <2>4
<1> QED
  BY <1>1, <1>2, <1>3, <1>4, <1>5, <1>6, <1>7, <1>8 DEF L!ServerSteps

\* Only who was connected is lost.
LEMMA LostStep ==
    ASSUME L!TypeOK, L!LostOnes, \A s \in Servers : ServerInv(s), L!Next
    PROVE  L!LostOnes'
<1> USE DEF L!socket, L!progress, L!clients, L!bounds, L!Goes, L!Fault, L!Loses
<1>1. ASSUME NEW c \in Clients, L!ClientSteps(c) \/ L!LooksForSocket(c) \/ L!ClientCrashes(c)
      PROVE  L!LostOnes'
  <2>1. lost' = lost
    BY <1>1 DEF L!ClientSteps, L!Connects, L!Writes, L!Closes, L!LooksForSocket,
                L!ClientCrashes, L!ClientOnly
  <2>2. \A t \in Servers, d \in Clients : L!ClientOf(t, d) => L!ClientOf(t, d)'
    <3>1. CASE L!Connects(c)
      BY <3>1 DEF L!Connects, L!ClientGoes, L!ClientOf, L!TypeOK
    <3>2. CASE L!Writes(c) \/ L!Closes(c) \/ L!LooksForSocket(c) \/ L!ClientCrashes(c)
      BY <3>2 DEF L!Writes, L!Closes, L!LooksForSocket, L!ClientCrashes, L!ClientGoes,
                  L!ClientOf, L!TypeOK
    <3> QED
      BY <1>1, <3>1, <3>2 DEF L!ClientSteps
  <2> QED
    BY <2>1, <2>2 DEF L!LostOnes, L!TypeOK
<1>2. ASSUME NEW s \in Servers,
             \/ L!ServerSteps(s) \/ L!Starts(s) \/ L!Interrupts(s) \/ L!ServerCrashes(s)
             \/ L!SetupFails(s) \/ L!LoopFails(s) \/ L!ReceiveFails(s)
             \/ L!StampFails(s) \/ L!AppendFails(s)
      PROVE  L!LostOnes'
  <2>1. /\ UNCHANGED <<client, to, sent>>
        /\ lost' = lost \/ (server[s] \in {"receive", "log"} /\ lost' = lost \cup {serving[s]})
    BY <1>2 DEF L!ServerSteps, L!Binds, L!Listens, L!ChecksSignal, L!LooksForPath, L!Accepts,
                L!Takes, L!ReceiveEnds, L!Logs, L!ClosesClient, L!ClosesSocket, L!LooksToDelete,
                L!DeletesPath, L!Starts, L!Interrupts, L!ServerCrashes, L!SetupFails,
                L!LoopFails, L!ReceiveFails, L!StampFails, L!AppendFails
  <2>2. server[s] \in {"receive", "log"} => L!ClientOf(s, serving[s])
    BY InHandFacts
  <2> QED
    BY <2>1, <2>2 DEF L!LostOnes, L!ClientOf
<1> QED
  BY <1>1, <1>2 DEF L!Next

(***************************************************************************)
(* The invariant and what follows from it.                                 *)
(***************************************************************************)

\* Every step keeps the invariant.
LEMMA LogStep == ASSUME LogConstants, L!IInv, L!Next PROVE L!IInv'
<1>1. L!TypeOK /\ L!LostOnes /\ L!PathHasOwner /\ \A s \in Servers : ServerInv(s)
  BY LogParts
<1>2. L!LostOnes' /\ L!PathHasOwner'
  BY <1>1, LostStep, LogPathStep
<1>3. ASSUME NEW c \in Clients, L!ClientSteps(c) \/ L!LooksForSocket(c) \/ L!ClientCrashes(c)
      PROVE  L!TypeOK' /\ \A t \in Servers : ServerInv(t)'
  BY <1>1, <1>3, LogTypeClient, ClientStepKeeps
<1>4. ASSUME NEW s \in Servers,
             \/ L!ServerSteps(s) \/ L!Starts(s) \/ L!Interrupts(s) \/ L!ServerCrashes(s)
             \/ L!SetupFails(s) \/ L!LoopFails(s) \/ L!ReceiveFails(s)
             \/ L!StampFails(s) \/ L!AppendFails(s)
      PROVE  L!TypeOK' /\ \A t \in Servers : ServerInv(t)'
  <2>1. L!TypeOK'
    BY <1>1, <1>4, LogTypeServer
  <2>2. ServerInv(s)'
    BY <1>1, <1>4, OwnStep
  <2>3. \A t \in Servers : t # s => ServerInv(t)'
    BY <1>1, <1>4, OtherServers
  <2> QED
    BY <2>1, <2>2, <2>3
<1>5. L!TypeOK' /\ \A t \in Servers : ServerInv(t)'
  BY <1>3, <1>4 DEF L!Next
<1>6. (L!TypeOK /\ L!LostOnes /\ L!PathHasOwner /\ \A s \in Servers : ServerInv(s))' => L!IInv'
  BY LogParts, PTL
<1> QED
  BY <1>2, <1>5, <1>6

\* A step that changes nothing.
LEMMA SameState == ASSUME L!IInv, UNCHANGED L!vars PROVE L!IInv'
<1> USE DEF L!vars, L!socket, L!progress, L!clients, L!bounds
<1>1. L!TypeOK' /\ L!LostOnes' /\ L!PathHasOwner'
  BY DEF L!IInv, L!TypeOK, L!LostOnes, L!PathHasOwner, L!ClientOf
<1>2. \A c : L!Closed(c)' = L!Closed(c)
  BY DEF L!Closed
<1>3. \A c, s : L!InHand(s, c)' = L!InHand(s, c) /\ L!ClientOf(s, c)' = L!ClientOf(s, c)
  BY DEF L!InHand, L!ClientOf
<1>4. \A e, c : L!Whole(e, c)' = L!Whole(e, c) /\ L!IsTorn(e, c)' = L!IsTorn(e, c)
  BY DEF L!Whole, L!IsTorn
<1>5. ASSUME NEW s \in Servers PROVE L!Waiting(s)' /\ L!Accepted(s)' /\ L!Logged(s)'
  <2>1. L!Waiting(s) /\ L!Accepted(s) /\ L!Logged(s)
    BY DEF L!IInv
  <2>2. L!Waiting(s)'
    BY <1>3, <2>1 DEF L!Waiting
  <2>3. L!Accepted(s)'
    BY <1>2, <1>3, <2>1 DEF L!Accepted
  <2>4. L!Logged(s)'
    BY <1>2, <1>3, <1>4, <2>1 DEF L!Logged
  <2> QED
    BY <2>2, <2>3, <2>4
<1>6. L!LogIsComplete'
  BY <1>3, <1>4 DEF L!IInv, L!LogIsComplete
<1> QED
  BY <1>1, <1>5, <1>6 DEF L!IInv

\* It holds at first.
LEMMA LogInit == ASSUME LogConstants, L!Init PROVE L!IInv
<1>1. << >> \in Seq(Clients) /\ << >> \in Seq(Clients \X (Nat \cup {L!Torn}))
  OBVIOUS
<1>2. L!TypeOK
  BY <1>1 DEF L!Init, L!TypeOK, L!Stopped
<1>3. L!LostOnes /\ L!PathHasOwner
  BY DEF L!Init, L!LostOnes, L!PathHasOwner
<1>4. ASSUME NEW s \in Servers PROVE ServerInv(s)
  <2>1. /\ accepted[s] = << >> /\ log[s] = << >> /\ backlog[s] = << >> /\ s \notin listening
        /\ server[s] = "off"
    BY DEF L!Init
  <2> QED
    BY <2>1, EmptyServer DEF L!Busy
<1> QED
  BY <1>2, <1>3, <1>4, LogParts

\* IInv is an invariant.
LEMMA LogInvariant ==
    ASSUME LogConstants
    PROVE  L!Spec => []L!IInv
<1>1. L!Init => L!IInv
  BY LogInit
<1>2. L!IInv /\ [L!Next]_(L!vars) => L!IInv'
  <2> SUFFICES ASSUME L!IInv, [L!Next]_(L!vars) PROVE L!IInv'
    OBVIOUS
  <2>1. CASE L!Next
    BY <2>1, LogStep
  <2>2. CASE UNCHANGED L!vars
    BY <2>2, SameState
  <2> QED
    BY <2>1, <2>2
<1> QED
  BY <1>1, <1>2, PTL DEF L!Spec

\* A log holds one entry per client that its server accepted, in the order in
\* which they were accepted, with all that the client wrote; only one that could
\* not be received or logged has none, or a torn one.
THEOREM LogsAreComplete ==
    ASSUME LogConstants
    PROVE  L!Spec => []L!LogIsComplete
  BY LogInvariant, PTL DEF L!IInv

\* No socket file is left when every server has ended, unless one was killed.
THEOREM NoSocketIsLeft ==
    ASSUME LogConstants
    PROVE  L!Spec => []L!NoSocketLeft
<1>1. L!IInv => L!NoSocketLeft
  BY DEF L!IInv, L!TypeOK, L!PathHasOwner, L!NoSocketLeft
<1> QED
  BY <1>1, LogInvariant, PTL
================================================================================
