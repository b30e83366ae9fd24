--------------------------- MODULE SharedMem_proofs ---------------------------
(***************************************************************************)
(* Proofs about SharedMem, for any number of servers and clients, any      *)
(* servers that get SIGINT and any number of deaths: a semaphore's value   *)
(* is accounted for, and no name is left behind.                           *)
(*                                                                         *)
(* A step is one process's.  So each step is proved of what it changes for *)
(* that process (ServerInv, ClientInv), of the sums (Balanced), of the     *)
(* number of objects (ObjectsCounted) and of the names (NamesHaveServers); *)
(* the lemmas before the steps say that the other processes keep theirs.   *)
(*                                                                         *)
(* The second part is about MappedFile, the other memory that two          *)
(* processes share: what is printed is the copy, and regions are unmapped  *)
(* with the pages they were mapped with.                                   *)
(***************************************************************************)
EXTENDS SharedMem, TLAPS, FiniteSetTheorems, SequenceTheorems

(***************************************************************************)
(* Sets of processes.                                                      *)
(***************************************************************************)
LEMMA RolesOfProc ==
    /\ \A p \in Proc : p \in Servers \/ p \in Clients
    /\ \A s \in Servers : s \in Proc /\ s \notin Clients
    /\ \A c \in Clients : c \in Proc /\ c \notin Servers
BY RolesDisjoint DEF Proc

LEMMA FiniteSets ==
    /\ IsFiniteSet(Proc) /\ MaxObject \in Nat
    /\ \A S \in SUBSET Proc : IsFiniteSet(S) /\ Cardinality(S) \in Nat
    /\ \A S \in SUBSET Servers : IsFiniteSet(S) /\ Cardinality(S) \in 0 .. MaxObject
<1>1. IsFiniteSet(Proc)
    BY FiniteRoles, FS_Union DEF Proc
<1>2. MaxObject \in Nat
    BY FiniteRoles, FS_CardinalityType DEF MaxObject
<1>3. \A S \in SUBSET Proc : IsFiniteSet(S) /\ Cardinality(S) \in Nat
    BY <1>1, FS_Subset, FS_CardinalityType
<1>4. \A S \in SUBSET Servers : IsFiniteSet(S) /\ Cardinality(S) \in 0 .. MaxObject
    BY <1>2, FiniteRoles, FS_Subset, FS_CardinalityType DEF MaxObject
<1> QED
    BY <1>1, <1>2, <1>3, <1>4

\* Objects are the numbers up to MaxObject.
LEMMA ObjectNumbers ==
    ASSUME NEW m \in 0 .. MaxObject
    PROVE  /\ m \in Nat /\ NoObject \in 0 .. m
           /\ \A n \in 0 .. m : n # NoObject => n \in 1 .. m /\ n \in Object
<1>1. MaxObject \in Nat
    BY FiniteSets
<1> QED
    BY <1>1 DEF Object, NoObject

\* One process more, or less.
LEMMA OneMore ==
    ASSUME NEW S \in SUBSET Proc, NEW p \in Proc \ S
    PROVE  Cardinality(S \cup {p}) = Cardinality(S) + 1
BY FiniteSets, FS_AddElement

LEMMA OneLess ==
    ASSUME NEW S \in SUBSET Proc, NEW p \in S
    PROVE  Cardinality(S \ {p}) = Cardinality(S) - 1
BY FiniteSets, FS_RemoveElement

(***************************************************************************)
(* What the other processes keep.                                          *)
(***************************************************************************)
\* Nobody but p moves, opens, takes or releases.
OnlyFor(p) ==
    /\ \A q \in Proc \ {p} : /\ pc'[q] = pc[q] /\ sem'[q] = sem[q] /\ shm'[q] = shm[q]
                             /\ unpaid'[q] = unpaid[q] /\ (q \in holds' <=> q \in holds)
    /\ \A c \in Clients \ {p} : failed'[c] = failed[c]
    /\ signum \subseteq signum' /\ sized \subseteq sized'

LEMMA SigintOnlyRaises ==
    ASSUME IInv, NEW s \in Servers, s \in signum => s \in signum'
    PROVE  unpaid[s] <= IF s \in signum' THEN 2 ELSE 1
<1>1. unpaid[s] \in Nat
    BY RolesOfProc, BoundsOK DEF IInv, TypeOK, MaxUnpaid
<1>2. unpaid[s] <= IF s \in signum THEN 2 ELSE 1
    BY DEF IInv, ServerInv
<1> QED
    BY <1>1, <1>2

LEMMA OthersKeep ==
    ASSUME IInv, NEW p \in Proc, OnlyFor(p),
           p \in Servers => ServerInv(p)', p \in Clients => ClientInv(p)'
    PROVE  (\A s \in Servers : ServerInv(s)') /\ (\A c \in Clients : ClientInv(c)')
<1>1. ASSUME NEW s \in Servers, s # p
      PROVE  ServerInv(s)'
    <2>1. /\ pc'[s] = pc[s] /\ sem'[s] = sem[s] /\ shm'[s] = shm[s] /\ unpaid'[s] = unpaid[s]
          /\ s \in holds' <=> s \in holds
          /\ s \in signum => s \in signum'
        BY <1>1, RolesOfProc DEF OnlyFor
    <2>2. unpaid[s] <= IF s \in signum' THEN 2 ELSE 1
        BY <2>1, SigintOnlyRaises
    <2> QED
        BY <2>1, <2>2 DEF IInv, ServerInv
<1>2. ASSUME NEW c \in Clients, c # p
      PROVE  ClientInv(c)'
    <2>1. /\ pc'[c] = pc[c] /\ sem'[c] = sem[c] /\ shm'[c] = shm[c] /\ unpaid'[c] = unpaid[c]
          /\ failed'[c] = failed[c] /\ (c \in holds' <=> c \in holds)
          /\ shm[c] \in sized => shm[c] \in sized'
        BY <1>2, RolesOfProc DEF OnlyFor
    <2> QED
        BY <2>1 DEF IInv, ClientInv
<1> QED
    BY <1>1, <1>2

LEMMA StillCounted ==
    ASSUME NEW max \in Nat
    PROVE  /\ \A a \in 0 .. max, b \in Nat, c \in Nat :
                 a <= b /\ b <= c => a \in Nat /\ a <= c
           /\ \A a \in 0 .. max, b \in Nat, c \in Nat :
                 a <= b /\ b + 1 <= c => a + 1 \in Nat /\ a + 1 <= c
           /\ \A a \in Nat, b \in 0 .. max : a <= b => a \in 0 .. max
OBVIOUS

\* The number of objects, when a process moves on.
LEMMA CountKeeps ==
    ASSUME IInv, NEW p \in Proc, \A q \in Proc \ {p} : pc'[q] = pc[q],
           p \in Servers => /\ pc'[p] # "start"
                            /\ pc'[p] = "create shm" => pc[p] = "start",
           \/ sems' = sems
           \/ sems' = sems + 1 /\ p \in Servers /\ pc[p] = "start",
           \/ shms' = shms
           \/ shms' = shms + 1 /\ p \in Servers /\ pc[p] = "create shm" /\ pc'[p] # "create shm"
    PROVE  ObjectsCounted' /\ sems' \in 0 .. MaxObject /\ shms' \in 0 .. MaxObject
<1>1. /\ sems <= Cardinality(PastSem) /\ shms <= Cardinality(PastShm)
      /\ sems \in 0 .. MaxObject /\ shms \in 0 .. MaxObject
    BY DEF IInv, ObjectsCounted, TypeOK
<1>2. PastSem \subseteq PastSem' /\ PastShm \subseteq PastShm'
    BY RolesOfProc DEF PastSem, PastShm
<1>3. /\ PastSem \in SUBSET Proc /\ PastShm \in SUBSET Proc
      /\ PastSem' \in SUBSET Servers /\ PastShm' \in SUBSET Servers
      /\ PastSem' \in SUBSET Proc /\ PastShm' \in SUBSET Proc
    BY RolesOfProc DEF PastSem, PastShm
<1>4. Cardinality(PastSem) <= Cardinality(PastSem') /\ Cardinality(PastShm) <= Cardinality(PastShm')
    BY <1>2, <1>3, FiniteSets, FS_Subset
<1>5. ASSUME p \in Servers, pc[p] = "start"
      PROVE  Cardinality(PastSem) + 1 <= Cardinality(PastSem')
    <2>1. p \notin PastSem /\ PastSem \cup {p} \subseteq PastSem'
        BY <1>2, <1>5 DEF PastSem
    <2>2. Cardinality(PastSem \cup {p}) <= Cardinality(PastSem')
        BY <1>3, <2>1, FiniteSets, FS_Subset
    <2> QED
        BY <1>3, <2>1, <2>2, OneMore
<1>6. ASSUME p \in Servers, pc[p] = "create shm", pc'[p] # "create shm"
      PROVE  Cardinality(PastShm) + 1 <= Cardinality(PastShm')
    <2>1. p \notin PastShm /\ PastShm \cup {p} \subseteq PastShm'
        BY <1>2, <1>6 DEF PastShm
    <2>2. Cardinality(PastShm \cup {p}) <= Cardinality(PastShm')
        BY <1>3, <2>1, FiniteSets, FS_Subset
    <2> QED
        BY <1>3, <2>1, <2>2, OneMore
<1>7. /\ Cardinality(PastSem) \in Nat /\ Cardinality(PastShm) \in Nat /\ MaxObject \in Nat
      /\ Cardinality(PastSem') \in 0 .. MaxObject /\ Cardinality(PastShm') \in 0 .. MaxObject
    BY <1>3, FiniteSets
<1>8. sems' \in Nat /\ sems' <= Cardinality(PastSem')
    <2>1. Cardinality(PastSem') \in Nat
        BY <1>3, FiniteSets
    <2>2. CASE sems' = sems
        BY <1>1, <1>4, <1>7, <2>1, <2>2, StillCounted
    <2>3. CASE sems' = sems + 1 /\ Cardinality(PastSem) + 1 <= Cardinality(PastSem')
        BY <1>1, <1>7, <2>1, <2>3, StillCounted
    <2> QED
        BY <1>5, <1>6, <2>2, <2>3
<1>9. shms' \in Nat /\ shms' <= Cardinality(PastShm')
    <2>1. Cardinality(PastShm') \in Nat
        BY <1>3, FiniteSets
    <2>2. CASE shms' = shms
        BY <1>1, <1>4, <1>7, <2>1, <2>2, StillCounted
    <2>3. CASE shms' = shms + 1 /\ Cardinality(PastShm) + 1 <= Cardinality(PastShm')
        BY <1>1, <1>7, <2>1, <2>3, StillCounted
    <2> QED
        BY <1>5, <1>6, <2>2, <2>3
<1>10. sems' \in 0 .. MaxObject /\ shms' \in 0 .. MaxObject
    BY <1>7, <1>8, <1>9, StillCounted
<1> QED
    BY <1>8, <1>9, <1>10 DEF ObjectsCounted

\* The names, when a process moves on.
LEMMA NamesKeep ==
    ASSUME IInv, NEW p \in Proc, \A q \in Proc \ {p} : pc'[q] = pc[q],
           sem_name' # NoObject =>
               IF p \in Servers /\ pc'[p] \notin {"start", "done"} THEN TRUE
               ELSE sem_name # NoObject /\ (p \in Servers => pc[p] \in {"start", "done"}),
           shm_name' # NoObject =>
               IF p \in Servers /\ pc'[p] \notin {"start", "create shm", "remove sem", "done"} THEN TRUE
               ELSE /\ shm_name # NoObject
                    /\ p \in Servers => pc[p] \in {"start", "create shm", "remove sem", "done"}
    PROVE  NamesHaveServers'
<1>1. ASSUME sem_name' # NoObject
      PROVE  \E s \in Servers : pc'[s] \notin {"start", "done"}
    <2>1. CASE p \in Servers /\ pc'[p] \notin {"start", "done"}
        BY <2>1
    <2>2. CASE ~(p \in Servers /\ pc'[p] \notin {"start", "done"})
        <3>1. PICK s \in Servers : pc[s] \notin {"start", "done"}
            BY <1>1, <2>2 DEF IInv, NamesHaveServers
        <3>2. s # p /\ s \in Proc
            BY <1>1, <2>2, <3>1, RolesOfProc
        <3> QED
            BY <3>1, <3>2
    <2> QED
        BY <2>1, <2>2
<1>2. ASSUME shm_name' # NoObject
      PROVE  \E s \in Servers : pc'[s] \notin {"start", "create shm", "remove sem", "done"}
    <2>1. CASE p \in Servers /\ pc'[p] \notin {"start", "create shm", "remove sem", "done"}
        BY <2>1
    <2>2. CASE ~(p \in Servers /\ pc'[p] \notin {"start", "create shm", "remove sem", "done"})
        <3>1. PICK s \in Servers : pc[s] \notin {"start", "create shm", "remove sem", "done"}
            BY <1>2, <2>2 DEF IInv, NamesHaveServers
        <3>2. s # p /\ s \in Proc
            BY <1>2, <2>2, <3>1, RolesOfProc
        <3> QED
            BY <3>1, <3>2
    <2> QED
        BY <2>1, <2>2
<1> QED
    BY <1>1, <1>2 DEF NamesHaveServers

(***************************************************************************)
(* The sums.                                                               *)
(***************************************************************************)
\* The processes that have a semaphore open and hold it, and the releases of
\* them that nobody paid for.
In(o) == Users(o) \cap holds
Slots(o) == {r \in Users(o) \X (1 .. MaxUnpaid) : r[2] <= unpaid[r[1]]}

LEMMA FiniteSlots ==
    /\ MaxUnpaid \in Nat /\ MaxUnpaid >= 2
    /\ \A S \in SUBSET (Proc \X (1 .. MaxUnpaid)) : IsFiniteSet(S) /\ Cardinality(S) \in Nat
<1>1. MaxUnpaid \in Nat /\ MaxUnpaid >= 2
    BY BoundsOK DEF MaxUnpaid
<1>2. IsFiniteSet(1 .. MaxUnpaid)
    BY <1>1, FS_Interval
<1>3. IsFiniteSet(Proc \X (1 .. MaxUnpaid))
    BY <1>2, FiniteSets, FS_Product
<1> QED
    BY <1>1, <1>3, FS_Subset, FS_CardinalityType

LEMMA Sums ==
    ASSUME NEW o
    PROVE  /\ Balanced(o) <=> value[o] + Cardinality(In(o)) = 1 + Cardinality(Slots(o))
           /\ In(o) \in SUBSET Proc /\ Slots(o) \in SUBSET (Proc \X (1 .. MaxUnpaid))
           /\ Cardinality(In(o)) \in Nat /\ Cardinality(Slots(o)) \in Nat
<1>1. In(o) \in SUBSET Proc /\ Slots(o) \in SUBSET (Proc \X (1 .. MaxUnpaid))
    BY DEF In, Slots, Users
<1> QED
    BY <1>1, FiniteSets, FiniteSlots DEF Balanced, Unpaid, In, Slots

\* Nothing happens to a semaphore.
LEMMA SumStays ==
    ASSUME TypeOK, NEW o, Balanced(o), value'[o] = value[o],
           sem' = sem, holds' = holds, unpaid' = unpaid
    PROVE  Balanced(o)'
BY DEF Balanced, Unpaid, Users

\* What other semaphores see of one process's Take or Release.
LEMMA SumOfOthers ==
    ASSUME TypeOK, NEW p \in Proc, NEW o, o # sem[p], Balanced(o), value'[o] = value[o],
           sem' = sem, \A q \in Proc \ {p} : unpaid'[q] = unpaid[q] /\ (q \in holds' <=> q \in holds)
    PROVE  Balanced(o)'
<1>1. Users(o)' = Users(o) /\ p \notin Users(o) /\ Users(o) \subseteq Proc
    BY DEF Users
<1>2. In(o)' = In(o)
    BY <1>1 DEF In
<1>3. Slots(o)' = Slots(o)
    BY <1>1 DEF Slots
<1>4. Balanced(o)' <=> value'[o] + Cardinality(In(o)') = 1 + Cardinality(Slots(o)')
    BY DEF Balanced, Unpaid, In, Slots
<1> QED
    BY <1>2, <1>3, <1>4, Sums

\* sem_wait() takes one from the value and adds one to the holders.
LEMMA TakeBalances ==
    ASSUME TypeOK, NEW p \in Proc, sem[p] \in 1 .. sems, p \notin holds, Take(p),
           sem' = sem, unpaid' = unpaid, \A o \in 1 .. sems : Balanced(o)
    PROVE  /\ \A o \in 1 .. sems : Balanced(o)'
           /\ value' \in [Object -> Nat]
           /\ holds' = holds \cup {p}
<1> DEFINE o == sem[p]
<1>1. o \in Object /\ value[o] \in Nat /\ value[o] > 0
    BY FiniteSets DEF TypeOK, Object, Take
<1>2. value' = [value EXCEPT ![o] = value[o] - 1] /\ holds' = holds \cup {p}
    BY DEF Take
<1>3. /\ value' \in [Object -> Nat] /\ value'[o] = value[o] - 1
      /\ \A n \in Object \ {o} : value'[n] = value[n]
    BY <1>1, <1>2 DEF TypeOK
<1>4. \A n \in 1 .. sems : n \in Object
    BY FiniteSets DEF TypeOK, Object
<1>5. ASSUME NEW n \in 1 .. sems, n # o
      PROVE  Balanced(n)'
    BY <1>2, <1>3, <1>4, <1>5, SumOfOthers
<1>6. Balanced(o)'
    <2>1. In(o)' = In(o) \cup {p} /\ p \in Proc \ In(o)
        BY <1>2 DEF In, Users
    <2>2. Cardinality(In(o)') = Cardinality(In(o)) + 1
        BY <2>1, Sums, OneMore
    <2>3. Slots(o)' = Slots(o)
        BY DEF Slots, Users
    <2>4. Balanced(o)' <=> value'[o] + Cardinality(In(o)') = 1 + Cardinality(Slots(o)')
        BY DEF Balanced, Unpaid, In, Slots
    <2> QED
        BY <1>1, <1>3, <2>2, <2>3, <2>4, Sums
<1> QED
    BY <1>2, <1>3, <1>5, <1>6

\* release_sem() adds one to the value: a holder has paid for it, or it is one
\* more that nobody paid for.
LEMMA ReleaseBalances ==
    ASSUME TypeOK, NEW p \in Proc, sem[p] \in 1 .. sems, Release(p),
           p \notin holds => unpaid[p] < MaxUnpaid,
           sem' = sem, \A o \in 1 .. sems : Balanced(o)
    PROVE  /\ \A o \in 1 .. sems : Balanced(o)'
           /\ value' \in [Object -> Nat]
           /\ holds' = holds \ {p}
           /\ unpaid' \in [Proc -> 0 .. MaxUnpaid]
           /\ \A q \in Proc \ {p} : unpaid'[q] = unpaid[q]
           /\ unpaid'[p] = IF p \in holds THEN unpaid[p] ELSE unpaid[p] + 1
<1> DEFINE o == sem[p]
<1>1. /\ o \in Object /\ value[o] \in Nat /\ MaxUnpaid \in Nat
      /\ unpaid \in [Proc -> 0 .. MaxUnpaid] /\ unpaid[p] \in 0 .. MaxUnpaid
    BY FiniteSets, FiniteSlots DEF TypeOK, Object
<1>2. value' = [value EXCEPT ![o] = value[o] + 1] /\ holds' = holds \ {p}
    BY DEF Release
<1>3. /\ value' \in [Object -> Nat] /\ value'[o] = value[o] + 1
      /\ \A n \in Object \ {o} : value'[n] = value[n]
    BY <1>1, <1>2 DEF TypeOK
<1>4. \A n \in 1 .. sems : n \in Object
    BY FiniteSets DEF TypeOK, Object
<1>5. /\ unpaid' \in [Proc -> 0 .. MaxUnpaid]
      /\ \A q \in Proc \ {p} : unpaid'[q] = unpaid[q]
      /\ unpaid'[p] = IF p \in holds THEN unpaid[p] ELSE unpaid[p] + 1
    <2>1. CASE p \in holds
        BY <1>1, <2>1 DEF Release
    <2>2. CASE p \notin holds
        <3>1. unpaid[p] + 1 \in 0 .. MaxUnpaid
            BY <1>1, <2>2
        <3>2. unpaid' = [unpaid EXCEPT ![p] = unpaid[p] + 1]
            BY <2>2 DEF Release
        <3> QED
            BY <1>1, <2>2, <3>1, <3>2
    <2> QED
        BY <2>1, <2>2
<1>6. ASSUME NEW n \in 1 .. sems, n # o
      PROVE  Balanced(n)'
    BY <1>2, <1>3, <1>4, <1>5, <1>6, SumOfOthers
<1>7. Balanced(o)'
    <2>1. Balanced(o)' <=> value'[o] + Cardinality(In(o)') = 1 + Cardinality(Slots(o)')
        BY DEF Balanced, Unpaid, In, Slots
    <2>2. CASE p \in holds
        <3>1. In(o)' = In(o) \ {p} /\ p \in In(o)
            BY <1>2, <2>2 DEF In, Users
        <3>2. Cardinality(In(o)') = Cardinality(In(o)) - 1
            BY <3>1, Sums, OneLess
        <3>3. Slots(o)' = Slots(o)
            BY <2>2 DEF Slots, Users, Release
        <3> QED
            BY <1>1, <1>3, <2>1, <3>2, <3>3, Sums
    <2>3. CASE p \notin holds
        <3>1. In(o)' = In(o)
            BY <1>2, <2>3 DEF In, Users
        <3>2. Slots(o)' = Slots(o) \cup {<<p, unpaid[p] + 1>>} /\ <<p, unpaid[p] + 1>> \notin Slots(o)
            <4>1. unpaid[p] + 1 \in 1 .. MaxUnpaid /\ ~(unpaid[p] + 1 <= unpaid[p])
                BY <1>1, <2>3
            <4>2. \A k \in 1 .. MaxUnpaid : k <= unpaid[p] + 1 <=> (k <= unpaid[p] \/ k = unpaid[p] + 1)
                BY <1>1
            <4>3. p \in Users(o) /\ Users(o)' = Users(o) /\ Users(o) \subseteq Proc
                BY DEF Users
            <4> QED
                BY <1>5, <2>3, <4>1, <4>2, <4>3 DEF Slots
        <3>3. Cardinality(Slots(o)') = Cardinality(Slots(o)) + 1
            BY <3>2, Sums, FiniteSlots, FS_AddElement
        <3> QED
            BY <1>1, <1>3, <2>1, <3>1, <3>3, Sums
    <2> QED
        BY <2>2, <2>3
<1> QED
    BY <1>2, <1>3, <1>5, <1>6, <1>7

(***************************************************************************)
(* The steps.                                                              *)
(***************************************************************************)
\* The parts of the next state's invariant.
LEMMA Parts ==
    ASSUME IInv, NEW p \in Proc, OnlyFor(p), TypeOK',
           p \in Servers => ServerInv(p)', p \in Clients => ClientInv(p)',
           ObjectsCounted', NamesHaveServers', \A o \in 1 .. sems' : Balanced(o)'
    PROVE  IInv'
<1>1. (\A s \in Servers : ServerInv(s)') /\ (\A c \in Clients : ClientInv(c)')
    BY OthersKeep
<1> QED
    BY <1>1 DEF IInv

\* What the invariant says of the semaphore a process has open.
LEMMA OpenSemaphore ==
    ASSUME IInv, NEW p \in Proc, sem[p] # NoObject
    PROVE  sem[p] \in 1 .. sems /\ sem[p] \in Object
<1>1. sem[p] \in 0 .. sems /\ sems \in 0 .. MaxObject
    BY DEF IInv, TypeOK
<1> QED
    BY <1>1, ObjectNumbers

\* The failures are counted.
LEMMA FailuresCounted ==
    ASSUME TypeOK, fails' = fails \/ Fail
    PROVE  /\ fails' \in 0 .. MaxFails /\ failed \in [Clients -> 0 .. fails']
           /\ \A c \in Clients : failed[c] \in Nat
           /\ fails' = fails + 1 => \A c \in Clients : failed[c] + 1 \in 0 .. fails'
<1>1. fails \in 0 .. MaxFails /\ failed \in [Clients -> 0 .. fails] /\ MaxFails \in Nat
    BY BoundsOK DEF TypeOK
<1>2. fails' \in 0 .. MaxFails /\ \A n \in 0 .. fails : n \in 0 .. fails' /\ n \in Nat
    BY <1>1 DEF Fail
<1>3. failed \in [Clients -> 0 .. fails']
    BY <1>1, <1>2
<1>4. ASSUME fails' = fails + 1, NEW c \in Clients
      PROVE  failed[c] + 1 \in 0 .. fails'
    <2>1. failed[c] \in 0 .. fails
        BY <1>1
    <2> QED
        BY <1>1, <1>4, <2>1
<1> QED
    BY <1>1, <1>2, <1>3, <1>4

\* A step of a server that takes and releases nothing.
LEMMA ServerMoves ==
    ASSUME IInv, NEW s \in Servers, NEW place \in ServerPlaces, pc' = [pc EXCEPT ![s] = place],
           UNCHANGED <<sems, shms, value, rest, sem, shm, holds, unpaid, failed, wrote, signum, crashes>>,
           fails' = fails \/ Fail,
           sem_name' \in {sem_name, NoObject}, shm_name' \in {shm_name, NoObject},
           sized \subseteq sized', sized' \subseteq Object, first' \subseteq sized',
           ServerInv(s)', place \notin {"start", "create shm"}, pc[s] # "start",
           place = "done" => sem_name' = NoObject \/ pc[s] = "done",
           place \in {"remove sem", "done"} =>
               shm_name' = NoObject \/ pc[s] \in {"create shm", "remove sem", "done"}
    PROVE  IInv'
<1>1. TypeOK /\ s \in Proc /\ s \notin Clients
    BY RolesOfProc DEF IInv
<1>2. pc' \in [Proc -> Places] /\ pc'[s] = place /\ \A q \in Proc \ {s} : pc'[q] = pc[q]
    BY <1>1 DEF TypeOK, Places, ServerPlaces
<1>3. OnlyFor(s)
    BY <1>2 DEF OnlyFor
<1>4. TypeOK'
    <2>1. sem_name' \in 0 .. sems' /\ shm_name' \in 0 .. shms'
        BY <1>1, ObjectNumbers DEF TypeOK
    <2>2. fails' \in 0 .. MaxFails /\ failed' \in [Clients -> 0 .. fails']
        BY <1>1, FailuresCounted
    <2> QED
        BY <1>1, <1>2, <2>1, <2>2 DEF TypeOK
<1>5. ObjectsCounted'
    BY <1>1, <1>2, CountKeeps
<1>6. NamesHaveServers'
    BY <1>1, <1>2, NamesKeep
<1>7. \A o \in 1 .. sems' : Balanced(o)'
    BY <1>1, SumStays DEF IInv
<1> QED
    BY <1>1, <1>3, <1>4, <1>5, <1>6, <1>7, Parts

\* The server's steps of that kind.
LEMMA SizeShmKeeps == ASSUME IInv, NEW s \in Servers, SizeShm(s) PROVE IInv'
<1>1. PICK place \in {"map shm", "delete shm"} : pc' = [pc EXCEPT ![s] = place]
    BY DEF SizeShm, Goto, OnError
<1>2. /\ pc[s] = "size shm" /\ s \in Proc /\ sized' \in {sized, sized \cup {shm[s]}}
      /\ UNCHANGED <<names, value, first, rest, sem, shm, holds, unpaid, fails, failed, wrote, signum, crashes>>
    BY RolesOfProc DEF SizeShm, failures
<1>3. pc'[s] = place
    BY <1>1, <1>2 DEF IInv, TypeOK
<1>4. shm[s] \in Object
    <2>1. shm[s] \in 0 .. shms /\ shms \in 0 .. MaxObject /\ shm[s] # NoObject
        BY <1>2 DEF IInv, TypeOK, ServerInv
    <2> QED
        BY <2>1, ObjectNumbers
<1>5. sized' \subseteq Object /\ sized \subseteq sized' /\ first' \subseteq sized'
    BY <1>2, <1>4 DEF IInv, TypeOK
<1>6. ServerInv(s)'
    BY <1>1, <1>2, <1>3 DEF IInv, ServerInv, ServerPlaces, ServerInside, ServerEnded, ServerStarts, ServerOpen
<1>7. place \in ServerPlaces
    BY DEF ServerPlaces
<1> QED
    BY <1>1, <1>2, <1>5, <1>6, <1>7, ServerMoves DEF names

LEMMA MapShmServerKeeps == ASSUME IInv, NEW s \in Servers, MapShm(s) PROVE IInv'
<1>1. PICK place \in {"release first", "delete shm"} : pc' = [pc EXCEPT ![s] = place]
    BY DEF MapShm, Goto, OnError
<1>2. /\ pc[s] = "map shm" /\ s \in Proc
      /\ UNCHANGED <<names, value, memory, sem, shm, holds, unpaid, fails, failed, wrote, signum, crashes>>
    BY RolesOfProc DEF MapShm, failures
<1>3. pc'[s] = place
    BY <1>1, <1>2 DEF IInv, TypeOK
<1>4. sized \subseteq Object /\ first \subseteq sized
    BY DEF IInv, TypeOK
<1>5. ServerInv(s)'
    BY <1>1, <1>2, <1>3 DEF IInv, ServerInv, ServerPlaces, ServerInside, ServerEnded, ServerStarts, ServerOpen
<1>6. place \in ServerPlaces
    BY DEF ServerPlaces
<1> QED
    BY <1>1, <1>2, <1>4, <1>5, <1>6, ServerMoves DEF names, memory

LEMMA CheckSignalKeeps == ASSUME IInv, NEW s \in Servers, CheckSignal(s) PROVE IInv'
<1>1. PICK place \in {"delete shm", "lock"} :
          pc' = [pc EXCEPT ![s] = place] /\ (place = "lock" => s \notin signum)
    BY DEF CheckSignal, Goto, Leaves
<1>2. /\ pc[s] = "loop" /\ s \in Proc
      /\ UNCHANGED <<names, value, memory, sem, shm, holds, unpaid, fails, failed, wrote, signum, crashes>>
    BY RolesOfProc DEF CheckSignal, failures
<1>3. pc'[s] = place
    BY <1>1, <1>2, FiniteSlots DEF IInv, TypeOK
<1>4. sized \subseteq Object /\ first \subseteq sized
    BY DEF IInv, TypeOK
<1>5. ServerInv(s)'
    <2>1. s \notin signum => unpaid[s] <= 1
        BY DEF IInv, ServerInv
    <2>2. place = "lock" => unpaid[s] <= 1
        BY <1>1, <1>3, <2>1
    <2> QED
        BY <1>1, <1>2, <1>3, <2>2 DEF IInv, ServerInv, ServerPlaces, ServerInside, ServerEnded, ServerStarts, ServerOpen
<1>6. place \in ServerPlaces
    BY DEF ServerPlaces
<1> QED
    BY <1>1, <1>2, <1>4, <1>5, <1>6, ServerMoves DEF names, memory

LEMMA ReadKeeps == ASSUME IInv, NEW s \in Servers, Read(s) PROVE IInv'
<1>1. PICK place \in {"release", "clear"} : pc' = [pc EXCEPT ![s] = place]
    BY DEF Read, Goto
<1>2. /\ pc[s] = "read" /\ s \in Proc
      /\ UNCHANGED <<names, value, memory, sem, shm, holds, unpaid, fails, failed, wrote, signum, crashes>>
    BY RolesOfProc DEF Read, failures
<1>3. pc'[s] = place
    BY <1>1, <1>2 DEF IInv, TypeOK
<1>4. sized \subseteq Object /\ first \subseteq sized
    BY DEF IInv, TypeOK
<1>5. ServerInv(s)'
    BY <1>1, <1>2, <1>3 DEF IInv, ServerInv, ServerPlaces, ServerInside, ServerEnded, ServerStarts, ServerOpen
<1>6. place \in ServerPlaces
    BY DEF ServerPlaces
<1> QED
    BY <1>1, <1>2, <1>4, <1>5, <1>6, ServerMoves DEF names, memory

LEMMA ClearKeeps == ASSUME IInv, NEW s \in Servers, Clear(s) PROVE IInv'
<1>1. /\ pc[s] = "clear" /\ s \in Proc /\ pc' = [pc EXCEPT ![s] = "release"]
      /\ first' = first \ {shm[s]}
      /\ UNCHANGED <<names, value, sized, rest, sem, shm, holds, unpaid, fails, failed, wrote, signum, crashes>>
    BY RolesOfProc DEF Clear, failures, Goto
<1>2. pc'[s] = "release"
    BY <1>1 DEF IInv, TypeOK
<1>3. sized \subseteq Object /\ first' \subseteq sized
    BY <1>1 DEF IInv, TypeOK
<1>4. ServerInv(s)'
    BY <1>1, <1>2 DEF IInv, ServerInv, ServerPlaces, ServerInside, ServerEnded, ServerStarts, ServerOpen
<1>5. "release" \in ServerPlaces
    BY DEF ServerPlaces
<1> QED
    BY <1>1, <1>3, <1>4, <1>5, ServerMoves DEF names

LEMMA DeleteShmKeeps == ASSUME IInv, NEW s \in Servers, DeleteShm(s) PROVE IInv'
<1>1. /\ pc[s] = "delete shm" /\ s \in Proc /\ pc' = [pc EXCEPT ![s] = "remove sem"]
      /\ shm_name' = NoObject
      /\ UNCHANGED <<sem_name, sems, shms, value, memory, sem, shm, holds, unpaid, fails, failed, wrote, signum, crashes>>
    BY RolesOfProc DEF DeleteShm, failures, Goto
<1>2. pc'[s] = "remove sem"
    BY <1>1 DEF IInv, TypeOK
<1>3. sized \subseteq Object /\ first \subseteq sized
    BY <1>1 DEF IInv, TypeOK
<1>4. ServerInv(s)'
    BY <1>1, <1>2 DEF IInv, ServerInv, ServerPlaces, ServerInside, ServerEnded, ServerStarts, ServerOpen
<1>5. "remove sem" \in ServerPlaces
    BY DEF ServerPlaces
<1> QED
    BY <1>1, <1>3, <1>4, <1>5, ServerMoves DEF memory

LEMMA RemoveSemKeeps == ASSUME IInv, NEW s \in Servers, RemoveSem(s) PROVE IInv'
<1>1. /\ pc[s] = "remove sem" /\ s \in Proc /\ pc' = [pc EXCEPT ![s] = "done"]
      /\ sem_name' = NoObject
      /\ UNCHANGED <<shm_name, sems, shms, value, memory, sem, shm, holds, unpaid, fails, failed, wrote, signum, crashes>>
    BY RolesOfProc DEF RemoveSem, failures, Goto
<1>2. pc'[s] = "done"
    BY <1>1 DEF IInv, TypeOK
<1>3. sized \subseteq Object /\ first \subseteq sized
    BY <1>1 DEF IInv, TypeOK
<1>4. ServerInv(s)'
    BY <1>1, <1>2 DEF IInv, ServerInv, ServerPlaces, ServerInside, ServerEnded, ServerStarts, ServerOpen
<1>5. "done" \in ServerPlaces
    BY DEF ServerPlaces
<1> QED
    BY <1>1, <1>3, <1>4, <1>5, ServerMoves DEF memory

\* A process that has just started holds nothing and owes nothing.
LEMMA Fresh ==
    ASSUME IInv, NEW p \in Proc, pc[p] = "start"
    PROVE  p \notin holds /\ unpaid[p] = 0 /\ sem[p] = NoObject
<1>1. CASE p \in Servers
    BY <1>1 DEF IInv, ServerInv, ServerInside, ServerEnded, ServerStarts
<1>2. CASE p \in Clients
    BY <1>2 DEF IInv, ClientInv, ClientInside
<1> QED
    BY <1>1, <1>2, RolesOfProc

\* sem_open() by such a process: the sums of the semaphores that were there stay
\* the same, and a new one has the value 1.
LEMMA OpenBalances ==
    ASSUME IInv, NEW p \in Proc, pc[p] = "start", NEW create \in BOOLEAN, CallSemOpen(p, create),
           sems' \in 0 .. MaxObject, holds' = holds, unpaid' = unpaid
    PROVE  /\ sem_name' \in 0 .. sems' /\ value' \in [Object -> Nat]
           /\ sem' \in [Proc -> 0 .. sems'] /\ sem'[p] = sem_name'
           /\ \A q \in Proc \ {p} : sem'[q] = sem[q]
           /\ sems' = sems \/ (sems' = sems + 1 /\ create)
           /\ \A o \in 1 .. sems' : Balanced(o)'
           /\ create => sem_name' # NoObject
           /\ ~create => sem_name' = sem_name
<1>1. TypeOK /\ p \notin holds /\ unpaid[p] = 0 /\ sem[p] = NoObject
    BY Fresh DEF IInv
<1>2. /\ sem_name \in 0 .. sems /\ sems \in 0 .. MaxObject /\ value \in [Object -> Nat]
      /\ sem \in [Proc -> 0 .. sems]
    BY <1>1 DEF TypeOK
<1>3. sem' = [sem EXCEPT ![p] = sem_name']
    BY DEF CallSemOpen
<1>4. sem'[p] = sem_name' /\ \A q \in Proc \ {p} : sem'[q] = sem[q]
    BY <1>2, <1>3
<1>5. ASSUME NEW o \in 1 .. sems, value'[o] = value[o]
      PROVE  Balanced(o)'
    <2>1. o # NoObject
        BY <1>2, ObjectNumbers DEF NoObject
    <2>2. In(o)' = In(o)
        BY <1>1, <1>4, <2>1 DEF In, Users
    <2>3. Slots(o)' = Slots(o)
        BY <1>1, <1>4, <2>1 DEF Slots, Users
    <2>4. Balanced(o)' <=> value'[o] + Cardinality(In(o)') = 1 + Cardinality(Slots(o)')
        BY DEF Balanced, Unpaid, In, Slots
    <2> QED
        BY <1>1, <1>5, <2>2, <2>3, <2>4, Sums DEF IInv
<1>6. CASE sem_name # NoObject \/ ~create
    <2>1. UNCHANGED <<sem_name, sems, value>>
        BY <1>6 DEF CallSemOpen
    <2>2. sem' \in [Proc -> 0 .. sems']
        BY <1>2, <1>3, <2>1
    <2> QED
        BY <1>2, <1>4, <1>5, <1>6, <2>1, <2>2
<1>7. CASE sem_name = NoObject /\ create
    <2>1. PICK o : o = sems + 1
        OBVIOUS
    <2>2. sems' = o /\ sem_name' = o /\ value' = [value EXCEPT ![o] = 1]
        BY <1>7, <2>1 DEF CallSemOpen
    <2>3. /\ o \in Object /\ o \in 0 .. o /\ o \notin 0 .. sems /\ o # NoObject
          /\ \A n \in 0 .. sems : n \in 0 .. o
          /\ \A n \in 1 .. o : n = o \/ n \in 1 .. sems
          /\ \A n \in 1 .. sems : n # o /\ n \in Object
        <3>1. sems \in Nat /\ MaxObject \in Nat /\ o \in 0 .. MaxObject
            BY <1>2, <2>2, FiniteSets, ObjectNumbers
        <3> QED
            BY <1>2, <2>1, <3>1 DEF Object, NoObject
    <2>4. /\ value' \in [Object -> Nat] /\ value'[o] = 1
          /\ \A n \in Object \ {o} : value'[n] = value[n]
        BY <1>2, <2>2, <2>3
    <2>5. sem' \in [Proc -> 0 .. sems']
        BY <1>2, <1>3, <2>2, <2>3
    <2>6. Balanced(o)'
        <3>1. In(o)' = {} /\ Slots(o)' = {}
            <4>1. \A q \in Proc \ {p} : sem'[q] # o
                BY <1>2, <1>4, <2>3
            <4> QED
                BY <1>1, <4>1 DEF In, Slots, Users
        <3>2. Balanced(o)' <=> value'[o] + Cardinality(In(o)') = 1 + Cardinality(Slots(o)')
            BY DEF Balanced, Unpaid, In, Slots
        <3> QED
            BY <2>4, <3>1, <3>2, FS_EmptySet
    <2>7. \A n \in 1 .. sems' : Balanced(n)'
        BY <1>5, <2>2, <2>3, <2>4, <2>6
    <2> QED
        BY <1>4, <1>7, <2>1, <2>2, <2>3, <2>4, <2>5, <2>7
<1> QED
    BY <1>6, <1>7

LEMMA CreateSemKeeps == ASSUME IInv, NEW s \in Servers, CreateSem(s) PROVE IInv'
<1>1. /\ pc[s] = "start" /\ s \in Proc /\ s \notin Clients /\ TypeOK
      /\ UNCHANGED <<shm_name, shms, memory, shm, holds, unpaid, fails, failed, wrote, signum, crashes>>
    BY RolesOfProc DEF CreateSem, failures, IInv
<1>2. CASE CallSemOpen(s, TRUE) /\ pc' = [pc EXCEPT ![s] = "create shm"]
    <2>1. /\ pc' \in [Proc -> Places] /\ pc'[s] = "create shm"
          /\ \A q \in Proc \ {s} : pc'[q] = pc[q]
        BY <1>1, <1>2 DEF TypeOK, Places
    <2>2. sems' = sems \/ sems' = sems + 1
        BY <1>2 DEF CallSemOpen
    <2>3. ObjectsCounted' /\ sems' \in 0 .. MaxObject
        BY <1>1, <2>1, <2>2, CountKeeps
    <2>4. /\ sem_name' \in 0 .. sems' /\ value' \in [Object -> Nat]
          /\ sem' \in [Proc -> 0 .. sems'] /\ sem'[s] # NoObject
          /\ \A q \in Proc \ {s} : sem'[q] = sem[q]
          /\ \A o \in 1 .. sems' : Balanced(o)'
        BY <1>1, <1>2, <2>3, OpenBalances
    <2>5. TypeOK'
        BY <1>1, <2>1, <2>3, <2>4 DEF TypeOK, memory
    <2>6. OnlyFor(s)
        BY <1>1, <2>1, <2>4 DEF OnlyFor, memory
    <2>7. ServerInv(s)'
        BY <1>1, <2>1, <2>4 DEF IInv, ServerInv, ServerPlaces, ServerInside, ServerEnded, ServerStarts, ServerOpen
    <2>8. NamesHaveServers'
        BY <1>1, <2>1, NamesKeep
    <2> QED
        BY <1>1, <2>3, <2>4, <2>5, <2>6, <2>7, <2>8, Parts
<1>3. CASE UNCHANGED <<sem_name, sems, value, sem>> /\ pc' = [pc EXCEPT ![s] = "delete shm"]
    <2>1. /\ pc' \in [Proc -> Places] /\ pc'[s] = "delete shm"
          /\ \A q \in Proc \ {s} : pc'[q] = pc[q]
        BY <1>1, <1>3 DEF TypeOK, Places
    <2>2. ObjectsCounted'
        BY <1>1, <1>3, <2>1, CountKeeps
    <2>3. TypeOK'
        BY <1>1, <1>3, <2>1 DEF TypeOK, memory
    <2>4. OnlyFor(s)
        BY <1>1, <1>3, <2>1 DEF OnlyFor, memory
    <2>5. ServerInv(s)'
        BY <1>1, <1>3, <2>1 DEF IInv, ServerInv, ServerPlaces, ServerInside, ServerEnded, ServerStarts, ServerOpen
    <2>6. NamesHaveServers'
        BY <1>1, <1>3, <2>1, NamesKeep
    <2>7. \A o \in 1 .. sems' : Balanced(o)'
        BY <1>1, <1>3, SumStays DEF IInv
    <2> QED
        BY <1>1, <2>2, <2>3, <2>4, <2>5, <2>6, <2>7, Parts
<1> QED
    BY <1>2, <1>3 DEF CreateSem, Goto, OnError

LEMMA CreateShmKeeps == ASSUME IInv, NEW s \in Servers, CreateShm(s) PROVE IInv'
<1>1. /\ pc[s] = "create shm" /\ s \in Proc /\ s \notin Clients /\ TypeOK
      /\ UNCHANGED <<sem_name, sems, value, memory, sem, holds, unpaid, fails, failed, wrote, signum, crashes>>
    BY RolesOfProc DEF CreateShm, failures, IInv
<1>2. \/ /\ pc' = [pc EXCEPT ![s] = "size shm"]
         /\ IF shm_name # NoObject THEN UNCHANGED <<shm_name, shms>>
            ELSE shms' = shms + 1 /\ shm_name' = shms + 1
         /\ shm' = [shm EXCEPT ![s] = shm_name']
      \/ pc' = [pc EXCEPT ![s] = "delete shm"] /\ UNCHANGED <<shm_name, shms, shm>>
    BY DEF CreateShm, Goto, OnError
<1>3. /\ pc' \in [Proc -> Places] /\ pc'[s] \in {"size shm", "delete shm"}
      /\ \A q \in Proc \ {s} : pc'[q] = pc[q]
    BY <1>1, <1>2 DEF TypeOK, Places
<1>4. shms' = shms \/ shms' = shms + 1
    BY <1>2
<1>5. ObjectsCounted' /\ shms' \in 0 .. MaxObject
    BY <1>1, <1>3, <1>4, CountKeeps
<1>6. /\ shm_name' \in 0 .. shms' /\ shm' \in [Proc -> 0 .. shms']
      /\ pc'[s] = "size shm" => shm'[s] # NoObject
      /\ \A q \in Proc \ {s} : shm'[q] = shm[q]
    <2>1. /\ shm_name \in 0 .. shms /\ shm \in [Proc -> 0 .. shms]
          /\ shms \in Nat /\ NoObject \in 0 .. shms
        BY <1>1, ObjectNumbers DEF TypeOK
    <2>2. CASE shm_name # NoObject /\ UNCHANGED <<shm_name, shms>> /\ shm' = [shm EXCEPT ![s] = shm_name']
        BY <1>1, <2>1, <2>2
    <2>3. CASE shms' = shms + 1 /\ shm_name' = shms + 1 /\ shm' = [shm EXCEPT ![s] = shm_name']
        <3>1. /\ shms + 1 \in 0 .. shms' /\ shms + 1 # NoObject
              /\ \A n \in 0 .. shms : n \in 0 .. shms'
            BY <2>1, <2>3 DEF NoObject
        <3> QED
            BY <1>1, <2>1, <2>3, <3>1
    <2>4. CASE pc' = [pc EXCEPT ![s] = "delete shm"] /\ UNCHANGED <<shm_name, shms, shm>>
        <3>1. pc'[s] = "delete shm"
            BY <1>1, <2>4 DEF TypeOK
        <3> QED
            BY <2>1, <2>4, <3>1
    <2> QED
        BY <1>2, <2>2, <2>3, <2>4
<1>7. TypeOK'
    BY <1>1, <1>3, <1>5, <1>6 DEF TypeOK, memory
<1>8. OnlyFor(s)
    BY <1>1, <1>3, <1>6 DEF OnlyFor, memory
<1>9. ServerInv(s)'
    BY <1>1, <1>3, <1>6 DEF IInv, ServerInv, ServerPlaces, ServerInside, ServerEnded, ServerStarts, ServerOpen
<1>10. NamesHaveServers'
    BY <1>1, <1>3, NamesKeep
<1>11. \A o \in 1 .. sems' : Balanced(o)'
    BY <1>1, SumStays DEF IInv
<1> QED
    BY <1>1, <1>5, <1>7, <1>8, <1>9, <1>10, <1>11, Parts

\* The server releases the semaphore, which it need not hold.
Released(s) ==
    /\ pc[s] \in {"release first", "release"} /\ Release(s) /\ pc' = [pc EXCEPT ![s] = "loop"]
    /\ UNCHANGED <<names, memory, sem, shm, fails, failed, wrote, signum, crashes>>

LEMMA ServerReleases == ASSUME IInv, NEW s \in Servers, Released(s) PROVE IInv'
<1>1. /\ pc[s] \in {"release first", "release"} /\ s \in Proc /\ s \notin Clients /\ TypeOK
      /\ Release(s) /\ pc' = [pc EXCEPT ![s] = "loop"]
      /\ UNCHANGED <<names, memory, sem, shm, fails, failed, wrote, signum, crashes>>
    BY RolesOfProc DEF Released, IInv
<1>2. unpaid[s] \in 0 .. MaxUnpaid /\ MaxUnpaid \in Nat /\ MaxUnpaid >= 2
    BY <1>1, FiniteSlots DEF TypeOK
<1>3. /\ sem[s] # NoObject /\ ServerInv(s)
      /\ unpaid[s] <= 1
      /\ s \notin holds => s \in signum \/ unpaid[s] = 0
    <2>1. ServerInv(s)
        BY DEF IInv
    <2>2. CASE pc[s] = "release first"
        <3>1. unpaid[s] = 0 /\ sem[s] # NoObject
            BY <2>1, <2>2 DEF ServerInv, ServerStarts, ServerOpen
        <3> QED
            BY <2>1, <3>1
    <2>3. CASE pc[s] = "release"
        BY <2>1, <2>3 DEF ServerInv, ServerInside, ServerOpen
    <2> QED
        BY <1>1, <2>2, <2>3
<1>4. /\ pc' \in [Proc -> Places] /\ pc'[s] = "loop" /\ \A q \in Proc \ {s} : pc'[q] = pc[q]
    BY <1>1 DEF TypeOK, Places
<1>5. /\ \A o \in 1 .. sems : Balanced(o)'
      /\ value' \in [Object -> Nat] /\ holds' = holds \ {s}
      /\ unpaid' \in [Proc -> 0 .. MaxUnpaid]
      /\ \A q \in Proc \ {s} : unpaid'[q] = unpaid[q]
      /\ unpaid'[s] = IF s \in holds THEN unpaid[s] ELSE unpaid[s] + 1
    <2>1. unpaid[s] < MaxUnpaid
        BY <1>2, <1>3
    <2>2. sem[s] \in 1 .. sems
        BY <1>1, <1>3, OpenSemaphore
    <2> QED
        BY <1>1, <2>1, <2>2, ReleaseBalances DEF IInv
<1>6. TypeOK'
    BY <1>1, <1>4, <1>5 DEF TypeOK, names, memory
<1>7. OnlyFor(s)
    BY <1>1, <1>4, <1>5 DEF OnlyFor, memory
<1>8. ServerInv(s)'
    <2>1. unpaid'[s] <= IF s \in signum THEN 2 ELSE 1
        <3>1. unpaid'[s] = unpaid[s] \/ (unpaid'[s] = unpaid[s] + 1 /\ s \notin holds)
            BY <1>5
        <3>2. unpaid[s] \in Nat /\ unpaid[s] <= 1
            BY <1>2, <1>3
        <3>3. s \notin signum /\ s \notin holds => unpaid[s] = 0
            BY <1>3
        <3> QED
            BY <3>1, <3>2, <3>3
    <2> QED
        BY <1>1, <1>4, <1>5, <2>1, <1>3 DEF ServerInv, ServerPlaces, ServerInside, ServerEnded, ServerStarts, ServerOpen
<1>9. ObjectsCounted'
    BY <1>1, <1>4, CountKeeps DEF names
<1>10. NamesHaveServers'
    BY <1>1, <1>4, NamesKeep DEF names
<1> QED
    BY <1>1, <1>5, <1>6, <1>7, <1>8, <1>9, <1>10, Parts DEF names

\* A semaphore call of a server fails: it goes to the cleanup as it is, or SIGINT
\* lets it in.
LEMMA ServerFails ==
    ASSUME IInv, NEW s \in Servers, Fail, pc[s] \in {"release first", "lock", "release"},
           \/ pc' = [pc EXCEPT ![s] = "delete shm"]
           \/ pc' = [pc EXCEPT ![s] = "read"] /\ pc[s] = "lock" /\ s \in signum,
           UNCHANGED <<names, memory, sem, shm, failed, wrote, signum, crashes>>
    PROVE  IInv'
<1>1. PICK place \in {"delete shm", "read"} :
          pc' = [pc EXCEPT ![s] = place] /\ (place = "read" => pc[s] = "lock" /\ s \in signum)
    OBVIOUS
<1>2. s \in Proc /\ UNCHANGED <<value, holds, unpaid>>
    BY RolesOfProc DEF Fail
<1>3. pc'[s] = place
    BY <1>1, <1>2 DEF IInv, TypeOK
<1>4. sized \subseteq Object /\ first \subseteq sized
    BY DEF IInv, TypeOK
<1>5. ServerInv(s)'
    BY <1>1, <1>2, <1>3
    DEF IInv, ServerInv, ServerPlaces, ServerInside, ServerEnded, ServerStarts, ServerOpen
<1>6. place \in ServerPlaces
    BY DEF ServerPlaces
<1> QED
    BY <1>1, <1>2, <1>4, <1>5, <1>6, ServerMoves DEF names, memory

LEMMA ReleaseFirstKeeps == ASSUME IInv, NEW s \in Servers, ReleaseFirst(s) PROVE IInv'
BY ServerReleases, ServerFails DEF ReleaseFirst, Released, Goto, OnError

LEMMA ReleaseLockKeeps == ASSUME IInv, NEW s \in Servers, ReleaseLock(s) PROVE IInv'
BY ServerReleases, ServerFails DEF ReleaseLock, Released, Goto, OnError

\* The server takes the semaphore, or SIGINT lets it in without.
LEMMA ServerEnters ==
    ASSUME IInv, NEW s \in Servers, pc[s] = "lock", pc' = [pc EXCEPT ![s] = "read"],
           Take(s) \/ (UNCHANGED <<value, holds>> /\ s \in signum),
           UNCHANGED <<names, memory, sem, shm, unpaid, fails, failed, wrote, signum, crashes>>
    PROVE  IInv'
<1>1. s \in Proc /\ s \notin Clients /\ TypeOK
    BY RolesOfProc DEF IInv
<1>2. sem[s] # NoObject /\ s \notin holds /\ unpaid[s] <= 1 /\ ServerInv(s)
    BY <1>1 DEF IInv, ServerInv, ServerInside, ServerEnded, ServerStarts, ServerOpen
<1>3. /\ pc' \in [Proc -> Places] /\ pc'[s] = "read" /\ \A q \in Proc \ {s} : pc'[q] = pc[q]
    BY <1>1 DEF TypeOK, Places
<1>4. /\ \A o \in 1 .. sems : Balanced(o)'
      /\ value' \in [Object -> Nat] /\ holds' \subseteq Proc
      /\ \A q \in Proc \ {s} : q \in holds' <=> q \in holds
      /\ s \in holds' \cup signum
    <2>1. CASE Take(s)
        BY <1>1, <1>2, <2>1, OpenSemaphore, TakeBalances DEF IInv, TypeOK
    <2>2. CASE UNCHANGED <<value, holds>> /\ s \in signum
        BY <1>1, <2>2, SumStays DEF IInv, TypeOK
    <2> QED
        BY <2>1, <2>2
<1>5. TypeOK'
    BY <1>1, <1>3, <1>4 DEF TypeOK, names, memory
<1>6. OnlyFor(s)
    BY <1>1, <1>3, <1>4 DEF OnlyFor, memory
<1>7. ServerInv(s)'
    BY <1>1, <1>2, <1>3, <1>4 DEF ServerInv, ServerPlaces, ServerInside, ServerEnded, ServerStarts, ServerOpen
<1>8. ObjectsCounted'
    BY <1>1, <1>3, CountKeeps DEF names
<1>9. NamesHaveServers'
    BY <1>1, <1>3, NamesKeep DEF names
<1> QED
    BY <1>1, <1>4, <1>5, <1>6, <1>7, <1>8, <1>9, Parts DEF names

LEMMA LockKeeps == ASSUME IInv, NEW s \in Servers, Lock(s) PROVE IInv'
<1>1. /\ pc[s] = "lock"
      /\ UNCHANGED <<names, memory, sem, shm, failed, wrote, signum, crashes>>
    BY DEF Lock
<1>2. CASE /\ Take(s) \/ (UNCHANGED <<value, holds>> /\ s \in signum)
           /\ pc' = [pc EXCEPT ![s] = "read"] /\ UNCHANGED <<unpaid, fails>>
    BY <1>1, <1>2, ServerEnters
<1>3. CASE Fail /\ pc' = [pc EXCEPT ![s] = IF s \in signum THEN "read" ELSE "delete shm"]
    BY <1>1, <1>3, ServerFails
<1> QED
    BY <1>2, <1>3 DEF Lock, Goto, LoopIsLeft, OnError

\* A step of a client that takes and releases nothing.
LEMMA ClientMoves ==
    ASSUME IInv, NEW c \in Clients, NEW place \in ClientPlaces, pc' = [pc EXCEPT ![c] = place],
           UNCHANGED <<names, value, sized, sem, holds, unpaid, signum, crashes>>,
           fails' = fails \/ Fail, failed' \in [Clients -> 0 .. fails'],
           \A d \in Clients \ {c} : failed'[d] = failed[d],
           first' \subseteq sized, rest' \subseteq sized, wrote' \subseteq Clients,
           shm' \in [Proc -> 0 .. shms], \A q \in Proc \ {c} : shm'[q] = shm[q],
           ClientInv(c)'
    PROVE  IInv'
<1>1. TypeOK /\ c \in Proc /\ c \notin Servers
    BY RolesOfProc DEF IInv
<1>2. pc' \in [Proc -> Places] /\ pc'[c] = place /\ \A q \in Proc \ {c} : pc'[q] = pc[q]
    BY <1>1 DEF TypeOK, Places, ClientPlaces
<1>3. OnlyFor(c)
    BY <1>2 DEF OnlyFor
<1>4. TypeOK'
    BY <1>1, <1>2, FailuresCounted DEF TypeOK, names
<1>5. ObjectsCounted'
    BY <1>1, <1>2, CountKeeps DEF names
<1>6. NamesHaveServers'
    BY <1>1, <1>2, NamesKeep DEF names
<1>7. \A o \in 1 .. sems' : Balanced(o)'
    BY <1>1, SumStays DEF IInv, names
<1> QED
    BY <1>1, <1>3, <1>4, <1>5, <1>6, <1>7, Parts

LEMMA OpenShmKeeps == ASSUME IInv, NEW c \in Clients, OpenShm(c) PROVE IInv'
<1>1. PICK place \in {"done", "map shm"} : pc' = [pc EXCEPT ![c] = place]
    BY DEF OpenShm, Goto
<1>2. /\ pc[c] = "open shm" /\ c \in Proc /\ TypeOK
      /\ shm' = [shm EXCEPT ![c] = shm_name] \/ shm' = shm
      /\ UNCHANGED <<names, value, memory, sem, holds, unpaid, fails, failed, wrote, signum, crashes>>
    BY RolesOfProc DEF OpenShm, failures, IInv
<1>3. /\ first \subseteq sized /\ rest \subseteq sized /\ wrote \subseteq Clients
      /\ shm' \in [Proc -> 0 .. shms] /\ \A q \in Proc \ {c} : shm'[q] = shm[q]
      /\ failed \in [Clients -> 0 .. fails] /\ pc'[c] = place
    BY <1>1, <1>2 DEF TypeOK
<1>4. ClientInv(c)'
    BY <1>1, <1>2, <1>3 DEF IInv, ClientInv, ClientPlaces, ClientInside, ClientOpen
<1>5. place \in ClientPlaces
    BY DEF ClientPlaces
<1> QED
    BY <1>1, <1>2, <1>3, <1>4, <1>5, ClientMoves DEF memory

LEMMA MapShmClientKeeps == ASSUME IInv, NEW c \in Clients, MapShm(c) PROVE IInv'
<1>1. PICK place \in {"done", "wait"} : pc' = [pc EXCEPT ![c] = place]
    BY RolesOfProc DEF MapShm, failures, Goto
<1>2. /\ pc[c] = "map shm" /\ c \in Proc /\ TypeOK
      /\ UNCHANGED <<names, value, memory, sem, shm, holds, unpaid, fails, failed, wrote, signum, crashes>>
    BY RolesOfProc DEF MapShm, failures, IInv
<1>3. /\ first \subseteq sized /\ rest \subseteq sized /\ wrote \subseteq Clients
      /\ shm \in [Proc -> 0 .. shms] /\ failed \in [Clients -> 0 .. fails] /\ pc'[c] = place
    BY <1>1, <1>2 DEF TypeOK
<1>4. ClientInv(c)'
    BY <1>1, <1>2, <1>3 DEF IInv, ClientInv, ClientPlaces, ClientInside, ClientOpen
<1>5. place \in ClientPlaces
    BY DEF ClientPlaces
<1> QED
    BY <1>1, <1>2, <1>3, <1>4, <1>5, ClientMoves DEF memory

LEMMA CheckKeeps == ASSUME IInv, NEW c \in Clients, Check(c) PROVE IInv'
<1>1. PICK place \in {"killed", "write", "post"} :
          pc' = [pc EXCEPT ![c] = place] /\ (place # "killed" => shm[c] \in sized)
    BY DEF Check, Goto
<1>2. /\ pc[c] = "check" /\ c \in Proc /\ TypeOK
      /\ UNCHANGED <<names, value, memory, sem, shm, holds, unpaid, fails, failed, wrote, signum, crashes>>
    BY RolesOfProc DEF Check, failures, IInv
<1>3. /\ first \subseteq sized /\ rest \subseteq sized /\ wrote \subseteq Clients
      /\ shm \in [Proc -> 0 .. shms] /\ failed \in [Clients -> 0 .. fails] /\ pc'[c] = place
    BY <1>1, <1>2 DEF TypeOK
<1>4. ClientInv(c)'
    BY <1>1, <1>2, <1>3 DEF IInv, ClientInv, ClientPlaces, ClientInside, ClientOpen, memory
<1>5. place \in ClientPlaces
    BY DEF ClientPlaces
<1> QED
    BY <1>1, <1>2, <1>3, <1>4, <1>5, ClientMoves DEF memory

LEMMA WriteFirstKeeps == ASSUME IInv, NEW c \in Clients, WriteFirst(c) PROVE IInv'
<1>1. /\ pc[c] = "write" /\ c \in Proc /\ TypeOK /\ pc' = [pc EXCEPT ![c] = "write rest"]
      /\ first' = first \cup {shm[c]}
      /\ UNCHANGED <<names, value, sized, rest, sem, shm, holds, unpaid, fails, failed, wrote, signum, crashes>>
    BY RolesOfProc DEF WriteFirst, failures, Goto, IInv
<1>2. shm[c] \in sized
    BY <1>1 DEF IInv, ClientInv
<1>3. /\ first' \subseteq sized /\ rest \subseteq sized /\ wrote \subseteq Clients
      /\ shm \in [Proc -> 0 .. shms] /\ failed \in [Clients -> 0 .. fails] /\ pc'[c] = "write rest"
    BY <1>1, <1>2 DEF TypeOK
<1>4. ClientInv(c)'
    BY <1>1, <1>2, <1>3 DEF IInv, ClientInv, ClientPlaces, ClientInside, ClientOpen
<1>5. "write rest" \in ClientPlaces
    BY DEF ClientPlaces
<1> QED
    BY <1>1, <1>3, <1>4, <1>5, ClientMoves

LEMMA WriteRestKeeps == ASSUME IInv, NEW c \in Clients, WriteRest(c) PROVE IInv'
<1>1. /\ pc[c] = "write rest" /\ c \in Proc /\ TypeOK /\ pc' = [pc EXCEPT ![c] = "post"]
      /\ rest' = rest \cup {shm[c]} /\ wrote' = wrote \cup {c}
      /\ UNCHANGED <<names, value, sized, first, sem, shm, holds, unpaid, fails, failed, signum, crashes>>
    BY RolesOfProc DEF WriteRest, failures, Goto, IInv
<1>2. shm[c] \in sized
    BY <1>1 DEF IInv, ClientInv
<1>3. /\ first \subseteq sized /\ rest' \subseteq sized /\ wrote' \subseteq Clients
      /\ shm \in [Proc -> 0 .. shms] /\ failed \in [Clients -> 0 .. fails] /\ pc'[c] = "post"
    BY <1>1, <1>2 DEF TypeOK
<1>4. ClientInv(c)'
    BY <1>1, <1>3 DEF IInv, ClientInv, ClientPlaces, ClientInside, ClientOpen
<1>5. "post" \in ClientPlaces
    BY DEF ClientPlaces
<1> QED
    BY <1>1, <1>3, <1>4, <1>5, ClientMoves

LEMMA OpenSemKeeps == ASSUME IInv, NEW c \in Clients, OpenSem(c) PROVE IInv'
<1>1. PICK place \in {"done", "open shm"} :
          pc' = [pc EXCEPT ![c] = place] /\ (place = "open shm" => sem_name # NoObject)
    BY DEF OpenSem, Goto
<1>2. /\ pc[c] = "start" /\ c \in Proc /\ c \notin Servers /\ TypeOK
      /\ UNCHANGED <<shm_name, shms, memory, shm, holds, unpaid, fails, failed, wrote, signum, crashes>>
    BY RolesOfProc DEF OpenSem, failures, IInv
<1>3. /\ pc' \in [Proc -> Places] /\ pc'[c] = place /\ \A q \in Proc \ {c} : pc'[q] = pc[q]
    BY <1>1, <1>2 DEF TypeOK, Places
<1>4. sems' = sems /\ sems' \in 0 .. MaxObject
    BY <1>2 DEF OpenSem, CallSemOpen, TypeOK
<1>5. /\ sem_name' \in 0 .. sems' /\ value' \in [Object -> Nat]
      /\ sem' \in [Proc -> 0 .. sems'] /\ (place = "open shm" => sem'[c] = sem_name')
      /\ \A q \in Proc \ {c} : sem'[q] = sem[q]
      /\ \A o \in 1 .. sems' : Balanced(o)'
      /\ sem_name' = sem_name
    <2>1. CASE CallSemOpen(c, FALSE)
        BY <1>2, <1>4, <2>1, OpenBalances
    <2>2. CASE UNCHANGED <<sem_name, sems, value, sem>> /\ pc' = [pc EXCEPT ![c] = "done"]
        <3>1. pc'[c] = "done"
            BY <1>2, <2>2 DEF TypeOK
        <3> QED
            BY <1>2, <1>3, <2>2, <3>1, SumStays DEF IInv, TypeOK
    <2> QED
        BY <2>1, <2>2 DEF OpenSem, Goto
<1>6. TypeOK'
    BY <1>2, <1>3, <1>4, <1>5 DEF TypeOK, memory
<1>7. OnlyFor(c)
    BY <1>2, <1>3, <1>5 DEF OnlyFor, memory
<1>8. ClientInv(c)'
    BY <1>1, <1>2, <1>3, <1>5 DEF IInv, ClientInv, ClientPlaces, ClientInside, ClientOpen
<1>9. ObjectsCounted'
    BY <1>2, <1>3, <1>4, CountKeeps
<1>10. NamesHaveServers'
    BY <1>2, <1>3, <1>5, NamesKeep
<1> QED
    BY <1>2, <1>5, <1>6, <1>7, <1>8, <1>9, <1>10, Parts

\* The client takes the semaphore.
LEMMA ClientTakes ==
    ASSUME IInv, NEW c \in Clients, pc[c] = "wait", Take(c), pc' = [pc EXCEPT ![c] = "check"],
           UNCHANGED <<names, memory, sem, shm, unpaid, fails, failed, wrote, signum, crashes>>
    PROVE  IInv'
<1>1. c \in Proc /\ c \notin Servers /\ TypeOK
    BY RolesOfProc DEF IInv
<1>2. sem[c] # NoObject /\ c \notin holds /\ ClientInv(c)
    BY <1>1 DEF IInv, ClientInv, ClientInside, ClientOpen
<1>3. /\ pc' \in [Proc -> Places] /\ pc'[c] = "check" /\ \A q \in Proc \ {c} : pc'[q] = pc[q]
    BY <1>1 DEF TypeOK, Places
<1>4. /\ \A o \in 1 .. sems : Balanced(o)'
      /\ value' \in [Object -> Nat] /\ holds' = holds \cup {c}
    BY <1>1, <1>2, OpenSemaphore, TakeBalances DEF IInv
<1>5. TypeOK'
    BY <1>1, <1>3, <1>4 DEF TypeOK, names, memory
<1>6. OnlyFor(c)
    BY <1>1, <1>3, <1>4 DEF OnlyFor, memory
<1>7. ClientInv(c)'
    BY <1>1, <1>2, <1>3, <1>4 DEF ClientInv, ClientPlaces, ClientInside, ClientOpen
<1>8. ObjectsCounted'
    BY <1>1, <1>3, CountKeeps DEF names
<1>9. NamesHaveServers'
    BY <1>1, <1>3, NamesKeep DEF names
<1> QED
    BY <1>1, <1>4, <1>5, <1>6, <1>7, <1>8, <1>9, Parts DEF names

\* Its sem_wait() fails and it goes on, or its release fails and it ends.
LEMMA WaitFails ==
    ASSUME IInv, NEW c \in Clients, pc[c] = "wait", WaitFailed(c),
           UNCHANGED <<names, memory, sem, shm, wrote, signum, crashes>>
    PROVE  IInv'
<1>1. /\ c \in Proc /\ TypeOK /\ pc' = [pc EXCEPT ![c] = "check"] /\ Fail /\ fails' = fails + 1
      /\ failed' = [failed EXCEPT ![c] = failed[c] + 1]
      /\ UNCHANGED <<names, value, memory, sem, shm, holds, unpaid, wrote, signum, crashes>>
    BY RolesOfProc DEF WaitFailed, Fail, Goto, IInv
<1>2. /\ failed \in [Clients -> 0 .. fails'] /\ failed[c] \in Nat /\ failed[c] + 1 \in 0 .. fails'
    BY <1>1, FailuresCounted
<1>3. /\ first \subseteq sized /\ rest \subseteq sized /\ wrote \subseteq Clients
      /\ shm \in [Proc -> 0 .. shms] /\ pc'[c] = "check" /\ unpaid[c] \in Nat
    BY <1>1, FiniteSlots DEF TypeOK
<1>4. /\ failed' \in [Clients -> 0 .. fails'] /\ failed'[c] = failed[c] + 1
      /\ \A d \in Clients \ {c} : failed'[d] = failed[d]
    BY <1>1, <1>2
<1>5. unpaid[c] < failed'[c]
    <2>1. unpaid[c] <= failed[c]
        BY DEF IInv, ClientInv
    <2> QED
        BY <1>2, <1>3, <1>4, <2>1
<1>6. ClientInv(c)'
    <2>1. unpaid'[c] < failed'[c] /\ unpaid'[c] <= failed'[c]
        BY <1>1, <1>2, <1>3, <1>4, <1>5
    <2> QED
        BY <1>1, <1>3, <2>1 DEF IInv, ClientInv, ClientPlaces, ClientInside, ClientOpen
<1>7. "check" \in ClientPlaces
    BY DEF ClientPlaces
<1> QED
    BY <1>1, <1>3, <1>4, <1>6, <1>7, ClientMoves DEF memory

LEMMA PostFails ==
    ASSUME IInv, NEW c \in Clients, pc[c] = "post", Fail, pc' = [pc EXCEPT ![c] = "done"],
           UNCHANGED <<names, memory, sem, shm, failed, wrote, signum, crashes>>
    PROVE  IInv'
<1>1. c \in Proc /\ TypeOK /\ UNCHANGED <<value, holds, unpaid>>
    BY RolesOfProc DEF Fail, IInv
<1>2. /\ first \subseteq sized /\ rest \subseteq sized /\ wrote \subseteq Clients
      /\ shm \in [Proc -> 0 .. shms] /\ pc'[c] = "done"
    BY <1>1 DEF TypeOK
<1>3. failed' \in [Clients -> 0 .. fails']
    BY <1>1, FailuresCounted
<1>4. ClientInv(c)'
    BY <1>1, <1>2 DEF IInv, ClientInv, ClientPlaces, ClientInside, ClientOpen, memory
<1>5. "done" \in ClientPlaces
    BY DEF ClientPlaces
<1> QED
    BY <1>1, <1>2, <1>3, <1>4, <1>5, ClientMoves DEF memory

LEMMA WaitKeeps == ASSUME IInv, NEW c \in Clients, Wait(c) PROVE IInv'
BY ClientTakes, WaitFails DEF Wait, Goto, failures

\* The client releases the semaphore, which it took, or failed to.
LEMMA ClientReleases ==
    ASSUME IInv, NEW c \in Clients, pc[c] = "post", Release(c),
           NEW place \in {"done", "wait"}, pc' = [pc EXCEPT ![c] = place],
           UNCHANGED <<names, memory, sem, shm, fails, failed, wrote, signum, crashes>>
    PROVE  IInv'
<1>1. unpaid[c] <= failed[c] /\ (c \in holds \/ unpaid[c] < failed[c])
    BY DEF IInv, ClientInv, ClientInside
<1>2. c \in Proc /\ c \notin Servers /\ TypeOK
    BY RolesOfProc DEF IInv
<1>3. sem[c] # NoObject /\ ClientInv(c) /\ (c \notin holds => unpaid[c] < MaxUnpaid)
    <2>1. /\ failed[c] \in 0 .. MaxFails /\ MaxFails \in Nat /\ MaxUnpaid = 2 + MaxFails
          /\ unpaid[c] \in 0 .. MaxUnpaid
        <3>1. failed[c] \in 0 .. fails /\ fails \in 0 .. MaxFails /\ MaxFails \in Nat
            BY <1>2, BoundsOK DEF TypeOK
        <3>2. failed[c] \in 0 .. MaxFails
            BY <3>1
        <3> QED
            BY <1>2, <3>1, <3>2 DEF TypeOK, MaxUnpaid
    <2>2. sem[c] # NoObject /\ ClientInv(c)
        BY DEF IInv, ClientInv, ClientInside, ClientOpen
    <2> QED
        BY <1>1, <2>1, <2>2
<1>4. /\ pc' \in [Proc -> Places] /\ pc'[c] = place /\ \A q \in Proc \ {c} : pc'[q] = pc[q]
    BY <1>2 DEF TypeOK, Places
<1>5. /\ \A o \in 1 .. sems : Balanced(o)'
      /\ value' \in [Object -> Nat] /\ holds' = holds \ {c}
      /\ unpaid' \in [Proc -> 0 .. MaxUnpaid]
      /\ \A q \in Proc \ {c} : unpaid'[q] = unpaid[q]
      /\ unpaid'[c] = IF c \in holds THEN unpaid[c] ELSE unpaid[c] + 1
    BY <1>2, <1>3, OpenSemaphore, ReleaseBalances DEF IInv
<1>6. TypeOK'
    BY <1>2, <1>4, <1>5 DEF TypeOK, names, memory
<1>7. OnlyFor(c)
    BY <1>2, <1>4, <1>5 DEF OnlyFor, memory
<1>8. ClientInv(c)'
    <2>1. unpaid'[c] <= failed[c]
        <3>1. unpaid[c] \in Nat /\ failed[c] \in Nat
            BY <1>2, FiniteSlots DEF TypeOK
        <3> QED
            BY <1>1, <1>5, <3>1
    <2> QED
        BY <1>2, <1>3, <1>4, <1>5, <2>1 DEF ClientInv, ClientPlaces, ClientInside, ClientOpen, memory
<1>9. ObjectsCounted'
    BY <1>2, <1>4, CountKeeps DEF names
<1>10. NamesHaveServers'
    BY <1>2, <1>4, NamesKeep DEF names
<1> QED
    BY <1>2, <1>5, <1>6, <1>7, <1>8, <1>9, <1>10, Parts DEF names

LEMMA PostKeeps == ASSUME IInv, NEW c \in Clients, Post(c) PROVE IInv'
BY ClientReleases, PostFails DEF Post, Goto

(***************************************************************************)
(* SIGINT and death.                                                       *)
(***************************************************************************)
LEMMA InterruptKeeps == ASSUME IInv, NEW s \in Servers, Interrupt(s) PROVE IInv'
<1>1. /\ signum' = signum \cup {s} /\ s \in Proc /\ s \notin Clients /\ TypeOK
      /\ UNCHANGED <<pc, names, value, memory, sem, shm, holds, unpaid, fails, failed, wrote, crashes>>
    BY RolesOfProc DEF Interrupt, failures, IInv
<1>2. TypeOK'
    BY <1>1 DEF TypeOK, names, memory
<1>3. OnlyFor(s)
    BY <1>1 DEF OnlyFor, memory
<1>4. ServerInv(s)'
    <2>1. unpaid[s] <= IF s \in signum' THEN 2 ELSE 1
        BY <1>1, SigintOnlyRaises
    <2> QED
        BY <1>1, <2>1 DEF IInv, ServerInv
<1>5. ObjectsCounted'
    BY <1>1 DEF IInv, ObjectsCounted, PastSem, PastShm, names
<1>6. NamesHaveServers'
    BY <1>1 DEF IInv, NamesHaveServers, names
<1>7. \A o \in 1 .. sems' : Balanced(o)'
    BY <1>1, SumStays DEF IInv, names
<1> QED
    BY <1>1, <1>2, <1>3, <1>4, <1>5, <1>6, <1>7, Parts

LEMMA CrashKeeps == ASSUME IInv, NEW p \in Proc, Crash(p) PROVE IInv'
<1>1. /\ pc[p] \notin {"start", "done", "killed"} /\ pc' = [pc EXCEPT ![p] = "killed"] /\ TypeOK
      /\ crashes < MaxCrashes /\ crashes' = crashes + 1
      /\ UNCHANGED <<names, value, memory, sem, shm, holds, unpaid, fails, failed, wrote, signum>>
    BY DEF Crash, Goto, IInv, failures
<1>2. /\ pc' \in [Proc -> Places] /\ pc'[p] = "killed" /\ \A q \in Proc \ {p} : pc'[q] = pc[q]
    BY <1>1 DEF TypeOK, Places
<1>3. crashes' \in 0 .. MaxCrashes
    BY <1>1, BoundsOK DEF TypeOK
<1>4. TypeOK'
    BY <1>1, <1>2, <1>3 DEF TypeOK, names, memory
<1>5. OnlyFor(p)
    BY <1>1, <1>2 DEF OnlyFor, memory
<1>6. ASSUME p \in Servers
      PROVE  ServerInv(p)'
    BY <1>1, <1>2, <1>6 DEF IInv, ServerInv, ServerPlaces, ServerInside, ServerEnded, ServerStarts, ServerOpen
<1>7. ASSUME p \in Clients
      PROVE  ClientInv(p)'
    BY <1>1, <1>2, <1>7 DEF IInv, ClientInv, ClientPlaces, ClientInside, ClientOpen
<1>8. ObjectsCounted'
    BY <1>1, <1>2, CountKeeps DEF names
<1>9. NamesHaveServers'
    BY <1>1, <1>2, NamesKeep DEF names
<1>10. \A o \in 1 .. sems' : Balanced(o)'
    BY <1>1, SumStays DEF IInv, names
<1> QED
    BY <1>4, <1>5, <1>6, <1>7, <1>8, <1>9, <1>10, Parts

(***************************************************************************)
(* The invariant.                                                          *)
(***************************************************************************)
LEMMA InitIInv == Init => IInv
<1> SUFFICES ASSUME Init
             PROVE  IInv
    OBVIOUS
<1>1. /\ pc = [p \in Proc |-> "start"] /\ sem_name = NoObject /\ shm_name = NoObject
      /\ sems = 0 /\ shms = 0 /\ value = [o \in Object |-> 0]
      /\ sized = {} /\ first = {} /\ rest = {}
      /\ sem = [p \in Proc |-> NoObject] /\ shm = [p \in Proc |-> NoObject]
      /\ holds = {} /\ unpaid = [p \in Proc |-> 0]
      /\ fails = 0 /\ failed = [c \in Clients |-> 0] /\ wrote = {} /\ signum = {} /\ crashes = 0
    BY DEF Init
<1>2. /\ 0 \in 0 .. MaxObject /\ NoObject \in 0 .. 0 /\ 0 \in 0 .. MaxUnpaid
      /\ 0 \in 0 .. MaxFails /\ 0 \in 0 .. 0 /\ 0 \in 0 .. MaxCrashes
    BY FiniteSets, FiniteSlots, BoundsOK DEF NoObject
<1>3. TypeOK
    BY <1>1, <1>2 DEF TypeOK, Places
<1>4. \A s \in Servers : ServerInv(s)
    <2> SUFFICES ASSUME NEW s \in Servers
                 PROVE  ServerInv(s)
        OBVIOUS
    <2>1. pc[s] = "start" /\ unpaid[s] = 0 /\ sem[s] = NoObject /\ s \notin holds
        BY <1>1, RolesOfProc
    <2>2. unpaid[s] <= IF s \in signum THEN 2 ELSE 1
        BY <2>1
    <2> QED
        BY <2>1, <2>2 DEF ServerInv, ServerPlaces, ServerInside, ServerEnded, ServerStarts, ServerOpen
<1>5. \A c \in Clients : ClientInv(c)
    <2>1. \A c \in Clients : unpaid[c] = 0 /\ unpaid[c] <= failed[c]
        BY <1>1, RolesOfProc
    <2> QED
        BY <1>1, <2>1, RolesOfProc DEF ClientInv, ClientPlaces, ClientInside, ClientOpen
<1>6. ObjectsCounted
    <2>1. PastSem \in SUBSET Servers /\ PastShm \in SUBSET Servers
        BY DEF PastSem, PastShm
    <2>2. \A n \in 0 .. MaxObject : 0 <= n
        OBVIOUS
    <2> QED
        BY <1>1, <2>1, <2>2, FiniteSets DEF ObjectsCounted
<1>7. \A o \in 1 .. sems : Balanced(o)
    BY <1>1
<1>8. NamesHaveServers
    BY <1>1 DEF NamesHaveServers
<1> QED
    BY <1>3, <1>4, <1>5, <1>6, <1>7, <1>8 DEF IInv

LEMMA StutterKeeps == ASSUME IInv, UNCHANGED vars PROVE IInv'
<1>1. UNCHANGED <<pc, sem_name, shm_name, sems, shms, value, sized, first, rest, sem, shm, holds,
                  unpaid, fails, failed, wrote, signum, crashes>>
    BY DEF vars, names, memory, failures
<1>2. TypeOK'
    BY <1>1 DEF IInv, TypeOK
<1>3. (\A s \in Servers : ServerInv(s)') /\ (\A c \in Clients : ClientInv(c)')
    BY <1>1 DEF IInv, ServerInv, ClientInv
<1>4. ObjectsCounted' /\ NamesHaveServers'
    BY <1>1 DEF IInv, ObjectsCounted, PastSem, PastShm, NamesHaveServers
<1>5. \A o \in 1 .. sems' : Balanced(o)'
    BY <1>1, SumStays DEF IInv
<1> QED
    BY <1>2, <1>3, <1>4, <1>5 DEF IInv

LEMMA NextKeeps == ASSUME IInv, [Next]_vars PROVE IInv'
<1>1. ASSUME NEW s \in Servers, ServerStep(s)
      PROVE  IInv'
    BY <1>1, CreateSemKeeps, CreateShmKeeps, SizeShmKeeps, MapShmServerKeeps, ReleaseFirstKeeps,
       ReleaseLockKeeps, CheckSignalKeeps, LockKeeps, ReadKeeps, ClearKeeps, DeleteShmKeeps, RemoveSemKeeps
    DEF ServerStep
<1>2. ASSUME NEW c \in Clients, ClientStep(c)
      PROVE  IInv'
    BY <1>2, OpenSemKeeps, OpenShmKeeps, MapShmClientKeeps, WaitKeeps, CheckKeeps, WriteFirstKeeps,
       WriteRestKeeps, PostKeeps
    DEF ClientStep
<1> QED
    BY <1>1, <1>2, InterruptKeeps, CrashKeeps, StutterKeeps DEF Next

THEOREM Invariant == Spec => []IInv
<1>1. Init => IInv
    BY InitIInv
<1>2. IInv /\ [Next]_vars => IInv'
    BY NextKeeps
<1> QED
    BY <1>1, <1>2, PTL DEF Spec

\* The types: among others there are objects enough, and no process releases a
\* semaphore unpaid more than twice, but for a client whose sem_wait() failed so
\* often.
THEOREM TypeCorrect == Spec => []TypeOK
<1>1. IInv => TypeOK
    BY DEF IInv
<1> QED
    BY <1>1, Invariant, PTL

\* The value of every semaphore, removed or not, is accounted for.
THEOREM ReleasesAreCounted == Spec => []NoReleaseLost
<1>1. IInv => NoReleaseLost
    <2> SUFFICES ASSUME IInv, NEW o \in 1 .. sems, NEW p \in Users(o)
                 PROVE  UnpaidExplained(p)
        BY DEF NoReleaseLost, IInv
    <2>1. p \in Proc
        BY DEF Users
    <2>2. CASE p \in Servers
        BY <2>2, RolesOfProc DEF IInv, ServerInv, UnpaidExplained
    <2>3. CASE p \in Clients
        BY <2>3 DEF IInv, ClientInv, UnpaidExplained
    <2> QED
        BY <2>1, <2>2, <2>3, RolesOfProc
<1> QED
    BY <1>1, Invariant, PTL

\* The servers that have ended leave no name, unless one was killed.
THEOREM NamesAreRemoved == Spec => []NoNameLeft
<1>1. IInv => NoNameLeft
    BY DEF IInv, NamesHaveServers, NoNameLeft
<1> QED
    BY <1>1, Invariant, PTL

--------------------------------------------------------------------------------
(***************************************************************************)
(* MappedFile, for any number and size of pages, lengths of the file and   *)
(* number of writes and kills: the child prints what the parent read, and  *)
(* a region that is unmapped takes its own pages.                          *)
(***************************************************************************)
CONSTANTS Members, Region, NumPages, PageLen, HeaderLen, SizeLen, SemLen, Lengths,
          MaxWrites, MaxKills
VARIABLES mapped, region, program, at, file, size, file_cont, mem, units, queue, blocked,
          printed, writes, kills

M == INSTANCE MappedFile WITH Proc <- Members, pc <- at, value <- units

\* What MappedRegion and MappedFile assume of their constants.
MemoryConstants ==
    /\ NumPages \in Nat
    /\ {PageLen, HeaderLen, SizeLen} \subseteq Nat \ {0}
    /\ HeaderLen + SizeLen <= PageLen
    /\ SemLen \in Nat \ {0} /\ HeaderLen + SemLen <= PageLen
    /\ Lengths \subseteq Nat
    /\ Members = {"parent", "child"} /\ Region = {"map_sem", "map_file"}

(***************************************************************************)
(* Pages.                                                                  *)
(***************************************************************************)
\* A page ends where the next one starts, or before.
LEMMA PageEnds ==
    ASSUME NEW z \in Nat, NEW j \in Nat, NEW k \in Nat, j < k
    PROVE  j * z + z <= k * z
<1>1. PICK d \in Nat : k = j + 1 + d
  <2>1. k - j - 1 \in Nat /\ k = j + 1 + (k - j - 1)
    OBVIOUS
  <2> QED
    BY <2>1
<1>2. (j + 1 + d) * z = j * z + z + d * z
  OBVIOUS
<1>3. d * z \in Nat
  OBVIOUS
<1>4. j * z \in Nat
  OBVIOUS
<1> QED
  BY <1>1, <1>2, <1>3, <1>4

\* No more than a page from the start of a page is that page.
LEMMA OnePage ==
    ASSUME MemoryConstants, NEW k \in M!Page, NEW n \in Nat, 0 < n, n <= PageLen
    PROVE  M!PagesOf(k * PageLen, n) = {k}
<1>1. PageLen \in Nat /\ k \in Nat /\ k * PageLen \in Nat /\ PageLen > 0
  BY DEF MemoryConstants, M!Page
<1>2. (k + 1) * PageLen = k * PageLen + PageLen
  BY <1>1
<1>3. k \in M!PagesOf(k * PageLen, n)
  BY <1>1, <1>2 DEF M!PagesOf
<1>4. ASSUME NEW j \in M!PagesOf(k * PageLen, n) PROVE j = k
  <2>1. /\ j \in Nat /\ j * PageLen \in Nat
        /\ j * PageLen < k * PageLen + n /\ k * PageLen < (j + 1) * PageLen
    BY <1>1 DEF M!PagesOf, M!Page, MemoryConstants
  <2>2. (j + 1) * PageLen = j * PageLen + PageLen
    BY <1>1, <2>1
  <2>3. ~(j < k)
    <3> SUFFICES ASSUME j < k PROVE FALSE
      OBVIOUS
    <3>1. j * PageLen + PageLen <= k * PageLen
      BY <1>1, <2>1, PageEnds
    <3> QED
      BY <1>1, <2>1, <2>2, <3>1
  <2>4. ~(k < j)
    <3> SUFFICES ASSUME k < j PROVE FALSE
      OBVIOUS
    <3>1. k * PageLen + PageLen <= j * PageLen
      BY <1>1, <2>1, PageEnds
    <3> QED
      BY <1>1, <2>1, <3>1
  <2> QED
    BY <1>1, <2>1, <2>3, <2>4
<1> QED
  BY <1>3, <1>4

\* What the file's region is: its cells are memory, if a struct fits its page.
LEMMA FileCells ==
    ASSUME MemoryConstants, M!TypeOK, NEW p \in Members, M!Shapes(p), ~M!TooLong,
           region[p][M!file_map] # M!NoRegion
    PROVE  LET m == region[p][M!file_map]
           IN /\ m.addr \in Nat
              /\ m.length = IF program = "struct" THEN size ELSE size + 1
              /\ m.addr + m.length <= M!NumCells
<1> DEFINE m == region[p][M!file_map]
<1>0. /\ {NumPages, PageLen, HeaderLen, size} \subseteq Nat /\ M!NumCells = NumPages * PageLen
      /\ M!NumCells \in Nat
  BY DEF MemoryConstants, M!TypeOK, M!NumCells
<1>1. CASE program = "struct"
  <2>1. PICK k \in M!Page : m = [addr |-> k * PageLen + HeaderLen, length |-> size,
                                 own |-> M!PagesOf(k * PageLen, SizeLen)]
    BY <1>1 DEF M!Shapes, M!StructAt
  <2>2. HeaderLen + size <= PageLen
    BY <1>0, <1>1 DEF M!TooLong
  <2>3. k \in Nat /\ k < NumPages /\ k * PageLen \in Nat
    BY <1>0 DEF M!Page
  <2>4. k * PageLen + PageLen <= M!NumCells
    BY <1>0, <2>3, PageEnds
  <2>5. m.addr = k * PageLen + HeaderLen /\ m.length = size
    BY <2>1
  <2> QED
    BY <1>0, <1>1, <2>2, <2>3, <2>4, <2>5
<1>2. CASE program # "struct"
  <2>1. PICK k \in M!Page : /\ m = [addr |-> k * PageLen, length |-> size + 1,
                                    own |-> M!PagesOf(k * PageLen, size + 1)]
                            /\ k * PageLen + (size + 1) <= M!NumCells
    BY <1>2 DEF M!Shapes, M!StringAt
  <2>2. k * PageLen \in Nat
    BY <1>0 DEF M!Page
  <2>3. m.addr = k * PageLen /\ m.length = size + 1
    BY <2>1
  <2> QED
    BY <1>0, <1>2, <2>1, <2>2, <2>3
<1> QED
  BY <1>1, <1>2

(***************************************************************************)
(* The steps.                                                              *)
(***************************************************************************)
\* The types of what is mapped.
MapTypes ==
    /\ mapped \in [Members -> SUBSET M!Page]
    /\ region \in [Members -> [Region -> [addr : Int, length : Nat, own : SUBSET M!Page]]]

\* Mapping and unmapping keep the types.
LEMMA GetsTypes ==
    ASSUME MapTypes, NEW p \in Members, NEW r \in Region, NEW a \in Int, NEW n \in Nat, NEW k,
           NEW z, M!Gets(p, r, a, n, k, z)
    PROVE  MapTypes'
<1>1. M!PagesOf(k * PageLen, z) \subseteq M!Page
  BY DEF M!PagesOf
<1>2. mapped' \in [Members -> SUBSET M!Page]
  BY <1>1 DEF MapTypes, M!Gets, M!Mmap
<1>3. PICK m \in [addr : Int, length : Nat, own : SUBSET M!Page] :
          region' = [region EXCEPT ![p][r] = m]
  BY <1>1 DEF M!Gets
<1> QED
  BY <1>2, <1>3 DEF MapTypes

\* So does unmapping.
LEMMA MunmapTypes ==
    ASSUME MapTypes, NEW p \in Members, NEW r \in Region, NEW a, NEW n, M!Munmap(p, r, a, n)
    PROVE  MapTypes'
<1>1. mapped' \in [Members -> SUBSET M!Page]
  BY DEF MapTypes, M!Munmap
<1>2. M!NoRegion \in [addr : Int, length : Nat, own : SUBSET M!Page]
  BY DEF M!NoRegion, M!NULL
<1>3. region' = [region EXCEPT ![p][r] = M!NoRegion]
  BY DEF M!Munmap
<1> QED
  BY <1>1, <1>2, <1>3 DEF MapTypes

\* map_skid_struct() maps a struct.
LEMMA StructMapped ==
    ASSUME MemoryConstants, MapTypes, NEW r \in Region, NEW n \in Nat,
           M!MapStruct(M!parent, r, n)
    PROVE  /\ MapTypes'
           /\ \E m : /\ region' = [region EXCEPT ![M!parent][r] = m]
                     /\ m # M!NoRegion /\ M!StructAt(m, n)
<1>1. PICK k \in M!Page : M!Gets(M!parent, r, k * PageLen + HeaderLen, n, k, SizeLen)
  BY DEF M!MapStruct, M!StructSize
<1>2. M!parent \in Members /\ k * PageLen + HeaderLen \in Nat
  BY DEF MemoryConstants, M!parent, M!Page
<1>3. PICK m : m = [addr |-> k * PageLen + HeaderLen, length |-> n,
                    own |-> M!PagesOf(k * PageLen, SizeLen)]
  OBVIOUS
<1>4. region' = [region EXCEPT ![M!parent][r] = m] /\ M!StructAt(m, n)
  BY <1>1, <1>3 DEF M!Gets, M!StructAt
<1>5. m # M!NoRegion
  BY <1>2, <1>3 DEF M!NoRegion, M!NULL
<1>6. MapTypes'
  <2>1. PICK a \in Int : a = k * PageLen + HeaderLen
    BY <1>2
  <2> QED
    BY <1>1, <1>2, <2>1, GetsTypes
<1> QED
  BY <1>4, <1>5, <1>6

\* map_skid_mem() maps cells, a string's here.
LEMMA StringMapped ==
    ASSUME MemoryConstants, MapTypes, NEW r \in Region, NEW n \in Nat,
           M!MapMem(M!parent, r, n)
    PROVE  /\ MapTypes'
           /\ \E m : /\ region' = [region EXCEPT ![M!parent][r] = m]
                     /\ m # M!NoRegion /\ M!StringAt(m, n)
<1>1. PICK k \in M!Page : M!Gets(M!parent, r, k * PageLen, n, k, n)
  BY DEF M!MapMem
<1>2. M!parent \in Members /\ k * PageLen \in Nat
  BY DEF MemoryConstants, M!parent, M!Page
<1>3. PICK m : m = [addr |-> k * PageLen, length |-> n, own |-> M!PagesOf(k * PageLen, n)]
  OBVIOUS
<1>4. region' = [region EXCEPT ![M!parent][r] = m] /\ M!StringAt(m, n)
  BY <1>1, <1>3 DEF M!Gets, M!Mmap, M!StringAt
<1>5. m # M!NoRegion
  BY <1>2, <1>3 DEF M!NoRegion, M!NULL
<1>6. MapTypes'
  <2>1. PICK a \in Int : a = k * PageLen
    BY <1>2
  <2> QED
    BY <1>1, <1>2, <2>1, GetsTypes
<1> QED
  BY <1>4, <1>5, <1>6

\* What a process has mapped is left alone by all but the steps that map, fork
\* and unmap.
LEMMA MappingsKept ==
    ASSUME \/ M!Sizes \/ M!Reads \/ M!Copies \/ M!Posts \/ M!PostFails \/ M!WaitsForChild
           \/ M!Unblocks \/ M!Handles \/ M!Obtains \/ M!Prints \/ M!PrintFails
           \/ M!SomebodyWrites \/ \E p \in Members : M!IsKilled(p)
    PROVE  UNCHANGED <<mapped, region>>
  BY DEF M!Sizes, M!Reads, M!Copies, M!Posts, M!PostFails, M!WaitsForChild, M!Unblocks, M!Handles,
         M!Obtains, M!Prints, M!PrintFails, M!SomebodyWrites, M!IsKilled, M!mappings

\* The types of what is mapped.
LEMMA MapTypesStep ==
    ASSUME MemoryConstants, M!TypeOK, M!Next
    PROVE  MapTypes'
<1>1. MapTypes /\ M!parent \in Members /\ M!child \in Members
      /\ M!sem \in Region /\ M!file_map \in Region
  BY DEF M!TypeOK, MapTypes, MemoryConstants, M!parent, M!child, M!sem, M!file_map
<1>2. SemLen \in Nat /\ size \in Nat /\ size + 1 \in Nat
  BY DEF MemoryConstants, M!TypeOK
<1>3. CASE UNCHANGED <<mapped, region>>
  BY <1>1, <1>3 DEF MapTypes
<1>4. CASE M!MapsSem
  BY <1>1, <1>2, <1>3, <1>4, StructMapped DEF M!MapsSem, M!mappings
<1>5. CASE M!MapsFile
  BY <1>1, <1>2, <1>3, <1>5, StructMapped, StringMapped DEF M!MapsFile, M!mappings
<1>6. CASE M!Forks
  <2>1. CASE M!Inherits(M!parent, M!child)
    BY <1>1, <2>1 DEF M!Inherits, MapTypes
  <2> QED
    BY <1>3, <1>6, <2>1 DEF M!Forks, M!mappings
<1>7. CASE M!Unmaps \/ M!ChildUnmaps
  BY <1>1, <1>7, MunmapTypes DEF M!Unmaps, M!ChildUnmaps, M!UnmapStruct, M!UnmapMem
<1> QED
  BY <1>3, <1>4, <1>5, <1>6, <1>7, MappingsKept DEF M!Next, M!ParentSteps, M!ChildSteps

\* A program stays what it is.
LEMMA ProgramKept == ASSUME M!Next PROVE program' = program
  BY DEF M!Next, M!ParentSteps, M!ChildSteps, M!MapsSem, M!MapsFile, M!Forks, M!Unmaps,
         M!ChildUnmaps, M!Sizes, M!Reads, M!Copies, M!Posts, M!PostFails, M!WaitsForChild,
         M!Unblocks, M!Handles, M!Obtains, M!Prints, M!PrintFails, M!SomebodyWrites, M!IsKilled

\* The other variables keep their types.
LEMMA MemTypesStep ==
    ASSUME MemoryConstants, M!TypeOK, M!Next
    PROVE  M!TypeOK'
<1> USE DEF M!mappings, M!text, M!release, M!bounds, M!Goes
<1>1. /\ program' = program
      /\ size' \in Nat /\ writes' \in Nat /\ kills' \in Nat
      /\ file' \in M!Text /\ file_cont' \in M!Text
  <2>1. size \in Nat /\ writes \in Nat /\ kills \in Nat /\ file \in M!Text /\ file_cont \in M!Text
    BY DEF M!TypeOK
  <2>2. file.len \in Nat /\ file.version + 1 \in Nat
    BY <2>1 DEF M!Text
  <2>3. program' = program /\ size' \in {size, file.len} /\ writes' \in {writes, writes + 1}
        /\ kills' \in {kills, kills + 1} /\ file_cont' \in {file_cont, file}
        /\ (file' = file \/ \E n \in Lengths : file' = [version |-> file.version + 1, len |-> n])
    BY DEF M!Next, M!ParentSteps, M!ChildSteps, M!MapsSem, M!MapsFile, M!Forks, M!Unmaps,
           M!ChildUnmaps, M!Sizes, M!Reads, M!Copies, M!Posts, M!PostFails, M!WaitsForChild,
           M!Unblocks, M!Handles, M!Obtains, M!Prints, M!PrintFails, M!SomebodyWrites, M!IsKilled
  <2>4. \A n \in Lengths : [version |-> file.version + 1, len |-> n] \in M!Text
    BY <2>2 DEF MemoryConstants, M!Text
  <2> QED
    BY <2>1, <2>2, <2>3, <2>4
<1>2. at' \in [Members -> M!BeforeCopy \cup {"none", "start", "print", "post", "wait", "unmap",
                                          "done", "killed"}]
  <2>1. \/ at' = at
        \/ \E p \in Members, z \in M!BeforeCopy \cup {"none", "start", "print", "post", "wait",
                                                   "unmap", "done", "killed"} :
              at' = [at EXCEPT ![p] = z]
        \/ at' = [parent |-> "read", child |-> "start"]
    <3>1. M!parent \in Members /\ M!child \in Members
      BY DEF MemoryConstants, M!parent, M!child
    <3>2. CASE M!ParentSteps
      BY <3>1, <3>2
      DEF M!ParentSteps, M!MapsSem, M!MapsFile, M!Forks, M!Unmaps, M!Sizes, M!Reads, M!Copies,
          M!Posts, M!PostFails, M!WaitsForChild, M!AfterCopy, M!BeforeCopy, M!BeforeFork
    <3>3. CASE M!ChildSteps \/ M!SomebodyWrites \/ \E p \in Members : M!IsKilled(p)
      BY <3>1, <3>3
      DEF M!ChildSteps, M!ChildUnmaps, M!Unblocks, M!Handles, M!Obtains, M!Prints, M!PrintFails,
          M!SomebodyWrites, M!IsKilled
    <3> QED
      BY <3>2, <3>3 DEF M!Next
  <2>2. CASE at' = [parent |-> "read", child |-> "start"]
    BY <2>2 DEF MemoryConstants, M!BeforeCopy
  <2> QED
    BY <2>1, <2>2 DEF M!TypeOK
<1>3. DOMAIN mem' = 0 .. M!NumCells - 1
  <2>1. mem' = mem \/ DOMAIN mem' = DOMAIN mem
    BY DEF M!Next, M!ParentSteps, M!ChildSteps, M!MapsSem, M!MapsFile, M!Forks, M!Unmaps,
           M!ChildUnmaps, M!Sizes, M!Reads, M!Copies, M!Posts, M!PostFails, M!WaitsForChild,
           M!Unblocks, M!Handles, M!Obtains, M!Prints, M!PrintFails, M!SomebodyWrites, M!IsKilled
  <2> QED
    BY <2>1 DEF M!TypeOK
<1>4. units' \in {0, 1} /\ queue' \in {"none", "pending", "handled"} /\ blocked' \in BOOLEAN
  <2>1. units' \in {units, 0, 1} /\ queue' \in {queue, "pending", "handled"}
    BY DEF M!Next, M!ParentSteps, M!ChildSteps, M!MapsSem, M!MapsFile, M!Forks, M!Unmaps,
           M!ChildUnmaps, M!Sizes, M!Reads, M!Copies, M!Posts, M!PostFails, M!WaitsForChild,
           M!Unblocks, M!Handles, M!Obtains, M!Prints, M!PrintFails, M!SomebodyWrites, M!IsKilled
  <2>2. blocked' = blocked \/ blocked' = (program = "struct")
    BY DEF M!Next, M!ParentSteps, M!ChildSteps, M!MapsSem, M!MapsFile, M!Forks, M!Unmaps,
           M!ChildUnmaps, M!Sizes, M!Reads, M!Copies, M!Posts, M!PostFails, M!WaitsForChild,
           M!Unblocks, M!Handles, M!Obtains, M!Prints, M!PrintFails, M!SomebodyWrites, M!IsKilled
  <2> QED
    BY <2>1, <2>2 DEF M!TypeOK
<1>5. MapTypes'
  BY MapTypesStep
<1> QED
  BY <1>1, <1>2, <1>3, <1>4, <1>5 DEF M!TypeOK, MapTypes

\* The names of the processes and of the regions.
LEMMA MemNames ==
    ASSUME MemoryConstants
    PROVE  /\ Members = {M!parent, M!child} /\ M!parent # M!child
           /\ Region = {M!sem, M!file_map} /\ M!sem # M!file_map
           /\ SizeLen \in Nat /\ SemLen \in Nat
  BY DEF MemoryConstants, M!parent, M!child, M!sem, M!file_map

\* Where a process may go while the regions stay as they are.
ParentMoves(z) ==
    /\ at' = [at EXCEPT ![M!parent] = z]
    /\ \/ z \in {"done", "killed", "unmap"}
       \/ at[M!parent] = "size" /\ z = "map file"
       \/ at[M!parent] = "read" /\ z = "copy"
       \/ at[M!parent] = "copy" /\ z = "post"
       \/ at[M!parent] = "post" /\ z = "wait"
ChildMoves(z) ==
    /\ at' = [at EXCEPT ![M!child] = z]
    /\ at[M!child] # "none"
    /\ \/ z \in {"done", "killed"}
       \/ at[M!child] = "start" /\ z = "wait"
       \/ at[M!child] = "wait" /\ z = "print"
       \/ at[M!child] = "print" /\ z = "unmap" /\ program = "struct"

\* What becomes of the regions: kept, mapped, inherited or unmapped.
KeepsRegions ==
    /\ UNCHANGED region
    /\ size' = size \/ at[M!parent] = "size"
    /\ at' = at \/ (\E z : ParentMoves(z)) \/ (\E z : ChildMoves(z))
MapsRegion(r, m) ==
    /\ region' = [region EXCEPT ![M!parent][r] = m] /\ m # M!NoRegion
    /\ size' = size /\ at'[M!child] = at[M!child]
    /\ \/ /\ r = M!sem /\ M!StructAt(m, SemLen)
          /\ at[M!parent] = "map sem" /\ at'[M!parent] = "size"
       \/ /\ r = M!file_map
          /\ IF program = "struct" THEN M!StructAt(m, size) ELSE M!StringAt(m, size + 1)
          /\ at[M!parent] = "map file" /\ at'[M!parent] = "fork"
InheritsRegions ==
    /\ region' = [region EXCEPT ![M!child] = region[M!parent]]
    /\ size' = size
    /\ at[M!parent] = "fork" /\ at'[M!parent] = "read" /\ at'[M!child] = "start"
UnmapsRegion(p, r) ==
    /\ region' = [region EXCEPT ![p][r] = M!NoRegion]
    /\ size' = size
    /\ at[p] = "unmap" /\ at' = [at EXCEPT ![p] = "done"]

\* Every step does one of these.
LEMMA RegionSteps ==
    ASSUME MemoryConstants, M!TypeOK, M!Next
    PROVE  \/ KeepsRegions
           \/ \E r \in Region : \E m : MapsRegion(r, m)
           \/ InheritsRegions
           \/ \E p \in Members, r \in Region : UnmapsRegion(p, r)
<1> USE DEF M!mappings, M!text, M!Goes
<1>0. /\ MapTypes /\ size \in Nat /\ size + 1 \in Nat
      /\ at \in [Members -> M!BeforeCopy \cup {"none", "start", "print", "post", "wait", "unmap",
                                            "done", "killed"}]
  BY DEF M!TypeOK, MapTypes
<1>1. CASE M!MapsSem
  <2>1. CASE UNCHANGED region /\ M!Goes(M!parent, "done")
    BY <1>1, <2>1 DEF M!MapsSem, KeepsRegions, ParentMoves
  <2>2. CASE M!MapStruct(M!parent, M!sem, SemLen) /\ M!Goes(M!parent, "size")
    <3>1. PICK m : /\ region' = [region EXCEPT ![M!parent][M!sem] = m]
                   /\ m # M!NoRegion /\ M!StructAt(m, SemLen)
      BY <1>0, <2>2, StructMapped, MemNames
    <3>2. /\ size' = size /\ at[M!parent] = "map sem" /\ at'[M!parent] = "size"
          /\ at'[M!child] = at[M!child]
      BY <1>0, <1>1, <2>2, MemNames DEF M!MapsSem
    <3> QED
      BY <3>1, <3>2, MemNames DEF MapsRegion
  <2> QED
    BY <1>1, <2>1, <2>2 DEF M!MapsSem
<1>2. CASE M!MapsFile
  <2>1. CASE UNCHANGED region /\ M!Goes(M!parent, "done")
    BY <1>2, <2>1 DEF M!MapsFile, KeepsRegions, ParentMoves
  <2>2. CASE /\ IF program = "struct" THEN M!MapStruct(M!parent, M!file_map, size)
                                      ELSE M!MapMem(M!parent, M!file_map, size + 1)
             /\ M!Goes(M!parent, "fork")
    <3>1. PICK m : /\ region' = [region EXCEPT ![M!parent][M!file_map] = m]
                   /\ m # M!NoRegion
                   /\ IF program = "struct" THEN M!StructAt(m, size) ELSE M!StringAt(m, size + 1)
      BY <1>0, <2>2, StructMapped, StringMapped, MemNames
    <3>2. /\ size' = size /\ at[M!parent] = "map file" /\ at'[M!parent] = "fork"
          /\ at'[M!child] = at[M!child]
      BY <1>0, <1>2, <2>2, MemNames DEF M!MapsFile
    <3> QED
      BY <3>1, <3>2, MemNames DEF MapsRegion
  <2> QED
    BY <1>2, <2>1, <2>2 DEF M!MapsFile
<1>3. CASE M!Forks
  <2>1. CASE UNCHANGED region /\ M!Goes(M!parent, "done")
    BY <1>3, <2>1 DEF M!Forks, KeepsRegions, ParentMoves
  <2>2. CASE M!Inherits(M!parent, M!child) /\ at' = [parent |-> "read", child |-> "start"]
    BY <1>3, <2>2 DEF M!Forks, M!Inherits, InheritsRegions, M!parent, M!child
  <2> QED
    BY <1>3, <2>1, <2>2 DEF M!Forks
<1>4. CASE M!Unmaps
  <2>1. PICK r \in Region : region' = [region EXCEPT ![M!parent][r] = M!NoRegion]
    BY <1>4, MemNames DEF M!Unmaps, M!UnmapStruct, M!UnmapMem, M!Munmap
  <2> QED
    BY <1>4, <2>1, MemNames DEF M!Unmaps, UnmapsRegion
<1>5. CASE M!ChildUnmaps
  <2>1. PICK r \in Region : region' = [region EXCEPT ![M!child][r] = M!NoRegion]
    BY <1>5, MemNames DEF M!ChildUnmaps, M!UnmapStruct, M!Munmap
  <2> QED
    BY <1>5, <2>1, MemNames DEF M!ChildUnmaps, UnmapsRegion
<1>6. CASE \/ M!Sizes \/ M!Reads \/ M!Copies \/ M!Posts \/ M!PostFails \/ M!WaitsForChild
           \/ M!Unblocks \/ M!Handles \/ M!Obtains \/ M!Prints \/ M!PrintFails
           \/ M!SomebodyWrites \/ \E p \in Members : M!IsKilled(p)
  <2>1. region' = region
    BY <1>6, MappingsKept
  <2>2. size' = size \/ at[M!parent] = "size"
    BY <1>6 DEF M!Sizes, M!Reads, M!Copies, M!Posts, M!PostFails, M!WaitsForChild, M!Unblocks,
                M!Handles, M!Obtains, M!Prints, M!PrintFails, M!SomebodyWrites, M!IsKilled
  <2>3. CASE M!Sizes \/ M!Reads \/ M!Copies \/ M!Posts \/ M!PostFails \/ M!WaitsForChild
    <3>1. \E z : ParentMoves(z)
      BY <2>3 DEF M!Sizes, M!Reads, M!Copies, M!Posts, M!PostFails, M!WaitsForChild,
                  M!AfterCopy, ParentMoves
    <3> QED
      BY <2>1, <2>2, <3>1 DEF KeepsRegions
  <2>4. CASE M!Unblocks \/ M!Obtains \/ M!Prints \/ M!PrintFails
    <3>1. \E z : ChildMoves(z)
      BY <2>4 DEF M!Unblocks, M!Obtains, M!Prints, M!PrintFails, ChildMoves
    <3> QED
      BY <2>1, <2>2, <3>1 DEF KeepsRegions
  <2>5. CASE M!Handles \/ M!SomebodyWrites
    BY <2>1, <2>2, <2>5 DEF M!Handles, M!SomebodyWrites, KeepsRegions
  <2>6. ASSUME NEW p \in Members, M!IsKilled(p) PROVE ParentMoves("killed") \/ ChildMoves("killed")
    BY <2>6, MemNames DEF M!IsKilled, ParentMoves, ChildMoves
  <2> QED
    BY <1>6, <2>1, <2>2, <2>3, <2>4, <2>5, <2>6 DEF KeepsRegions
<1> QED
  BY <1>1, <1>2, <1>3, <1>4, <1>5, <1>6 DEF M!Next, M!ParentSteps, M!ChildSteps

\* The regions stay where they are until they are unmapped.
LEMMA ShapesStep ==
    ASSUME MemoryConstants, M!TypeOK, M!Places, \A p \in Members : M!Shapes(p), M!Next,
           NEW p \in Members
    PROVE  M!Shapes(p)'
<1>0. /\ region \in [Members -> [Region -> [addr : Int, length : Nat, own : SUBSET M!Page]]]
      /\ program' = program
  BY MemTypesStep, ProgramKept DEF M!TypeOK
<1>1. ASSUME size' = size, \A r \in Region : region'[p][r] \in {region[p][r], M!NoRegion}
      PROVE  M!Shapes(p)'
  BY <1>0, <1>1, MemNames DEF M!Shapes
<1>2. CASE KeepsRegions
  <2>1. CASE at[M!parent] = "size"
    <3>1. region[p][M!file_map] = M!NoRegion
      BY <2>1, MemNames DEF M!Places, M!BeforeFork
    <3> QED
      BY <1>2, <3>1 DEF KeepsRegions, M!Shapes
  <2> QED
    BY <1>1, <1>2, <2>1 DEF KeepsRegions
<1>3. ASSUME NEW r \in Region, NEW m, MapsRegion(r, m) PROVE M!Shapes(p)'
  <2>1. CASE p # M!parent
    BY <1>0, <1>1, <1>3, <2>1 DEF MapsRegion
  <2>2. CASE p = M!parent
    <3>1. region'[p][r] = m /\ \A q \in Region : q # r => region'[p][q] = region[p][q]
      BY <1>0, <1>3, <2>2 DEF MapsRegion
    <3>2. CASE r = M!sem
      BY <1>0, <1>3, <3>1, <3>2, MemNames DEF MapsRegion, M!Shapes
    <3>3. CASE r = M!file_map
      BY <1>0, <1>3, <3>1, <3>3, MemNames DEF MapsRegion, M!Shapes
    <3> QED
      BY <3>2, <3>3, MemNames
  <2> QED
    BY <2>1, <2>2
<1>4. CASE InheritsRegions
  <2>1. region'[p] = region[p] \/ region'[p] = region[M!parent]
    BY <1>0, <1>4 DEF InheritsRegions
  <2> QED
    BY <1>0, <1>4, <2>1, MemNames DEF InheritsRegions, M!Shapes
<1>5. ASSUME NEW q \in Members, NEW r \in Region, UnmapsRegion(q, r) PROVE M!Shapes(p)'
  BY <1>0, <1>1, <1>5 DEF UnmapsRegion
<1> QED
  BY <1>2, <1>3, <1>4, <1>5, RegionSteps

\* What is mapped when.
LEMMA PlacesStep ==
    ASSUME MemoryConstants, M!TypeOK, M!Places, M!NotCopied, M!Next
    PROVE  M!Places'
<1>0. /\ region \in [Members -> [Region -> [addr : Int, length : Nat, own : SUBSET M!Page]]]
      /\ at \in [Members -> M!BeforeCopy \cup {"none", "start", "print", "post", "wait", "unmap",
                                            "done", "killed"}]
      /\ program' = program /\ M!parent \in Members /\ M!child \in Members /\ M!parent # M!child
      /\ Region = {M!sem, M!file_map} /\ M!sem # M!file_map
  BY ProgramKept, MemNames DEF M!TypeOK
<1> USE DEF M!BeforeFork
<1>1. CASE KeepsRegions
  <2>1. region' = region
    BY <1>1 DEF KeepsRegions
  <2>2. CASE at' = at
    BY <1>0, <2>1, <2>2 DEF M!Places
  <2>3. ASSUME NEW z, ParentMoves(z) PROVE M!Places'
    <3>1. at'[M!parent] = z /\ at'[M!child] = at[M!child]
      BY <1>0, <2>3 DEF ParentMoves
    <3> QED
      BY <1>0, <2>1, <2>3, <3>1 DEF ParentMoves, M!Places
  <2>4. ASSUME NEW z, ChildMoves(z) PROVE M!Places'
    <3>1. at'[M!child] = z /\ at'[M!parent] = at[M!parent]
      BY <1>0, <2>4 DEF ChildMoves
    <3> QED
      BY <1>0, <2>1, <2>4, <3>1 DEF ChildMoves, M!Places
  <2> QED
    BY <1>1, <2>2, <2>3, <2>4 DEF KeepsRegions
<1>2. ASSUME NEW r \in Region, NEW m, MapsRegion(r, m) PROVE M!Places'
  <2>1. /\ region'[M!parent][r] = m /\ region'[M!child] = region[M!child]
        /\ \A q \in Region : q # r => region'[M!parent][q] = region[M!parent][q]
    BY <1>0, <1>2 DEF MapsRegion
  <2>2. at'[M!child] = "none" /\ \A q \in Region : region[M!child][q] = M!NoRegion
    BY <1>2 DEF MapsRegion, M!Places
  <2>3. CASE r = M!sem
    <3>1. at'[M!parent] = "size" /\ region[M!parent][M!file_map] = M!NoRegion
      BY <1>0, <1>2, <2>3 DEF MapsRegion, M!Places
    <3> QED
      BY <1>0, <2>1, <2>2, <2>3, <3>1 DEF M!Places
  <2>4. CASE r = M!file_map
    <3>1. at'[M!parent] = "fork" /\ m # M!NoRegion
      BY <1>0, <1>2, <2>4 DEF MapsRegion
    <3> QED
      BY <1>0, <2>1, <2>2, <2>4, <3>1 DEF M!Places
  <2> QED
    BY <1>0, <2>3, <2>4
<1>3. CASE InheritsRegions
  <2>1. /\ region'[M!parent] = region[M!parent] /\ region'[M!child] = region[M!parent]
        /\ at'[M!parent] = "read" /\ at'[M!child] = "start"
    BY <1>0, <1>3 DEF InheritsRegions
  <2> QED
    BY <1>0, <1>3, <2>1 DEF InheritsRegions, M!Places
<1>4. ASSUME NEW p \in Members, NEW r \in Region, UnmapsRegion(p, r) PROVE M!Places'
  <2>1. /\ at'[p] = "done" /\ at[p] = "unmap"
        /\ \A q \in Members : q # p => at'[q] = at[q] /\ region'[q] = region[q]
    BY <1>0, <1>4 DEF UnmapsRegion
  <2>2. \A q \in Members, x \in Region : region'[q][x] \in {region[q][x], M!NoRegion}
    BY <1>0, <1>4 DEF UnmapsRegion
  <2>3. CASE p = M!parent
    BY <1>0, <2>1, <2>2, <2>3 DEF M!Places
  <2>4. CASE p = M!child
    <3>1. at[M!parent] \notin M!BeforeCopy
      BY <2>1, <2>4 DEF M!NotCopied
    <3> QED
      BY <1>0, <2>1, <2>2, <2>4, <3>1 DEF M!Places, M!BeforeCopy
  <2> QED
    BY <2>3, <2>4, MemNames
<1> QED
  BY <1>1, <1>2, <1>3, <1>4, RegionSteps

\* Before the copy nobody is told of it.
LEMMA NotCopiedStep ==
    ASSUME MemoryConstants, M!TypeOK, M!Places, M!NotCopied, M!Next
    PROVE  M!NotCopied'
<1> USE DEF M!BeforeCopy, M!BeforeFork, M!Goes, M!mappings, M!text, M!release, M!bounds
<1>0. /\ at \in [Members -> M!BeforeCopy \cup {"none", "start", "print", "post", "wait", "unmap",
                                            "done", "killed"}]
      /\ M!parent \in Members /\ M!child \in Members /\ M!parent # M!child
  BY MemNames DEF M!TypeOK
<1>1. SUFFICES ASSUME at'[M!parent] \in M!BeforeCopy PROVE M!NotCopied'
  BY DEF M!NotCopied
<1>2. ASSUME at[M!parent] \in M!BeforeCopy, UNCHANGED <<units, queue, printed, mem>>,
             at'[M!child] \in {"none", "start", "wait", "killed"}
      PROVE  M!NotCopied'
  BY <1>2 DEF M!NotCopied
<1>3. CASE M!MapsSem \/ M!Sizes \/ M!MapsFile \/ M!Reads
  BY <1>0, <1>2, <1>3 DEF M!MapsSem, M!Sizes, M!MapsFile, M!Reads, M!NotCopied
<1>4. CASE M!Forks
  <2>1. at[M!parent] = "fork" /\ at[M!child] = "none"
    BY <1>4 DEF M!Forks, M!Places
  <2>2. at'[M!child] \in {"none", "start"}
    <3>1. CASE at' = [parent |-> "read", child |-> "start"]
      BY <3>1 DEF M!child
    <3>2. CASE at' = [at EXCEPT ![M!parent] = "done"]
      BY <1>0, <2>1, <3>2
    <3> QED
      BY <1>4, <3>1, <3>2 DEF M!Forks
  <2> QED
    BY <1>2, <1>4, <2>1, <2>2 DEF M!Forks
<1>5. CASE M!Copies \/ M!Posts \/ M!PostFails \/ M!WaitsForChild \/ M!Unmaps
  BY <1>0, <1>1, <1>5
  DEF M!Copies, M!Posts, M!PostFails, M!WaitsForChild, M!Unmaps, M!AfterCopy
<1>6. CASE M!ChildSteps
  <2>1. at[M!parent] \in M!BeforeCopy
    BY <1>0, <1>1, <1>6
    DEF M!ChildSteps, M!Unblocks, M!Handles, M!Obtains, M!Prints, M!PrintFails, M!ChildUnmaps
  <2>2. units = 0 /\ queue = "none" /\ at[M!child] \in {"none", "start", "wait", "killed"}
    BY <2>1 DEF M!NotCopied
  <2>3. M!Unblocks
    BY <1>6, <2>2
    DEF M!ChildSteps, M!Handles, M!Obtains, M!IsReady, M!Prints, M!PrintFails, M!ChildUnmaps
  <2> QED
    BY <1>0, <1>2, <2>1, <2>3 DEF M!Unblocks
<1>7. CASE M!SomebodyWrites
  BY <1>1, <1>2, <1>7 DEF M!SomebodyWrites, M!NotCopied
<1>8. ASSUME NEW p \in Members, M!IsKilled(p) PROVE M!NotCopied'
  <2>1. p # M!parent
    BY <1>0, <1>1, <1>8 DEF M!IsKilled
  <2> QED
    BY <1>0, <1>1, <1>2, <1>8, <2>1 DEF M!IsKilled, M!NotCopied
<1> QED
  BY <1>3, <1>4, <1>5, <1>6, <1>7, <1>8 DEF M!Next, M!ParentSteps

\* The region of the child holds the copy.
HasCopy(m) ==
    /\ \A k \in 1 .. size : mem[m.addr + k - 1] = M!Copied(k)
    /\ program = "pointer" => mem[m.addr + size] = M!NUL

\* The copy goes where the child looks for it, and leaves the end of the string.
LEMMA CopyIsMade ==
    ASSUME MemoryConstants, M!TypeOK, M!Places, M!NotCopied, \A p \in Members : M!Shapes(p),
           M!Copies, at'[M!parent] = "post", ~M!TooLong
    PROVE  HasCopy(region[M!child][M!file_map])'
<1>1. /\ at[M!parent] = "copy" /\ M!parent \in Members /\ M!child \in Members
      /\ at'[M!parent] = M!AfterCopy \/ at'[M!parent] = "killed"
      /\ UNCHANGED <<region, program, size, file_cont>>
  BY MemNames DEF M!Copies, M!Goes, M!mappings, M!text, M!TypeOK
<1>2. PICK m : m = region[M!parent][M!file_map]
  OBVIOUS
<1>3. region[M!child][M!file_map] = m /\ m # M!NoRegion
  BY <1>1, <1>2 DEF M!Places
<1>4. /\ m.addr \in Nat /\ m.length = (IF program = "struct" THEN size ELSE size + 1)
      /\ m.addr + m.length <= M!NumCells /\ size \in Nat
      /\ program \in {"struct", "pointer"} /\ M!NumCells \in Nat
  <2>1. /\ m.addr \in Nat /\ m.length = (IF program = "struct" THEN size ELSE size + 1)
        /\ m.addr + m.length <= M!NumCells
    BY <1>1, <1>2, <1>3, FileCells
  <2>2. size \in Nat /\ program \in {"struct", "pointer"}
    BY DEF M!TypeOK
  <2>3. M!NumCells \in Nat
    BY DEF M!NumCells, MemoryConstants
  <2> QED
    BY <2>1, <2>2, <2>3
<1>5. M!CopyLen = size
  BY <1>2, <1>4 DEF M!CopyLen
<1>6. DOMAIN mem = 0 .. M!NumCells - 1 /\ \A a \in DOMAIN mem : mem[a] = M!NUL
  BY <1>1 DEF M!TypeOK, M!NotCopied, M!BeforeCopy
<1>7. mem' = [a \in DOMAIN mem |-> IF a \in M!Target THEN M!Copied(a - m.addr + 1) ELSE mem[a]]
  <2>1. at'[M!parent] # "killed"
    OBVIOUS
  <2>2. at' = [at EXCEPT ![M!parent] = "killed"] => at'[M!parent] = "killed"
    BY <1>1 DEF M!TypeOK
  <2> QED
    BY <1>2, <2>1, <2>2 DEF M!Copies, M!Goes
<1>8. M!Target = m.addr .. m.addr + size - 1
  BY <1>2, <1>5 DEF M!Target
<1>9. ASSUME NEW k \in 1 .. size PROVE mem'[m.addr + k - 1] = M!Copied(k)
  <2>1. PICK a \in Int : a = m.addr + k - 1
    BY <1>4
  <2>2. a \in DOMAIN mem /\ a \in M!Target /\ a - m.addr + 1 = k
    BY <1>4, <1>6, <1>8, <2>1
  <2> QED
    BY <1>7, <2>1, <2>2
<1>10. ASSUME program = "pointer" PROVE mem'[m.addr + size] = M!NUL
  <2>1. m.addr + size \in DOMAIN mem /\ m.addr + size \notin M!Target
    BY <1>4, <1>6, <1>8, <1>10
  <2> QED
    BY <1>6, <1>7, <2>1
<1>11. \A k : M!Copied(k)' = M!Copied(k)
  BY <1>1 DEF M!Copied, M!NUL, M!Garbage
<1> QED
  BY <1>1, <1>3, <1>9, <1>10, <1>11 DEF HasCopy, M!NUL

\* Once it was handed over the copy stays, and so does what it is of.
LEMMA HandedOverStep ==
    ASSUME MemoryConstants, M!TypeOK, M!Places, M!NotCopied, \A p \in Members : M!Shapes(p),
           M!HandedOver, M!Next
    PROVE  M!HandedOver'
<1> USE DEF M!Goes, M!mappings, M!text, M!release, M!bounds, M!BeforeCopy, M!BeforeFork
<1>0. /\ at \in [Members -> M!BeforeCopy \cup {"none", "start", "print", "post", "wait", "unmap",
                                            "done", "killed"}]
      /\ region \in [Members -> [Region -> [addr : Int, length : Nat, own : SUBSET M!Page]]]
      /\ M!parent \in Members /\ M!child \in Members /\ M!parent # M!child
      /\ Region = {M!sem, M!file_map} /\ program' = program
  BY MemNames, ProgramKept DEF M!TypeOK
<1> DEFINE Told == units = 1 \/ queue # "none" \/ at[M!parent] = "post" \/ at[M!child] = "print"
           m == region[M!child][M!file_map]
<1>1. M!HandedOver <=> (Told /\ m # M!NoRegion /\ ~M!TooLong => HasCopy(m))
  BY DEF M!HandedOver, HasCopy
<1>2. M!HandedOver' <=> (Told' /\ m' # M!NoRegion /\ ~M!TooLong' => HasCopy(m)')
  BY DEF M!HandedOver, HasCopy, M!NoRegion, M!NULL
<1>3. at[M!parent] \in M!BeforeCopy =>
          units = 0 /\ queue = "none" /\ at[M!child] \in {"none", "start", "wait", "killed"}
  BY DEF M!NotCopied
<1>4. ASSUME Told' => Told, UNCHANGED <<size, file_cont, mem>>, m' = m \/ m' = M!NoRegion
      PROVE  M!HandedOver'
  <2>1. M!TooLong' <=> M!TooLong
    BY <1>0, <1>4 DEF M!TooLong
  <2>2. \A k : M!Copied(k)' = M!Copied(k)
    BY <1>4 DEF M!Copied, M!NUL, M!Garbage
  <2>3. HasCopy(m) /\ m' = m => HasCopy(m)'
    BY <1>0, <1>4, <2>2 DEF HasCopy, M!NUL
  <2> QED
    BY <1>1, <1>2, <1>4, <2>1, <2>3
<1>5. CASE M!MapsSem \/ M!Sizes \/ M!MapsFile \/ M!Forks \/ M!Reads
  <2>1. at[M!parent] \in M!BeforeCopy
    BY <1>5 DEF M!MapsSem, M!Sizes, M!MapsFile, M!Forks, M!Reads
  <2>2. units' = 0 /\ queue' = "none"
    BY <1>3, <1>5, <2>1 DEF M!MapsSem, M!Sizes, M!MapsFile, M!Forks, M!Reads
  <2>3. at'[M!parent] # "post" /\ at'[M!child] # "print"
    <3>1. CASE at' = [parent |-> "read", child |-> "start"]
      BY <3>1 DEF M!parent, M!child
    <3>2. CASE \E z \in M!BeforeCopy \cup {"done", "unmap"} : at' = [at EXCEPT ![M!parent] = z]
      BY <1>0, <1>3, <2>1, <3>2
    <3> QED
      BY <1>5, <3>1, <3>2 DEF M!MapsSem, M!Sizes, M!MapsFile, M!Forks, M!Reads
  <2>4. ~Told'
    BY <2>2, <2>3
  <2> QED
    BY <1>2, <2>4
<1>6. CASE M!Copies
  <2>1. CASE at'[M!parent] = "post"
    <3>1. M!TooLong' <=> M!TooLong
      BY <1>0, <1>6 DEF M!Copies, M!TooLong
    <3>2. ~M!TooLong => HasCopy(m)'
      BY <1>6, <2>1, CopyIsMade
    <3> QED
      BY <1>2, <3>1, <3>2
  <2>2. CASE at'[M!parent] # "post"
    <3>1. at' = [at EXCEPT ![M!parent] = "killed"] /\ UNCHANGED <<mem, units>>
      BY <1>0, <1>6, <2>2 DEF M!Copies, M!AfterCopy
    <3>2. (Told' => Told) /\ UNCHANGED <<size, file_cont, region>>
      BY <1>0, <1>6, <3>1 DEF M!Copies
    <3> QED
      BY <1>4, <3>1, <3>2
  <2> QED
    BY <2>1, <2>2
<1>7. CASE M!Posts \/ M!PostFails \/ M!WaitsForChild
  <2>1. (Told' => Told) /\ UNCHANGED <<size, file_cont, mem, region>>
    BY <1>0, <1>7 DEF M!Posts, M!PostFails, M!WaitsForChild
  <2> QED
    BY <1>4, <2>1
<1>8. CASE M!Unmaps
  <2>1. (Told' => Told) /\ UNCHANGED <<size, file_cont, mem>>
    BY <1>0, <1>8 DEF M!Unmaps
  <2>2. \E r \in Region : region' = [region EXCEPT ![M!parent][r] = M!NoRegion]
    BY <1>0, <1>8 DEF M!Unmaps, M!UnmapStruct, M!UnmapMem, M!Munmap
  <2>3. m' = m
    BY <1>0, <2>2
  <2> QED
    BY <1>4, <2>1, <2>3
<1>9. CASE M!Unblocks \/ M!Handles \/ M!Obtains \/ M!Prints \/ M!PrintFails
  <2>1. (Told' => Told) /\ UNCHANGED <<size, file_cont, mem, region>>
    BY <1>0, <1>9 DEF M!Unblocks, M!Handles, M!Obtains, M!IsReady, M!Prints, M!PrintFails
  <2> QED
    BY <1>4, <2>1
<1>10. CASE M!ChildUnmaps
  <2>1. (Told' => Told) /\ UNCHANGED <<size, file_cont, mem>>
    BY <1>0, <1>10 DEF M!ChildUnmaps
  <2>2. region' = [region EXCEPT ![M!child][M!file_map] = M!NoRegion]
    BY <1>10 DEF M!ChildUnmaps, M!UnmapStruct, M!Munmap
  <2>3. m' = M!NoRegion
    BY <1>0, <2>2
  <2> QED
    BY <1>4, <2>1, <2>3
<1>11. CASE M!SomebodyWrites
  <2>1. (Told' => Told) /\ UNCHANGED <<size, file_cont, mem, region>>
    BY <1>11 DEF M!SomebodyWrites
  <2> QED
    BY <1>4, <2>1
<1>12. ASSUME NEW p \in Members, M!IsKilled(p) PROVE M!HandedOver'
  <2>1. (Told' => Told) /\ UNCHANGED <<size, file_cont, mem, region>>
    BY <1>0, <1>12 DEF M!IsKilled
  <2> QED
    BY <1>4, <2>1
<1> QED
  BY <1>5, <1>6, <1>7, <1>8, <1>9, <1>10, <1>11, <1>12 DEF M!Next, M!ParentSteps, M!ChildSteps

\* How much the child prints of what the parent read.
PrintLen == IF size < file_cont.len THEN size ELSE file_cont.len
PrintedRight ==
    /\ Len(printed) = IF program = "struct" THEN size ELSE PrintLen
    /\ \A k \in 1 .. PrintLen : printed[k] = <<file_cont.version, k>>

\* A cell of the text does not look like the end of a string.
LEMMA TextIsNotNul == \A v, k : <<v, k>> # M!NUL
  BY DEF M!NUL

\* A string ends with the first NUL.
LEMMA FirstNul ==
    ASSUME NEW c, NEW n \in Nat, NEW z \in Nat, n <= z, DOMAIN c = 1 .. z + 1,
           c[n + 1] = M!NUL, \A k \in 1 .. n : c[k] # M!NUL
    PROVE  LET ends == {k \in DOMAIN c : c[k] = M!NUL}
           IN (CHOOSE k \in ends : \A j \in ends : k <= j) = n + 1
<1> DEFINE ends == {k \in DOMAIN c : c[k] = M!NUL}
<1>1. n + 1 \in ends /\ \A j \in ends : j \in Int /\ n + 1 <= j
  BY DEF ends
<1> HIDE DEF ends
<1>2. \E k \in ends : \A j \in ends : k <= j
  BY <1>1
<1>3. \A k \in ends : (\A j \in ends : k <= j) => k = n + 1
  BY <1>1
<1>4. PICK e : e = CHOOSE k \in ends : \A j \in ends : k <= j
  OBVIOUS
<1>5. e \in ends /\ \A j \in ends : e <= j
  BY <1>2, <1>4
<1>6. e = n + 1
  BY <1>3, <1>5
<1> QED
  BY <1>4, <1>6 DEF ends

\* What is printed is the copy.
LEMMA PrintedIsCopy ==
    ASSUME MemoryConstants, M!TypeOK, M!Places, \A p \in Members : M!Shapes(p), M!HandedOver,
           ~M!TooLong, at[M!child] = "print", printed' = M!ToPrint,
           UNCHANGED <<program, size, file_cont>>
    PROVE  PrintedRight'
<1>1. PICK m : m = region[M!child][M!file_map]
  OBVIOUS
<1>2. m # M!NoRegion /\ M!child \in Members
  BY <1>1, MemNames DEF M!Places
<1>3. HasCopy(m)
  BY <1>1, <1>2 DEF M!HandedOver, HasCopy
<1>4. /\ m.addr \in Nat /\ m.length = (IF program = "struct" THEN size ELSE size + 1)
      /\ m.addr + m.length <= M!NumCells
  BY <1>1, <1>2, FileCells
<1>5. /\ size \in Nat /\ program \in {"struct", "pointer"}
      /\ file_cont.len \in Nat
  BY DEF M!TypeOK, M!Text
<1>6. PICK n \in Nat : n = PrintLen
  BY <1>5 DEF PrintLen
<1>7. n <= size /\ n <= file_cont.len
  BY <1>5, <1>6 DEF PrintLen
<1>8. PICK c : c = [k \in 1 .. m.length |-> mem[m.addr + k - 1]]
  OBVIOUS
<1>9. \A k \in 1 .. n : c[k] = <<file_cont.version, k>>
  <2> SUFFICES ASSUME NEW k \in 1 .. n PROVE c[k] = <<file_cont.version, k>>
    OBVIOUS
  <2>1. k \in 1 .. size /\ k \in 1 .. m.length /\ k <= file_cont.len
    BY <1>4, <1>5, <1>7
  <2>2. c[k] = mem[m.addr + k - 1]
    BY <1>8, <2>1
  <2>3. mem[m.addr + k - 1] = M!Copied(k)
    BY <1>3, <2>1 DEF HasCopy
  <2>4. M!Copied(k) = <<file_cont.version, k>>
    BY <2>1 DEF M!Copied
  <2> QED
    BY <2>2, <2>3, <2>4
<1>10. CASE program = "struct"
  <2>1. printed' = c
    BY <1>1, <1>8, <1>10 DEF M!ToPrint
  <2>2. Len(c) = size
    BY <1>4, <1>5, <1>8, <1>10
  <2> QED
    BY <1>6, <1>9, <1>10, <2>1, <2>2 DEF PrintedRight, PrintLen
<1>11. CASE program = "pointer"
  <2>1. DOMAIN c = 1 .. size + 1 /\ m.length = size + 1
    BY <1>4, <1>8, <1>11
  <2>2. c[n + 1] = M!NUL
    <3>1. CASE n = size
      <4>1. c[n + 1] = mem[m.addr + size]
        BY <1>4, <1>5, <1>8, <2>1, <3>1
      <4> QED
        BY <1>3, <1>11, <4>1 DEF HasCopy
    <3>2. CASE n # size
      <4>1. n = file_cont.len /\ n + 1 \in 1 .. size
        BY <1>5, <1>6, <1>7, <3>2 DEF PrintLen
      <4>2. c[n + 1] = mem[m.addr + (n + 1) - 1]
        BY <1>5, <1>8, <2>1, <4>1
      <4>3. c[n + 1] = M!Copied(n + 1)
        BY <1>3, <4>1, <4>2 DEF HasCopy
      <4> QED
        BY <4>1, <4>3 DEF M!Copied
    <3> QED
      BY <3>1, <3>2
  <2>3. printed' = SubSeq(c, 1, n)
    <3>1. \A k \in 1 .. n : c[k] # M!NUL
      BY <1>9, TextIsNotNul
    <3>2. PICK ends : ends = {k \in DOMAIN c : c[k] = M!NUL}
      OBVIOUS
    <3>3. PICK e : e = CHOOSE k \in ends : \A j \in ends : k <= j
      OBVIOUS
    <3>4. e = n + 1
      BY <1>5, <1>7, <2>1, <2>2, <3>1, <3>2, <3>3, FirstNul
    <3>5. printed' = SubSeq(c, 1, e - 1)
      BY <1>1, <1>8, <1>11, <3>2, <3>3 DEF M!ToPrint
    <3> QED
      BY <3>4, <3>5
  <2>4. Len(SubSeq(c, 1, n)) = n /\ \A k \in 1 .. n : SubSeq(c, 1, n)[k] = c[k]
    <3>1. PICK S : S = {c[k] : k \in 1 .. n}
      OBVIOUS
    <3>2. \A k \in 1 .. n : c[k] \in S
      BY <3>1
    <3>3. /\ Len(SubSeq(c, 1, n)) = (IF 1 <= n THEN n - 1 + 1 ELSE 0)
          /\ \A k \in 1 .. n - 1 + 1 : SubSeq(c, 1, n)[k] = c[1 + k - 1]
      BY <3>2, SubSeqProperties
    <3> QED
      BY <3>3
  <2> QED
    BY <1>6, <1>9, <1>11, <2>3, <2>4 DEF PrintedRight, PrintLen
<1> QED
  BY <1>5, <1>10, <1>11

\* What was printed stays printed, and what is printed is right.
LEMMA PrintStep ==
    ASSUME MemoryConstants, M!TypeOK, M!Places, M!NotCopied, \A p \in Members : M!Shapes(p),
           M!HandedOver, M!PrintsWhatWasRead, M!Next
    PROVE  M!PrintsWhatWasRead'
<1> USE DEF M!mappings, M!text, M!release, M!bounds
<1>1. M!PrintsWhatWasRead <=> (printed # << >> /\ ~M!TooLong => PrintedRight)
  BY DEF M!PrintsWhatWasRead, PrintedRight, PrintLen
<1>2. M!PrintsWhatWasRead' <=> (printed' # << >> /\ ~M!TooLong' => PrintedRight')
  BY DEF M!PrintsWhatWasRead, PrintedRight, PrintLen
<1>3. CASE UNCHANGED <<printed, program, size, file_cont>>
  BY <1>1, <1>2, <1>3 DEF PrintedRight, PrintLen, M!TooLong
<1>4. CASE at[M!parent] \in M!BeforeCopy /\ UNCHANGED printed
  BY <1>2, <1>4 DEF M!NotCopied
<1>5. CASE M!Prints
  <2>1. UNCHANGED <<program, size, file_cont>> /\ at[M!child] = "print"
        /\ (printed' = M!ToPrint \/ UNCHANGED printed)
    BY <1>5 DEF M!Prints
  <2>2. M!TooLong' <=> M!TooLong
    BY <2>1 DEF M!TooLong
  <2> QED
    BY <1>2, <1>3, <2>1, <2>2, PrintedIsCopy
<1>6. CASE M!Sizes \/ M!Reads
  BY <1>4, <1>6 DEF M!Sizes, M!Reads, M!BeforeCopy, M!BeforeFork
<1> QED
  BY <1>3, <1>5, <1>6
  DEF M!Next, M!ParentSteps, M!ChildSteps, M!MapsSem, M!MapsFile, M!Forks, M!Unmaps,
      M!ChildUnmaps, M!Copies, M!Posts, M!PostFails, M!WaitsForChild,
      M!Unblocks, M!Handles, M!Obtains, M!PrintFails, M!SomebodyWrites, M!IsKilled

\* An unmapping takes the pages of its region.
LEMMA UnmapStep ==
    ASSUME MemoryConstants, M!TypeOK, M!Places, \A p \in Members : M!Shapes(p), M!Next,
           NEW p \in Members, NEW r \in Region,
           region[p][r].own # {}, region'[p][r].own = {}, ~M!TooLong
    PROVE  mapped'[p] = mapped[p] \ region[p][r].own
<1>0. /\ region \in [Members -> [Region -> [addr : Int, length : Nat, own : SUBSET M!Page]]]
      /\ mapped \in [Members -> SUBSET M!Page] /\ MapTypes
      /\ M!parent \in Members /\ M!child \in Members /\ M!parent # M!child
      /\ Region = {M!sem, M!file_map} /\ M!sem # M!file_map
      /\ size \in Nat /\ size + 1 \in Nat /\ SizeLen \in Nat /\ SemLen \in Nat
  BY MemNames DEF M!TypeOK, MapTypes
<1>1. region[p][r] # M!NoRegion
  BY DEF M!NoRegion
<1>2. CASE region' = region
  BY <1>2
<1>3. ASSUME NEW x \in Region, region[M!parent][x] = M!NoRegion,
             \E m : region' = [region EXCEPT ![M!parent][x] = m]
      PROVE  FALSE
  <2>1. p # M!parent \/ r # x
    BY <1>1, <1>3
  <2>2. region'[p][r] = region[p][r]
    BY <1>0, <1>3, <2>1
  <2> QED
    BY <2>2
<1>4. CASE M!MapsSem
  <2>1. region[M!parent][M!sem] = M!NoRegion
    BY <1>4 DEF M!MapsSem, M!Places
  <2> QED
    BY <1>0, <1>2, <1>3, <1>4, <2>1, StructMapped DEF M!MapsSem, M!mappings
<1>5. CASE M!MapsFile
  <2>1. region[M!parent][M!file_map] = M!NoRegion
    BY <1>5 DEF M!MapsFile, M!Places
  <2> QED
    BY <1>0, <1>2, <1>3, <1>5, <2>1, StructMapped, StringMapped DEF M!MapsFile, M!mappings
<1>6. CASE M!Forks
  <2>1. \A x \in Region : region[M!child][x] = M!NoRegion
    BY <1>6 DEF M!Forks, M!Places, M!BeforeFork
  <2>2. CASE region' = [region EXCEPT ![M!child] = region[M!parent]]
    BY <1>0, <1>1, <2>1, <2>2
  <2> QED
    BY <1>2, <1>6, <2>2 DEF M!Forks, M!Inherits, M!mappings
<1>7. ASSUME NEW q \in Members, NEW x \in Region, NEW a, NEW n, M!Munmap(q, x, a, n)
      PROVE  /\ q = p /\ x = r
             /\ mapped'[p] = mapped[p] \ M!PagesOf(a, n)
  <2>1. region' = [region EXCEPT ![q][x] = M!NoRegion]
        /\ mapped' = [mapped EXCEPT ![q] = @ \ M!PagesOf(a, n)]
    BY <1>7 DEF M!Munmap
  <2>2. q # p \/ x # r => region'[p][r] = region[p][r]
    BY <1>0, <2>1
  <2> QED
    BY <1>0, <2>1, <2>2
<1>8. ASSUME M!UnmapStruct(p, r), r = M!sem \/ program = "struct"
      PROVE  mapped'[p] = mapped[p] \ region[p][r].own
  <2>1. PICK n \in Nat : /\ M!StructAt(region[p][r], n) /\ HeaderLen + n <= PageLen
    <3>1. CASE r = M!sem
      BY <1>0, <1>1, <3>1 DEF M!Shapes, MemoryConstants
    <3>2. CASE r # M!sem
      <4>1. program = "struct" /\ r = M!file_map
        BY <1>0, <1>8, <3>2
      <4>2. HeaderLen + size <= PageLen
        BY <1>0, <4>1 DEF M!TooLong, MemoryConstants
      <4> QED
        BY <1>0, <1>1, <4>1, <4>2 DEF M!Shapes
    <3> QED
      BY <3>1, <3>2
  <2>2. PICK k \in M!Page : region[p][r] = [addr |-> k * PageLen + HeaderLen, length |-> n,
                                            own |-> M!PagesOf(k * PageLen, SizeLen)]
    BY <2>1 DEF M!StructAt
  <2>3. /\ HeaderLen \in Nat /\ HeaderLen > 0 /\ SizeLen > 0 /\ SizeLen <= PageLen
        /\ PageLen \in Nat /\ k * PageLen \in Nat
    BY DEF MemoryConstants, M!Page
  <2>4. region[p][r].addr - HeaderLen = k * PageLen
        /\ M!TotalLen(region[p][r]) = n + HeaderLen
    BY <2>2, <2>3 DEF M!TotalLen
  <2>5. region[p][r].own = {k}
    BY <1>0, <2>2, <2>3, OnePage
  <2>6. M!PagesOf(k * PageLen, n + HeaderLen) = {k}
    <3>1. n + HeaderLen \in Nat /\ 0 < n + HeaderLen /\ n + HeaderLen <= PageLen
      BY <2>1, <2>3
    <3> QED
      BY <3>1, OnePage
  <2>7. M!Munmap(p, r, k * PageLen, n + HeaderLen)
    BY <1>8, <2>4 DEF M!UnmapStruct
  <2> QED
    BY <1>7, <2>5, <2>6, <2>7
<1>9. CASE M!Unmaps
  <2>1. CASE program = "struct"
    <3>1. M!UnmapStruct(M!parent, M!sem)
      BY <1>9, <2>1 DEF M!Unmaps
    <3>2. p = M!parent /\ r = M!sem
      BY <1>0, <1>7, <3>1 DEF M!UnmapStruct
    <3> QED
      BY <1>8, <3>1, <3>2
  <2>2. CASE program # "struct"
    <3>1. M!UnmapMem(M!parent, M!file_map)
      BY <1>9, <2>2 DEF M!Unmaps
    <3>2. /\ p = M!parent /\ r = M!file_map
          /\ mapped'[p] = mapped[p] \ M!PagesOf(region[p][r].addr, region[p][r].length)
      BY <1>0, <1>7, <3>1 DEF M!UnmapMem
    <3>3. region[p][r].own = M!PagesOf(region[p][r].addr, region[p][r].length)
      <4>1. M!StringAt(region[p][r], size + 1)
        BY <1>1, <2>2, <3>2 DEF M!Shapes
      <4>2. PICK k \in M!Page : region[p][r] = [addr |-> k * PageLen, length |-> size + 1,
                                                own |-> M!PagesOf(k * PageLen, size + 1)]
        BY <4>1 DEF M!StringAt
      <4> QED
        BY <4>2
    <3> QED
      BY <3>2, <3>3
  <2> QED
    BY <2>1, <2>2
<1>10. CASE M!ChildUnmaps
  <2>1. M!UnmapStruct(M!child, M!file_map) /\ program = "struct"
    BY <1>10 DEF M!ChildUnmaps, M!Places
  <2>2. p = M!child /\ r = M!file_map
    BY <1>0, <1>7, <2>1 DEF M!UnmapStruct
  <2> QED
    BY <1>8, <2>1, <2>2
<1> QED
  BY <1>2, <1>4, <1>5, <1>6, <1>9, <1>10, MappingsKept DEF M!Next, M!ParentSteps, M!ChildSteps

(***************************************************************************)
(* The invariant and what follows from it.                                 *)
(***************************************************************************)
\* The invariant holds at first.
LEMMA MemInit == ASSUME MemoryConstants, M!Init PROVE M!IInv
<1>1. M!TypeOK
  <2>1. M!NoRegion \in [addr : Int, length : Nat, own : SUBSET M!Page]
    BY DEF M!NoRegion, M!NULL
  <2>2. mapped \in [Members -> SUBSET M!Page]
        /\ region \in [Members -> [Region -> [addr : Int, length : Nat, own : SUBSET M!Page]]]
    BY <2>1 DEF M!Init, M!NothingMapped
  <2>3. at \in [Members -> M!BeforeCopy \cup {"none", "start", "print", "post", "wait", "unmap",
                                           "done", "killed"}]
    <3>1. PICK z \in {"map sem", "size"} : at = [parent |-> z, child |-> "none"]
      BY DEF M!Init
    <3>2. PICK S : S = M!BeforeCopy \cup {"none", "start", "print", "post", "wait", "unmap",
                                          "done", "killed"}
      OBVIOUS
    <3>3. z \in S /\ "none" \in S
      BY <3>1, <3>2 DEF M!BeforeCopy, M!BeforeFork
    <3>4. DOMAIN at = {"parent", "child"} /\ at["parent"] = z /\ at["child"] = "none"
      BY <3>1
    <3>5. at = [p \in DOMAIN at |-> at[p]]
      BY <3>1
    <3>6. \A p \in Members : at[p] \in S
      BY <3>3, <3>4 DEF MemoryConstants
    <3> QED
      BY <3>2, <3>4, <3>5, <3>6 DEF MemoryConstants
  <2>4. file \in M!Text /\ file_cont \in M!Text
    <3>1. PICK n \in Lengths : file = [version |-> 1, len |-> n]
      BY DEF M!Init
    <3>2. file_cont = [version |-> 0, len |-> 0] /\ n \in Nat
      BY DEF M!Init, M!NoText, MemoryConstants
    <3> QED
      BY <3>1, <3>2 DEF M!Text
  <2>5. /\ program \in {"struct", "pointer"} /\ size = 0 /\ writes = 0 /\ kills = 0
        /\ units = 0 /\ queue = "none" /\ blocked = TRUE
    BY DEF M!Init, M!SignalBlocked
  <2>6. DOMAIN mem = 0 .. M!NumCells - 1
    BY DEF M!Init
  <2> QED
    BY <2>2, <2>3, <2>4, <2>5, <2>6 DEF M!TypeOK
<1>2. /\ \A p \in Members, r \in Region : region[p][r] = M!NoRegion
      /\ at[M!parent] \in {"map sem", "size"} /\ at[M!child] = "none"
      /\ units = 0 /\ queue = "none" /\ printed = << >>
      /\ \A a \in DOMAIN mem : mem[a] = M!NUL
  BY DEF M!Init, M!NothingMapped, M!parent, M!child
<1>3. \A p \in Members : M!Shapes(p)
  BY <1>2, MemNames DEF M!Shapes
<1>4. M!Places
  BY <1>2, MemNames DEF M!Places, M!BeforeFork
<1>5. M!NotCopied
  BY <1>2 DEF M!NotCopied
<1>6. M!HandedOver
  <2>1. units = 0 /\ queue = "none" /\ at[M!parent] # "post" /\ at[M!child] # "print"
    BY <1>2
  <2>2. ~(units = 1)
    BY <2>1
  <2> QED
    BY <2>1, <2>2 DEF M!HandedOver
<1>7. M!PrintsWhatWasRead
  BY <1>2 DEF M!PrintsWhatWasRead
<1> QED
  BY <1>1, <1>3, <1>4, <1>5, <1>6, <1>7 DEF M!IInv

\* A step that changes nothing.
LEMMA MemSame == ASSUME M!IInv, UNCHANGED M!vars PROVE M!IInv'
<1> USE DEF M!vars, M!mappings, M!text, M!release, M!bounds
<1>1. M!TypeOK'
  BY DEF M!IInv, M!TypeOK
<1>2. (\A p \in Members : M!Shapes(p))' /\ M!Places' /\ M!NotCopied'
  BY DEF M!IInv, M!Shapes, M!Places, M!NotCopied
<1>3. (M!TooLong' <=> M!TooLong) /\ \A k : M!Copied(k)' = M!Copied(k)
  BY DEF M!TooLong, M!Copied, M!NUL, M!Garbage
<1>4. M!HandedOver'
  BY <1>3 DEF M!IInv, M!HandedOver, M!NoRegion, M!NULL, M!NUL
<1>5. M!PrintsWhatWasRead'
  BY <1>3 DEF M!IInv, M!PrintsWhatWasRead
<1> QED
  BY <1>1, <1>2, <1>4, <1>5 DEF M!IInv

\* IInv is an invariant.
LEMMA MemInvariant ==
    ASSUME MemoryConstants
    PROVE  M!Spec => []M!IInv
<1>1. M!Init => M!IInv
  BY MemInit
<1>2. M!IInv /\ [M!Next]_(M!vars) => M!IInv'
  <2> SUFFICES ASSUME M!IInv, [M!Next]_(M!vars) PROVE M!IInv'
    OBVIOUS
  <2>1. CASE M!Next
    <3>1. /\ M!TypeOK /\ (\A p \in Members : M!Shapes(p)) /\ M!Places /\ M!NotCopied
          /\ M!HandedOver /\ M!PrintsWhatWasRead
      BY DEF M!IInv
    <3>2. M!TypeOK' /\ M!Places' /\ M!NotCopied' /\ M!HandedOver' /\ M!PrintsWhatWasRead'
      BY <2>1, <3>1, MemTypesStep, PlacesStep, NotCopiedStep, HandedOverStep, PrintStep
    <3>3. \A p \in Members : M!Shapes(p)'
      BY <2>1, <3>1, ShapesStep
    <3> QED
      BY <3>2, <3>3 DEF M!IInv
  <2>2. CASE UNCHANGED M!vars
    BY <2>2, MemSame
  <2> QED
    BY <2>1, <2>2
<1> QED
  BY <1>1, <1>2, PTL DEF M!Spec

\* The child prints what the parent read, cut to the size that was found before
\* the fork, whatever is written to the file, fails or is killed in between, if
\* the struct fits its page.
THEOREM PrintsTheCopy ==
    ASSUME MemoryConstants
    PROVE  M!Spec => []M!PrintsWhatWasRead
<1>1. M!IInv => M!PrintsWhatWasRead
  BY DEF M!IInv
<1> QED
  BY <1>1, MemInvariant, PTL

\* An unmapping takes the pages of its own region and no others, if the struct
\* fits its page.
THEOREM UnmapsOwnRegion ==
    ASSUME MemoryConstants
    PROVE  M!Spec => M!UnmapsItsOwn
<1>1. M!IInv /\ [M!Next]_(M!vars) =>
          [\A p \in Members, r \in Region :
              (region[p][r].own # {} /\ region'[p][r].own = {} /\ ~M!TooLong)
                  => mapped'[p] = mapped[p] \ region[p][r].own]_(M!vars)
  BY UnmapStep DEF M!IInv
<1> QED
  BY <1>1, MemInvariant, PTL DEF M!Spec, M!UnmapsItsOwn
================================================================================
