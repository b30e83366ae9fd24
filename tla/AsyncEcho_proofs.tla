---------------------------- MODULE AsyncEcho_proofs ----------------------------
(***************************************************************************)
(* Proofs about the programs that send each other signals: AsyncEcho and,  *)
(* from the same lemmas on signals, QueueReader.  All is for any number of *)
(* clients, attempts, characters and values, and for signals that queue    *)
(* and signals that coalesce.                                              *)
(*                                                                         *)
(* A signal may come between any two accesses to the variables, so the     *)
(* invariant follows each message: it is pending, in the variables, in     *)
(* hand or taken, in the order it was sent (Ordered), and a receipt is   *)
(* on its way only for a message that was read and whose client waits      *)
(* (OnTheWay, OneReceipt).  Half-cleared variables do not count, because   *)
(* signum is cleared last (WholeSignal).                                   *)
(***************************************************************************)
EXTENDS AsyncEcho, TLAPS, SequenceTheorems

\* What the variables, and a signal, may hold if signals carry the data D.
Variables(D) == [queue : BOOLEAN, signum : BOOLEAN, pid : Proc \cup {Nothing},
                 data : D \cup {Nothing}]
Info(D) == [pid : Proc, data : D]

\* One variable is cleared, the others keep their values.
LEMMA ResetOneClears ==
    ASSUME NEW D, NEW p \in Proc, NEW k \in 1 .. 4, flags \in [Proc -> Variables(D)], ResetOne(p, k)
    PROVE  /\ flags' \in [Proc -> Variables(D)]
           /\ \A q \in Proc \ {p} : flags'[q] = flags[q]
           /\ flags'[p].queue <=> k # 1 /\ flags[p].queue
           /\ flags'[p].data = IF k = 2 THEN Nothing ELSE flags[p].data
           /\ flags'[p].pid = IF k = 3 THEN Nothing ELSE flags[p].pid
           /\ flags'[p].signum <=> k # 4 /\ flags[p].signum
<1>1. k = 1 \/ k = 2 \/ k = 3 \/ k = 4
    OBVIOUS
<1>2. flags[p] \in Variables(D)
    OBVIOUS
<1>3. Without(flags[p], ResetOrder[k]) =
          [queue |-> k # 1 /\ flags[p].queue, signum |-> k # 4 /\ flags[p].signum,
           pid |-> IF k = 3 THEN Nothing ELSE flags[p].pid,
           data |-> IF k = 2 THEN Nothing ELSE flags[p].data]
    <2>1. /\ ResetOrder[1] = "queue" /\ ResetOrder[2] = "data" /\ ResetOrder[3] = "pid"
          /\ ResetOrder[4] = "signum"
        BY DEF ResetOrder
    <2>2. CASE k = 1
        BY <2>1, <2>2 DEF Without
    <2>3. CASE k = 2
        BY <2>1, <2>3 DEF Without
    <2>4. CASE k = 3
        BY <2>1, <2>4 DEF Without
    <2>5. CASE k = 4
        BY <2>1, <2>5 DEF Without
    <2> QED
        BY <1>1, <2>2, <2>3, <2>4, <2>5
<1>4. Without(flags[p], ResetOrder[k]) \in Variables(D)
    BY <1>2, <1>3 DEF Variables
<1>5. flags' = [flags EXCEPT ![p] = Without(flags[p], ResetOrder[k])]
    BY DEF ResetOne
<1>6. /\ flags' \in [Proc -> Variables(D)] /\ \A q \in Proc \ {p} : flags'[q] = flags[q]
      /\ flags'[p] = Without(flags[p], ResetOrder[k])
    BY <1>4, <1>5
<1> QED
    BY <1>2, <1>3, <1>6 DEF Variables

\* sigqueue() adds a signal behind those that are pending, or none.
LEMMA GeneratedAdds ==
    ASSUME NEW D, NEW p \in Proc, NEW info \in Info(D), pending \in [Proc -> Seq(Info(D))],
           pending' = Generated(p, info)
    PROVE  /\ pending' \in [Proc -> Seq(Info(D))]
           /\ \A q \in Proc \ {p} : pending'[q] = pending[q]
           /\ Len(pending[p]) \in Nat /\ DOMAIN pending[p] = 1 .. Len(pending[p])
           /\ \A i \in DOMAIN pending'[p] :
                  \/ i \in DOMAIN pending[p] /\ pending'[p][i] = pending[p][i]
                  \/ i = Len(pending[p]) + 1 /\ pending'[p][i] = info
           /\ pending[p] = << >> => Len(pending'[p]) = 1
<1>1. pending[p] \in Seq(Info(D))
    OBVIOUS
<1>2. Append(pending[p], info) \in Seq(Info(D))
    BY <1>1
<1>3. CASE pending' = pending /\ pending[p] # << >>
    BY <1>1, <1>3
<1>4. CASE pending' = [pending EXCEPT ![p] = Append(pending[p], info)]
    <2>1. pending'[p] = Append(pending[p], info)
        BY <1>4
    <2>2. /\ Len(pending'[p]) = Len(pending[p]) + 1
          /\ \A i \in 1 .. Len(pending[p]) + 1 :
                 pending'[p][i] = IF i = Len(pending[p]) + 1 THEN info ELSE pending[p][i]
        BY <1>1, <2>1, AppendProperties
    <2>3. DOMAIN pending'[p] = 1 .. Len(pending[p]) + 1
        BY <1>1, <2>1, AppendProperties
    <2>4. pending[p] = << >> => Len(pending'[p]) = 1
        BY <2>2
    <2> QED
        BY <1>1, <1>2, <1>4, <2>2, <2>3, <2>4
<1> QED
    BY <1>3, <1>4 DEF Generated

\* The handler takes the first pending signal into the variables.
LEMMA DeliverTakes ==
    ASSUME NEW D, NEW p \in Proc, pending \in [Proc -> Seq(Info(D))], flags \in [Proc -> Variables(D)],
           blocked \in [Proc -> BOOLEAN], Deliver(p)
    PROVE  /\ pending' \in [Proc -> Seq(Info(D))] /\ flags' \in [Proc -> Variables(D)]
           /\ blocked' = blocked
           /\ \A q \in Proc \ {p} : pending'[q] = pending[q] /\ flags'[q] = flags[q]
           /\ pending[p] # << >> /\ 1 \in DOMAIN pending[p] /\ pending[p][1] \in Info(D)
           /\ \A i \in DOMAIN pending'[p] :
                  /\ i \in Nat /\ i + 1 > 1
                  /\ i + 1 \in DOMAIN pending[p] /\ pending'[p][i] = pending[p][i + 1]
           /\ flags'[p].queue /\ flags'[p].signum
           /\ flags'[p].pid = pending[p][1].pid /\ flags'[p].data = pending[p][1].data
           /\ Len(pending'[p]) = Len(pending[p]) - 1
<1>1. pending[p] \in Seq(Info(D)) /\ pending[p] # << >>
    BY DEF Deliver
<1>2. /\ Len(pending[p]) \in Nat /\ Len(pending[p]) >= 1
      /\ DOMAIN pending[p] = 1 .. Len(pending[p])
      /\ Head(pending[p]) = pending[p][1] /\ pending[p][1] \in Info(D)
    BY <1>1
<1>3. /\ Tail(pending[p]) \in Seq(Info(D)) /\ Len(Tail(pending[p])) = Len(pending[p]) - 1
      /\ \A i \in 1 .. Len(pending[p]) - 1 : Tail(pending[p])[i] = pending[p][i + 1]
    BY <1>1, HeadTailProperties
<1>4. DOMAIN Tail(pending[p]) = 1 .. Len(pending[p]) - 1
    BY <1>3
<1>5. pending' = [pending EXCEPT ![p] = Tail(pending[p])]
    BY DEF Deliver
<1>6. /\ pending' \in [Proc -> Seq(Info(D))] /\ pending'[p] = Tail(pending[p])
      /\ \A q \in Proc \ {p} : pending'[q] = pending[q]
    BY <1>3, <1>5
<1>7. \A i \in DOMAIN pending'[p] :
          /\ i \in Nat /\ i + 1 > 1
          /\ i + 1 \in DOMAIN pending[p] /\ pending'[p][i] = pending[p][i + 1]
    BY <1>2, <1>3, <1>4, <1>6
<1> DEFINE new == [queue |-> TRUE, signum |-> TRUE, pid |-> Head(pending[p]).pid,
                   data |-> Head(pending[p]).data]
<1>8. new \in Variables(D) /\ flags' = [flags EXCEPT ![p] = new]
    BY <1>2 DEF Deliver, Variables, Info
<1>9. /\ flags' \in [Proc -> Variables(D)] /\ flags'[p] = new
      /\ \A q \in Proc \ {p} : flags'[q] = flags[q]
    <2> HIDE DEF new
    <2> QED
        BY <1>8
<1>10. blocked' = blocked
    BY DEF Deliver, MaskAfterHandler
<1>11. Len(pending'[p]) = Len(pending[p]) - 1
    BY <1>3, <1>6
<1> QED
    BY <1>1, <1>2, <1>6, <1>7, <1>9, <1>10, <1>11

\* The two roles.
LEMMA RolesOfProc ==
    /\ Server \in Proc /\ Clients \subseteq Proc /\ Server \notin Clients
    /\ \A p \in Proc : p = Server \/ p \in Clients
    /\ Nothing \notin Messages /\ Nothing \notin Proc
BY ProcIs, NothingIsNothing

\* The types in the form the lemmas above ask for.
LEMMA SignalTypes ==
    TypeOK => /\ flags \in [Proc -> Variables(Messages)] /\ pending \in [Proc -> Seq(Info(Messages))]
              /\ blocked \in [Proc -> BOOLEAN]
BY DEF TypeOK, Variables, Info

\* Nothing is in the empty sequence.
LEMMA EmptyDomain == DOMAIN << >> = {}
OBVIOUS

\* Four variables are cleared.
LEMMA FourVariables == Len(ResetOrder) = 4 /\ 0 .. Len(ResetOrder) - 1 = 0 .. 3
<1>1. Len(ResetOrder) = 4
    BY DEF ResetOrder
<1> QED
    BY <1>1

\* The invariant holds before anyone has registered.
LEMMA InitIInv == Init => IInv
<1> SUFFICES ASSUME Init
             PROVE  IInv
    OBVIOUS
<1>1. TypeOK
    <2>1. flags \in [Proc -> Variables(Messages)]
        BY DEF Init, SigInit, Cleared, Variables
    <2>2. pending \in [Proc -> Seq([pid : Proc, data : Messages])]
        <3>1. << >> \in Seq([pid : Proc, data : Messages])
            OBVIOUS
        <3> QED
            BY <3>1 DEF Init, SigInit
    <2>3. awaited \in [Clients -> [from : Clients, n : 0 .. MaxAttempts + MaxTyped,
                                  val : Chars \cup {Registration}]]
        <3>1. 0 \in 0 .. MaxAttempts + MaxTyped
            BY BoundsOK
        <3>2. \A c \in Clients : Message(c, 0, Registration) \in
                  [from : Clients, n : 0 .. MaxAttempts + MaxTyped, val : Chars \cup {Registration}]
            BY <3>1 DEF Message
        <3> QED
            BY <3>2 DEF Init
    <2>4. cleared \in [Proc -> 0 .. Len(ResetOrder) - 1]
        <3>1. 0 \in 0 .. Len(ResetOrder) - 1
            BY FourVariables
        <3> QED
            BY <3>1 DEF Init
    <2>5. 0 \in 0 .. MaxAttempts
        BY BoundsOK
    <2>6. /\ attempts \in [Clients -> 0 .. MaxAttempts] /\ polls \in [Clients -> 0 .. MaxAttempts]
        BY <2>5 DEF Init
    <2>7. taken \in Seq(Messages)
        <3>1. taken = << >>
            BY DEF Init
        <3> QED
            BY <3>1, EmptySeq
    <2> QED
        BY <2>1, <2>2, <2>3, <2>4, <2>6, <2>7 DEF Init, TypeOK, Variables
<1>0. DOMAIN << >> = {}
    OBVIOUS
<1>2. /\ \A p \in Proc : /\ pending[p] = << >> /\ DOMAIN pending[p] = {} /\ flags[p] = Cleared
                         /\ cleared[p] = 0
      /\ ~Cleared.signum /\ Cleared.data = Nothing
      /\ taken = << >> /\ DOMAIN taken = {}
      /\ pc[Server] = "verify queue" /\ \A c \in Clients : pc[c] = "register"
      /\ running = {} /\ data[Server] = Nothing /\ acked = {}
    BY <1>0, RolesOfProc DEF Init, SigInit, Cleared
<1>3. \A c \in Clients : /\ awaited[c].from = c /\ awaited[c].val = Registration
                         /\ awaited[c].n = 0 /\ attempts[c] = 0
    BY DEF Init, Message
<1>4. Roles
    BY <1>2, <1>3, RolesOfProc DEF Roles, ServerPlaces, ClientPlaces
<1>5. \A p \in Proc : pc[p] \notin {"read pid", "read data", "reset"}
    BY <1>2, RolesOfProc
<1>6. WholeSignal
    BY <1>2, <1>5 DEF WholeSignal
<1>7. Registered
    BY <1>2, RolesOfProc DEF Registered
<1>8. Ordered
    BY <1>2, RolesOfProc DEF Ordered
<1>9. OnTheWay /\ OneReceipt
    BY <1>2, RolesOfProc DEF OnTheWay, OneReceipt, Typed, Answering
<1>10. PrintedWasSent /\ TypedReceipts
    BY <1>2 DEF PrintedWasSent, TypedReceipts
<1> QED
    BY <1>1, <1>4, <1>6, <1>7, <1>8, <1>9, <1>10 DEF IInv

(***************************************************************************)
(* What does not depend on where a process is.                             *)
(***************************************************************************)
\* Everything in transit is a message or nothing.
LEMMA InTransit ==
    ASSUME TypeOK
    PROVE  /\ \A p \in Proc : \A i \in DOMAIN pending[p] :
                  pending[p][i].pid \in Proc /\ pending[p][i].data \in Messages
           /\ \A k \in DOMAIN taken : taken[k] \in Messages
           /\ \A p \in Proc : /\ flags[p].data \in Messages \cup {Nothing}
                              /\ flags[p].pid \in Proc \cup {Nothing}
                              /\ flags[p].signum \in BOOLEAN
<1>1. \A p \in Proc : pending[p] \in Seq(Info(Messages))
    BY SignalTypes
<1>2. \A p \in Proc : \A i \in DOMAIN pending[p] : pending[p][i] \in Info(Messages)
    BY <1>1
<1>3. \A k \in DOMAIN taken : taken[k] \in Messages
    <2>1. taken \in Seq(Messages)
        BY DEF TypeOK
    <2> QED
        BY <2>1
<1>4. \A p \in Proc : flags[p] \in Variables(Messages)
    BY SignalTypes
<1> QED
    BY <1>2, <1>3, <1>4 DEF Info, Variables

\* The order of the messages, when none of them moves.
LEMMA OrderedStays ==
    ASSUME TypeOK, Ordered, pending'[Server] = pending[Server],
           flags'[Server].data = flags[Server].data, taken' = taken,
           \A m \in Messages : IsSent(m) => IsSent(m)',
           flags'[Server].signum /\ ToRead' =>
               \A k \in DOMAIN taken : Later(taken[k], flags[Server].data)
    PROVE  Ordered'
<1>1. /\ \A i \in DOMAIN pending[Server] : pending[Server][i].data \in Messages
      /\ \A k \in DOMAIN taken : taken[k] \in Messages
      /\ flags[Server].data \in Messages \cup {Nothing}
    BY InTransit, RolesOfProc
<1>2. \A i \in DOMAIN pending[Server] : IsSent(pending[Server][i].data)'
    <2> SUFFICES ASSUME NEW i \in DOMAIN pending[Server], NEW m, m = pending[Server][i].data
                 PROVE  IsSent(m)'
        BY DEF IsSent
    <2> QED
        BY <1>1 DEF Ordered
<1>3. flags[Server].data # Nothing => IsSent(flags[Server].data)'
    <2> SUFFICES ASSUME NEW m, m = flags[Server].data, m # Nothing
                 PROVE  IsSent(m)'
        BY DEF IsSent
    <2> QED
        BY <1>1 DEF Ordered
<1>4. \A k \in DOMAIN taken : IsSent(taken[k])'
    <2> SUFFICES ASSUME NEW k \in DOMAIN taken, NEW m, m = taken[k]
                 PROVE  IsSent(m)'
        BY DEF IsSent
    <2> QED
        BY <1>1 DEF Ordered
<1> QED
    BY <1>2, <1>3, <1>4 DEF Ordered, Later

\* The characters on their way, when they stay where they are, are delivered,
\* are dropped, or are sent as they may be.
LEMMA OnTheWayStays ==
    ASSUME TypeOK, OnTheWay,
           \A m \in Messages : Typed(m) /\ Outstanding(m) => Outstanding(m)',
           \A m \in Messages : IsTaken(m) => IsTaken(m)',
           \A q \in Proc : \A i \in DOMAIN pending'[q] :
               \/ \E j \in DOMAIN pending[q] : pending'[q][i] = pending[q][j]
               \/ \E m \in Messages :
                      /\ pending'[q][i].data = m
                      /\ Typed(m) => Outstanding(m)' /\ (q \in Clients => IsTaken(m)'),
           \/ flags'[Server].data = Nothing
           \/ flags'[Server].data = flags[Server].data
           \/ \E j \in DOMAIN pending[Server] : flags'[Server].data = pending[Server][j].data,
           Server \notin running' => ~Typed(data'[Server]),
           Answering' => \E m \in Messages :
                             data'[Server] = m /\ Outstanding(m)' /\ IsTaken(m)',
           \A c \in Clients : Typed(flags'[c].data) =>
               /\ \E m \in Messages : flags'[c].data = m /\ awaited'[c] = m /\ IsTaken(m)'
               /\ Waiting(c)' \/ (pc'[c] = "reset" /\ cleared'[c] < 2)
    PROVE  OnTheWay'
<1>1. /\ \A q \in Proc : \A i \in DOMAIN pending[q] : pending[q][i].data \in Messages
      /\ flags[Server].data \in Messages \cup {Nothing}
    BY InTransit, RolesOfProc
<1>2. ASSUME NEW q \in Proc, NEW i, i \in DOMAIN pending'[q], NEW m, m = pending'[q][i].data,
             Typed(m)
      PROVE  Outstanding(m)' /\ (q \in Clients => IsTaken(m)')
    <2>1. CASE \E j \in DOMAIN pending[q] : pending'[q][i] = pending[q][j]
        <3>1. PICK j \in DOMAIN pending[q] : m = pending[q][j].data
            BY <1>2, <2>1
        <3>2. m \in Messages
            BY <1>1, <3>1
        <3>3. Outstanding(m) /\ (q \in Clients => IsTaken(m))
            BY <1>2, <3>1, RolesOfProc DEF OnTheWay
        <3> QED
            BY <1>2, <3>2, <3>3
    <2>2. CASE ~\E j \in DOMAIN pending[q] : pending'[q][i] = pending[q][j]
        BY <1>2, <2>2
    <2> QED
        BY <2>1, <2>2
<1>3. ASSUME NEW m, m = flags'[Server].data, Typed(m), ~IsTaken(m)'
      PROVE  Outstanding(m)'
    <2>1. CASE m = flags[Server].data
        <3>1. m \in Messages
            BY <1>1, <1>3, <2>1 DEF Typed
        <3>2. ~IsTaken(m)
            BY <1>3, <3>1
        <3> QED
            BY <1>3, <2>1, <3>1, <3>2 DEF OnTheWay
    <2>2. CASE \E j \in DOMAIN pending[Server] : m = pending[Server][j].data
        <3>1. m \in Messages /\ Outstanding(m)
            BY <1>1, <1>3, <2>2, RolesOfProc DEF OnTheWay
        <3> QED
            BY <1>3, <3>1
    <2> QED
        BY <1>3, <2>1, <2>2 DEF Typed
<1>4. \A i \in DOMAIN pending'[Server] :
          Typed(pending'[Server][i].data) => Outstanding(pending[Server][i].data)'
    BY <1>2, RolesOfProc
<1>5. Typed(flags'[Server].data) /\ ~IsTaken(flags[Server].data)' =>
          Outstanding(flags[Server].data)'
    BY <1>3
<1>6. Answering' => Outstanding(data[Server])' /\ IsTaken(data[Server])'
    OBVIOUS
<1>7. \A c \in Clients : \A i \in DOMAIN pending'[c] :
          Typed(pending'[c][i].data) =>
              Outstanding(pending[c][i].data)' /\ IsTaken(pending[c][i].data)'
    BY <1>2, RolesOfProc
<1>8. \A c \in Clients : Typed(flags'[c].data) =>
          /\ awaited'[c] = flags'[c].data /\ IsTaken(flags[c].data)'
          /\ Waiting(c)' \/ (pc'[c] = "reset" /\ cleared'[c] < 2)
    OBVIOUS
<1> QED
    BY <1>4, <1>5, <1>6, <1>7, <1>8 DEF OnTheWay

(***************************************************************************)
(* Steps that only move a process.                                         *)
(***************************************************************************)
\* A process goes from one place to another, neither of them inside
\* process_queue_reset_flags(), and on to send() or receipt only elsewhere.
LEMMA MovesKeep ==
    ASSUME IInv, NEW p \in Proc, NEW place,
           pc' = [pc EXCEPT ![p] = place], pc[p] # "reset",
           UNCHANGED <<sigVars, running, attempts, cleared, client_pid, awaited, acked, taken>>,
           polls' \in [Clients -> 0 .. MaxAttempts],
           data' \in [Proc -> Messages \cup {Nothing}], data'[Server] = data[Server],
           place \in {"read pid", "read data"} => flags[p].signum,
           p = Server => /\ place \in {"verify queue", "verify signum", "read pid", "read data",
                                       "exited"}
                         /\ place # "exited" => pc[p] \notin {"receipt", "exited"}
                         /\ place = "read data" => Server \in running,
           p \in Clients => /\ place \in {"verify queue", "verify signum", "read data",
                                          "register", "exited"}
                            /\ place = "register" => p \notin running
                            /\ pc[p] \in {"register", "exited"} => place = "exited"
                            /\ Waiting(p) /\ p \in running =>
                                   place \in {"verify queue", "verify signum", "read data"}
    PROVE  IInv'
<1>1. /\ flags' = flags /\ pending' = pending /\ blocked' = blocked /\ running' = running
      /\ attempts' = attempts /\ cleared' = cleared /\ client_pid' = client_pid
      /\ awaited' = awaited /\ acked' = acked /\ taken' = taken
    BY DEF sigVars
<1>2. /\ pc \in [Proc -> ServerPlaces \cup ClientPlaces] /\ TypeOK
      /\ pc' \in [Proc -> ServerPlaces \cup ClientPlaces]
      /\ pc'[p] = place /\ \A q \in Proc \ {p} : pc'[q] = pc[q]
    <2>1. pc \in [Proc -> ServerPlaces \cup ClientPlaces] /\ TypeOK
        BY DEF IInv, TypeOK, ServerPlaces, ClientPlaces
    <2>2. place \in ServerPlaces \cup ClientPlaces
        BY RolesOfProc DEF ServerPlaces, ClientPlaces
    <2> QED
        BY <2>1, <2>2
<1>3. TypeOK'
    BY <1>1, <1>2 DEF TypeOK, ServerPlaces, ClientPlaces
<1>4. Roles'
    <2>1. pc'[Server] \in ServerPlaces
        BY <1>2, RolesOfProc DEF IInv, Roles, ServerPlaces
    <2>2. \A c \in Clients : /\ pc'[c] \in ClientPlaces
                             /\ pc'[c] \in {"type", "send"} => c \in running
                             /\ pc'[c] = "register" => c \notin running
        BY <1>2, RolesOfProc DEF IInv, Roles, ClientPlaces
    <2>4. \A c \in Clients : pc'[c] \notin {"register", "exited"} => awaited[c] \in Messages
        BY <1>2, RolesOfProc DEF IInv, Roles
    <2>3. \A q \in Proc : pc'[q] # "reset" => cleared[q] = 0
        BY <1>2 DEF IInv, Roles
    <2> QED
        BY <1>1, <2>1, <2>2, <2>3, <2>4 DEF IInv, Roles
<1>5. WholeSignal'
    BY <1>1, <1>2 DEF IInv, WholeSignal
<1>6. Registered'
    BY <1>1, <1>2, RolesOfProc DEF IInv, Registered
<1>7. Ordered'
    <2>1. \A m \in Messages : IsSent(m) => IsSent(m)'
        <3> SUFFICES ASSUME NEW m \in Messages, pc'[m.from] = "send"
                     PROVE  pc[m.from] = "send"
            BY <1>1 DEF IsSent
        <3>1. m.from \in Clients
            BY DEF Messages
        <3> QED
            BY <1>2, <3>1, RolesOfProc
    <2>2. flags'[Server].signum /\ ToRead' =>
              \A k \in DOMAIN taken : Later(taken[k], flags[Server].data)
        <3>1. ToRead' => ToRead
            <4>1. CASE p = Server
                <5>1. pc[Server] \in ServerPlaces
                    BY DEF IInv, Roles
                <5> QED
                    BY <1>1, <1>2, <4>1, <5>1 DEF ToRead, ServerPlaces
            <4>2. CASE p # Server
                <5>1. pc'[Server] = pc[Server]
                    BY <1>2, <4>2, RolesOfProc
                <5> QED
                    BY <1>1, <5>1 DEF ToRead
            <4> QED
                BY <4>1, <4>2
        <3> QED
            BY <1>1, <3>1 DEF IInv, Ordered
    <2> QED
        BY <1>1, <1>2, <2>1, <2>2, OrderedStays DEF IInv
<1>8. \A m \in Messages : Outstanding(m) => Outstanding(m)'
    <2> SUFFICES ASSUME NEW m \in Messages, Outstanding(m)
                 PROVE  Waiting(m.from)'
        BY <1>1 DEF Outstanding
    <2>1. m.from \in Clients /\ m.from \in running /\ Waiting(m.from)
        BY DEF Messages, Outstanding
    <2> QED
        BY <1>2, <2>1, RolesOfProc DEF Waiting
<1>9. Answering' => Answering
    BY <1>1, <1>2, RolesOfProc DEF Answering
<1>10. OnTheWay'
    <2>1. ASSUME NEW c \in Clients, Typed(flags[c].data)
          PROVE  /\ \E m \in Messages : flags[c].data = m /\ awaited[c] = m /\ IsTaken(m)'
                 /\ Waiting(c)' \/ (pc'[c] = "reset" /\ cleared'[c] < 2)
        <3>1. /\ awaited[c] = flags[c].data /\ IsTaken(flags[c].data)
              /\ Waiting(c) \/ (pc[c] = "reset" /\ cleared[c] < 2)
            BY <2>1 DEF IInv, OnTheWay
        <3>2. flags[c].data \in Messages
            BY <1>2, <2>1, InTransit, RolesOfProc DEF Typed
        <3>3. c \in running
            BY <2>1, <3>1 DEF IInv, Roles, Typed
        <3> QED
            BY <1>1, <1>2, <3>1, <3>2, <3>3, RolesOfProc DEF Waiting, IsTaken
    <2>2. Answering' => \E m \in Messages :
              data'[Server] = m /\ Outstanding(m)' /\ IsTaken(m)'
        <3> SUFFICES ASSUME Answering, NEW m, m = data[Server]
                     PROVE  m \in Messages /\ Outstanding(m)' /\ IsTaken(m)'
            BY <1>9
        <3>1. m \in Messages
            BY <1>2, RolesOfProc DEF Answering, Typed, TypeOK
        <3> QED
            BY <1>1, <1>8, <3>1 DEF IInv, OnTheWay, IsTaken
    <2>3. Server \notin running' => ~Typed(data'[Server])
        BY <1>1 DEF IInv, OnTheWay
    <2>4. \A m \in Messages : IsTaken(m) => IsTaken(m)'
        BY <1>1 DEF IsTaken
    <2> QED
        BY <1>1, <1>2, <1>8, <2>1, <2>2, <2>3, <2>4, OnTheWayStays DEF IInv
<1>11. OneReceipt'
    BY <1>1, <1>9 DEF IInv, OneReceipt
<1>12. PrintedWasSent' /\ TypedReceipts'
    BY <1>1 DEF IInv, PrintedWasSent, TypedReceipts, Typed, IsTaken
<1> QED
    BY <1>3, <1>4, <1>5, <1>6, <1>7, <1>10, <1>11, <1>12 DEF IInv

(***************************************************************************)
(* The handler, and the reset of its variables.                            *)
(***************************************************************************)
\* What a client has in its variables is the message it waits for, if it is a
\* character, and it is running.
LEMMA ClientVariables ==
    ASSUME IInv, NEW c \in Clients, Typed(flags[c].data)
    PROVE  /\ flags[c].data \in Messages /\ awaited[c] = flags[c].data /\ c \in running
           /\ IsTaken(flags[c].data)
           /\ Waiting(c) \/ (pc[c] = "reset" /\ cleared[c] < 2)
<1>1. /\ awaited[c] = flags[c].data /\ IsTaken(flags[c].data)
      /\ Waiting(c) \/ (pc[c] = "reset" /\ cleared[c] < 2)
    BY DEF IInv, OnTheWay
<1>2. flags[c].data \in Messages
    BY InTransit, RolesOfProc DEF Typed, IInv
<1>3. c \in running
    BY <1>1 DEF IInv, Roles, Typed
<1> QED
    BY <1>1, <1>2, <1>3

\* What the server is about to send back, if it is a character, is a message
\* its client waits for.
LEMMA ServerAnswers ==
    ASSUME IInv, Answering
    PROVE  \E m \in Messages : data[Server] = m /\ Outstanding(m) /\ IsTaken(m)
BY RolesOfProc DEF IInv, OnTheWay, Answering, Typed, TypeOK

\* A signal is delivered to the server.
LEMMA HandleServerKeeps ==
    ASSUME IInv, Handle(Server)
    PROVE  IInv'
<1>1. /\ pc' = pc /\ running' = running /\ attempts' = attempts /\ polls' = polls
      /\ cleared' = cleared /\ data' = data /\ client_pid' = client_pid
      /\ awaited' = awaited /\ acked' = acked /\ taken' = taken /\ TypeOK
    BY DEF Handle, progVars, IInv
<1>2. /\ pending' \in [Proc -> Seq(Info(Messages))] /\ flags' \in [Proc -> Variables(Messages)]
      /\ blocked' = blocked
      /\ \A q \in Proc \ {Server} : pending'[q] = pending[q] /\ flags'[q] = flags[q]
      /\ 1 \in DOMAIN pending[Server] /\ pending[Server][1] \in Info(Messages)
      /\ \A i \in DOMAIN pending'[Server] :
             /\ i \in Nat /\ i + 1 > 1
             /\ i + 1 \in DOMAIN pending[Server] /\ pending'[Server][i] = pending[Server][i + 1]
      /\ flags'[Server].signum
      /\ flags'[Server].pid = pending[Server][1].pid
      /\ flags'[Server].data = pending[Server][1].data
    BY <1>1, DeliverTakes, SignalTypes, RolesOfProc DEF Handle
<1>3. TypeOK'
    BY <1>1, <1>2 DEF TypeOK, Variables, Info
<1>4. Roles'
    BY <1>1, <1>2 DEF IInv, Roles
<1>5. \A c \in Clients : pending'[c] = pending[c] /\ flags'[c] = flags[c]
    BY <1>2, RolesOfProc
<1>6. WholeSignal'
    <2>1. /\ flags'[Server].pid \in Clients /\ flags'[Server].pid # Nothing
          /\ flags'[Server].data # Nothing
        BY <1>2, RolesOfProc DEF IInv, Roles, Info
    <2> QED
        BY <1>1, <1>2, <1>5, <2>1, RolesOfProc DEF IInv, WholeSignal
<1>7. Registered'
    BY <1>1, <1>5 DEF IInv, Registered
<1>8. Ordered'
    <2>1. \A m : IsSent(m)' <=> IsSent(m)
        BY <1>1 DEF IsSent
    <2>2. \A i \in DOMAIN pending'[Server] :
              /\ IsSent(pending'[Server][i].data)
              /\ Later(flags'[Server].data, pending'[Server][i].data)
              /\ \A k \in DOMAIN taken : Later(taken[k], pending'[Server][i].data)
        BY <1>2 DEF IInv, Ordered
    <2>3. \A i, j \in DOMAIN pending'[Server] :
              i < j => Later(pending'[Server][i].data, pending'[Server][j].data)
        <3> SUFFICES ASSUME NEW i \in DOMAIN pending'[Server], NEW j \in DOMAIN pending'[Server],
                            i < j
                     PROVE  Later(pending'[Server][i].data, pending'[Server][j].data)
            OBVIOUS
        <3>1. i + 1 < j + 1
            BY <1>2
        <3> QED
            BY <1>2, <3>1 DEF IInv, Ordered
    <2>4. /\ IsSent(flags'[Server].data)
          /\ \A k \in DOMAIN taken :
                IsSent(taken[k]) /\ Later(taken[k], flags'[Server].data)
        BY <1>2 DEF IInv, Ordered
    <2> QED
        BY <1>1, <2>1, <2>2, <2>3, <2>4 DEF Ordered, IsSent
<1>9. OnTheWay'
    <2>1. \A m \in Messages : Outstanding(m) <=> Outstanding(m)'
        BY <1>1 DEF Outstanding, Waiting
    <2>2. \A m \in Messages : IsTaken(m) <=> IsTaken(m)'
        BY <1>1 DEF IsTaken
    <2>3. \A q \in Proc : \A i \in DOMAIN pending'[q] :
              \E j \in DOMAIN pending[q] : pending'[q][i] = pending[q][j]
        <3> SUFFICES ASSUME NEW q \in Proc, NEW i \in DOMAIN pending'[q]
                     PROVE  \E j \in DOMAIN pending[q] : pending'[q][i] = pending[q][j]
            OBVIOUS
        <3>1. CASE q = Server
            BY <1>2, <3>1
        <3>2. CASE q # Server
            BY <1>2, <3>2
        <3> QED
            BY <3>1, <3>2
    <2>4. Server \notin running' => ~Typed(data'[Server])
        BY <1>1 DEF IInv, OnTheWay
    <2>5. Answering' => \E m \in Messages :
              data'[Server] = m /\ Outstanding(m)' /\ IsTaken(m)'
        <3>1. Answering' => Answering
            BY <1>1 DEF Answering
        <3> QED
            BY <1>1, <2>1, <2>2, <3>1, ServerAnswers
    <2>6. \A c \in Clients : Typed(flags'[c].data) =>
              /\ \E m \in Messages : flags'[c].data = m /\ awaited'[c] = m /\ IsTaken(m)'
              /\ Waiting(c)' \/ (pc'[c] = "reset" /\ cleared'[c] < 2)
        BY <1>1, <1>5, <2>2, ClientVariables DEF Waiting
    <2>7. \E j \in DOMAIN pending[Server] : flags'[Server].data = pending[Server][j].data
        BY <1>2
    <2> QED
        BY <1>1, <2>1, <2>2, <2>3, <2>4, <2>5, <2>6, <2>7, OnTheWayStays DEF IInv
<1>10. OneReceipt'
    <2>1. Answering' <=> Answering
        BY <1>1 DEF Answering
    <2> QED
        BY <1>5, <2>1 DEF IInv, OneReceipt
<1>11. PrintedWasSent' /\ TypedReceipts'
    BY <1>1 DEF IInv, PrintedWasSent, TypedReceipts, Typed, IsTaken
<1> QED
    BY <1>3, <1>4, <1>6, <1>7, <1>8, <1>9, <1>10, <1>11 DEF IInv

\* A signal is delivered to a client: the receipt of a character finds the
\* client waiting for it.
LEMMA HandleClientKeeps ==
    ASSUME IInv, NEW c \in Clients, Handle(c)
    PROVE  IInv'
<1>1. /\ pc' = pc /\ running' = running /\ attempts' = attempts /\ polls' = polls
      /\ cleared' = cleared /\ data' = data /\ client_pid' = client_pid
      /\ awaited' = awaited /\ acked' = acked /\ taken' = taken /\ TypeOK
    BY DEF Handle, progVars, IInv
<1>2. /\ pending' \in [Proc -> Seq(Info(Messages))] /\ flags' \in [Proc -> Variables(Messages)]
      /\ blocked' = blocked
      /\ \A q \in Proc \ {c} : pending'[q] = pending[q] /\ flags'[q] = flags[q]
      /\ 1 \in DOMAIN pending[c] /\ pending[c][1] \in Info(Messages) /\ pending[c] # << >>
      /\ \A i \in DOMAIN pending'[c] :
             /\ i \in Nat /\ i + 1 > 1
             /\ i + 1 \in DOMAIN pending[c] /\ pending'[c][i] = pending[c][i + 1]
      /\ flags'[c].signum
      /\ flags'[c].pid = pending[c][1].pid
      /\ flags'[c].data = pending[c][1].data
    BY <1>1, DeliverTakes, SignalTypes, RolesOfProc DEF Handle
<1>3. TypeOK'
    BY <1>1, <1>2 DEF TypeOK, Variables, Info
<1>4. /\ pending'[Server] = pending[Server] /\ flags'[Server] = flags[Server]
      /\ c \in Proc /\ c # Server
    BY <1>2, RolesOfProc
<1>5. Roles'
    BY <1>1, <1>4 DEF IInv, Roles
<1>6. WholeSignal'
    <2>1. flags'[c].pid # Nothing /\ flags'[c].data # Nothing
        BY <1>2, RolesOfProc DEF Info
    <2>2. \A q \in Proc : q = c \/ flags'[q] = flags[q]
        BY <1>2
    <2> QED
        BY <1>1, <1>2, <1>4, <2>1, <2>2 DEF IInv, WholeSignal
<1>7. Server \in running /\ client_pid = c
    BY <1>2 DEF IInv, Registered
<1>8. Registered'
    <2>1. \A d \in Clients \ {c} : pending'[d] = pending[d] /\ flags'[d] = flags[d]
        BY <1>2, RolesOfProc
    <2> QED
        BY <1>1, <1>7, <2>1 DEF IInv, Registered
<1>9. Ordered'
    <2>1. \A m : IsSent(m)' <=> IsSent(m)
        BY <1>1 DEF IsSent
    <2>2. flags'[Server].signum /\ ToRead' =>
              \A k \in DOMAIN taken : Later(taken[k], flags[Server].data)
        BY <1>1, <1>4 DEF IInv, Ordered, ToRead
    <2> QED
        BY <1>1, <1>4, <2>1, <2>2, OrderedStays DEF IInv
<1>10. ASSUME Typed(flags'[c].data)
       PROVE  \E m \in Messages : /\ flags'[c].data = m /\ pending[c][1].data = m
                                  /\ awaited[c] = m /\ IsTaken(m) /\ Waiting(c)
    <2>1. PICK m \in Messages : m = pending[c][1].data
        BY <1>2 DEF Info
    <2>2. Typed(m) /\ Outstanding(m) /\ IsTaken(m)
        BY <1>2, <1>10, <2>1 DEF IInv, OnTheWay
    <2>3. m.from \in Clients
        BY DEF Messages
    <2>4. m.from = c
        BY <1>7, <2>2, <2>3 DEF IInv, Registered, Outstanding
    <2> QED
        BY <1>2, <2>1, <2>2, <2>4 DEF Outstanding
<1>11. OnTheWay'
    <2>1. \A m \in Messages : Outstanding(m) <=> Outstanding(m)'
        BY <1>1 DEF Outstanding, Waiting
    <2>2. \A m \in Messages : IsTaken(m) <=> IsTaken(m)'
        BY <1>1 DEF IsTaken
    <2>3. \A q \in Proc : \A i \in DOMAIN pending'[q] :
              \E j \in DOMAIN pending[q] : pending'[q][i] = pending[q][j]
        <3> SUFFICES ASSUME NEW q \in Proc, NEW i \in DOMAIN pending'[q]
                     PROVE  \E j \in DOMAIN pending[q] : pending'[q][i] = pending[q][j]
            OBVIOUS
        <3>1. CASE q = c
            BY <1>2, <3>1
        <3>2. CASE q # c
            BY <1>2, <3>2
        <3> QED
            BY <3>1, <3>2
    <2>4. Server \notin running' => ~Typed(data'[Server])
        BY <1>1 DEF IInv, OnTheWay
    <2>5. Answering' => \E m \in Messages :
              data'[Server] = m /\ Outstanding(m)' /\ IsTaken(m)'
        <3>1. Answering' => Answering
            BY <1>1 DEF Answering
        <3> QED
            BY <1>1, <2>1, <2>2, <3>1, ServerAnswers
    <2>6. ASSUME NEW d \in Clients, Typed(flags'[d].data)
          PROVE  /\ \E m \in Messages : flags'[d].data = m /\ awaited'[d] = m /\ IsTaken(m)'
                 /\ Waiting(d)' \/ (pc'[d] = "reset" /\ cleared'[d] < 2)
        <3>1. CASE d = c
            BY <1>1, <1>10, <2>2, <2>6, <3>1 DEF Waiting
        <3>2. CASE d # c
            <4>1. flags'[d] = flags[d]
                BY <1>2, <3>2, RolesOfProc
            <4> QED
                BY <1>1, <2>2, <2>6, <4>1, ClientVariables DEF Waiting
        <3> QED
            BY <3>1, <3>2
    <2> QED
        BY <1>1, <1>4, <2>1, <2>2, <2>3, <2>4, <2>5, <2>6, OnTheWayStays DEF IInv
<1>12. OneReceipt'
    <2>1. Answering' <=> Answering
        BY <1>1 DEF Answering
    <2>2. ASSUME NEW d \in Clients, d # c
          PROVE  /\ \A i, j \in DOMAIN pending'[d] :
                       Typed(pending'[d][i].data) /\ Typed(pending'[d][j].data) => i = j
                 /\ \A i \in DOMAIN pending'[d] :
                       Typed(pending'[d][i].data) => ~Typed(flags'[d].data) /\ ~Answering
                 /\ Typed(flags'[d].data) => ~Answering
        <3>1. pending'[d] = pending[d] /\ flags'[d] = flags[d]
            BY <1>2, <2>2, RolesOfProc
        <3> QED
            BY <3>1 DEF IInv, OneReceipt
    <2>3. \A i, j \in DOMAIN pending'[c] :
              Typed(pending'[c][i].data) /\ Typed(pending'[c][j].data) => i = j
        <3> SUFFICES ASSUME NEW i \in DOMAIN pending'[c], NEW j \in DOMAIN pending'[c],
                            Typed(pending'[c][i].data), Typed(pending'[c][j].data)
                     PROVE  i = j
            OBVIOUS
        <3>1. i + 1 = j + 1
            BY <1>2 DEF IInv, OneReceipt
        <3> QED
            BY <1>2, <3>1
    <2>4. \A i \in DOMAIN pending'[c] :
              Typed(pending'[c][i].data) => ~Typed(flags'[c].data) /\ ~Answering
        <3> SUFFICES ASSUME NEW i \in DOMAIN pending'[c], Typed(pending'[c][i].data)
                     PROVE  ~Typed(flags'[c].data) /\ ~Answering
            OBVIOUS
        <3>1. i + 1 # 1 /\ i + 1 \in DOMAIN pending[c] /\ Typed(pending[c][i + 1].data)
            BY <1>2
        <3>2. ~Typed(pending[c][1].data) /\ ~Answering
            BY <1>2, <3>1 DEF IInv, OneReceipt
        <3> QED
            BY <1>2, <3>2
    <2>5. Typed(flags'[c].data) => ~Answering
        BY <1>2 DEF IInv, OneReceipt
    <2> QED
        BY <2>1, <2>2, <2>3, <2>4, <2>5 DEF OneReceipt
<1>13. PrintedWasSent' /\ TypedReceipts'
    BY <1>1 DEF IInv, PrintedWasSent, TypedReceipts, Typed, IsTaken
<1> QED
    BY <1>3, <1>5, <1>6, <1>8, <1>9, <1>11, <1>12, <1>13 DEF IInv

(***************************************************************************)
(* The steps of process_queue() that only look.                            *)
(***************************************************************************)
\* The count of the polls starts again before it reaches its limit.
LEMMA PollsCount ==
    ASSUME TypeOK, NEW p \in Clients
    PROVE  PollsAfter(p) \in 0 .. MaxAttempts
<1>1. polls[p] + 1 \in Nat /\ MaxAttempts \in Nat \ {0}
    <2>1. polls \in [Clients -> 0 .. MaxAttempts]
        BY DEF TypeOK
    <2>2. polls[p] \in 0 .. MaxAttempts
        BY <2>1
    <2> QED
        BY <2>2, BoundsOK
<1>2. \A a \in Nat, b \in Nat \ {0} : a % b \in 0 .. b
    OBVIOUS
<1>3. (polls[p] + 1) % MaxAttempts \in 0 .. MaxAttempts
    BY <1>1, <1>2
<1> QED
    BY <1>3 DEF PollsAfter

\* ENODATA.
LEMMA NoDataKeeps ==
    ASSUME IInv, NEW p \in Proc, NoData(p),
           pc[p] \in {"verify queue", "verify signum", "read data"},
           UNCHANGED <<sigVars, running, attempts, cleared, client_pid, awaited, acked, taken>>,
           data' \in [Proc -> Messages \cup {Nothing}], data'[Server] = data[Server]
    PROVE  IInv'
<1>1. polls \in [Clients -> 0 .. MaxAttempts]
    BY DEF IInv, TypeOK
<1>2. CASE p = Server \/ p \in running
    <2>1. pc' = [pc EXCEPT ![p] = "verify queue"] /\ polls' = polls
        BY <1>2 DEF NoData, Goto
    <2> QED
        BY <1>1, <2>1, MovesKeep
<1>3. CASE p # Server /\ p \notin running
    <2>1. p \in Clients
        BY <1>3, RolesOfProc
    <2>2. PollsAfter(p) \in 0 .. MaxAttempts
        BY <2>1, PollsCount DEF IInv
    <2> DEFINE place == IF PollsAfter(p) = 0 THEN "register" ELSE "verify queue"
    <2>3. polls' = [polls EXCEPT ![p] = PollsAfter(p)] /\ pc' = [pc EXCEPT ![p] = place]
        BY <1>3 DEF NoData, Goto
    <2>4. polls' \in [Clients -> 0 .. MaxAttempts]
        BY <1>1, <2>2, <2>3
    <2>5. place \in {"register", "verify queue"}
        OBVIOUS
    <2> HIDE DEF place
    <2> QED
        BY <1>3, <2>1, <2>3, <2>4, <2>5, RolesOfProc, MovesKeep
<1> QED
    BY <1>2, <1>3

LEMMA VerifyKeeps ==
    ASSUME IInv, NEW p \in Proc, VerifyQueue(p) \/ VerifySignum(p)
    PROVE  IInv'
<1>1. /\ UNCHANGED <<sigVars, running, attempts, cleared, data, client_pid, awaited, acked,
                     taken>>
      /\ pc[p] \in {"verify queue", "verify signum"}
    BY DEF VerifyQueue, VerifySignum
<1>2. data' \in [Proc -> Messages \cup {Nothing}] /\ data'[Server] = data[Server]
    BY <1>1 DEF IInv, TypeOK
<1>3. polls \in [Clients -> 0 .. MaxAttempts]
    BY DEF IInv, TypeOK
<1>4. CASE NoData(p)
    BY <1>1, <1>2, <1>4, NoDataKeeps
<1>5. CASE ~NoData(p)
    <2> DEFINE place == IF pc[p] = "verify queue" THEN "verify signum"
                        ELSE IF p = Server THEN "read pid" ELSE "read data"
    <2>1. pc' = [pc EXCEPT ![p] = place] /\ polls' = polls
        BY <1>5 DEF VerifyQueue, VerifySignum, Goto
    <2>2. /\ place \in {"verify signum", "read pid", "read data"}
          /\ place \in {"read pid", "read data"} => flags[p].signum
          /\ p = Server => place # "read data"
          /\ p # Server => place # "read pid"
        BY <1>5 DEF VerifyQueue, VerifySignum
    <2> HIDE DEF place
    <2> QED
        BY <1>1, <1>2, <1>3, <2>1, <2>2, RolesOfProc, MovesKeep
<1> QED
    BY <1>4, <1>5

\* A process gives up.
LEMMA ExitKeeps ==
    ASSUME IInv, \/ ReceiptFails
                 \/ \E c \in Clients : GiveUp(c)
                 \/ \E c \in Clients : Send(c) /\ pc'[c] = "exited"
    PROVE  IInv'
<1>1. PICK p \in Proc :
          /\ pc' = [pc EXCEPT ![p] = "exited"] /\ pc[p] # "reset"
          /\ p \in Clients => ~Waiting(p)
          /\ UNCHANGED <<sigVars, progVars>>
    <2>1. CASE ReceiptFails
        BY <2>1, RolesOfProc DEF ReceiptFails, Goto
    <2>2. CASE \E c \in Clients : GiveUp(c)
        BY <2>2, RolesOfProc DEF GiveUp, Goto, Waiting
    <2>3. CASE \E c \in Clients : Send(c) /\ pc'[c] = "exited"
        <3>1. PICK c \in Clients : Send(c) /\ pc'[c] = "exited"
            BY <2>3
        <3>2. pc \in [Proc -> {"verify queue", "verify signum", "read pid", "read data", "reset",
                               "receipt", "register", "type", "send", "exited"}]
            BY DEF IInv, TypeOK
        <3>3. c \in Proc /\ pc[c] = "send"
            BY <3>1, RolesOfProc DEF Send
        <3>4. pc' = [pc EXCEPT ![c] = "exited"] /\ UNCHANGED <<sigVars, progVars>>
            BY <3>1, <3>2, <3>3 DEF Send, Goto, sigVars
        <3> QED
            BY <3>3, <3>4 DEF Waiting
    <2> QED
        BY <2>1, <2>2, <2>3
<1>2. /\ UNCHANGED <<sigVars, running, attempts, cleared, client_pid, awaited, acked, taken>>
      /\ polls' \in [Clients -> 0 .. MaxAttempts]
      /\ data' \in [Proc -> Messages \cup {Nothing}] /\ data'[Server] = data[Server]
    BY <1>1 DEF progVars, IInv, TypeOK
<1> QED
    BY <1>1, <1>2, MovesKeep

(***************************************************************************)
(* The reset of the handler's variables.                                   *)
(***************************************************************************)
\* One variable is cleared; after the last, signum, the process goes on.
LEMMA ResetDoes ==
    ASSUME IInv, NEW p \in Proc, Reset(p)
    PROVE  /\ flags' \in [Proc -> Variables(Messages)]
           /\ \A q \in Proc \ {p} : flags'[q] = flags[q]
           /\ flags'[p].data = Nothing \/ flags'[p].data = flags[p].data
           /\ \/ /\ cleared[p] \in 0 .. 2 /\ cleared' = [cleared EXCEPT ![p] = cleared[p] + 1]
                 /\ pc' = pc /\ running' = running
                 /\ cleared[p] = 1 => flags'[p].data = Nothing
              \/ /\ cleared' = [cleared EXCEPT ![p] = 0]
                 /\ cleared[p] = 3 /\ ~flags'[p].signum
                 /\ pc' = [pc EXCEPT ![p] = AfterReset(p)]
                 /\ running' = IF p = Server THEN running ELSE running \cup {p}
           /\ pending' = pending /\ blocked' = blocked /\ attempts' = attempts
           /\ polls' = polls /\ data' = data /\ client_pid' = client_pid
           /\ awaited' = awaited /\ acked' = acked /\ taken' = taken
<1>1. cleared \in [Proc -> 0 .. 3] /\ flags \in [Proc -> Variables(Messages)]
    BY FourVariables, SignalTypes DEF IInv, TypeOK
<1>2. cleared[p] \in 0 .. 3
    BY <1>1
<1> DEFINE k == cleared[p] + 1
<1>3. k \in 1 .. 4 /\ ResetOne(p, k)
    BY <1>2 DEF Reset
<1>4. /\ flags' \in [Proc -> Variables(Messages)]
      /\ \A q \in Proc \ {p} : flags'[q] = flags[q]
      /\ flags'[p].data = IF k = 2 THEN Nothing ELSE flags[p].data
      /\ flags'[p].signum <=> k # 4 /\ flags[p].signum
    <2> HIDE DEF k
    <2> QED
        BY <1>1, <1>3, ResetOneClears
<1>5. /\ pending' = pending /\ blocked' = blocked /\ attempts' = attempts
      /\ polls' = polls /\ data' = data /\ client_pid' = client_pid
      /\ awaited' = awaited /\ acked' = acked /\ taken' = taken
    BY DEF Reset
<1>6. CASE k < 4
    <2>1. /\ cleared' = [cleared EXCEPT ![p] = cleared[p] + 1] /\ pc' = pc /\ running' = running
        BY <1>6, FourVariables DEF Reset
    <2> QED
        BY <1>2, <1>4, <1>5, <1>6, <2>1
<1>7. CASE ~(k < 4)
    <2>1. /\ cleared' = [cleared EXCEPT ![p] = 0]
          /\ pc' = [pc EXCEPT ![p] = AfterReset(p)]
          /\ running' = IF p = Server THEN running ELSE running \cup {p}
        BY <1>7, FourVariables DEF Reset, Goto
    <2> QED
        BY <1>2, <1>4, <1>5, <1>7, <2>1
<1> QED
    BY <1>6, <1>7

\* The server.
LEMMA ResetServerKeeps ==
    ASSUME IInv, Reset(Server)
    PROVE  IInv'
<1>1. /\ flags' \in [Proc -> Variables(Messages)]
      /\ \A q \in Proc \ {Server} : flags'[q] = flags[q]
      /\ flags'[Server].data = Nothing \/ flags'[Server].data = flags[Server].data
      /\ pending' = pending /\ blocked' = blocked /\ attempts' = attempts
      /\ polls' = polls /\ data' = data /\ client_pid' = client_pid
      /\ awaited' = awaited /\ acked' = acked /\ taken' = taken
      /\ running' = running
      /\ TypeOK /\ pc[Server] = "reset"
    BY ResetDoes, RolesOfProc DEF IInv, Reset
<1>2. \/ /\ cleared[Server] \in 0 .. 2
         /\ cleared' = [cleared EXCEPT ![Server] = cleared[Server] + 1] /\ pc' = pc
      \/ /\ cleared' = [cleared EXCEPT ![Server] = 0] /\ ~flags'[Server].signum
         /\ pc' = [pc EXCEPT ![Server] = AfterReset(Server)]
    BY ResetDoes, RolesOfProc
<1>3. /\ pc \in [Proc -> ServerPlaces \cup ClientPlaces]
      /\ cleared \in [Proc -> 0 .. 3]
    BY <1>1, FourVariables DEF TypeOK, ServerPlaces, ClientPlaces
<1>4. /\ AfterReset(Server) \in {"verify queue", "receipt"}
      /\ AfterReset(Server) = "receipt" => Server \notin running
    BY DEF AfterReset
<1>5. /\ \A c \in Clients : pc'[c] = pc[c] /\ cleared'[c] = cleared[c] /\ flags'[c] = flags[c]
      /\ \/ pc'[Server] = "reset"
         \/ pc'[Server] = "verify queue" /\ cleared'[Server] = 0 /\ ~flags'[Server].signum
         \/ /\ pc'[Server] = "receipt" /\ cleared'[Server] = 0 /\ ~flags'[Server].signum
            /\ Server \notin running
      /\ pc' \in [Proc -> ServerPlaces \cup ClientPlaces]
      /\ cleared' \in [Proc -> 0 .. 3]
    <2>1. AfterReset(Server) \in ServerPlaces \cup ClientPlaces
        BY <1>4 DEF ServerPlaces
    <2>2. \A c \in Clients : pc'[c] = pc[c] /\ cleared'[c] = cleared[c] /\ flags'[c] = flags[c]
        <3> SUFFICES ASSUME NEW c \in Clients
                     PROVE  pc'[c] = pc[c] /\ cleared'[c] = cleared[c] /\ flags'[c] = flags[c]
            OBVIOUS
        <3>1. c \in Proc /\ c # Server
            BY RolesOfProc
        <3> QED
            BY <1>1, <1>2, <1>3, <3>1
    <2>3. CASE pc' = pc /\ cleared' = [cleared EXCEPT ![Server] = cleared[Server] + 1]
               /\ cleared[Server] \in 0 .. 2
        <3>1. cleared[Server] + 1 \in 0 .. 3
            BY <2>3
        <3> QED
            BY <1>1, <1>3, <2>2, <2>3, <3>1
    <2>4. CASE /\ cleared' = [cleared EXCEPT ![Server] = 0] /\ ~flags'[Server].signum
               /\ pc' = [pc EXCEPT ![Server] = AfterReset(Server)]
        <3>1. Server \in Proc /\ 0 \in 0 .. 3
            BY RolesOfProc
        <3>2. pc'[Server] = AfterReset(Server) /\ cleared'[Server] = 0
            BY <1>3, <2>4, <3>1
        <3>3. /\ pc' \in [Proc -> ServerPlaces \cup ClientPlaces]
              /\ cleared' \in [Proc -> 0 .. 3]
            BY <1>3, <2>1, <2>4, <3>1
        <3> QED
            BY <1>4, <2>2, <2>4, <3>2, <3>3
    <2> QED
        BY <1>2, <2>3, <2>4
<1>6. TypeOK'
    BY <1>1, <1>5, FourVariables DEF TypeOK, ServerPlaces, ClientPlaces, Variables
<1>7. Roles'
    BY <1>1, <1>5, RolesOfProc DEF IInv, Roles, ServerPlaces
<1>8. WholeSignal'
    <2>1. /\ flags'[Server].signum => pc'[Server] = "reset"
          /\ pc'[Server] \notin {"read pid", "read data"}
        BY <1>5
    <2>2. \A q \in Proc : q = Server \/ (pc'[q] = pc[q] /\ flags'[q] = flags[q])
        BY <1>5, RolesOfProc
    <2> QED
        BY <1>1, <2>1, <2>2 DEF IInv, WholeSignal
<1>9. Registered'
    BY <1>1, <1>5 DEF IInv, Registered
<1>10. \A m \in Messages : /\ (IsSent(m) <=> IsSent(m)') /\ (Outstanding(m) <=> Outstanding(m)')
                           /\ (IsTaken(m) <=> IsTaken(m)')
    <2> SUFFICES ASSUME NEW m \in Messages
                 PROVE  /\ (IsSent(m) <=> IsSent(m)') /\ (Outstanding(m) <=> Outstanding(m)')
                        /\ (IsTaken(m) <=> IsTaken(m)')
        OBVIOUS
    <2>1. m.from \in Clients
        BY DEF Messages
    <2> QED
        BY <1>1, <1>5, <2>1 DEF IsSent, Outstanding, Waiting, IsTaken
<1>11. Ordered'
    <2>1. /\ \A i \in DOMAIN pending[Server] : pending[Server][i].data \in Messages
          /\ \A k \in DOMAIN taken : taken[k] \in Messages
          /\ flags'[Server].data \in Messages \cup {Nothing}
        BY <1>1, InTransit, RolesOfProc
    <2>2. \A i \in DOMAIN pending[Server] : IsSent(pending[Server][i].data)'
        <3> SUFFICES ASSUME NEW i \in DOMAIN pending[Server], NEW m, m = pending[Server][i].data
                     PROVE  IsSent(m)'
            BY <1>1 DEF IsSent
        <3> QED
            BY <1>10, <2>1 DEF IInv, Ordered
    <2>3. flags'[Server].data # Nothing =>
              /\ IsSent(flags[Server].data)'
              /\ \A i \in DOMAIN pending[Server] :
                    Later(flags'[Server].data, pending[Server][i].data)
        <3> SUFFICES ASSUME NEW m, m = flags'[Server].data, m # Nothing
                     PROVE  /\ IsSent(m)'
                            /\ \A i \in DOMAIN pending[Server] : Later(m, pending[Server][i].data)
            BY DEF IsSent
        <3> QED
            BY <1>1, <1>10, <2>1 DEF IInv, Ordered
    <2>4. \A k \in DOMAIN taken : IsSent(taken[k])'
        <3> SUFFICES ASSUME NEW k \in DOMAIN taken, NEW m, m = taken[k]
                     PROVE  IsSent(m)'
            BY <1>1 DEF IsSent
        <3> QED
            BY <1>10, <2>1 DEF IInv, Ordered
    <2> QED
        BY <1>1, <1>5, <2>2, <2>3, <2>4 DEF IInv, Ordered, Later, ToRead
<1>12. ~Answering'
    BY <1>1, <1>5 DEF IInv, OnTheWay, Answering
<1>13. OnTheWay'
    <2>1. Server \notin running' => ~Typed(data'[Server])
        BY <1>1 DEF IInv, OnTheWay
    <2>2. \A c \in Clients : Typed(flags'[c].data) =>
              /\ \E m \in Messages : flags'[c].data = m /\ awaited'[c] = m /\ IsTaken(m)'
              /\ Waiting(c)' \/ (pc'[c] = "reset" /\ cleared'[c] < 2)
        BY <1>1, <1>5, <1>10, ClientVariables DEF Waiting
    <2> QED
        BY <1>1, <1>10, <1>12, <2>1, <2>2, OnTheWayStays DEF IInv
<1>14. OneReceipt'
    BY <1>1, <1>5, <1>12 DEF IInv, OneReceipt
<1>15. PrintedWasSent' /\ TypedReceipts'
    BY <1>1 DEF IInv, PrintedWasSent, TypedReceipts, Typed, IsTaken
<1> QED
    BY <1>6, <1>7, <1>8, <1>9, <1>11, <1>13, <1>14, <1>15 DEF IInv

\* A client, which by then is the one the server registered.
LEMMA ResetClientKeeps ==
    ASSUME IInv, NEW c \in Clients, Reset(c)
    PROVE  IInv'
<1>1. /\ flags' \in [Proc -> Variables(Messages)]
      /\ \A q \in Proc \ {c} : flags'[q] = flags[q]
      /\ flags'[c].data = Nothing \/ flags'[c].data = flags[c].data
      /\ pending' = pending /\ blocked' = blocked /\ attempts' = attempts
      /\ polls' = polls /\ data' = data /\ client_pid' = client_pid
      /\ awaited' = awaited /\ acked' = acked /\ taken' = taken
      /\ TypeOK /\ pc[c] = "reset"
    BY ResetDoes, RolesOfProc DEF IInv, Reset
<1>2. \/ /\ cleared[c] \in 0 .. 2 /\ cleared' = [cleared EXCEPT ![c] = cleared[c] + 1]
         /\ pc' = pc /\ running' = running
         /\ cleared[c] = 1 => flags'[c].data = Nothing
      \/ /\ cleared' = [cleared EXCEPT ![c] = 0] /\ cleared[c] = 3
         /\ ~flags'[c].signum
         /\ pc' = [pc EXCEPT ![c] = "type"] /\ running' = running \cup {c}
    BY ResetDoes, RolesOfProc DEF AfterReset
<1>3. /\ pc \in [Proc -> ServerPlaces \cup ClientPlaces]
      /\ cleared \in [Proc -> 0 .. 3] /\ c \in Proc /\ c # Server
    BY <1>1, FourVariables, RolesOfProc DEF TypeOK, ServerPlaces, ClientPlaces
<1>4. Server \in running /\ client_pid = c
    BY <1>1 DEF IInv, Registered
<1>5. /\ \A q \in Proc \ {c} : pc'[q] = pc[q] /\ cleared'[q] = cleared[q]
      /\ \/ pc'[c] = "reset" /\ running' = running
         \/ /\ pc'[c] = "type" /\ cleared'[c] = 0 /\ ~flags'[c].signum
            /\ running' = running \cup {c}
      /\ pc' \in [Proc -> ServerPlaces \cup ClientPlaces]
      /\ cleared' \in [Proc -> 0 .. 3]
      /\ Typed(flags'[c].data) => pc'[c] = "reset" /\ cleared'[c] < 2
    <2>1. "type" \in ServerPlaces \cup ClientPlaces
        BY DEF ClientPlaces
    <2>2. ASSUME Typed(flags'[c].data)
          PROVE  cleared[c] < 2
        <3>1. flags'[c].data = flags[c].data
            BY <1>1, <2>2 DEF Typed
        <3> QED
            BY <1>1, <2>2, <3>1, ClientVariables DEF Waiting
    <2>3. CASE pc' = pc
        <3>1. cleared[c] \in 0 .. 2 /\ cleared' = [cleared EXCEPT ![c] = cleared[c] + 1]
            BY <1>1, <1>2, <1>3, <2>3
        <3>2. Typed(flags'[c].data) => cleared[c] = 0
            BY <1>1, <1>2, <1>3, <2>2, <2>3, <3>1 DEF Typed
        <3> QED
            BY <1>1, <1>2, <1>3, <2>3, <3>1, <3>2
    <2>4. CASE pc' # pc
        BY <1>1, <1>2, <1>3, <2>1, <2>2, <2>4
    <2> QED
        BY <2>3, <2>4
<1>6. /\ pc'[Server] = pc[Server] /\ flags'[Server] = flags[Server]
      /\ \A d \in Clients \ {c} : pc'[d] = pc[d] /\ cleared'[d] = cleared[d] /\ flags'[d] = flags[d]
    BY <1>1, <1>3, <1>5, RolesOfProc
<1>7. TypeOK'
    BY <1>1, <1>3, <1>5, FourVariables DEF TypeOK, ServerPlaces, ClientPlaces, Variables
<1>8. Roles'
    <2>1. \A d \in Clients : /\ pc'[d] \in ClientPlaces
                             /\ pc'[d] \in {"type", "send"} => d \in running'
                             /\ pc'[d] = "register" => d \notin running'
        <3>1. "reset" \in ClientPlaces /\ "type" \in ClientPlaces
            BY DEF ClientPlaces
        <3> QED
            BY <1>5, <1>6, <3>1 DEF IInv, Roles
    <2>2. \A d \in Clients : d \notin running' => d \notin running
        BY <1>5
    <2> QED
        BY <1>1, <1>5, <1>6, <2>1, <2>2 DEF IInv, Roles
<1>9. WholeSignal'
    <2>1. \A q \in Proc \ {c} : pc'[q] = pc[q] /\ flags'[q] = flags[q]
        BY <1>1, <1>5
    <2> QED
        BY <1>1, <1>3, <1>5, <2>1 DEF IInv, WholeSignal
<1>10. Registered'
    <2>1. Server \in running' /\ \A d \in Clients \ {c} : d \in running' <=> d \in running
        BY <1>4, <1>5
    <2> QED
        BY <1>1, <1>4, <1>6, <2>1 DEF IInv, Registered
<1>11. \A m \in Messages : /\ (IsSent(m) => IsSent(m)') /\ (Outstanding(m) => Outstanding(m)')
                           /\ (IsTaken(m) <=> IsTaken(m)')
    <2> SUFFICES ASSUME NEW m \in Messages
                 PROVE  /\ (IsSent(m) => IsSent(m)') /\ (Outstanding(m) => Outstanding(m)')
                        /\ (IsTaken(m) <=> IsTaken(m)')
        OBVIOUS
    <2>1. m.from \in Clients
        BY DEF Messages
    <2>2. pc'[m.from] = "send" => pc[m.from] = "send"
        BY <1>5, <1>6, <2>1
    <2>3. Waiting(m.from) => Waiting(m.from)'
        BY <1>1, <1>6, <2>1 DEF Waiting
    <2>4. m.from \in running => m.from \in running'
        BY <1>5
    <2> QED
        BY <1>1, <2>2, <2>3, <2>4 DEF IsSent, Outstanding, IsTaken
<1>12. Ordered'
    <2>1. flags'[Server].signum /\ ToRead' =>
              \A k \in DOMAIN taken : Later(taken[k], flags[Server].data)
        <3>1. ToRead' => ToRead
            BY <1>4, <1>5, RolesOfProc DEF ToRead
        <3> QED
            BY <1>6, <3>1 DEF IInv, Ordered
    <2> QED
        BY <1>1, <1>6, <1>11, <2>1, OrderedStays DEF IInv
<1>13. Answering' <=> Answering
    BY <1>1, <1>6 DEF Answering
<1>14. OnTheWay'
    <2>1. Server \notin running' => ~Typed(data'[Server])
        BY <1>4, <1>5
    <2>2. Answering' => \E m \in Messages :
              data'[Server] = m /\ Outstanding(m)' /\ IsTaken(m)'
        BY <1>1, <1>11, <1>13, ServerAnswers
    <2>3. ASSUME NEW d \in Clients, Typed(flags'[d].data)
          PROVE  /\ \E m \in Messages : flags'[d].data = m /\ awaited'[d] = m /\ IsTaken(m)'
                 /\ Waiting(d)' \/ (pc'[d] = "reset" /\ cleared'[d] < 2)
        <3>1. flags'[d].data = flags[d].data
            BY <1>1, <1>6, <2>3 DEF Typed
        <3>2. /\ flags[d].data \in Messages /\ awaited[d] = flags[d].data
              /\ IsTaken(flags[d].data)
              /\ Waiting(d) \/ (pc[d] = "reset" /\ cleared[d] < 2)
            BY <2>3, <3>1, ClientVariables
        <3>3. Waiting(d)' \/ (pc'[d] = "reset" /\ cleared'[d] < 2)
            BY <1>5, <1>6, <2>3, <3>2 DEF Waiting
        <3> QED
            BY <1>1, <1>11, <3>1, <3>2, <3>3
    <2> QED
        BY <1>1, <1>6, <1>11, <2>1, <2>2, <2>3, OnTheWayStays DEF IInv
<1>15. OneReceipt'
    <2>1. \A d \in Clients : Typed(flags'[d].data) => Typed(flags[d].data)
        BY <1>1, <1>6 DEF Typed
    <2> QED
        BY <1>1, <1>13, <2>1 DEF IInv, OneReceipt
<1>16. PrintedWasSent' /\ TypedReceipts'
    BY <1>1 DEF IInv, PrintedWasSent, TypedReceipts, Typed, IsTaken
<1> QED
    BY <1>7, <1>8, <1>9, <1>10, <1>12, <1>14, <1>15, <1>16 DEF IInv

(***************************************************************************)
(* The server reads, prints and answers.                                   *)
(***************************************************************************)
\* No message is later than itself.
LEMMA NotLater ==
    ASSUME NEW m \in Messages
    PROVE  ~Later(m, m)
<1>1. m.n \in 1 .. MaxAttempts + MaxTyped
    BY DEF Messages
<1>2. m.n \in Int
    BY <1>1
<1> QED
    BY <1>2 DEF Later

\* What the server is about to read is a message its client sent after all
\* those it took before.
LEMMA ServerReads ==
    ASSUME IInv, pc[Server] = "read data", NEW v, v = flags[Server].data
    PROVE  /\ v \in Messages /\ IsSent(v) /\ ~IsTaken(v)
           /\ Typed(v) => Outstanding(v)
           /\ \A i \in DOMAIN pending[Server] : Later(v, pending[Server][i].data)
           /\ \A k \in DOMAIN taken : Later(taken[k], v)
<1>1. flags[Server].signum /\ v # Nothing /\ v \in Messages
    BY InTransit, RolesOfProc DEF IInv, WholeSignal
<1>2. /\ IsSent(v) /\ \A i \in DOMAIN pending[Server] : Later(v, pending[Server][i].data)
      /\ \A k \in DOMAIN taken : Later(taken[k], v)
    BY <1>1 DEF IInv, Ordered, ToRead
<1>3. ~IsTaken(v)
    <2> SUFFICES ASSUME NEW k \in DOMAIN taken, taken[k] = v
                 PROVE  FALSE
        BY DEF IsTaken
    <2> QED
        BY <1>1, <1>2, NotLater
<1>4. Typed(v) => Outstanding(v)
    BY <1>3 DEF IInv, OnTheWay
<1> QED
    BY <1>1, <1>2, <1>3, <1>4

\* A client with a character on its way is the one the server registered.
LEMMA TheClient ==
    ASSUME IInv, NEW m \in Messages, Outstanding(m)
    PROVE  Server \in running /\ client_pid = m.from
BY DEF IInv, Registered, Outstanding, Messages

\* Registering, the server takes whose signal it reads as its client.
LEMMA ReadPidKeeps ==
    ASSUME IInv, ReadPid
    PROVE  IInv'
<1>1. /\ UNCHANGED <<sigVars, running, attempts, polls, cleared, data, awaited, acked, taken>>
      /\ pc[Server] = "read pid" /\ TypeOK
    BY DEF ReadPid, IInv
<1>2. polls' \in [Clients -> 0 .. MaxAttempts] /\ data' \in [Proc -> Messages \cup {Nothing}]
    BY <1>1 DEF TypeOK
<1>3. flags[Server].signum /\ flags[Server].pid \in Clients /\ Server \in Proc
    BY <1>1, RolesOfProc DEF IInv, WholeSignal
<1>4. CASE Server \in running
    <2> DEFINE place == IF flags[Server].pid = client_pid THEN "read data" ELSE "verify queue"
    <2>1. pc' = [pc EXCEPT ![Server] = place] /\ client_pid' = client_pid
        BY <1>4 DEF ReadPid, Goto
    <2>2. place \in {"read data", "verify queue"}
        OBVIOUS
    <2> HIDE DEF place
    <2> QED
        BY <1>1, <1>2, <1>3, <1>4, <2>1, <2>2, RolesOfProc, MovesKeep
<1>5. CASE Server \notin running
    <2>1. /\ flags' = flags /\ pending' = pending /\ blocked' = blocked /\ running' = running
          /\ attempts' = attempts /\ polls' = polls /\ cleared' = cleared /\ data' = data
          /\ awaited' = awaited /\ acked' = acked /\ taken' = taken
        BY <1>1 DEF sigVars
    <2>2. client_pid' = flags[Server].pid /\ pc' = [pc EXCEPT ![Server] = "read data"]
        BY <1>5 DEF ReadPid, Goto
    <2>3. pc \in [Proc -> ServerPlaces \cup ClientPlaces]
        BY <1>1 DEF TypeOK, ServerPlaces, ClientPlaces
    <2>4. /\ pc'[Server] = "read data" /\ pc' \in [Proc -> ServerPlaces \cup ClientPlaces]
          /\ \A q \in Proc \ {Server} : pc'[q] = pc[q]
        BY <1>3, <2>2, <2>3 DEF ServerPlaces
    <2>5. \A c \in Clients : pc'[c] = pc[c]
        BY <2>4, RolesOfProc
    <2>6. TypeOK'
        BY <1>1, <1>3, <2>1, <2>2, <2>4 DEF TypeOK, ServerPlaces, ClientPlaces
    <2>7. Roles'
        BY <1>1, <2>1, <2>4, <2>5, RolesOfProc DEF IInv, Roles, ServerPlaces
    <2>8. WholeSignal'
        <3>1. pc[Server] # "reset" /\ pc'[Server] \notin {"reset", "receipt"}
            BY <1>1, <2>4
        <3>2. \A q \in Proc : q = Server \/ pc'[q] = pc[q]
            BY <2>4
        <3> QED
            BY <1>3, <2>1, <3>1, <3>2 DEF IInv, WholeSignal
    <2>9. Registered'
        BY <1>3, <1>5, <2>1, <2>2, <2>5 DEF IInv, Registered
    <2>10. \A k \in DOMAIN taken : Later(taken[k], flags[Server].data)
        BY <1>1, <1>3 DEF IInv, Ordered, ToRead
    <2>11. \A m \in Messages : /\ (IsSent(m) <=> IsSent(m)') /\ (Outstanding(m) <=> Outstanding(m)')
                               /\ (IsTaken(m) <=> IsTaken(m)')
        <3> SUFFICES ASSUME NEW m \in Messages
                     PROVE  /\ (IsSent(m) <=> IsSent(m)') /\ (Outstanding(m) <=> Outstanding(m)')
                            /\ (IsTaken(m) <=> IsTaken(m)')
            OBVIOUS
        <3>1. pc'[m.from] = pc[m.from]
            BY <2>5 DEF Messages
        <3> QED
            BY <2>1, <3>1 DEF IsSent, Outstanding, Waiting, IsTaken
    <2>12. Ordered'
        BY <1>1, <2>1, <2>10, <2>11, OrderedStays DEF IInv
    <2>13. ~Answering'
        BY <2>4 DEF Answering
    <2>14. OnTheWay'
        <3>1. Server \notin running' => ~Typed(data'[Server])
            BY <2>1 DEF IInv, OnTheWay
        <3>2. \A c \in Clients : Typed(flags'[c].data) =>
                  /\ \E m \in Messages : flags'[c].data = m /\ awaited'[c] = m /\ IsTaken(m)'
                  /\ Waiting(c)' \/ (pc'[c] = "reset" /\ cleared'[c] < 2)
            BY <2>1, <2>5, <2>11, ClientVariables DEF Waiting
        <3> QED
            BY <1>1, <2>1, <2>11, <2>13, <3>1, <3>2, OnTheWayStays DEF IInv
    <2>15. OneReceipt'
        BY <2>1, <2>13 DEF IInv, OneReceipt
    <2>16. PrintedWasSent' /\ TypedReceipts'
        BY <2>1 DEF IInv, PrintedWasSent, TypedReceipts, Typed, IsTaken
    <2> QED
        BY <2>6, <2>7, <2>8, <2>9, <2>12, <2>14, <2>15, <2>16 DEF IInv
<1> QED
    BY <1>4, <1>5

\* Printing appends the message that is read.
LEMMA PrintAppends ==
    ASSUME taken \in Seq(Messages), NEW v \in Messages, taken' = Append(taken, v)
    PROVE  /\ taken' \in Seq(Messages) /\ Len(taken) \in Nat
           /\ DOMAIN taken = 1 .. Len(taken) /\ DOMAIN taken' = 1 .. Len(taken) + 1
           /\ \A k \in DOMAIN taken : k \in DOMAIN taken' /\ taken'[k] = taken[k]
           /\ \A k \in DOMAIN taken' : k \in DOMAIN taken \/ taken'[k] = v
           /\ taken'[Len(taken) + 1] = v
<1>1. /\ taken' \in Seq(Messages) /\ Len(taken') = Len(taken) + 1
      /\ \A i \in 1 .. Len(taken) : taken'[i] = taken[i]
      /\ taken'[Len(taken) + 1] = v
    BY AppendProperties
<1>2. DOMAIN taken = 1 .. Len(taken) /\ DOMAIN taken' = 1 .. Len(taken')
      /\ Len(taken) \in Nat
    BY <1>1
<1> QED
    BY <1>1, <1>2

LEMMA PrintKeepsOrder ==
    ASSUME PrintedWasSent, taken \in Seq(Messages), NEW v \in Messages,
           taken' = Append(taken, v), \A k \in DOMAIN taken : Later(taken[k], v)
    PROVE  PrintedWasSent'
<1>1. /\ \A k \in DOMAIN taken : k \in DOMAIN taken' /\ taken'[k] = taken[k]
      /\ DOMAIN taken = 1 .. Len(taken) /\ DOMAIN taken' = 1 .. Len(taken) + 1
      /\ Len(taken) \in Nat
      /\ taken'[Len(taken) + 1] = v
      /\ \A k \in DOMAIN taken' : taken'[k] \in Messages
    <2>1. taken' \in Seq(Messages)
        BY PrintAppends
    <2> QED
        BY <2>1, PrintAppends
<1>2. \A i, j \in DOMAIN taken' : i < j => i \in DOMAIN taken
    BY <1>1
<1>3. \A i, j \in DOMAIN taken' :
          i < j /\ taken'[i].from = taken'[j].from => taken'[i].n < taken'[j].n
    <2> SUFFICES ASSUME NEW i \in DOMAIN taken', NEW j \in DOMAIN taken', i < j,
                        taken'[i].from = taken'[j].from
                 PROVE  taken'[i].n < taken'[j].n
        OBVIOUS
    <2>1. i \in DOMAIN taken
        BY <1>2
    <2>2. CASE j \in DOMAIN taken
        BY <1>1, <2>1, <2>2 DEF PrintedWasSent
    <2>3. CASE j \notin DOMAIN taken
        <3>1. j = Len(taken) + 1
            BY <1>1, <2>3
        <3> QED
            BY <1>1, <2>1, <3>1 DEF Later
    <2> QED
        BY <2>2, <2>3
<1> QED
    BY <1>1, <1>3, RolesOfProc DEF PrintedWasSent

\* The server reads the data; past its registration it prints them, and that
\* is the first time it does.
LEMMA ReadDataKeeps ==
    ASSUME IInv, ReadData
    PROVE  IInv'
<1> DEFINE place == IF Server \in running THEN "receipt" ELSE "reset"
<1>1. /\ flags' = flags /\ pending' = pending /\ blocked' = blocked /\ running' = running
      /\ attempts' = attempts /\ polls' = polls /\ cleared' = cleared
      /\ client_pid' = client_pid /\ awaited' = awaited /\ acked' = acked
      /\ pc[Server] = "read data" /\ TypeOK
    BY DEF ReadData, sigVars, IInv
<1>2. PICK v \in Messages : v = flags[Server].data
    BY <1>1, ServerReads
<1>3. /\ IsSent(v) /\ ~IsTaken(v)
      /\ Typed(v) => Outstanding(v)
      /\ \A i \in DOMAIN pending[Server] : Later(v, pending[Server][i].data)
      /\ \A k \in DOMAIN taken : Later(taken[k], v)
    BY <1>1, <1>2, ServerReads
<1>4. /\ data' = [data EXCEPT ![Server] = v] /\ pc' = [pc EXCEPT ![Server] = place]
      /\ taken' = Append(taken, v)
    BY <1>2 DEF ReadData, Goto
<1>5. /\ pc \in [Proc -> ServerPlaces \cup ClientPlaces]
      /\ data \in [Proc -> Messages \cup {Nothing}] /\ taken \in Seq(Messages)
      /\ Server \in Proc /\ Nothing \notin Messages
    <2>1. /\ pc \in [Proc -> ServerPlaces \cup ClientPlaces]
          /\ data \in [Proc -> Messages \cup {Nothing}]
        BY <1>1 DEF TypeOK, ServerPlaces, ClientPlaces
    <2>2. taken \in Seq(Messages)
        BY <1>1 DEF TypeOK
    <2> QED
        BY <2>1, <2>2, RolesOfProc
<1>6. place \in {"receipt", "reset"} /\ place \in ServerPlaces
    BY DEF ServerPlaces
<1>7. /\ pc'[Server] = place /\ pc' \in [Proc -> ServerPlaces \cup ClientPlaces]
      /\ \A q \in Proc \ {Server} : pc'[q] = pc[q]
      /\ data'[Server] = v /\ data' \in [Proc -> Messages \cup {Nothing}]
    <2> HIDE DEF place
    <2> QED
        BY <1>4, <1>5, <1>6
<1>8. \A c \in Clients : pc'[c] = pc[c]
    BY <1>7, RolesOfProc
<1>9. /\ taken' \in Seq(Messages)
      /\ \A k \in DOMAIN taken : k \in DOMAIN taken' /\ taken'[k] = taken[k]
      /\ \A k \in DOMAIN taken' :
             taken'[k] = v \/ (k \in DOMAIN taken /\ taken'[k] = taken[k])
    BY <1>4, <1>5, PrintAppends
<1>10. IsTaken(v)'
    <2> SUFFICES \E k \in DOMAIN taken' : taken'[k] = v
        BY DEF IsTaken
    <2>1. /\ taken'[Len(taken) + 1] = v /\ Len(taken) \in Nat
          /\ DOMAIN taken' = 1 .. Len(taken) + 1
        BY <1>4, <1>5, PrintAppends
    <2>2. Len(taken) + 1 \in DOMAIN taken'
        BY <2>1
    <2> QED
        BY <2>1, <2>2
<1> HIDE DEF place
<1>11. TypeOK'
    <2>1. taken' \in Seq(Messages)
        BY <1>9
    <2> QED
        BY <1>1, <1>7, <2>1 DEF TypeOK, ServerPlaces, ClientPlaces
<1>12. Roles'
    BY <1>1, <1>6, <1>7, <1>8, RolesOfProc DEF IInv, Roles
<1>13. WholeSignal'
    <2>1. \A q \in Proc : q = Server \/ pc'[q] = pc[q]
        BY <1>7
    <2>2. flags[Server].signum => /\ flags[Server].pid # Nothing /\ flags[Server].data # Nothing
                                  /\ flags[Server].pid \in Clients
        BY <1>1, <1>5 DEF IInv, WholeSignal
    <2> QED
        BY <1>1, <1>5, <1>6, <1>7, <2>1, <2>2 DEF IInv, WholeSignal
<1>14. Registered'
    <2>1. client_pid \in Clients
        BY <1>1 DEF IInv, Registered
    <2> QED
        BY <1>1, <1>8, <2>1 DEF IInv, Registered
<1>15. \A m \in Messages : /\ (IsSent(m) <=> IsSent(m)') /\ (Outstanding(m) <=> Outstanding(m)')
                           /\ (IsTaken(m) => IsTaken(m)')
    <2> SUFFICES ASSUME NEW m \in Messages
                 PROVE  /\ (IsSent(m) <=> IsSent(m)') /\ (Outstanding(m) <=> Outstanding(m)')
                        /\ (IsTaken(m) => IsTaken(m)')
        OBVIOUS
    <2>1. pc'[m.from] = pc[m.from]
        BY <1>8 DEF Messages
    <2>2. IsTaken(m) => IsTaken(m)'
        BY <1>9 DEF IsTaken
    <2> QED
        BY <1>1, <2>1, <2>2 DEF IsSent, Outstanding, Waiting
<1>16. Ordered'
    <2>1. \A i \in DOMAIN pending[Server] : pending[Server][i].data \in Messages
        BY <1>1, InTransit, RolesOfProc
    <2>2. \A i \in DOMAIN pending[Server] : IsSent(pending[Server][i].data)'
        <3> SUFFICES ASSUME NEW i \in DOMAIN pending[Server], NEW m, m = pending[Server][i].data
                     PROVE  IsSent(m)'
            BY <1>1 DEF IsSent
        <3> QED
            BY <1>15, <2>1 DEF IInv, Ordered
    <2>3. IsSent(v)'
        BY <1>3, <1>15
    <2>4. ASSUME NEW k \in DOMAIN taken', NEW m, m = taken'[k]
          PROVE  /\ IsSent(m)'
                 /\ \A i \in DOMAIN pending[Server] : Later(m, pending[Server][i].data)
        <3>1. CASE m = v
            BY <1>3, <2>3, <3>1
        <3>2. CASE m # v
            <4>1. k \in DOMAIN taken /\ m = taken[k]
                BY <1>9, <2>4, <3>2
            <4>2. m \in Messages
                BY <1>1, <4>1, InTransit
            <4> QED
                BY <1>15, <4>1, <4>2 DEF IInv, Ordered
        <3> QED
            BY <3>1, <3>2
    <2>5. \A k \in DOMAIN taken' :
              /\ IsSent(taken[k])'
              /\ \A i \in DOMAIN pending[Server] : Later(taken'[k], pending[Server][i].data)
        <3> SUFFICES ASSUME NEW k \in DOMAIN taken', NEW m, m = taken'[k]
                     PROVE  /\ IsSent(m)'
                            /\ \A i \in DOMAIN pending[Server] : Later(m, pending[Server][i].data)
            BY DEF IsSent
        <3> QED
            BY <2>4
    <2>6. \A i, j \in DOMAIN pending[Server] :
              i < j => Later(pending[Server][i].data, pending[Server][j].data)
        BY DEF IInv, Ordered
    <2>7. flags'[Server].data = v
        BY <1>1, <1>2
    <2>8. ~ToRead'
        BY <1>1, <1>7 DEF ToRead, place
    <2>9. IsSent(flags[Server].data)'
        BY <2>3, <2>7 DEF IsSent
    <2> QED
        BY <1>1, <1>3, <2>2, <2>5, <2>6, <2>7, <2>8, <2>9 DEF Ordered
<1>17. Answering' => Server \in running /\ Typed(v)
    BY <1>6, <1>7 DEF Answering, place
<1>18. OnTheWay'
    <2>1. Server \notin running' => ~Typed(data'[Server])
        BY <1>1, <1>3, <1>7, <1>2, TheClient
    <2>2. Answering' => \E m \in Messages :
              data'[Server] = m /\ Outstanding(m)' /\ IsTaken(m)'
        BY <1>3, <1>7, <1>10, <1>15, <1>17
    <2>3. \A c \in Clients : Typed(flags'[c].data) =>
              /\ \E m \in Messages : flags'[c].data = m /\ awaited'[c] = m /\ IsTaken(m)'
              /\ Waiting(c)' \/ (pc'[c] = "reset" /\ cleared'[c] < 2)
        BY <1>1, <1>8, <1>15, ClientVariables DEF Waiting
    <2> QED
        BY <1>1, <1>15, <2>1, <2>2, <2>3, OnTheWayStays DEF IInv
<1>19. OneReceipt'
    <2> SUFFICES ASSUME Answering', NEW c \in Clients
                 PROVE  /\ \A i \in DOMAIN pending[c] : ~Typed(pending[c][i].data)
                        /\ ~Typed(flags[c].data)
        BY <1>1 DEF IInv, OneReceipt
    <2>1. Typed(v) /\ Outstanding(v) /\ client_pid = v.from
        BY <1>3, <1>17, TheClient
    <2>2. ASSUME NEW m \in Messages, Outstanding(m) \/ (m = awaited[client_pid]), IsTaken(m)
          PROVE  FALSE
        <3>1. m = v
            BY <2>1, <2>2, TheClient DEF Outstanding
        <3> QED
            BY <1>3, <2>2, <3>1
    <2>3. \A i \in DOMAIN pending[c] : ~Typed(pending[c][i].data)
        <3> SUFFICES ASSUME NEW i \in DOMAIN pending[c], NEW m, m = pending[c][i].data, Typed(m)
                     PROVE  FALSE
            OBVIOUS
        <3>1. m \in Messages
            BY <1>1, InTransit, RolesOfProc
        <3> QED
            BY <2>2, <3>1 DEF IInv, OnTheWay
    <2>4. ~Typed(flags[c].data)
        <3> SUFFICES ASSUME Typed(flags[c].data)
                     PROVE  FALSE
            OBVIOUS
        <3>1. /\ flags[c].data \in Messages /\ awaited[c] = flags[c].data /\ c \in running
              /\ IsTaken(flags[c].data)
            BY ClientVariables
        <3>2. c = client_pid
            BY <3>1 DEF IInv, Registered
        <3> QED
            BY <2>2, <3>1, <3>2
    <2> QED
        BY <2>3, <2>4
<1>20. PrintedWasSent'
    BY <1>3, <1>4, <1>5, PrintKeepsOrder DEF IInv
<1>21. TypedReceipts'
    BY <1>1, <1>9 DEF IInv, TypedReceipts, IsTaken, Typed
<1> QED
    BY <1>11, <1>12, <1>13, <1>14, <1>16, <1>18, <1>19, <1>20, <1>21 DEF IInv

\* The server sends back what it read last.
LEMMA ReceiptKeeps ==
    ASSUME IInv, Receipt
    PROVE  IInv'
<1>1. /\ flags' = flags /\ blocked' = blocked /\ running' = running \cup {Server}
      /\ attempts' = attempts /\ polls' = polls /\ cleared' = cleared /\ data' = data
      /\ client_pid' = client_pid /\ awaited' = awaited /\ acked' = acked
      /\ taken' = taken
      /\ pc[Server] = "receipt" /\ TypeOK
    BY DEF Receipt, IInv
<1>2. client_pid \in Clients /\ data[Server] # Nothing
    BY <1>1, RolesOfProc DEF IInv, Registered, WholeSignal
<1>3. PICK c \in Clients : c = client_pid
    BY <1>2
<1>4. PICK v \in Messages : v = data[Server]
    BY <1>1, <1>2, RolesOfProc DEF TypeOK
<1> DEFINE info == [pid |-> Server, data |-> v]
<1>5. info \in Info(Messages) /\ pending' = Generated(c, info)
    BY <1>3, <1>4, RolesOfProc DEF Receipt, ReceiptTo, Sigqueue, Info
<1>6. /\ pending' \in [Proc -> Seq(Info(Messages))]
      /\ \A q \in Proc \ {c} : pending'[q] = pending[q]
      /\ Len(pending[c]) \in Nat /\ DOMAIN pending[c] = 1 .. Len(pending[c])
      /\ \A i \in DOMAIN pending'[c] :
             \/ i \in DOMAIN pending[c] /\ pending'[c][i] = pending[c][i]
             \/ i = Len(pending[c]) + 1 /\ pending'[c][i].data = v
    <2>1. info.data = v
        OBVIOUS
    <2>2. c \in Proc
        BY RolesOfProc
    <2> HIDE DEF info
    <2> QED
        BY <1>1, <1>5, <2>1, <2>2, GeneratedAdds, SignalTypes
<1>7. /\ pc \in [Proc -> ServerPlaces \cup ClientPlaces] /\ Server \in Proc
      /\ c \in Proc /\ c # Server
    BY <1>1, RolesOfProc DEF TypeOK, ServerPlaces, ClientPlaces
<1>8. /\ AfterReceipt \in {"verify queue", "reset"} /\ AfterReceipt \in ServerPlaces
      /\ AfterReceipt = "verify queue" => Server \notin running
    BY DEF AfterReceipt, ServerPlaces
<1>9. pc' = [pc EXCEPT ![Server] = AfterReceipt]
    BY DEF Receipt, Goto
<1>10. /\ pc'[Server] = AfterReceipt /\ pc' \in [Proc -> ServerPlaces \cup ClientPlaces]
       /\ \A q \in Proc \ {Server} : pc'[q] = pc[q]
    BY <1>7, <1>8, <1>9
<1>11. \A d \in Clients : pc'[d] = pc[d]
    BY <1>10, RolesOfProc
<1>12. pending'[Server] = pending[Server] /\ \A d \in Clients \ {c} : pending'[d] = pending[d]
    BY <1>6, <1>7, RolesOfProc
<1>13. TypeOK'
    BY <1>1, <1>6, <1>7, <1>10 DEF TypeOK, ServerPlaces, ClientPlaces, Info
<1>14. Roles'
    <2>1. \A d \in Clients : d \in running' <=> d \in running
        BY <1>1, RolesOfProc
    <2>2. \A q \in Proc : pc'[q] # "reset" => cleared[q] = 0
        BY <1>1, <1>7, <1>10 DEF IInv, Roles
    <2> QED
        BY <1>1, <1>8, <1>10, <1>11, <1>12, <2>1, <2>2 DEF IInv, Roles
<1>15. WholeSignal'
    <2>1. \A q \in Proc : q = Server \/ pc'[q] = pc[q]
        BY <1>10
    <2>2. flags[Server].signum => /\ flags[Server].pid # Nothing /\ flags[Server].data # Nothing
                                  /\ flags[Server].pid \in Clients
        BY <1>1, <1>7 DEF IInv, WholeSignal
    <2> QED
        BY <1>1, <1>2, <1>8, <1>10, <2>1, <2>2 DEF IInv, WholeSignal
<1>16. Registered'
    <2>1. Server \in running' /\ \A d \in Clients : d \in running' <=> d \in running
        BY <1>1, RolesOfProc
    <2>2. \A d \in Clients : \/ d = c
                             \/ pending'[d] = pending[d]
        BY <1>12
    <2> QED
        BY <1>1, <1>2, <1>3, <1>11, <2>1, <2>2 DEF IInv, Registered
<1>17. \A m \in Messages : /\ (IsSent(m) <=> IsSent(m)') /\ (Outstanding(m) <=> Outstanding(m)')
                           /\ (IsTaken(m) <=> IsTaken(m)')
    <2> SUFFICES ASSUME NEW m \in Messages
                 PROVE  /\ (IsSent(m) <=> IsSent(m)') /\ (Outstanding(m) <=> Outstanding(m)')
                        /\ (IsTaken(m) <=> IsTaken(m)')
        OBVIOUS
    <2>1. pc'[m.from] = pc[m.from] /\ (m.from \in running' <=> m.from \in running)
        BY <1>1, <1>11, RolesOfProc DEF Messages
    <2> QED
        BY <1>1, <2>1 DEF IsSent, Outstanding, Waiting, IsTaken
<1>18. Ordered'
    <2>1. flags'[Server].signum /\ ToRead' =>
              \A k \in DOMAIN taken : Later(taken[k], flags[Server].data)
        BY <1>1, <1>8, <1>10 DEF IInv, Ordered, ToRead
    <2> QED
        BY <1>1, <1>12, <1>17, <2>1, OrderedStays DEF IInv
<1>19. ~Answering'
    BY <1>8, <1>10 DEF Answering
<1>20. Typed(v) => Answering /\ Outstanding(v) /\ IsTaken(v)
    BY <1>1, <1>4 DEF IInv, OnTheWay, Answering
<1>21. OnTheWay'
    <2>1. Server \notin running' => ~Typed(data'[Server])
        BY <1>1
    <2>2. \A d \in Clients : Typed(flags'[d].data) =>
              /\ \E m \in Messages : flags'[d].data = m /\ awaited'[d] = m /\ IsTaken(m)'
              /\ Waiting(d)' \/ (pc'[d] = "reset" /\ cleared'[d] < 2)
        BY <1>1, <1>11, <1>17, ClientVariables DEF Waiting
    <2>3. \A q \in Proc : \A i \in DOMAIN pending'[q] :
              \/ \E j \in DOMAIN pending[q] : pending'[q][i] = pending[q][j]
              \/ \E m \in Messages :
                     /\ pending'[q][i].data = m
                     /\ Typed(m) => Outstanding(m)' /\ (q \in Clients => IsTaken(m)')
        <3> SUFFICES ASSUME NEW q \in Proc, NEW i \in DOMAIN pending'[q]
                     PROVE  \/ \E j \in DOMAIN pending[q] : pending'[q][i] = pending[q][j]
                            \/ \E m \in Messages :
                                   /\ pending'[q][i].data = m
                                   /\ Typed(m) => /\ Outstanding(m)'
                                                  /\ (q \in Clients => IsTaken(m)')
            OBVIOUS
        <3>1. CASE q = c
            BY <1>6, <1>17, <1>20, <3>1
        <3>2. CASE q # c
            BY <1>6, <3>2
        <3> QED
            BY <3>1, <3>2
    <2> QED
        BY <1>1, <1>17, <1>19, <2>1, <2>2, <2>3, OnTheWayStays DEF IInv
<1>22. OneReceipt'
    <2>1. ASSUME NEW i \in DOMAIN pending'[c], NEW j \in DOMAIN pending'[c],
                 Typed(pending'[c][i].data), Typed(pending'[c][j].data)
          PROVE  i = j
        <3>1. ASSUME NEW k \in DOMAIN pending[c], Typed(pending[c][k].data)
              PROVE  ~Typed(v)
            BY <1>20, <3>1 DEF IInv, OneReceipt
        <3>2. \/ i = Len(pending[c]) + 1 /\ Typed(v)
              \/ i \in DOMAIN pending[c] /\ Typed(pending[c][i].data)
            BY <1>6, <2>1
        <3>3. \/ j = Len(pending[c]) + 1 /\ Typed(v)
              \/ j \in DOMAIN pending[c] /\ Typed(pending[c][j].data)
            BY <1>6, <2>1
        <3> QED
            BY <3>1, <3>2, <3>3 DEF IInv, OneReceipt
    <2>2. ASSUME NEW i \in DOMAIN pending'[c], Typed(pending'[c][i].data)
          PROVE  ~Typed(flags[c].data)
        <3>1. \/ Typed(v)
              \/ i \in DOMAIN pending[c] /\ Typed(pending[c][i].data)
            BY <1>6, <2>2
        <3> QED
            BY <1>20, <3>1 DEF IInv, OneReceipt
    <2>3. \A d \in Clients : d = c \/ pending'[d] = pending[d]
        BY <1>12
    <2> QED
        BY <1>1, <1>19, <2>1, <2>2, <2>3 DEF IInv, OneReceipt
<1>23. PrintedWasSent' /\ TypedReceipts'
    BY <1>1 DEF IInv, PrintedWasSent, TypedReceipts, Typed, IsTaken
<1> QED
    BY <1>13, <1>14, <1>15, <1>16, <1>18, <1>21, <1>22, <1>23 DEF IInv

(***************************************************************************)
(* A client sends.                                                         *)
(***************************************************************************)
\* What a client sends is pending for the server, or not, behind the rest.
LEMMA SentIsPending ==
    ASSUME TypeOK, NEW c \in Clients, NEW v \in Messages,
           pending' = Generated(Server, [pid |-> c, data |-> v])
    PROVE  /\ pending' \in [Proc -> Seq(Info(Messages))]
           /\ \A q \in Proc \ {Server} : pending'[q] = pending[q]
           /\ Len(pending[Server]) \in Nat /\ DOMAIN pending[Server] = 1 .. Len(pending[Server])
           /\ \A i \in DOMAIN pending'[Server] :
                  \/ i \in DOMAIN pending[Server] /\ pending'[Server][i] = pending[Server][i]
                  \/ i = Len(pending[Server]) + 1 /\ pending'[Server][i] = [pid |-> c, data |-> v]
<1>1. [pid |-> c, data |-> v] \in Info(Messages)
    BY RolesOfProc DEF Info
<1>2. PICK info \in Info(Messages) : info = [pid |-> c, data |-> v]
    BY <1>1
<1>3. pending \in [Proc -> Seq(Info(Messages))] /\ Server \in Proc
    BY SignalTypes, RolesOfProc
<1>4. pending' = Generated(Server, info)
    BY <1>2
<1> QED
    BY <1>2, <1>3, <1>4, GeneratedAdds

\* Whatever a client puts behind the server's pending signals, later than all
\* it has sent, keeps the order.
LEMMA OrderedGrows ==
    ASSUME TypeOK, Ordered, flags' = flags, taken' = taken, ToRead' => ToRead,
           NEW v \in Messages, IsSent(v)', \A m \in Messages : IsSent(m) => IsSent(m)' /\ Later(m, v),
           \/ pending'[Server] = pending[Server]
           \/ \E c \in Clients : pending' = Generated(Server, [pid |-> c, data |-> v])
    PROVE  Ordered'
<1>1. /\ \A i \in DOMAIN pending[Server] : pending[Server][i].data \in Messages
      /\ \A k \in DOMAIN taken : taken[k] \in Messages
      /\ flags[Server].data \in Messages \cup {Nothing}
    BY InTransit, RolesOfProc
<1>2. CASE pending'[Server] = pending[Server]
    <2>1. flags'[Server].signum /\ ToRead' =>
              \A k \in DOMAIN taken : Later(taken[k], flags[Server].data)
        BY DEF Ordered
    <2> QED
        BY <1>2, <2>1, OrderedStays
<1>3. CASE \E c \in Clients : pending' = Generated(Server, [pid |-> c, data |-> v])
    <2>1. PICK c \in Clients : pending' = Generated(Server, [pid |-> c, data |-> v])
        BY <1>3
    <2>2. [pid |-> c, data |-> v].data = v
        OBVIOUS
    <2>3. /\ Len(pending[Server]) \in Nat /\ DOMAIN pending[Server] = 1 .. Len(pending[Server])
          /\ \A i \in DOMAIN pending'[Server] :
                 \/ i \in DOMAIN pending[Server] /\ pending'[Server][i] = pending[Server][i]
                 \/ i = Len(pending[Server]) + 1 /\ pending'[Server][i].data = v
        BY <2>1, <2>2, SentIsPending
    <2>4. ASSUME NEW i \in DOMAIN pending'[Server], NEW m, m = pending'[Server][i].data
          PROVE  /\ m \in Messages /\ IsSent(m)'
                 /\ flags[Server].data # Nothing => Later(flags[Server].data, m)
                 /\ \A k \in DOMAIN taken : Later(taken[k], m)
        <3>1. CASE i \in DOMAIN pending[Server] /\ pending'[Server][i] = pending[Server][i]
            BY <1>1, <2>4, <3>1 DEF Ordered
        <3>2. CASE m = v
            BY <1>1, <3>2 DEF Ordered
        <3> QED
            BY <2>3, <2>4, <3>1, <3>2
    <2>5. ASSUME NEW i \in DOMAIN pending'[Server], NEW j \in DOMAIN pending'[Server], i < j
          PROVE  Later(pending'[Server][i].data, pending'[Server][j].data)
        <3>1. i \in DOMAIN pending[Server] /\ pending'[Server][i] = pending[Server][i]
            BY <2>3, <2>5
        <3>2. CASE j \in DOMAIN pending[Server] /\ pending'[Server][j] = pending[Server][j]
            BY <2>5, <3>1, <3>2 DEF Ordered
        <3>3. CASE pending'[Server][j].data = v
            BY <1>1, <3>1, <3>3 DEF Ordered
        <3> QED
            BY <2>3, <3>2, <3>3
    <2>6. \A i \in DOMAIN pending'[Server] : IsSent(pending[Server][i].data)'
        <3> SUFFICES ASSUME NEW i \in DOMAIN pending'[Server], NEW m, m = pending'[Server][i].data
                     PROVE  IsSent(m)'
            BY DEF IsSent
        <3> QED
            BY <2>4
    <2>7. flags[Server].data # Nothing => IsSent(flags[Server].data)'
        <3> SUFFICES ASSUME NEW m, m = flags[Server].data, m # Nothing
                     PROVE  IsSent(m)'
            BY DEF IsSent
        <3> QED
            BY <1>1 DEF Ordered
    <2>8. \A k \in DOMAIN taken : IsSent(taken[k])'
        <3> SUFFICES ASSUME NEW k \in DOMAIN taken, NEW m, m = taken[k]
                     PROVE  IsSent(m)'
            BY DEF IsSent
        <3> QED
            BY <1>1 DEF Ordered
    <2> QED
        BY <2>4, <2>5, <2>6, <2>7, <2>8 DEF Ordered
<1> QED
    BY <1>2, <1>3

\* The numbers of messages are numbers.
LEMMA Numbers ==
    ASSUME NEW m \in Messages, NEW l \in Messages
    PROVE  /\ m.n \in Int /\ m.n <= m.n
           /\ m.n < l.n => m.n <= l.n
<1>1. m.n \in 1 .. MaxAttempts + MaxTyped /\ l.n \in 1 .. MaxAttempts + MaxTyped
    BY DEF Messages
<1>2. m.n \in Int /\ l.n \in Int
    BY <1>1
<1> QED
    BY <1>2

\* The next message of a client is later than all it has sent, and the one it
\* is about to send is, too.
LEMMA NextIsLater ==
    ASSUME TypeOK, NEW c \in Clients, NEW v \in Messages, NEW m \in Messages,
           IsSent(m), m.from = c,
           v.n = awaited[c].n + 1 \/ (v.n = awaited[c].n /\ pc[c] = "send")
    PROVE  m.n < v.n
<1>1. m.n \in Int /\ v.n \in Int
    BY Numbers
<1>2. awaited[c].n \in 0 .. MaxAttempts + MaxTyped
    BY DEF TypeOK
<1>3. PICK a \in Int : a = awaited[c].n
    BY <1>2
<1>4. m.n <= a /\ (pc[c] = "send" => m.n < a)
    BY <1>3 DEF IsSent
<1>5. v.n = a + 1 \/ (v.n = a /\ pc[c] = "send")
    BY <1>3
<1> QED
    BY <1>1, <1>4, <1>5

\* A client sends a message, or prepares one, while it waits for nothing: the
\* message is later than all it has sent, and on its way only if it waits for
\* it then.
LEMMA SendingKeeps ==
    ASSUME IInv, TypeOK', NEW c \in Clients, NEW place, NEW v \in Messages,
           pc[c] \in {"register", "type", "send"}, place \in {"register", "send", "verify queue"},
           pc[c] = "register" => v.val = Registration /\ v.n = attempts'[c] /\ c \notin running,
           pc[c] = "register" => place # "send",
           pc[c] # "register" => place # "register",
           v.from = c, \A m \in Messages : IsSent(m) /\ m.from = c => m.n < v.n,
           pc' = [pc EXCEPT ![c] = place], awaited' = [awaited EXCEPT ![c] = v],
           \A d \in Clients \ {c} : attempts'[d] = attempts[d],
           \/ /\ pending' = Generated(Server, [pid |-> c, data |-> v])
              /\ place = "verify queue"
           \/ pending' = pending /\ place # "verify queue",
           UNCHANGED <<flags, running, cleared, data, client_pid, acked, taken>>
    PROVE  IInv'
<1>1. /\ flags' = flags /\ running' = running /\ cleared' = cleared /\ data' = data
      /\ client_pid' = client_pid /\ acked' = acked /\ taken' = taken /\ TypeOK
    BY DEF IInv
<1>2. /\ pc \in [Proc -> ServerPlaces \cup ClientPlaces]
      /\ place \in ServerPlaces \cup ClientPlaces /\ place \in ClientPlaces
      /\ c \in Proc /\ c # Server
    <2>1. pc \in [Proc -> ServerPlaces \cup ClientPlaces]
        BY <1>1 DEF TypeOK, ServerPlaces, ClientPlaces
    <2>2. place \in ClientPlaces
        BY DEF ClientPlaces
    <2> QED
        BY <2>1, <2>2, RolesOfProc
<1>3. pc'[c] = place /\ \A q \in Proc \ {c} : pc'[q] = pc[q]
    BY <1>2
<1>4. pc'[Server] = pc[Server] /\ \A d \in Clients \ {c} : pc'[d] = pc[d]
    BY <1>2, <1>3, RolesOfProc
<1>5. awaited'[c] = v /\ \A d \in Clients \ {c} : awaited'[d] = awaited[d]
    <2>1. DOMAIN awaited = Clients
        BY <1>1 DEF TypeOK
    <2> QED
        BY <2>1
<1>7. \A m \in Messages : IsSent(m) => IsSent(m)' /\ Later(m, v)
    <2> SUFFICES ASSUME NEW m \in Messages, IsSent(m)
                 PROVE  IsSent(m)' /\ Later(m, v)
        OBVIOUS
    <2>1. m.from \in Clients
        BY DEF Messages
    <2>2. CASE m.from = c
        <3>1. m.n < v.n
            BY <2>2
        <3>2. m.n <= v.n
            BY <3>1, Numbers
        <3>3. m.n < awaited'[c].n /\ m.n <= awaited'[c].n
            BY <1>5, <3>1, <3>2
        <3> QED
            BY <2>2, <3>1, <3>3 DEF IsSent, Later
    <2>3. CASE m.from # c
        BY <1>4, <1>5, <2>1, <2>3 DEF IsSent, Later
    <2> QED
        BY <2>2, <2>3
<1>8. place = "verify queue" => IsSent(v)'
    <2>1. v.n <= awaited'[c].n
        BY <1>5, Numbers
    <2> QED
        BY <1>3, <2>1 DEF IsSent
<1>9. /\ \A d \in Clients : pending'[d] = pending[d]
      /\ \A i \in DOMAIN pending'[Server] :
             \/ i \in DOMAIN pending[Server] /\ pending'[Server][i] = pending[Server][i]
             \/ place = "verify queue" /\ pending'[Server][i] = [pid |-> c, data |-> v]
    <2>1. CASE pending' = pending
        BY <2>1
    <2>2. CASE pending' = Generated(Server, [pid |-> c, data |-> v]) /\ place = "verify queue"
        <3>1. /\ \A q \in Proc \ {Server} : pending'[q] = pending[q]
              /\ \A i \in DOMAIN pending'[Server] :
                     \/ i \in DOMAIN pending[Server] /\ pending'[Server][i] = pending[Server][i]
                     \/ pending'[Server][i] = [pid |-> c, data |-> v]
            BY <1>1, <2>2, SentIsPending
        <3> QED
            BY <2>2, <3>1, RolesOfProc
    <2> QED
        BY <2>1, <2>2
<1>10. Roles'
    <2>1. ASSUME NEW d \in Clients
          PROVE  /\ pc'[d] \in ClientPlaces
                 /\ pc'[d] \in {"type", "send"} => d \in running
                 /\ pc'[d] = "register" => d \notin running
                 /\ pc'[d] \notin {"register", "exited"} => awaited'[d] \in Messages
                 /\ awaited'[d].from = d
                 /\ d \notin running => awaited'[d].val = Registration /\ awaited'[d].n = attempts'[d]
        <3>1. CASE d = c
            BY <1>2, <1>3, <1>5, <3>1 DEF IInv, Roles
        <3>2. CASE d # c
            BY <1>4, <1>5, <3>2 DEF IInv, Roles
        <3> QED
            BY <3>1, <3>2
    <2>2. \A q \in Proc : pc'[q] # "reset" => cleared[q] = 0
        BY <1>2, <1>3 DEF IInv, Roles
    <2>3. \A i \in DOMAIN pending'[Server] : pending'[Server][i].pid \in Clients
        <3>1. [pid |-> c, data |-> v].pid = c
            OBVIOUS
        <3> QED
            BY <1>9, <3>1 DEF IInv, Roles
    <2> QED
        BY <1>1, <1>4, <2>1, <2>2, <2>3 DEF IInv, Roles
<1>11. WholeSignal'
    <2>1. /\ pc[c] # "reset" /\ pc'[c] \notin {"read pid", "read data", "reset"}
          /\ \A q \in Proc : q = c \/ pc'[q] = pc[q]
        BY <1>3
    <2> QED
        BY <1>1, <1>2, <2>1 DEF IInv, WholeSignal
<1>12. Registered'
    <2>1. pc'[c] # "reset" /\ \A d \in Clients : d = c \/ pc'[d] = pc[d]
        BY <1>3, <1>4
    <2> QED
        BY <1>1, <1>4, <1>9, <2>1 DEF IInv, Registered
<1>13. Ordered'
    <2>1. CASE place = "verify queue"
        <3>1. ToRead' => ToRead
            BY <1>1, <1>4 DEF ToRead
        <3> QED
            BY <1>1, <1>7, <1>8, <2>1, <3>1, OrderedGrows DEF IInv
    <2>2. CASE place # "verify queue"
        <3>1. pending' = pending
            BY <2>2
        <3>2. flags'[Server].signum /\ ToRead' =>
                  \A k \in DOMAIN taken : Later(taken[k], flags[Server].data)
            BY <1>1, <1>4 DEF IInv, Ordered, ToRead
        <3> QED
            BY <1>1, <1>7, <3>1, <3>2, OrderedStays DEF IInv
    <2> QED
        BY <2>1, <2>2
<1>14. Answering' <=> Answering
    BY <1>1, <1>4 DEF Answering
<1>15. ~Waiting(c) /\ ~Typed(flags[c].data)
    <2>1. ~Waiting(c) /\ pc[c] # "reset"
        BY DEF Waiting
    <2> QED
        BY <2>1, ClientVariables
<1>16. \A m \in Messages : /\ (Outstanding(m) => Outstanding(m)')
                           /\ (IsTaken(m) <=> IsTaken(m)')
    <2> SUFFICES ASSUME NEW m \in Messages, Outstanding(m)
                 PROVE  Outstanding(m)'
        BY <1>1 DEF IsTaken
    <2>1. m.from \in Clients \ {c}
        BY <1>15 DEF Messages, Outstanding
    <2> QED
        BY <1>1, <1>4, <1>5, <2>1 DEF Outstanding, Waiting
<1>17. place = "verify queue" /\ Typed(v) => Outstanding(v)'
    <2> SUFFICES ASSUME place = "verify queue", Typed(v)
                 PROVE  Outstanding(v)'
        OBVIOUS
    <2>1. pc[c] \in {"type", "send"}
        BY DEF Typed
    <2>2. c \in running
        BY <2>1 DEF IInv, Roles
    <2> QED
        BY <1>1, <1>3, <1>5, <2>2 DEF Outstanding, Waiting
<1>18. OnTheWay'
    <2>1. Server \notin running' => ~Typed(data'[Server])
        BY <1>1 DEF IInv, OnTheWay
    <2>2. Answering' => \E m \in Messages :
              data'[Server] = m /\ Outstanding(m)' /\ IsTaken(m)'
        BY <1>1, <1>14, <1>16, ServerAnswers
    <2>3. ASSUME NEW d \in Clients, Typed(flags'[d].data)
          PROVE  /\ \E m \in Messages : flags'[d].data = m /\ awaited'[d] = m /\ IsTaken(m)'
                 /\ Waiting(d)' \/ (pc'[d] = "reset" /\ cleared'[d] < 2)
        <3>1. d # c
            BY <1>1, <1>15, <2>3
        <3>2. /\ flags[d].data \in Messages /\ awaited[d] = flags[d].data
              /\ IsTaken(flags[d].data)
              /\ Waiting(d) \/ (pc[d] = "reset" /\ cleared[d] < 2)
            BY <1>1, <2>3, ClientVariables
        <3>3. Waiting(d)' \/ (pc'[d] = "reset" /\ cleared'[d] < 2)
            BY <1>1, <1>4, <3>1, <3>2 DEF Waiting
        <3> QED
            BY <1>1, <1>5, <1>16, <3>1, <3>2, <3>3
    <2>4. \A q \in Proc : \A i \in DOMAIN pending'[q] :
              \/ \E j \in DOMAIN pending[q] : pending'[q][i] = pending[q][j]
              \/ \E m \in Messages :
                     /\ pending'[q][i].data = m
                     /\ Typed(m) => Outstanding(m)' /\ (q \in Clients => IsTaken(m)')
        <3> SUFFICES ASSUME NEW q \in Proc, NEW i \in DOMAIN pending'[q]
                     PROVE  \/ \E j \in DOMAIN pending[q] : pending'[q][i] = pending[q][j]
                            \/ \E m \in Messages :
                                   /\ pending'[q][i].data = m
                                   /\ Typed(m) => /\ Outstanding(m)'
                                                  /\ (q \in Clients => IsTaken(m)')
            OBVIOUS
        <3>1. CASE q = Server
            <4>1. [pid |-> c, data |-> v].data = v
                OBVIOUS
            <4> QED
                BY <1>9, <1>17, <3>1, <4>1, RolesOfProc
        <3>2. CASE q # Server
            BY <1>9, <3>2, RolesOfProc
        <3> QED
            BY <3>1, <3>2
    <2> QED
        BY <1>1, <1>16, <2>1, <2>2, <2>3, <2>4, OnTheWayStays DEF IInv
<1>19. OneReceipt'
    BY <1>1, <1>9, <1>14 DEF IInv, OneReceipt
<1>20. PrintedWasSent' /\ TypedReceipts'
    BY <1>1 DEF IInv, PrintedWasSent, TypedReceipts, Typed, IsTaken
<1> QED
    BY <1>10, <1>11, <1>12, <1>13, <1>18, <1>19, <1>20 DEF IInv

\* What one client sends, and where that puts it, has its type.
LEMMA SendingTypes ==
    ASSUME TypeOK, NEW c \in Clients, NEW v \in Messages, NEW place \in ClientPlaces,
           awaited' = [awaited EXCEPT ![c] = v], pc' = [pc EXCEPT ![c] = place],
           pending' = pending \/ pending' = Generated(Server, [pid |-> c, data |-> v]),
           attempts' \in [Clients -> 0 .. MaxAttempts], polls' \in [Clients -> 0 .. MaxAttempts],
           UNCHANGED <<flags, blocked, running, cleared, data, client_pid, acked, taken>>
    PROVE  TypeOK'
<1>1. /\ flags' = flags /\ blocked' = blocked /\ running' = running /\ cleared' = cleared
      /\ data' = data /\ client_pid' = client_pid /\ acked' = acked /\ taken' = taken
    OBVIOUS
<1>2. awaited' \in [Clients -> [from : Clients, n : 0 .. MaxAttempts + MaxTyped,
                               val : Chars \cup {Registration}]]
    <2>1. v \in [from : Clients, n : 0 .. MaxAttempts + MaxTyped,
                 val : Chars \cup {Registration}]
        <3>1. v \in [from : Clients, n : 1 .. MaxAttempts + MaxTyped,
                     val : Chars \cup {Registration}]
            BY DEF Messages
        <3>2. \A k \in 1 .. MaxAttempts + MaxTyped : k \in 0 .. MaxAttempts + MaxTyped
            OBVIOUS
        <3> QED
            BY <3>1, <3>2
    <2>2. awaited \in [Clients -> [from : Clients, n : 0 .. MaxAttempts + MaxTyped,
                                  val : Chars \cup {Registration}]]
        BY DEF TypeOK
    <2> QED
        BY <2>1, <2>2
<1>3. pc' \in [Proc -> ServerPlaces \cup ClientPlaces]
    <2>1. pc \in [Proc -> ServerPlaces \cup ClientPlaces]
        BY DEF TypeOK, ServerPlaces, ClientPlaces
    <2> QED
        BY <2>1
<1>4. pending' \in [Proc -> Seq(Info(Messages))]
    BY SentIsPending, SignalTypes
<1>5. taken' \in Seq(Messages)
    BY <1>1 DEF TypeOK
<1>6. /\ flags' \in [Proc -> Variables(Messages)] /\ blocked' = [q \in Proc |-> FALSE]
      /\ running' \subseteq Proc /\ cleared' \in [Proc -> 0 .. Len(ResetOrder) - 1]
      /\ data' \in [Proc -> Messages \cup {Nothing}]
      /\ client_pid' \in Clients \cup {Nothing} /\ acked' \subseteq Messages \X Messages
    BY <1>1, SignalTypes DEF TypeOK
<1>7. pc' \in [Proc -> {"verify queue", "verify signum", "read pid", "read data", "reset",
                       "receipt", "register", "type", "send", "exited"}]
    BY <1>3 DEF ServerPlaces, ClientPlaces
<1> QED
    BY <1>2, <1>4, <1>5, <1>6, <1>7 DEF TypeOK, Info, Variables

\* A registration, sent or not.
LEMMA RegisterKeeps ==
    ASSUME IInv, NEW c \in Clients, Register(c)
    PROVE  IInv'
<1>1. /\ UNCHANGED <<flags, blocked, running, cleared, data, client_pid, acked, taken>>
      /\ pc[c] = "register" /\ attempts[c] < MaxAttempts /\ TypeOK
      /\ attempts' = [attempts EXCEPT ![c] = attempts[c] + 1]
      /\ awaited' = [awaited EXCEPT ![c] = Message(c, awaited[c].n + 1, Registration)]
    BY DEF Register, IInv
<1>2. /\ attempts \in [Clients -> 0 .. MaxAttempts] /\ polls \in [Clients -> 0 .. MaxAttempts]
      /\ DOMAIN awaited = Clients /\ 0 \in 0 .. MaxAttempts
    <2>1. 0 \in 0 .. MaxAttempts
        BY BoundsOK
    <2> QED
        BY <1>1, <2>1 DEF TypeOK
<1>3. attempts[c] + 1 \in 0 .. MaxAttempts /\ attempts[c] + 1 \in 1 .. MaxAttempts + MaxTyped
    <2>1. attempts[c] \in 0 .. MaxAttempts
        BY <1>2
    <2> QED
        BY <1>1, <2>1, BoundsOK
<1>4. /\ attempts' \in [Clients -> 0 .. MaxAttempts] /\ attempts'[c] = attempts[c] + 1
      /\ \A d \in Clients \ {c} : attempts'[d] = attempts[d]
    BY <1>1, <1>2, <1>3
<1>5. c \notin running /\ awaited[c].n = attempts[c]
    BY <1>1 DEF IInv, Roles
<1>6. Message(c, awaited[c].n + 1, Registration) \in Messages
    BY <1>3, <1>5 DEF Message, Messages
<1>7. PICK v \in Messages : v = Message(c, awaited[c].n + 1, Registration)
    BY <1>6
<1>8. /\ v.from = c /\ v.n = awaited[c].n + 1 /\ v.val = Registration
      /\ awaited' = [awaited EXCEPT ![c] = v] /\ awaited'[c] = v
    BY <1>1, <1>2, <1>7 DEF Message
<1>9. \A m \in Messages : IsSent(m) /\ m.from = c => m.n < v.n
    BY <1>1, <1>8, NextIsLater
<1>10. PICK place \in {"register", "verify queue"} :
           /\ pc' = [pc EXCEPT ![c] = place]
           /\ \/ pending' = Generated(Server, [pid |-> c, data |-> v]) /\ place = "verify queue"
              \/ pending' = pending /\ place # "verify queue"
           /\ polls' \in [Clients -> 0 .. MaxAttempts]
    <2>1. CASE /\ Sigqueue(c, Server, awaited'[c]) /\ polls' = [polls EXCEPT ![c] = 0]
               /\ Goto(c, "verify queue")
        BY <1>2, <1>8, <2>1 DEF Sigqueue, Goto
    <2>2. CASE UNCHANGED <<pending, polls, pc>>
        <3>1. pc' = [pc EXCEPT ![c] = "register"]
            BY <1>1, <2>2, RolesOfProc DEF TypeOK
        <3> QED
            BY <1>2, <2>2, <3>1
    <2> QED
        BY <2>1, <2>2 DEF Register
<1>11. TypeOK'
    <2>1. place \in ClientPlaces
        BY DEF ClientPlaces
    <2> QED
        BY <1>1, <1>4, <1>8, <1>10, <2>1, SendingTypes
<1>12. v.n = attempts'[c]
    BY <1>4, <1>5, <1>8
<1> QED
    BY <1>1, <1>4, <1>5, <1>8, <1>9, <1>10, <1>11, <1>12, SendingKeeps

\* A user types.
LEMMA TypeKeeps ==
    ASSUME IInv, NEW c \in Clients, Type(c)
    PROVE  IInv'
<1>1. /\ UNCHANGED <<flags, pending, blocked, running, attempts, polls, cleared, data, client_pid,
                     acked, taken>>
      /\ pc[c] = "type" /\ awaited[c].n < MaxAttempts + MaxTyped /\ TypeOK
      /\ pc' = [pc EXCEPT ![c] = "send"]
    BY DEF Type, IInv, Goto, sigVars
<1>2. PICK a \in Chars : awaited' = [awaited EXCEPT ![c] = Message(c, awaited[c].n + 1, a)]
    BY DEF Type
<1>3. awaited[c].n + 1 \in 1 .. MaxAttempts + MaxTyped
    <2>1. awaited[c].n \in 0 .. MaxAttempts + MaxTyped
        BY <1>1 DEF TypeOK
    <2> QED
        BY <1>1, <2>1, BoundsOK
<1>4. Message(c, awaited[c].n + 1, a) \in Messages
    BY <1>3 DEF Message, Messages
<1>5. PICK v \in Messages : v = Message(c, awaited[c].n + 1, a)
    BY <1>4
<1>6. v.from = c /\ v.n = awaited[c].n + 1 /\ awaited' = [awaited EXCEPT ![c] = v]
    BY <1>2, <1>5 DEF Message
<1>7. \A m \in Messages : IsSent(m) /\ m.from = c => m.n < v.n
    BY <1>1, <1>6, NextIsLater
<1>8. TypeOK'
    <2>1. /\ "send" \in ClientPlaces /\ attempts' \in [Clients -> 0 .. MaxAttempts]
          /\ polls' \in [Clients -> 0 .. MaxAttempts]
        BY <1>1 DEF ClientPlaces, TypeOK
    <2> QED
        BY <1>1, <1>6, <2>1, SendingTypes
<1> QED
    BY <1>1, <1>6, <1>7, <1>8, SendingKeeps

\* The character is sent.
LEMMA SendKeeps ==
    ASSUME IInv, NEW c \in Clients, Send(c)
    PROVE  IInv'
<1>1. /\ UNCHANGED <<flags, blocked, running, attempts, polls, cleared, data, client_pid, awaited,
                     acked, taken>>
      /\ pc[c] = "send" /\ TypeOK
    BY DEF Send, IInv, progVars
<1>2. CASE pc'[c] = "exited"
    BY <1>2, ExitKeeps
<1>3. CASE pc'[c] # "exited"
    <2>1. c \in DOMAIN pc
        BY <1>1, RolesOfProc DEF TypeOK
    <2>2. Sigqueue(c, Server, awaited[c]) /\ Goto(c, "verify queue")
        BY <1>3, <2>1 DEF Send, Goto
    <2>3. PICK v \in Messages : v = awaited[c]
        BY <1>1 DEF IInv, Roles
    <2>4. /\ v.from = c /\ v.n = awaited[c].n
          /\ pending' = Generated(Server, [pid |-> c, data |-> v])
          /\ pc' = [pc EXCEPT ![c] = "verify queue"]
        BY <2>2, <2>3 DEF IInv, Roles, Sigqueue, Goto
    <2>5. awaited' = [awaited EXCEPT ![c] = v]
        <3>1. awaited \in [Clients -> [from : Clients, n : 0 .. MaxAttempts + MaxTyped,
                                      val : Chars \cup {Registration}]]
            BY <1>1 DEF TypeOK
        <3> QED
            BY <1>1, <2>3, <3>1
    <2>6. \A m \in Messages : IsSent(m) /\ m.from = c => m.n < v.n
        BY <1>1, <2>4, NextIsLater
    <2>7. TypeOK'
        <3>1. /\ "verify queue" \in ClientPlaces /\ attempts' \in [Clients -> 0 .. MaxAttempts]
              /\ polls' \in [Clients -> 0 .. MaxAttempts]
            BY <1>1 DEF ClientPlaces, TypeOK
        <3> QED
            BY <1>1, <2>4, <2>5, <3>1, SendingTypes
    <2> QED
        BY <1>1, <2>4, <2>5, <2>6, <2>7, SendingKeeps
<1> QED
    BY <1>2, <1>3

(***************************************************************************)
(* A client has its receipt.                                               *)
(***************************************************************************)
\* Nothing of a client that has its receipt is on its way any more.
LEMMA NothingOnTheWay ==
    ASSUME IInv, NEW c \in Clients, pc[c] = "read data", IsReceipt(c, flags[c].data)
    PROVE  /\ \A i \in DOMAIN pending[Server] :
                  Typed(pending[Server][i].data) => pending[Server][i].data.from # c
           /\ Typed(flags[Server].data) /\ ~IsTaken(flags[Server].data) =>
                  flags[Server].data.from # c
           /\ Answering => data[Server].from # c
           /\ \A d \in Clients : \A i \in DOMAIN pending[d] :
                  Typed(pending[d][i].data) => pending[d][i].data.from # c
<1>1. CASE ~Typed(flags[c].data)
    <2>1. awaited[c].val = Registration
        BY <1>1 DEF IsReceipt, Typed
    <2>2. \A m : Typed(m) /\ Outstanding(m) => m.from # c
        BY <2>1 DEF Typed, Outstanding
    <2>3. Answering => Typed(data[Server]) /\ Outstanding(data[Server])
        BY DEF IInv, OnTheWay, Answering
    <2> QED
        BY <2>2, <2>3 DEF IInv, OnTheWay
<1>2. CASE Typed(flags[c].data)
    <2>1. PICK v \in Messages : /\ v = flags[c].data /\ awaited[c] = v /\ IsTaken(v)
                                /\ c \in running
        BY <1>2, ClientVariables
    <2>2. \A m : Outstanding(m) /\ m.from = c => m = v
        BY <2>1 DEF Outstanding
    <2>3. PICK k \in DOMAIN taken : taken[k] = v
        BY <2>1 DEF IsTaken
    <2>4. \A i \in DOMAIN pending[Server] : pending[Server][i].data # v
        BY <2>3, NotLater DEF IInv, Ordered
    <2>5. ~Answering /\ \A i \in DOMAIN pending[c] : ~Typed(pending[c][i].data)
        BY <1>2 DEF IInv, OneReceipt
    <2>6. ASSUME NEW d \in Clients, NEW i \in DOMAIN pending[d], NEW m, m = pending[d][i].data,
                 Typed(m)
          PROVE  m.from # c
        <3>1. m \in Messages /\ Outstanding(m)
            BY <2>6, InTransit, RolesOfProc DEF IInv, OnTheWay
        <3>2. pending[d] # << >>
            BY <2>6, EmptyDomain
        <3>3. client_pid = m.from /\ client_pid = d
            BY <3>1, <3>2, TheClient DEF IInv, Registered
        <3> QED
            BY <2>5, <2>6, <3>3
    <2> QED
        BY <2>1, <2>2, <2>4, <2>5, <2>6 DEF IInv, OnTheWay
<1> QED
    BY <1>1, <1>2

LEMMA ReadReceiptKeeps ==
    ASSUME IInv, NEW c \in Clients, ReadReceipt(c)
    PROVE  IInv'
<1>1. /\ UNCHANGED <<sigVars, running, attempts, cleared, client_pid, awaited, taken>>
      /\ pc[c] = "read data" /\ TypeOK /\ c \in Proc /\ c # Server
      /\ data' = [data EXCEPT ![c] = flags[c].data]
    BY RolesOfProc DEF ReadReceipt, IInv
<1>2. /\ flags[c].data \in Messages \cup {Nothing}
      /\ data \in [Proc -> Messages \cup {Nothing}]
    BY <1>1, InTransit DEF TypeOK
<1>3. data' \in [Proc -> Messages \cup {Nothing}] /\ data'[Server] = data[Server]
    BY <1>1, <1>2, RolesOfProc
<1>4. CASE ~IsReceipt(c, flags[c].data)
    <2>1. NoData(c) /\ acked' = acked
        BY <1>4 DEF ReadReceipt
    <2> QED
        BY <1>1, <1>3, <2>1, NoDataKeeps
<1>5. CASE IsReceipt(c, flags[c].data)
    <2>1. /\ flags' = flags /\ pending' = pending /\ blocked' = blocked /\ running' = running
          /\ attempts' = attempts /\ cleared' = cleared /\ client_pid' = client_pid
          /\ awaited' = awaited /\ taken' = taken
        BY <1>1 DEF sigVars
    <2>2. /\ polls' = polls /\ pc' = [pc EXCEPT ![c] = "reset"]
          /\ acked' = acked \cup {<<awaited[c], flags[c].data>>}
        BY <1>5 DEF ReadReceipt, Goto
    <2>3. pc \in [Proc -> ServerPlaces \cup ClientPlaces] /\ "reset" \in ClientPlaces
        BY <1>1 DEF TypeOK, ServerPlaces, ClientPlaces
    <2>4. /\ pc'[c] = "reset" /\ pc' \in [Proc -> ServerPlaces \cup ClientPlaces]
          /\ \A q \in Proc \ {c} : pc'[q] = pc[q]
        BY <1>1, <2>2, <2>3
    <2>5. pc'[Server] = pc[Server] /\ \A d \in Clients \ {c} : pc'[d] = pc[d]
        BY <1>1, <2>4, RolesOfProc
    <2>6. awaited[c] \in Messages /\ flags[c].data \in Messages
        BY <1>1, <1>2, <1>5 DEF IInv, Roles, IsReceipt
    <2>7. TypeOK'
        <3>1. acked' \subseteq Messages \X Messages
            <4>1. acked \subseteq Messages \X Messages
                BY <1>1 DEF TypeOK
            <4>2. <<awaited[c], flags[c].data>> \in Messages \X Messages
                BY <2>6
            <4> QED
                BY <2>2, <4>1, <4>2
        <3> QED
            BY <1>1, <1>3, <2>1, <2>2, <2>4, <3>1 DEF TypeOK, ServerPlaces, ClientPlaces
    <2>8. Roles'
        <3>1. \A d \in Clients : d = c \/ pc'[d] = pc[d]
            BY <2>5
        <3>2. \A q \in Proc : q = c \/ pc'[q] = pc[q]
            BY <2>4
        <3> QED
            BY <2>1, <2>3, <2>4, <2>5, <2>6, <3>1, <3>2 DEF IInv, Roles
    <2>9. WholeSignal'
        <3>1. \A q \in Proc : q = c \/ pc'[q] = pc[q]
            BY <2>4
        <3> QED
            BY <1>1, <1>3, <2>1, <2>4, <3>1 DEF IInv, WholeSignal
    <2>10. Registered'
        <3>1. flags[c] # Cleared
            BY <1>5 DEF IsReceipt, Cleared
        <3>2. Server \in running /\ client_pid = c
            BY <3>1 DEF IInv, Registered
        <3>3. \A d \in Clients : d = c \/ pc'[d] = pc[d]
            BY <2>5
        <3> QED
            BY <2>1, <2>5, <3>2, <3>3 DEF IInv, Registered
    <2>11. \A m \in Messages : IsSent(m) => IsSent(m)'
        <3> SUFFICES ASSUME NEW m \in Messages, pc'[m.from] = "send"
                     PROVE  pc[m.from] = "send"
            BY <2>1 DEF IsSent
        <3>1. m.from \in Clients
            BY DEF Messages
        <3> QED
            BY <2>4, <2>5, <3>1
    <2>12. Ordered'
        <3>1. flags'[Server].signum /\ ToRead' =>
                  \A k \in DOMAIN taken : Later(taken[k], flags[Server].data)
            BY <2>1, <2>5 DEF IInv, Ordered, ToRead
        <3> QED
            BY <1>1, <2>1, <2>11, <3>1, OrderedStays DEF IInv
    <2>13. Answering' <=> Answering
        BY <1>3, <2>5 DEF Answering
    <2>14. ASSUME NEW m, m \in Messages, Outstanding(m), m.from # c
           PROVE  Outstanding(m)'
        <3>1. m.from \in Clients \ {c}
            BY <2>14 DEF Messages
        <3> QED
            BY <2>1, <2>5, <2>14, <3>1 DEF Outstanding, Waiting
    <2>15. \A m : IsTaken(m) <=> IsTaken(m)'
        BY <2>1 DEF IsTaken
    <2>16. OnTheWay'
        <3>1. ASSUME NEW i \in DOMAIN pending[Server], NEW m, m = pending[Server][i].data, Typed(m)
              PROVE  Outstanding(m)'
            <4>1. m \in Messages /\ Outstanding(m) /\ m.from # c
                BY <1>1, <1>5, <3>1, NothingOnTheWay, InTransit, RolesOfProc DEF IInv, OnTheWay
            <4> QED
                BY <2>14, <4>1
        <3>2. ASSUME NEW m, m = flags[Server].data, Typed(m), ~IsTaken(m)
              PROVE  Outstanding(m)'
            <4>1. Outstanding(m) /\ m.from # c
                BY <1>1, <1>5, <3>2, NothingOnTheWay DEF IInv, OnTheWay
            <4>2. m \in Messages
                BY <1>1, <3>2, InTransit, RolesOfProc DEF Typed
            <4> QED
                BY <2>14, <4>1, <4>2
        <3>3. ASSUME Answering, NEW m, m = data[Server]
              PROVE  Outstanding(m)' /\ IsTaken(m)
            <4>1. m \in Messages /\ Outstanding(m) /\ IsTaken(m)
                BY <3>3, ServerAnswers
            <4>2. m.from # c
                BY <1>1, <1>5, <3>3, NothingOnTheWay
            <4> QED
                BY <2>14, <4>1, <4>2
        <3>4. ASSUME NEW d \in Clients, NEW i \in DOMAIN pending[d], NEW m,
                     m = pending[d][i].data, Typed(m)
              PROVE  Outstanding(m)' /\ IsTaken(m)
            <4>1. m \in Messages /\ Outstanding(m) /\ IsTaken(m) /\ m.from # c
                BY <1>1, <1>5, <3>4, NothingOnTheWay, InTransit, RolesOfProc DEF IInv, OnTheWay
            <4> QED
                BY <2>14, <4>1
        <3>5. ASSUME NEW d \in Clients, Typed(flags[d].data)
              PROVE  /\ awaited[d] = flags[d].data /\ IsTaken(flags[d].data)
                     /\ Waiting(d)' \/ (pc'[d] = "reset" /\ cleared[d] < 2)
            <4>1. /\ awaited[d] = flags[d].data /\ IsTaken(flags[d].data)
                  /\ Waiting(d) \/ (pc[d] = "reset" /\ cleared[d] < 2)
                BY <3>5, ClientVariables
            <4>2. CASE d = c
                <5>1. cleared[c] = 0
                    BY <1>1 DEF IInv, Roles
                <5> QED
                    BY <2>4, <4>1, <4>2, <5>1
            <4>3. CASE d # c
                BY <2>5, <4>1, <4>3 DEF Waiting
            <4> QED
                BY <4>1, <4>2, <4>3
        <3>6. Server \notin running => ~Typed(data[Server])
            BY DEF IInv, OnTheWay
        <3>7. \A i \in DOMAIN pending'[Server] :
                  Typed(pending'[Server][i].data) => Outstanding(pending[Server][i].data)'
            BY <2>1, <3>1
        <3>8. Typed(flags'[Server].data) /\ ~IsTaken(flags[Server].data)' =>
                  Outstanding(flags[Server].data)'
            BY <2>1, <2>15, <3>2
        <3>9. Answering' => Outstanding(data[Server])' /\ IsTaken(data[Server])'
            BY <1>3, <2>1, <2>13, <2>15, <3>3
        <3>10. \A d \in Clients : \A i \in DOMAIN pending'[d] :
                   Typed(pending'[d][i].data) =>
                       Outstanding(pending[d][i].data)' /\ IsTaken(pending[d][i].data)'
            BY <2>1, <2>15, <3>4
        <3>11. \A d \in Clients : Typed(flags'[d].data) =>
                   /\ awaited'[d] = flags'[d].data /\ IsTaken(flags[d].data)'
                   /\ Waiting(d)' \/ (pc'[d] = "reset" /\ cleared'[d] < 2)
            BY <2>1, <2>15, <3>5
        <3> QED
            BY <1>3, <2>1, <3>6, <3>7, <3>8, <3>9, <3>10, <3>11 DEF OnTheWay
    <2>17. OneReceipt'
        BY <2>1, <2>13 DEF IInv, OneReceipt
    <2>18. TypedReceipts'
        <3>1. awaited[c].val # Registration =>
                  awaited[c] = flags[c].data /\ IsTaken(awaited[c])
            BY <1>5, ClientVariables DEF IsReceipt, Typed
        <3> QED
            BY <2>1, <2>2, <3>1 DEF IInv, TypedReceipts, Typed, IsTaken
    <2>19. PrintedWasSent'
        BY <2>1 DEF IInv, PrintedWasSent
    <2> QED
        BY <2>7, <2>8, <2>9, <2>10, <2>12, <2>16, <2>17, <2>18, <2>19 DEF IInv
<1> QED
    BY <1>4, <1>5

(***************************************************************************)
(* Receipts: no two are the same, and none counts twice.                   *)
(***************************************************************************)
LEMMA ReceiptsInit == Init => ReceiptsDiffer
<1> SUFFICES ASSUME Init
             PROVE  ReceiptsDiffer
    OBVIOUS
<1>1. /\ \A p \in Proc : DOMAIN pending[p] = {} /\ ~flags[p].signum
      /\ pc[Server] = "verify queue" /\ acked = {}
    BY EmptyDomain, RolesOfProc DEF Init, SigInit, Cleared
<1> QED
    BY <1>1, RolesOfProc DEF ReceiptsDiffer, ToAnswer, ToTake

\* They are when none of them moves, and when one is dropped.
LEMMA ReceiptsStay ==
    ASSUME ReceiptsDiffer, taken' = taken, acked' = acked, ToAnswer' => ToAnswer,
           data'[Server] = data[Server],
           \A c \in Clients : /\ pending'[c] = pending[c]
                              /\ ToTake(c)' => ToTake(c) /\ flags'[c].data = flags[c].data
    PROVE  ReceiptsDiffer'
<1>1. \A m : Unused(m)' <=> Unused(m)
    BY DEF Unused, IsTaken
<1>2. \A m : IsTaken(m)' <=> IsTaken(m)
    BY DEF IsTaken
<1>3. ToAnswer' => Unused(data[Server])'
    BY <1>1 DEF ReceiptsDiffer
<1>4. ASSUME NEW c \in Clients, ToTake(c)'
      PROVE  Unused(flags[c].data)' /\ (ToAnswer' => flags'[c].data # data'[Server])
    BY <1>1, <1>4 DEF ReceiptsDiffer, Unused, IsTaken
<1>5. ASSUME NEW c \in Clients, NEW i \in DOMAIN pending'[c]
      PROVE  /\ Unused(pending[c][i].data)'
             /\ ToAnswer' => pending'[c][i].data # data'[Server]
             /\ ToTake(c)' => pending'[c][i].data # flags'[c].data
    BY <1>5 DEF ReceiptsDiffer, Unused, IsTaken
<1> QED
    BY <1>2, <1>3, <1>4, <1>5 DEF ReceiptsDiffer

\* The handler takes the first of them: it was not one of those behind it.
LEMMA ReceiptsHandle ==
    ASSUME IInv, ReceiptsDiffer, NEW c \in Clients, Handle(c)
    PROVE  ReceiptsDiffer'
<1>1. /\ pc' = pc /\ running' = running /\ data' = data /\ acked' = acked /\ taken' = taken
      /\ TypeOK /\ c \in Proc /\ Deliver(c)
    BY RolesOfProc DEF Handle, progVars, IInv
<1>2. /\ \A q \in Proc \ {c} : pending'[q] = pending[q] /\ flags'[q] = flags[q]
      /\ 1 \in DOMAIN pending[c]
      /\ \A i \in DOMAIN pending'[c] :
             /\ i \in Nat /\ i + 1 > 1
             /\ i + 1 \in DOMAIN pending[c] /\ pending'[c][i] = pending[c][i + 1]
      /\ flags'[c].data = pending[c][1].data
    BY <1>1, DeliverTakes, SignalTypes
<1>3. ToAnswer' <=> ToAnswer
    BY <1>1 DEF ToAnswer
<1>4. \A m : (Unused(m)' <=> Unused(m)) /\ (IsTaken(m)' <=> IsTaken(m))
    BY <1>1 DEF Unused, IsTaken
<1>5. ASSUME NEW d \in Clients \ {c}
      PROVE  pending'[d] = pending[d] /\ flags'[d] = flags[d] /\ (ToTake(d)' <=> ToTake(d))
    BY <1>1, <1>2, RolesOfProc DEF ToTake
<1>6. ASSUME NEW i \in DOMAIN pending'[c]
      PROVE  /\ Unused(pending'[c][i].data)
             /\ ToAnswer => pending'[c][i].data # data[Server]
             /\ pending'[c][i].data # flags'[c].data
    BY <1>2 DEF ReceiptsDiffer
<1>7. Unused(flags'[c].data) /\ (ToAnswer => flags'[c].data # data[Server])
    BY <1>2 DEF ReceiptsDiffer
<1>8. ASSUME NEW i \in DOMAIN pending'[c], NEW j \in DOMAIN pending'[c],
             pending'[c][i].data = pending'[c][j].data
      PROVE  i = j
    <2>1. i + 1 = j + 1
        BY <1>2, <1>8 DEF ReceiptsDiffer
    <2> QED
        BY <1>2, <2>1
<1>9. ASSUME NEW d \in Clients
      PROVE  /\ \A i \in DOMAIN pending'[d] :
                    /\ Unused(pending'[d][i].data)
                    /\ ToAnswer => pending'[d][i].data # data[Server]
                    /\ ToTake(d)' => pending'[d][i].data # flags'[d].data
             /\ \A i, j \in DOMAIN pending'[d] :
                    pending'[d][i].data = pending'[d][j].data => i = j
             /\ ToTake(d)' => /\ Unused(flags'[d].data)
                              /\ ToAnswer => flags'[d].data # data[Server]
    <2>1. CASE d = c
        BY <1>6, <1>7, <1>8, <2>1
    <2>2. CASE d # c
        BY <1>5, <2>2 DEF ReceiptsDiffer
    <2> QED
        BY <2>1, <2>2
<1>10. /\ \A d \in Clients : \A i \in DOMAIN pending'[d] : Unused(pending[d][i].data)'
       /\ \A d \in Clients : ToTake(d)' => Unused(flags[d].data)'
       /\ ToAnswer' => Unused(data[Server])'
    BY <1>1, <1>3, <1>9 DEF ReceiptsDiffer, Unused, IsTaken
<1>11. \A a \in acked' : a[1].val = a[2].val /\ IsTaken(a[2])'
    BY <1>1, <1>4 DEF ReceiptsDiffer
<1> QED
    BY <1>1, <1>3, <1>9, <1>10, <1>11 DEF ReceiptsDiffer

\* What the server reads now it took at no time before.
LEMMA ReceiptsReadData ==
    ASSUME IInv, ReceiptsDiffer, ReadData
    PROVE  ReceiptsDiffer'
<1>1. /\ flags' = flags /\ pending' = pending /\ acked' = acked /\ running' = running
      /\ pc[Server] = "read data" /\ TypeOK
    BY DEF ReadData, sigVars, IInv
<1>2. PICK v \in Messages : v = flags[Server].data
    BY <1>1, ServerReads
<1>3. ~IsTaken(v)
    BY <1>1, <1>2, ServerReads
<1>4. taken \in Seq(Messages) /\ taken' = Append(taken, v) /\ data'[Server] = v
    BY <1>1, <1>2, RolesOfProc DEF ReadData, TypeOK
<1>5. /\ Len(taken) \in Nat /\ DOMAIN taken' = 1 .. Len(taken) + 1 /\ taken'[Len(taken) + 1] = v
      /\ \A k \in DOMAIN taken : k \in DOMAIN taken' /\ taken'[k] = taken[k]
    BY <1>4, PrintAppends
<1>6. \A c \in Clients : ToTake(c)' <=> ToTake(c)
    <2>1. \A c \in Clients : pc'[c] = pc[c]
        BY <1>1, RolesOfProc DEF ReadData, Goto, TypeOK
    <2> QED
        BY <1>1, <2>1 DEF ToTake
<1>7. \A m : IsTaken(m) => IsTaken(m)'
    BY <1>5 DEF IsTaken
<1>8. \A m : Unused(m) => Unused(m)' /\ m # v
    BY <1>1, <1>3, <1>7 DEF Unused
<1>9. Unused(v)'
    <2>1. IsTaken(v)'
        <3>1. Len(taken) + 1 \in DOMAIN taken'
            BY <1>5
        <3> QED
            BY <1>5, <3>1 DEF IsTaken
    <2>2. \A a \in acked : a[2] # v
        BY <1>3 DEF ReceiptsDiffer
    <2> QED
        BY <1>1, <2>1, <2>2 DEF Unused
<1>10. Unused(data[Server])'
    BY <1>4, <1>9 DEF Unused, IsTaken
<1>11. ASSUME NEW c \in Clients, NEW i \in DOMAIN pending[c]
       PROVE  Unused(pending[c][i].data)' /\ pending'[c][i].data # data'[Server]
    <2> SUFFICES ASSUME NEW m, m = pending[c][i].data
                 PROVE  Unused(m)' /\ m # data'[Server]
        BY <1>1 DEF Unused, IsTaken
    <2>1. Unused(m)
        BY DEF ReceiptsDiffer
    <2> QED
        BY <1>4, <1>8, <2>1
<1>12. ASSUME NEW c \in Clients, ToTake(c)
       PROVE  Unused(flags[c].data)' /\ flags'[c].data # data'[Server]
    <2> SUFFICES ASSUME NEW m, m = flags[c].data
                 PROVE  Unused(m)' /\ m # data'[Server]
        BY <1>1 DEF Unused, IsTaken
    <2>1. Unused(m)
        BY <1>12 DEF ReceiptsDiffer
    <2> QED
        BY <1>4, <1>8, <2>1
<1>13. \A a \in acked' : a[1].val = a[2].val /\ IsTaken(a[2])'
    BY <1>1, <1>7 DEF ReceiptsDiffer
<1> QED
    BY <1>1, <1>6, <1>10, <1>11, <1>12, <1>13 DEF ReceiptsDiffer

\* An answer is one more receipt on its way, and no longer to be given.
LEMMA ReceiptsAnswer ==
    ASSUME IInv, ReceiptsDiffer, Receipt
    PROVE  ReceiptsDiffer'
<1>1. /\ flags' = flags /\ acked' = acked /\ data' = data /\ taken' = taken
      /\ pc[Server] = "receipt" /\ TypeOK
    BY DEF Receipt, IInv
<1>2. PICK c \in Clients : c = client_pid
    BY <1>1 DEF IInv, Registered
<1>3. PICK v \in Messages : v = data[Server]
    BY <1>1, RolesOfProc DEF IInv, WholeSignal, TypeOK
<1> DEFINE info == [pid |-> Server, data |-> v]
<1>4. info \in Info(Messages) /\ pending' = Generated(c, info)
    BY <1>2, <1>3, RolesOfProc DEF Receipt, ReceiptTo, Sigqueue, Info
<1>5. /\ \A q \in Proc \ {c} : pending'[q] = pending[q]
      /\ Len(pending[c]) \in Nat /\ DOMAIN pending[c] = 1 .. Len(pending[c])
      /\ \A i \in DOMAIN pending'[c] :
             \/ i \in DOMAIN pending[c] /\ pending'[c][i] = pending[c][i]
             \/ i = Len(pending[c]) + 1 /\ pending'[c][i].data = v
    <2>1. info.data = v
        OBVIOUS
    <2>2. c \in Proc
        BY RolesOfProc
    <2> HIDE DEF info
    <2> QED
        BY <1>1, <1>4, <2>1, <2>2, GeneratedAdds, SignalTypes
<1>6. /\ Server \in running' /\ pc' = [pc EXCEPT ![Server] = AfterReceipt]
      /\ AfterReceipt \in {"verify queue", "reset"}
    BY DEF Receipt, Goto, AfterReceipt
<1>7. ~ToAnswer'
    <2>1. pc'[Server] \in {"verify queue", "reset"}
        BY <1>1, <1>6, RolesOfProc DEF TypeOK
    <2> QED
        BY <1>6, <2>1 DEF ToAnswer
<1>8. \A d \in Clients : ToTake(d)' <=> ToTake(d)
    <2>1. \A d \in Clients : pc'[d] = pc[d]
        BY <1>1, <1>6, RolesOfProc DEF TypeOK
    <2> QED
        BY <1>1, <2>1 DEF ToTake
<1>9. ToAnswer /\ Unused(v)
    BY <1>1, <1>3 DEF ToAnswer, ReceiptsDiffer
<1>10. \A m : (Unused(m)' <=> Unused(m)) /\ (IsTaken(m)' <=> IsTaken(m))
    BY <1>1 DEF Unused, IsTaken
<1>11. ASSUME NEW i \in DOMAIN pending'[c]
       PROVE  Unused(pending'[c][i].data) /\ (ToTake(c) => pending'[c][i].data # flags[c].data)
    <2>1. CASE i \in DOMAIN pending[c] /\ pending'[c][i] = pending[c][i]
        BY <2>1 DEF ReceiptsDiffer
    <2>2. CASE pending'[c][i].data = v
        BY <1>3, <1>9, <2>2 DEF ReceiptsDiffer
    <2> QED
        BY <1>5, <2>1, <2>2
<1>12. ASSUME NEW i \in DOMAIN pending'[c], NEW j \in DOMAIN pending'[c],
              pending'[c][i].data = pending'[c][j].data
       PROVE  i = j
    <2>1. \A k \in DOMAIN pending[c] : pending[c][k].data # v
        BY <1>3, <1>9 DEF ReceiptsDiffer
    <2> QED
        BY <1>5, <1>12, <2>1 DEF ReceiptsDiffer
<1>13. \A d \in Clients \ {c} : pending'[d] = pending[d]
    BY <1>5, RolesOfProc
<1>14. ASSUME NEW d \in Clients
       PROVE  /\ \A i \in DOMAIN pending'[d] :
                     /\ Unused(pending'[d][i].data)
                     /\ ToTake(d) => pending'[d][i].data # flags[d].data
              /\ \A i, j \in DOMAIN pending'[d] :
                     pending'[d][i].data = pending'[d][j].data => i = j
              /\ ToTake(d) => Unused(flags[d].data)
    <2>1. ToTake(d) => Unused(flags[d].data)
        BY DEF ReceiptsDiffer
    <2>2. CASE d = c
        BY <1>11, <1>12, <2>1, <2>2
    <2>3. CASE d # c
        BY <1>13, <2>1, <2>3 DEF ReceiptsDiffer
    <2> QED
        BY <2>2, <2>3
<1>15. /\ \A d \in Clients : \A i \in DOMAIN pending'[d] : Unused(pending[d][i].data)'
       /\ \A d \in Clients : ToTake(d)' => Unused(flags[d].data)'
    BY <1>1, <1>8, <1>14 DEF Unused, IsTaken
<1>16. \A a \in acked' : a[1].val = a[2].val /\ IsTaken(a[2])'
    BY <1>1, <1>10 DEF ReceiptsDiffer
<1> QED
    BY <1>1, <1>7, <1>8, <1>14, <1>15, <1>16 DEF ReceiptsDiffer

\* A client takes what is in its variables, and clears them.
LEMMA ReceiptsTake ==
    ASSUME IInv, ReceiptsDiffer, NEW c \in Clients, ReadReceipt(c)
    PROVE  ReceiptsDiffer'
<1>1. /\ flags' = flags /\ pending' = pending /\ running' = running /\ taken' = taken
      /\ awaited' = awaited /\ pc[c] = "read data" /\ TypeOK /\ c \in Proc /\ c # Server
      /\ data'[Server] = data[Server]
    <2>1. /\ flags' = flags /\ pending' = pending /\ running' = running /\ taken' = taken
          /\ awaited' = awaited /\ pc[c] = "read data" /\ TypeOK /\ c \in Proc /\ c # Server
          /\ data' = [data EXCEPT ![c] = flags[c].data]
        BY RolesOfProc DEF ReadReceipt, IInv, sigVars
    <2> QED
        BY <2>1, RolesOfProc DEF TypeOK
<1>2. PICK place : pc' = [pc EXCEPT ![c] = place]
    BY DEF ReadReceipt, NoData, Goto
<1>3. /\ pc'[Server] = pc[Server] /\ \A d \in Clients \ {c} : pc'[d] = pc[d]
      /\ ToAnswer' <=> ToAnswer
    <2>1. pc'[Server] = pc[Server] /\ \A d \in Clients \ {c} : pc'[d] = pc[d]
        BY <1>1, <1>2, RolesOfProc DEF TypeOK
    <2> QED
        BY <1>1, <2>1 DEF ToAnswer
<1>4. ToTake(c)
    BY <1>1 DEF IInv, WholeSignal, ToTake
<1>5. \A d \in Clients : ToTake(d)' => ToTake(d)
    BY <1>1, <1>3, <1>4 DEF ToTake
<1>6. CASE ~IsReceipt(c, flags[c].data)
    <2>1. acked' = acked
        BY <1>6 DEF ReadReceipt
    <2> QED
        BY <1>1, <1>3, <1>5, <2>1, ReceiptsStay
<1>7. CASE IsReceipt(c, flags[c].data)
    <2> DEFINE v == flags[c].data
    <2>1. /\ acked' = acked \cup {<<awaited[c], v>>} /\ pc'[c] = "reset" /\ ~ToTake(c)'
        BY <1>1, <1>7 DEF ReadReceipt, Goto, ToTake, TypeOK
    <2>2. Unused(v) /\ v.val = awaited[c].val
        BY <1>4, <1>7 DEF ReceiptsDiffer, IsReceipt
    <2>3. Registered /\ flags[c] # Cleared
        BY <1>7 DEF IInv, IsReceipt, Cleared
    <2>4. \A d \in Clients : d # c => flags[d] = Cleared /\ pending[d] = << >>
        BY <2>3 DEF Registered
    <2>5. \A m : IsTaken(m)' <=> IsTaken(m)
        BY <1>1 DEF IsTaken
    <2>6. \A m : Unused(m) /\ m # v => Unused(m)'
        BY <2>1, <2>5 DEF Unused
    <2>7. \A a \in acked' : a[1].val = a[2].val /\ IsTaken(a[2])'
        BY <2>1, <2>2, <2>5 DEF ReceiptsDiffer, Unused
    <2>8. \A a, b \in acked' : a[2] = b[2] => a = b
        BY <2>1, <2>2 DEF ReceiptsDiffer, Unused
    <2>9. ToAnswer' => Unused(data'[Server]) /\ data'[Server] # v
        BY <1>1, <1>3, <1>4 DEF ReceiptsDiffer
    <2>10. ASSUME NEW i \in DOMAIN pending[c]
           PROVE  Unused(pending[c][i].data) /\ pending[c][i].data # v
        BY <1>4 DEF ReceiptsDiffer
    <2>11. ASSUME NEW d \in Clients, NEW i \in DOMAIN pending'[d]
           PROVE  Unused(pending[d][i].data)'
        <3>1. d = c
            BY <1>1, <2>4, <2>11, EmptyDomain
        <3> QED
            BY <1>1, <2>6, <2>10, <2>11, <3>1 DEF Unused, IsTaken
    <2>12. ASSUME NEW d \in Clients
           PROVE  ~ToTake(d)'
        <3>1. CASE d = c
            BY <2>1, <3>1
        <3>2. CASE d # c
            <4>1. flags'[d] = Cleared
                BY <1>1, <2>4, <3>2
            <4>2. ~Cleared.signum
                BY DEF Cleared
            <4> QED
                BY <4>1, <4>2 DEF ToTake
        <3> QED
            BY <3>1, <3>2
    <2>13. ToAnswer' => Unused(data[Server])'
        BY <1>1, <2>6, <2>9 DEF Unused, IsTaken
    <2>14. ASSUME NEW d \in Clients, NEW i \in DOMAIN pending'[d], ToAnswer'
           PROVE  pending'[d][i].data # data'[Server]
        <3>1. ToAnswer /\ i \in DOMAIN pending[d]
            BY <1>1, <1>3, <2>14
        <3>2. pending[d][i].data # data[Server]
            BY <3>1 DEF ReceiptsDiffer
        <3> QED
            BY <1>1, <3>2
    <2>15. \A d \in Clients : \A i, j \in DOMAIN pending'[d] :
               pending'[d][i].data = pending'[d][j].data => i = j
        BY <1>1 DEF ReceiptsDiffer
    <2> HIDE DEF v
    <2> QED
        BY <2>7, <2>8, <2>11, <2>12, <2>13, <2>14, <2>15 DEF ReceiptsDiffer
<1> QED
    BY <1>6, <1>7

(***************************************************************************)
(* The theorems.                                                           *)
(***************************************************************************)
LEMMA StutterKeeps ==
    ASSUME IInv, UNCHANGED vars
    PROVE  IInv'
<1>1. /\ flags' = flags /\ pending' = pending /\ blocked' = blocked /\ pc' = pc
      /\ running' = running /\ attempts' = attempts /\ polls' = polls /\ cleared' = cleared
      /\ data' = data /\ client_pid' = client_pid /\ awaited' = awaited /\ acked' = acked
      /\ taken' = taken
    BY DEF vars, sigVars, progVars
<1>2. TypeOK'
    <2>1. taken' \in Seq(Messages)
        BY <1>1 DEF IInv, TypeOK
    <2> QED
        BY <1>1, <2>1 DEF IInv, TypeOK
<1>3. Roles' /\ WholeSignal' /\ Registered'
    BY <1>1 DEF IInv, Roles, WholeSignal, Registered
<1>4. Ordered'
    BY <1>1 DEF IInv, Ordered, Later, IsSent, ToRead
<1>5. OnTheWay' /\ OneReceipt'
    BY <1>1 DEF IInv, OnTheWay, OneReceipt, Typed, Outstanding, Waiting, Answering, IsTaken
<1>6. PrintedWasSent' /\ TypedReceipts'
    BY <1>1 DEF IInv, PrintedWasSent, TypedReceipts, Typed, IsTaken
<1> QED
    BY <1>2, <1>3, <1>4, <1>5, <1>6 DEF IInv

\* Every step keeps the invariant.
LEMMA NextKeeps ==
    ASSUME IInv, [Next]_vars
    PROVE  IInv'
<1>1. ASSUME NEW p \in Proc, Step(p)
      PROVE  IInv'
    <2>1. CASE VerifyQueue(p) \/ VerifySignum(p)
        BY <2>1, VerifyKeeps
    <2>2. CASE Reset(p)
        BY <2>2, RolesOfProc, ResetServerKeeps, ResetClientKeeps
    <2>3. CASE ReadPid
        BY <2>3, ReadPidKeeps
    <2>4. CASE ReadData
        BY <2>4, ReadDataKeeps
    <2>5. CASE Receipt
        BY <2>5, ReceiptKeeps
    <2>6. CASE ReceiptFails
        BY <2>6, ExitKeeps
    <2>7. CASE p \in Clients /\ Register(p)
        BY <2>7, RegisterKeeps
    <2>8. CASE p \in Clients /\ GiveUp(p)
        BY <2>8, ExitKeeps
    <2>9. CASE p \in Clients /\ Send(p)
        BY <2>9, SendKeeps
    <2>10. CASE p \in Clients /\ ReadReceipt(p)
        BY <2>10, ReadReceiptKeeps
    <2> QED
        BY <1>1, <2>1, <2>2, <2>3, <2>4, <2>5, <2>6, <2>7, <2>8, <2>9, <2>10 DEF Step
<1>2. ASSUME NEW p \in Proc, Handle(p)
      PROVE  IInv'
    BY <1>2, RolesOfProc, HandleServerKeeps, HandleClientKeeps
<1>3. ASSUME NEW c \in Clients, Type(c)
      PROVE  IInv'
    BY <1>3, TypeKeeps
<1> QED
    BY <1>1, <1>2, <1>3, StutterKeeps DEF Next

\* Every step keeps receipts apart.
LEMMA ReceiptsNext ==
    ASSUME IInv, ReceiptsDiffer, [Next]_vars
    PROVE  ReceiptsDiffer'
<1>0. TypeOK /\ Server \in Proc
    BY RolesOfProc DEF IInv
<1>1. ASSUME NEW p \in Proc, VerifyQueue(p) \/ VerifySignum(p)
      PROVE  ReceiptsDiffer'
    <2>1. /\ flags' = flags /\ pending' = pending /\ running' = running /\ data' = data
          /\ acked' = acked /\ taken' = taken /\ pc[p] \in {"verify queue", "verify signum"}
        BY <1>1 DEF VerifyQueue, VerifySignum, sigVars
    <2>2. PICK place : pc' = [pc EXCEPT ![p] = place] /\ place \notin {"reset", "receipt"}
        BY <1>1 DEF VerifyQueue, VerifySignum, NoData, Goto
    <2>3. pc'[p] = place /\ \A q \in Proc \ {p} : pc'[q] = pc[q]
        BY <1>0, <2>2 DEF TypeOK
    <2>4. ToAnswer' => ToAnswer
        BY <1>0, <2>1, <2>2, <2>3 DEF ToAnswer
    <2>5. \A c \in Clients : ToTake(c)' => ToTake(c)
        BY <2>1, <2>2, <2>3, RolesOfProc DEF ToTake
    <2> QED
        BY <2>1, <2>4, <2>5, ReceiptsStay
<1>2. ASSUME NEW p \in Proc, Reset(p)
      PROVE  ReceiptsDiffer'
    <2>1. /\ pending' = pending /\ data' = data /\ acked' = acked /\ taken' = taken
          /\ pc[p] = "reset"
        BY <1>2 DEF Reset
    <2>2. /\ flags \in [Proc -> Variables(Messages)]
          /\ cleared[p] \in 0 .. 3 /\ cleared[p] + 1 \in 1 .. 4
        <3>1. cleared[p] \in 0 .. 3
            BY <1>0, FourVariables DEF TypeOK
        <3> QED
            BY <1>0, <3>1, SignalTypes
    <2>3. /\ \A q \in Proc \ {p} : flags'[q] = flags[q]
          /\ flags'[p].signum <=> cleared[p] + 1 # 4 /\ flags[p].signum
        BY <1>2, <2>2, ResetOneClears DEF Reset
    <2>4. \/ pc' = pc /\ running' = running
          \/ /\ cleared[p] = 3 /\ pc' = [pc EXCEPT ![p] = AfterReset(p)]
             /\ p = Server => running' = running
             /\ p \in Clients => running' = running \cup {p}
        BY <1>2, <2>2, FourVariables, RolesOfProc DEF Reset, Goto
    <2>5. \A q \in Proc \ {p} : pc'[q] = pc[q]
        BY <1>0, <2>4 DEF TypeOK
    <2>6. ToAnswer' => ToAnswer
        <3>1. CASE p = Server
            <4>1. running' = running
                BY <2>4, <3>1, RolesOfProc
            <4>2. Server \in running => pc'[Server] \in {"reset", "verify queue"}
                BY <1>0, <2>1, <2>4, <3>1 DEF AfterReset, TypeOK
            <4> QED
                BY <2>1, <3>1, <4>1, <4>2 DEF ToAnswer
        <3>2. CASE p # Server
            <4>1. pc'[Server] = pc[Server] /\ (Server \in running => Server \in running')
                BY <1>0, <2>4, <2>5, <3>2, RolesOfProc
            <4> QED
                BY <4>1 DEF ToAnswer
        <3> QED
            BY <3>1, <3>2
    <2>7. ASSUME NEW c \in Clients, ToTake(c)'
          PROVE  ToTake(c) /\ flags'[c].data = flags[c].data
        <3>1. CASE c = p
            <4>1. pc'[c] # "reset"
                BY <2>7 DEF ToTake
            <4>2. cleared[p] = 3
                BY <2>1, <2>4, <3>1, <4>1
            <4> QED
                BY <2>3, <2>7, <3>1, <4>2 DEF ToTake
        <3>2. CASE c # p
            BY <2>3, <2>5, <2>7, <3>2, RolesOfProc DEF ToTake
        <3> QED
            BY <3>1, <3>2
    <2> QED
        BY <2>1, <2>6, <2>7, ReceiptsStay
<1>3. ASSUME ReadPid
      PROVE  ReceiptsDiffer'
    <2>1. /\ flags' = flags /\ pending' = pending /\ running' = running /\ data' = data
          /\ acked' = acked /\ taken' = taken
        BY <1>3 DEF ReadPid, sigVars
    <2>2. PICK place \in {"read data", "verify queue"} : pc' = [pc EXCEPT ![Server] = place]
        BY <1>3 DEF ReadPid, Goto
    <2>3. pc'[Server] = place /\ \A c \in Clients : pc'[c] = pc[c]
        BY <1>0, <2>2, RolesOfProc DEF TypeOK
    <2>4. ~ToAnswer' /\ \A c \in Clients : ToTake(c)' <=> ToTake(c)
        BY <2>1, <2>2, <2>3 DEF ToAnswer, ToTake
    <2> QED
        BY <2>1, <2>4, ReceiptsStay
<1>4. ASSUME ReceiptFails \/ \E c \in Clients : GiveUp(c) \/ Register(c) \/ Send(c) \/ Type(c)
      PROVE  ReceiptsDiffer'
    <2>1. /\ flags' = flags /\ running' = running /\ data' = data /\ acked' = acked
          /\ taken' = taken
        BY <1>4 DEF ReceiptFails, GiveUp, Register, Send, Type, sigVars, progVars
    <2>2. PICK p \in Proc, place \in {"exited", "verify queue", "send", "register"} :
              pc' = [pc EXCEPT ![p] = place] /\ pc[p] # "reset"
        <3>1. CASE ReceiptFails
            BY <1>0, <3>1 DEF ReceiptFails, Goto
        <3>2. CASE \E c \in Clients : GiveUp(c) \/ Send(c) \/ Type(c)
            BY <3>2, RolesOfProc DEF GiveUp, Send, Type, Goto
        <3>3. ASSUME NEW c \in Clients, Register(c)
              PROVE  \E p \in Proc, place \in {"exited", "verify queue", "send", "register"} :
                         pc' = [pc EXCEPT ![p] = place] /\ pc[p] # "reset"
            <4>1. c \in Proc /\ pc[c] = "register" /\ pc = [pc EXCEPT ![c] = "register"]
                BY <1>0, <3>3, RolesOfProc DEF Register, TypeOK
            <4>2. pc' = [pc EXCEPT ![c] = "verify queue"] \/ pc' = pc
                BY <3>3 DEF Register, Goto
            <4> QED
                BY <4>1, <4>2
        <3> QED
            BY <1>4, <3>1, <3>2, <3>3
    <2>3. pc'[p] = place /\ \A q \in Proc \ {p} : pc'[q] = pc[q]
        BY <1>0, <2>2 DEF TypeOK
    <2>4. ToAnswer' => ToAnswer
        BY <1>0, <2>1, <2>2, <2>3 DEF ToAnswer
    <2>5. \A c \in Clients : ToTake(c)' => ToTake(c)
        BY <2>1, <2>2, <2>3, RolesOfProc DEF ToTake
    <2>6. \A c \in Clients : pending'[c] = pending[c]
        <3>1. CASE pending' = pending
            BY <3>1
        <3>2. CASE pending' # pending
            <4>1. PICK info : pending' = Generated(Server, info)
                BY <1>4, <3>2 DEF ReceiptFails, GiveUp, Register, Send, Type, Sigqueue, sigVars
            <4> QED
                BY <1>0, <4>1, RolesOfProc DEF Generated, TypeOK
        <3> QED
            BY <3>1, <3>2
    <2> QED
        BY <2>1, <2>4, <2>5, <2>6, ReceiptsStay
<1>5. ASSUME Handle(Server)
      PROVE  ReceiptsDiffer'
    <2>1. /\ pc' = pc /\ running' = running /\ data' = data /\ acked' = acked /\ taken' = taken
          /\ \A c \in Clients : pending'[c] = pending[c] /\ flags'[c] = flags[c]
        BY <1>0, <1>5, RolesOfProc, DeliverTakes, SignalTypes DEF Handle, progVars
    <2>2. (ToAnswer' <=> ToAnswer) /\ \A c \in Clients : ToTake(c)' <=> ToTake(c)
        BY <2>1 DEF ToAnswer, ToTake
    <2> QED
        BY <2>1, <2>2, ReceiptsStay
<1>6. ASSUME UNCHANGED vars
      PROVE  ReceiptsDiffer'
    <2>1. /\ flags' = flags /\ pending' = pending /\ pc' = pc /\ running' = running
          /\ data' = data /\ acked' = acked /\ taken' = taken
        BY <1>6 DEF vars, sigVars, progVars
    <2>2. (ToAnswer' <=> ToAnswer) /\ \A c \in Clients : ToTake(c)' <=> ToTake(c)
        BY <2>1 DEF ToAnswer, ToTake
    <2> QED
        BY <2>1, <2>2, ReceiptsStay
<1>7. ASSUME NEW p \in Proc, Step(p)
      PROVE  ReceiptsDiffer'
    BY <1>1, <1>2, <1>3, <1>4, <1>7, ReceiptsReadData, ReceiptsAnswer, ReceiptsTake DEF Step
<1>8. ASSUME NEW p \in Proc, Handle(p)
      PROVE  ReceiptsDiffer'
    BY <1>5, <1>8, RolesOfProc, ReceiptsHandle
<1> QED
    BY <1>4, <1>6, <1>7, <1>8 DEF Next

THEOREM Invariant == Spec => []IInv
<1>1. Init => IInv
    BY InitIInv
<1>2. IInv /\ [Next]_vars => IInv'
    BY NextKeeps
<1> QED
    BY <1>1, <1>2, PTL DEF Spec

\* The types.
THEOREM TypeCorrect == Spec => []TypeOK
<1>1. IInv => TypeOK
    BY DEF IInv
<1> QED
    BY <1>1, Invariant, PTL

\* The server prints what was sent, once and in the order it was sent.
THEOREM PrintedWereSent == Spec => []PrintedWasSent
<1>1. IInv => PrintedWasSent
    BY DEF IInv
<1> QED
    BY <1>1, Invariant, PTL

\* Whatever a client takes as its receipt was read by the server, carries the
\* character it waits for, and is taken once.
THEOREM AcksAreTrue == Spec => []AckedWasRead
<1>1. Init => ReceiptsDiffer
    BY ReceiptsInit
<1>2. IInv /\ ReceiptsDiffer /\ [Next]_vars => ReceiptsDiffer'
    BY ReceiptsNext
<1>3. IInv /\ ReceiptsDiffer => AckedWasRead
    <2> SUFFICES ASSUME IInv, ReceiptsDiffer
                 PROVE  AckedWasRead
        OBVIOUS
    <2>1. acked \subseteq Messages \X Messages
        BY DEF IInv, TypeOK
    <2>2. \A a \in acked : a[1] # Nothing
        BY <2>1, RolesOfProc
    <2> QED
        BY <2>2 DEF IInv, TypedReceipts, Typed, ReceiptsDiffer, IsTaken, AckedWasRead
<1> QED
    BY <1>1, <1>2, <1>3, Invariant, PTL DEF Spec

\* At most one client is past its registration, the one the server took.
THEOREM RegistrationsAgree == Spec => []RegistrationAgrees
<1>1. IInv => RegistrationAgrees
    BY DEF IInv, Registered, RegistrationAgrees
<1> QED
    BY <1>1, Invariant, PTL

(***************************************************************************)
(* QueueReader: the other program with these signals and this handler.     *)
(***************************************************************************)
CONSTANTS Parent, Child, NumVals, Pace
VARIABLES paced, lapse, sent, received

Q == INSTANCE QueueReader

\* What QueueReader assumes of its constants.
ReaderConstants ==
    /\ Proc = {Parent, Child} /\ Parent # Child
    /\ NumVals \in Nat /\ Nothing \notin Proc \cup (1 .. NumVals)
    /\ Pace \in Nat /\ Pace >= Q!WorkSteps

Values == 1 .. NumVals

\* Signals are the same in both programs.
LEMMA SameSignals ==
    /\ \A p, info : Q!Generated(p, info) = Generated(p, info)
    /\ \A p : Q!Deliver(p) <=> Deliver(p)
    /\ Q!Cleared = Cleared
<1>1. \A p, info : Q!Generated(p, info) = Generated(p, info)
    BY DEF Q!Generated, Generated
<1>2. \A p : Q!Deliver(p) <=> Deliver(p)
    BY DEF Q!Deliver, Deliver, Q!MaskAfterHandler, MaskAfterHandler
<1>3. Q!Cleared = Cleared
    BY DEF Q!Cleared, Cleared
<1> QED
    BY <1>1, <1>2, <1>3

LEMMA SameReset ==
    ASSUME NEW p, NEW k
    PROVE  /\ Q!ResetOne(p, k) <=> ResetOne(p, k)
           /\ Q!ResetOrder = ResetOrder
<1>1. Q!ResetOrder = ResetOrder
    BY DEF Q!ResetOrder, ResetOrder
<1>2. \A r, name : Q!Without(r, name) = Without(r, name)
    BY DEF Q!Without, Without
<1> QED
    BY <1>1, <1>2 DEF Q!ResetOne, ResetOne

\* A second is enough for the nine steps a value takes.
LEMMA PaceIsEnough ==
    ASSUME ReaderConstants
    PROVE  Pace \in Nat /\ Pace >= 9
<1>1. Q!WorkSteps = 9
    <2>1. Q!ResetOrder = ResetOrder
        BY DEF Q!ResetOrder, ResetOrder
    <2> QED
        BY <2>1, FourVariables DEF Q!WorkSteps
<1> QED
    BY <1>1 DEF ReaderConstants

LEMMA ReaderTypes ==
    ASSUME ReaderConstants, Q!TypeOK
    PROVE  /\ flags \in [Proc -> Variables(Values)] /\ pending \in [Proc -> Seq(Info(Values))]
           /\ blocked \in [Proc -> BOOLEAN] /\ Parent \in Proc /\ Child \in Proc
           /\ flags[Parent] \in Variables(Values)
           /\ Len(sent) \in Nat /\ Len(received) \in Nat /\ Len(pending[Parent]) \in Nat
           /\ \A i \in DOMAIN pending[Parent] : pending[Parent][i].data \in Values
           /\ \A k \in DOMAIN received : received[k] \in Values
           /\ flags[Parent].data \in Values \cup {Nothing}
           /\ cleared \in 0 .. 4
           /\ lapse \in 0 .. Pace /\ Pace \in Nat
<1>1. /\ flags \in [Proc -> Variables(Values)] /\ pending \in [Proc -> Seq(Info(Values))]
      /\ blocked \in [Proc -> BOOLEAN]
    BY DEF Q!TypeOK, Variables, Info, Values
<1>2. Parent \in Proc /\ Child \in Proc
    BY DEF ReaderConstants
<1>3. flags[Parent] \in Variables(Values) /\ pending[Parent] \in Seq(Info(Values))
    BY <1>1, <1>2
<1>4. flags[Parent].data \in Values \cup {Nothing}
    BY <1>3 DEF Variables
<1>5. sent \in Seq(Values)
    BY DEF Q!TypeOK, Values
<1>6. received \in Seq(Values)
    BY DEF Q!TypeOK, Values
<1>7. cleared \in 0 .. 4
    <2>1. cleared \in 0 .. Len(ResetOrder)
        BY SameReset DEF Q!TypeOK
    <2> QED
        BY <2>1, FourVariables
<1>8. \A i \in DOMAIN pending[Parent] : pending[Parent][i].data \in Values
    <2>1. \A i \in DOMAIN pending[Parent] : pending[Parent][i] \in Info(Values)
        BY <1>3
    <2> QED
        BY <2>1 DEF Info
<1>9. \A k \in DOMAIN received : received[k] \in Values
    BY <1>6
<1>10. Len(sent) \in Nat /\ Len(received) \in Nat /\ Len(pending[Parent]) \in Nat
    BY <1>3, <1>5, <1>6
<1> QED
    BY <1>1, <1>2, <1>3, <1>4, <1>7, <1>8, <1>9, <1>10, PaceIsEnough DEF Q!TypeOK

\* Values are numbers.
LEMMA ValuesAreNumbers ==
    ASSUME ReaderConstants
    PROVE  Nothing \notin Values /\ \A v \in Values : v \in Int
<1>1. \A v \in Values : v \in Int
    BY DEF Values
<1> QED
    BY <1>1 DEF ReaderConstants, Values

LEMMA ReaderInit ==
    ASSUME ReaderConstants, Q!Init
    PROVE  Q!IInv
<1>1. /\ pending = [p \in Proc |-> << >>] /\ flags = [p \in Proc |-> Cleared]
      /\ paced \in BOOLEAN /\ lapse = 0 /\ blocked = [p \in Proc |-> TRUE]
      /\ pc = [p \in Proc |-> IF p = Parent THEN "unblock" ELSE "send"]
      /\ cleared = 0 /\ sent = << >> /\ received = << >>
      /\ Parent \in Proc /\ Child \in Proc /\ Parent # Child
    BY SameSignals DEF Q!Init, Q!SigInit, ReaderConstants
<1>2. /\ pending[Parent] = << >> /\ flags[Parent] = Cleared
      /\ pc[Parent] = "unblock" /\ pc[Child] = "send"
    BY <1>1
<1>3. Len(<< >>) = 0
    OBVIOUS
<1>4. /\ DOMAIN pending[Parent] = {} /\ DOMAIN received = {}
      /\ Len(pending[Parent]) = 0 /\ Len(sent) = 0 /\ Len(received) = 0
      /\ ~Cleared.signum /\ Cleared.data = Nothing
    BY <1>1, <1>2, <1>3, EmptyDomain DEF Cleared
<1>5. Q!TypeOK
    <2>1. flags \in [Proc -> Variables(Values)]
        BY <1>1 DEF Cleared, Variables
    <2>2. pending \in [Proc -> Seq(Info(Values))]
        <3>1. << >> \in Seq(Info(Values))
            OBVIOUS
        <3> QED
            BY <1>1, <3>1
    <2>3. cleared \in 0 .. Len(Q!ResetOrder)
        BY <1>1, SameReset, FourVariables
    <2>4. sent \in Seq(Values)
        BY <1>1, EmptySeq
    <2>5. received \in Seq(Values)
        BY <1>1, EmptySeq
    <2>6. blocked \in [Proc -> BOOLEAN]
        BY <1>1
    <2>7. /\ pc \in [Proc -> {"unblock", "waitpid", "verify queue", "verify signum", "read", "reset",
                              "send", "exited", "failed"}]
          /\ pc[Parent] # "send" /\ pc[Child] \in {"send", "exited"}
        BY <1>1
    <2>8. lapse \in 0 .. Pace
        BY <1>1, PaceIsEnough
    <2> QED
        BY <2>8, <1>1, <2>1, <2>2, <2>3, <2>4, <2>5, <2>6, <2>7 DEF Q!TypeOK, Variables, Info, Values
<1>6. Q!WholeValue
    BY <1>2, <1>4 DEF Q!WholeValue
<1>7. Q!InOrder
    BY <1>2, <1>4 DEF Q!InOrder
<1>8. Q!OneAtATime
    BY <1>2, <1>4, SameSignals DEF Q!OneAtATime, Q!Idle, Q!AllRead
<1>9. Q!ReceivedInOrder /\ Q!NoneSkipped /\ Q!BlockedAtFirst
    BY <1>2, <1>4 DEF Q!ReceivedInOrder, Q!NoneSkipped, Q!BlockedAtFirst
<1> QED
    BY <1>5, <1>6, <1>7, <1>8, <1>9 DEF Q!IInv

\* A step of the parent is one more.
LEMMA ReaderTicks ==
    ASSUME ReaderConstants, Q!TypeOK,
           Q!ChildExits \/ Q!CheckChild \/ Q!VerifyQueue \/ Q!VerifySignum \/ Q!Unblock
           \/ Q!ParentFails \/ Q!Read \/ Q!Reset
    PROVE  /\ lapse \in 0 .. Pace /\ lapse' \in 0 .. Pace /\ lapse' <= lapse + 1
           /\ Pace \in Nat /\ Pace >= 9
<1>1. lapse \in 0 .. Pace /\ Pace \in Nat /\ Pace >= 9
    BY PaceIsEnough DEF Q!TypeOK
<1>2. lapse' = lapse \/ lapse' = IF lapse < Pace THEN lapse + 1 ELSE lapse
    BY DEF Q!ChildExits, Q!CheckChild, Q!VerifyQueue, Q!VerifySignum, Q!Unblock, Q!ParentFails,
           Q!Read, Q!Reset, Q!Tick
<1> QED
    BY <1>1, <1>2

\* Where a step takes the parent, and from where; what it finds.
LEMMA ReaderPlaces ==
    ASSUME ReaderConstants, Q!TypeOK
    PROVE  /\ Q!ChildExits => pc'[Parent] = pc[Parent]
           /\ Q!CheckChild => pc[Parent] = "waitpid" /\ pc'[Parent] \in {"exited", "verify queue"}
           /\ Q!VerifyQueue =>
                 /\ pc[Parent] = "verify queue"
                 /\ pc'[Parent] = IF flags[Parent].queue THEN "verify signum" ELSE "waitpid"
           /\ Q!VerifySignum =>
                 /\ pc[Parent] = "verify signum"
                 /\ pc'[Parent] = IF flags[Parent].signum THEN "read" ELSE "waitpid"
           /\ Q!Unblock => pc[Parent] = "unblock" /\ pc'[Parent] = "waitpid"
           /\ Q!ParentFails => pc[Parent] \in {"waitpid", "read", "unblock"} /\ pc'[Parent] = "failed"
<1>1. Parent \in Proc /\ Child \in Proc /\ Parent # Child
    BY DEF ReaderConstants
<1>2. pc \in [Proc -> {"unblock", "waitpid", "verify queue", "verify signum", "read", "reset",
                       "send", "exited", "failed"}]
    BY DEF Q!TypeOK
<1> QED
    BY <1>1, <1>2 DEF Q!ChildExits, Q!CheckChild, Q!VerifyQueue, Q!VerifySignum, Q!Unblock,
           Q!ParentFails, Q!Goto, Q!OnNoData

\* Each step keeps what is on its way in time.
LEMMA ReaderMovesInTime ==
    ASSUME ReaderConstants, Q!IInv,
           Q!ChildExits \/ Q!CheckChild \/ Q!VerifyQueue \/ Q!VerifySignum \/ Q!Unblock
           \/ Q!ParentFails
    PROVE  Q!OneAtATime'
<1>1. /\ flags' = flags /\ pending' = pending /\ paced' = paced /\ cleared' = cleared
      /\ sent' = sent /\ received' = received
    BY DEF Q!ChildExits, Q!CheckChild, Q!VerifyQueue, Q!VerifySignum, Q!Unblock,
           Q!ParentFails, Q!sigVars
<1>2. /\ lapse \in 0 .. Pace /\ lapse' \in 0 .. Pace /\ lapse' <= lapse + 1
      /\ Pace \in Nat /\ Pace >= 9 /\ cleared \in 0 .. 4
    BY ReaderTicks, ReaderTypes DEF Q!IInv
<1>7. cleared' \in 0 .. 4
    BY <1>1, <1>2
<1>8. lapse' \in Nat
    BY <1>2
<1>3. Q!ChildExits => lapse' = lapse
    BY DEF Q!ChildExits
<1>4. Q!TypeOK
    BY DEF Q!IInv
<1>5. CASE Q!ChildExits
    <2>1. pc'[Parent] = pc[Parent]
        BY <1>4, <1>5, ReaderPlaces
    <2>2. Q!InTime' <=> Q!InTime
        BY <1>1, <1>3, <1>5, <2>1 DEF Q!InTime
    <2> QED
        BY <1>1, <1>3, <1>5, <2>1, <2>2, SameSignals
        DEF Q!IInv, Q!OneAtATime, Q!Idle, Q!AllRead, Q!Unread, Q!Cleared
<1>6. CASE Q!CheckChild \/ Q!VerifyQueue \/ Q!VerifySignum \/ Q!Unblock \/ Q!ParentFails
    <2> SUFFICES ASSUME paced
                 PROVE  Q!OneAtATime'
        BY <1>1 DEF Q!OneAtATime
    <2>1. pc[Parent] # "reset" /\ pc'[Parent] # "reset"
        BY <1>4, <1>6, ReaderPlaces
    <2>2. ~flags[Parent].queue /\ Q!Idle => Q!Idle'
        BY <1>4, <1>6, ReaderPlaces DEF Q!Idle
    <2>3. ~Cleared.queue /\ Q!Cleared = Cleared
        BY SameSignals DEF Cleared
    <2>4. CASE flags[Parent] = Cleared /\ Q!Idle /\ Len(pending[Parent]) = 0 /\ Q!AllRead
        <3>1. Q!Idle'
            BY <2>2, <2>3, <2>4
        <3>2. Q!AllRead'
            BY <1>1, <2>4 DEF Q!AllRead
        <3>3. flags'[Parent] = Cleared' /\ Len(pending'[Parent]) = 0
            BY <1>1, <2>4 DEF Cleared
        <3> QED
            BY <3>1, <3>2, <3>3 DEF Q!OneAtATime, Q!Cleared, Cleared
    <2>5. CASE /\ flags[Parent] = Cleared /\ Q!Idle /\ Len(pending[Parent]) = 1 /\ Q!Unread
               /\ Q!InTime
               /\ pc[Parent] = "verify queue" => lapse = 0
        <3>1. Q!Idle' /\ ~flags[Parent].queue
            BY <2>2, <2>3, <2>5
        <3>2. ~Q!CheckChild
            <4> SUFFICES ASSUME Q!CheckChild
                         PROVE  FALSE
                OBVIOUS
            <4>1. ~blocked[Parent]
                BY DEF Q!CheckChild, Q!IInv, Q!BlockedAtFirst
            <4>2. pending[Parent] # << >>
                <5> SUFFICES ASSUME pending[Parent] = << >>
                             PROVE  FALSE
                    OBVIOUS
                <5>1. Len(<< >>) = 0
                    BY EmptySeq
                <5>2. Len(pending[Parent]) = 1
                    BY <2>5
                <5> QED
                    BY <5>1, <5>2
            <4> QED
                BY <4>1, <4>2 DEF Q!CheckChild, Q!NoneToDeliver
        <3>3. \/ pc'[Parent] = "failed"
              \/ pc'[Parent] = "waitpid" /\ lapse = 0
            <4>1. Q!VerifyQueue \/ Q!Unblock \/ Q!ParentFails
                BY <1>4, <1>6, <2>5, <3>2, ReaderPlaces DEF Q!Idle
            <4> QED
                BY <1>4, <2>5, <3>1, <4>1, ReaderPlaces DEF Q!InTime
        <3>4. Q!InTime' /\ pc'[Parent] # "verify queue"
            <4>1. \/ pc'[Parent] = "failed"
                  \/ pc'[Parent] = "waitpid" /\ lapse' <= 1
                BY <1>2, <3>3
            <4> QED
                BY <1>7, <1>8, <4>1 DEF Q!InTime
        <3>5. flags'[Parent] = Cleared' /\ Len(pending'[Parent]) = 1 /\ Q!Unread'
            BY <1>1, <2>5 DEF Cleared, Q!Unread
        <3> QED
            BY <3>1, <3>4, <3>5 DEF Q!OneAtATime, Q!Cleared, Cleared
    <2>6. CASE /\ flags[Parent].queue /\ flags[Parent].signum /\ pc[Parent] # "reset"
               /\ Len(pending[Parent]) = 0 /\ Q!Unread
               /\ Q!InTime
        <3>1. /\ pc[Parent] = "unblock" => lapse = 0
              /\ pc[Parent] = "waitpid" => lapse <= 1
              /\ pc[Parent] = "verify queue" => lapse <= 2
              /\ pc[Parent] = "verify signum" => lapse <= 3
            BY <2>6 DEF Q!InTime
        <3>7. /\ lapse = 0 => lapse' <= 1
              /\ lapse <= 1 => lapse' <= 2
              /\ lapse <= 2 => lapse' <= 3
              /\ lapse <= 3 => lapse' <= 4
            BY <1>2
        <3>4. /\ pc[Parent] = "unblock" => lapse' <= 1
              /\ pc[Parent] = "waitpid" => lapse' <= 2
              /\ pc[Parent] = "verify queue" => lapse' <= 3
              /\ pc[Parent] = "verify signum" => lapse' <= 4
            BY <3>1, <3>7, Zenon
        <3>5. \/ pc'[Parent] \in {"exited", "failed"}
              \/ pc'[Parent] = "waitpid" /\ pc[Parent] = "unblock"
              \/ pc'[Parent] = "verify queue" /\ pc[Parent] = "waitpid"
              \/ pc'[Parent] = "verify signum" /\ pc[Parent] = "verify queue"
              \/ pc'[Parent] = "read" /\ pc[Parent] = "verify signum"
            BY <1>4, <1>6, <2>6, ReaderPlaces
        <3>6. \/ pc'[Parent] \in {"exited", "failed"}
              \/ pc'[Parent] = "waitpid" /\ lapse' <= 1
              \/ pc'[Parent] = "verify queue" /\ lapse' <= 2
              \/ pc'[Parent] = "verify signum" /\ lapse' <= 3
              \/ pc'[Parent] = "read" /\ lapse' <= 4
            BY <3>4, <3>5
        <3>2. Q!InTime'
            BY <1>7, <1>8, <2>1, <3>6 DEF Q!InTime
        <3>3. /\ flags'[Parent].queue /\ flags'[Parent].signum
              /\ Len(pending'[Parent]) = 0 /\ Q!Unread'
            BY <1>1, <2>6 DEF Q!Unread
        <3> QED
            BY <2>1, <3>2, <3>3 DEF Q!OneAtATime
    <2> QED
        BY <2>1, <2>3, <2>4, <2>5, <2>6 DEF Q!IInv, Q!OneAtATime
<1> QED
    BY <1>5, <1>6

\* Steps that only take the parent from one place to another, or end the child.
LEMMA ReaderMoves ==
    ASSUME ReaderConstants, Q!IInv,
           Q!ChildExits \/ Q!CheckChild \/ Q!VerifyQueue \/ Q!VerifySignum \/ Q!Unblock
           \/ Q!ParentFails
    PROVE  Q!IInv'
<1>15. lapse' \in 0 .. Pace
    BY ReaderTicks DEF Q!IInv
<1> DEFINE Everywhere == {"unblock", "waitpid", "verify queue", "verify signum", "read", "reset",
                          "send", "exited", "failed"}
<1>1. /\ flags' = flags /\ pending' = pending /\ paced' = paced /\ cleared' = cleared
      /\ sent' = sent /\ received' = received
    BY DEF Q!ChildExits, Q!CheckChild, Q!VerifyQueue, Q!VerifySignum, Q!Unblock,
           Q!ParentFails, Q!sigVars
<1>2. Q!TypeOK /\ pc \in [Proc -> Everywhere] /\ blocked \in [Proc -> BOOLEAN]
    BY DEF Q!IInv, Q!TypeOK
<1>3. Parent \in Proc /\ Child \in Proc /\ Parent # Child
    BY DEF ReaderConstants
<1>4. blocked' \in [Proc -> BOOLEAN]
    BY <1>2 DEF Q!ChildExits, Q!CheckChild, Q!VerifyQueue, Q!VerifySignum, Q!Unblock,
           Q!ParentFails, Q!sigVars
<1>5. PICK p \in Proc, place \in Everywhere \ {"send", "reset"} :
          /\ pc' = [pc EXCEPT ![p] = place]
          /\ p = Child => place = "exited"
          /\ p = Parent => pc[Parent] # "reset"
          /\ p = Parent /\ place = "read" => flags[Parent].signum
          /\ p = Parent /\ place \in {"verify signum", "read"} =>
                 flags[Parent].queue \/ pc[Parent] = "verify signum"
    <2>1. CASE Q!ChildExits
        BY <1>3, <2>1 DEF Q!ChildExits, Q!Goto
    <2>2. CASE Q!CheckChild
        <3>1. PICK place \in {"exited", "verify queue"} : pc' = [pc EXCEPT ![Parent] = place]
            BY <2>2 DEF Q!CheckChild, Q!Goto
        <3>2. pc[Parent] = "waitpid"
            BY <2>2 DEF Q!CheckChild
        <3> QED
            BY <1>3, <3>1, <3>2
    <2>3. CASE Q!VerifyQueue
        <3>1. PICK place \in {"verify signum", "waitpid"} :
                  /\ pc' = [pc EXCEPT ![Parent] = place]
                  /\ place = "verify signum" => flags[Parent].queue
            BY <2>3 DEF Q!VerifyQueue, Q!Goto, Q!OnNoData
        <3>2. pc[Parent] = "verify queue"
            BY <2>3 DEF Q!VerifyQueue
        <3> QED
            BY <1>3, <3>1, <3>2
    <2>4. CASE Q!VerifySignum
        <3>1. PICK place \in {"read", "waitpid"} :
                  /\ pc' = [pc EXCEPT ![Parent] = place]
                  /\ place = "read" => flags[Parent].signum
            BY <2>4 DEF Q!VerifySignum, Q!Goto, Q!OnNoData
        <3>2. pc[Parent] = "verify signum"
            BY <2>4 DEF Q!VerifySignum
        <3> QED
            BY <1>3, <3>1, <3>2
    <2>5. CASE Q!Unblock
        <3>1. PICK place \in {"waitpid"} : pc' = [pc EXCEPT ![Parent] = place]
            BY <2>5 DEF Q!Unblock, Q!Goto
        <3>2. pc[Parent] = "unblock"
            BY <2>5 DEF Q!Unblock
        <3> QED
            BY <1>3, <3>1, <3>2
    <2>6. CASE Q!ParentFails
        <3>1. PICK place \in {"failed"} : pc' = [pc EXCEPT ![Parent] = place]
            BY <2>6 DEF Q!ParentFails, Q!Goto
        <3>2. pc[Parent] \in {"waitpid", "read", "unblock"}
            BY <2>6 DEF Q!ParentFails
        <3> QED
            BY <1>3, <3>1, <3>2
    <2> QED
        BY <2>1, <2>2, <2>3, <2>4, <2>5, <2>6
<1>6. /\ pc' \in [Proc -> Everywhere] /\ pc'[p] = place
      /\ \A q \in Proc \ {p} : pc'[q] = pc[q]
    BY <1>2, <1>5
<1>7. p = Parent \/ p = Child
    BY DEF ReaderConstants
<1>8. Q!TypeOK'
    <2>1. pc'[Parent] # "send" /\ pc'[Child] \in {"send", "exited"}
        BY <1>2, <1>3, <1>5, <1>6, <1>7 DEF Q!TypeOK
    <2>2. received' \in Seq(Values)
        BY <1>1, <1>2 DEF Q!TypeOK, Values
    <2>3. sent' \in Seq(Values)
        BY <1>1, <1>2 DEF Q!TypeOK, Values
    <2> QED
        BY <1>1, <1>2, <1>4, <1>6, <1>15, <2>1, <2>2, <2>3 DEF Q!TypeOK, Values
<1>9. pc'[Parent] = "reset" <=> pc[Parent] = "reset"
    BY <1>3, <1>5, <1>6, <1>7
<1>10. Q!WholeValue'
    <2>1. pc'[Parent] = "read" => flags[Parent].signum
        BY <1>3, <1>5, <1>6, <1>7 DEF Q!IInv, Q!WholeValue
    <2> QED
        BY <1>1, <1>9, <2>1 DEF Q!IInv, Q!WholeValue, Q!ResetOrder
<1>11. Q!InOrder'
    BY <1>1, <1>9 DEF Q!IInv, Q!InOrder
<1>12. Q!OneAtATime'
    BY ReaderMovesInTime
<1>13. Q!ReceivedInOrder' /\ Q!NoneSkipped'
    BY <1>1 DEF Q!IInv, Q!ReceivedInOrder, Q!NoneSkipped
<1>16. Q!BlockedAtFirst'
    <2>1. CASE Q!Unblock
        BY <1>2, <1>3, <2>1 DEF Q!Unblock, Q!BlockedAtFirst
    <2>2. CASE Q!ParentFails
        BY <1>2, <1>3, <2>2 DEF Q!ParentFails, Q!Goto, Q!BlockedAtFirst
    <2>3. CASE Q!ChildExits
        BY <1>2, <1>3, <2>3 DEF Q!ChildExits, Q!Goto, Q!sigVars, Q!IInv, Q!BlockedAtFirst
    <2>4. CASE Q!CheckChild \/ Q!VerifyQueue \/ Q!VerifySignum
        BY <2>4 DEF Q!CheckChild, Q!VerifyQueue, Q!VerifySignum, Q!sigVars, Q!IInv, Q!BlockedAtFirst
    <2> QED
        BY <2>1, <2>2, <2>3, <2>4
<1> QED
    BY <1>8, <1>10, <1>11, <1>12, <1>13, <1>16 DEF Q!IInv

\* The child sends its next value; if it is paced, nothing else is on its way.
LEMMA ReaderSend ==
    ASSUME ReaderConstants, Q!IInv, Q!Send
    PROVE  Q!IInv'
<1>1. /\ flags' = flags /\ blocked' = blocked /\ paced' = paced /\ pc' = pc
      /\ cleared' = cleared /\ received' = received
      /\ Q!TypeOK
    BY DEF Q!Send, Q!IInv
<1>2. PICK n \in Nat : n = Len(sent)
    BY <1>1, ReaderTypes
<1>3. n + 1 \in Values /\ sent' = Append(sent, n + 1)
    BY <1>2 DEF Q!Send, Values, ReaderConstants
<1>4. sent \in Seq(Values)
    BY <1>1 DEF Q!TypeOK, Values
<1>5. sent' \in Seq(Values) /\ Len(sent') = n + 1
    BY <1>2, <1>3, <1>4, AppendProperties
<1> DEFINE info == [pid |-> Child, data |-> n + 1]
<1>6. info \in Info(Values) /\ info.data = n + 1 /\ pending' = Generated(Parent, info)
    BY <1>1, <1>2, <1>3, ReaderTypes, SameSignals DEF Q!Send, Info
<1> HIDE DEF info
<1>7. /\ pending' \in [Proc -> Seq(Info(Values))]
      /\ Len(pending[Parent]) \in Nat /\ DOMAIN pending[Parent] = 1 .. Len(pending[Parent])
      /\ \A i \in DOMAIN pending'[Parent] :
             \/ i \in DOMAIN pending[Parent] /\ pending'[Parent][i] = pending[Parent][i]
             \/ i = Len(pending[Parent]) + 1 /\ pending'[Parent][i] = info
      /\ pending[Parent] = << >> => Len(pending'[Parent]) = 1
    BY <1>1, <1>6, ReaderTypes, GeneratedAdds
<1>8. Q!TypeOK'
    <2>1. received' \in Seq(Values)
        BY <1>1 DEF Q!TypeOK, Values
    <2>2. lapse' = 0
        BY DEF Q!Send
    <2>3. lapse' \in 0 .. Pace
        BY <2>2, PaceIsEnough
    <2> QED
        BY <1>1, <1>5, <1>7, <2>1, <2>3 DEF Q!TypeOK, Info, Values
<1>9. Q!WholeValue'
    BY <1>1 DEF Q!IInv, Q!WholeValue, Q!ResetOrder
<1>10. \A v \in Values : v <= n => v <= n + 1 /\ v < n + 1
    BY <1>2, ValuesAreNumbers
<1>11. Q!InOrder'
    <2>1. /\ \A i \in DOMAIN pending[Parent] :
                /\ pending[Parent][i].data \in Values /\ pending[Parent][i].data <= n
          /\ \A k \in DOMAIN received : received[k] \in Values /\ received[k] <= n
          /\ flags[Parent].data # Nothing => flags[Parent].data \in Values /\ flags[Parent].data <= n
        BY <1>1, <1>2, ReaderTypes DEF Q!IInv, Q!InOrder
    <2>2. \A i \in DOMAIN pending'[Parent] :
              \/ i \in DOMAIN pending[Parent] /\ pending'[Parent][i] = pending[Parent][i]
              \/ i = Len(pending[Parent]) + 1 /\ pending'[Parent][i].data = n + 1
        BY <1>6, <1>7
    <2>3. \A i \in DOMAIN pending'[Parent] : pending'[Parent][i].data <= n + 1
        BY <1>2, <1>10, <2>1, <2>2
    <2>4. ASSUME NEW i \in DOMAIN pending'[Parent], NEW j \in DOMAIN pending'[Parent], i < j
          PROVE  pending'[Parent][i].data < pending'[Parent][j].data
        <3>1. i \in DOMAIN pending[Parent] /\ pending'[Parent][i] = pending[Parent][i]
            BY <1>7, <2>2, <2>4
        <3>2. CASE j \in DOMAIN pending[Parent] /\ pending'[Parent][j] = pending[Parent][j]
            BY <2>4, <3>1, <3>2 DEF Q!IInv, Q!InOrder
        <3>3. CASE pending'[Parent][j].data = n + 1
            BY <1>10, <2>1, <3>1, <3>3
        <3> QED
            BY <2>2, <3>2, <3>3
    <2>5. \A v \in Values : v <= n /\ (\A i \in DOMAIN pending[Parent] : v < pending[Parent][i].data) =>
              \A i \in DOMAIN pending'[Parent] : v < pending'[Parent][i].data
        BY <1>10, <2>2
    <2>6. flags[Parent].data # Nothing =>
              /\ flags[Parent].data <= n + 1
              /\ \A i \in DOMAIN pending'[Parent] : flags[Parent].data < pending'[Parent][i].data
        BY <1>10, <2>1, <2>5 DEF Q!IInv, Q!InOrder
    <2>7. \A k \in DOMAIN received :
              /\ received[k] <= n + 1
              /\ \A i \in DOMAIN pending'[Parent] : received[k] < pending'[Parent][i].data
        BY <1>10, <2>1, <2>5 DEF Q!IInv, Q!InOrder
    <2>8. flags[Parent].signum /\ pc[Parent] # "reset" =>
              \A k \in DOMAIN received : received[k] < flags[Parent].data
        BY DEF Q!IInv, Q!InOrder
    <2> QED
        BY <1>1, <1>5, <2>3, <2>4, <2>6, <2>7, <2>8 DEF Q!InOrder
<1>12. Q!OneAtATime'
    <2> SUFFICES ASSUME paced
                 PROVE  Q!OneAtATime'
        BY <1>1 DEF Q!OneAtATime
    <2>1. lapse >= Pace /\ lapse \in Nat /\ Pace \in Nat /\ Pace >= 9
        BY <1>1, ReaderTypes, PaceIsEnough DEF Q!Send, Q!Sleep
    <2>2. pc[Parent] \notin {"exited", "failed", "send"}
        BY DEF Q!Send, Q!Running, Q!IInv, Q!TypeOK
    <2>5. cleared \in 0 .. 3 \/ pc[Parent] # "reset"
        <3>1. pc[Parent] = "reset" => cleared < 4
            BY SameReset, FourVariables DEF Q!IInv, Q!WholeValue
        <3> QED
            BY <1>1, <3>1, ReaderTypes
    <2>6. pc[Parent] \in {"unblock", "waitpid", "verify queue", "verify signum", "read", "reset"}
        BY <1>1, <2>2 DEF Q!TypeOK, ReaderConstants
    <2>7. ~Q!InTime
        <3>1. cleared \in 0 .. 4
            BY <1>1, ReaderTypes
        <3> QED
            <4> SUFFICES ASSUME Q!InTime
                         PROVE  FALSE
                OBVIOUS
            <4>1. pc[Parent] = "unblock" => lapse = 0
                BY DEF Q!InTime
            <4>2. /\ pc[Parent] = "waitpid" => lapse <= 1
                  /\ pc[Parent] = "verify queue" => lapse <= 2
                  /\ pc[Parent] = "verify signum" => lapse <= 3
                  /\ pc[Parent] = "read" => lapse <= 4
                BY DEF Q!InTime
            <4>3. pc[Parent] = "reset" => lapse <= 5 + cleared
                BY DEF Q!InTime
            <4>4. /\ ~(lapse = 0) /\ ~(lapse <= 1) /\ ~(lapse <= 2) /\ ~(lapse <= 3)
                  /\ ~(lapse <= 4)
                  /\ cleared \in 0 .. 3 => ~(lapse <= 5 + cleared)
                BY <2>1, <3>1
            <4> QED
                BY <2>5, <2>6, <4>1, <4>2, <4>3, <4>4, Zenon
    <2>3. Q!Idle /\ Q!AllRead /\ flags[Parent] = Cleared /\ Len(pending[Parent]) = 0
        BY <2>7, SameSignals DEF Q!IInv, Q!OneAtATime
    <2>8. pending[Parent] = << >>
        BY <1>1, <2>3, ReaderTypes, EmptySeq
    <2>9. lapse' = 0
        BY DEF Q!Send
    <2>10. Q!InTime'
        <3>1. cleared' \in 0 .. 4 /\ pc'[Parent] # "reset" /\ lapse' \in Nat
              /\ lapse' = 0
            BY <1>1, <2>3, <2>9, ReaderTypes DEF Q!Idle
        <3>2. lapse' <= 1 /\ lapse' <= 2 /\ lapse' <= 3 /\ lapse' <= 4
            BY <3>1
        <3> QED
            BY <3>1, <3>2, Zenon DEF Q!InTime
    <2>4. Len(sent') = Len(received') + 1
        BY <1>1, <1>2, <1>5, <2>3 DEF Q!AllRead
    <2> QED
        BY <1>1, <1>7, <2>8, <2>3, <2>4, <2>9, <2>10, SameSignals DEF Q!OneAtATime, Q!Idle, Q!Unread
<1>14. Q!NoneSkipped' /\ Q!BlockedAtFirst'
    BY <1>1 DEF Q!IInv, Q!NoneSkipped, Q!BlockedAtFirst
<1>13. Q!ReceivedInOrder'
    <2>1. \A v \in 1 .. n : v \in 1 .. n + 1
        BY <1>2
    <2> QED
        BY <1>1, <1>2, <1>5, <2>1 DEF Q!IInv, Q!ReceivedInOrder
<1> QED
    BY <1>8, <1>9, <1>11, <1>12, <1>13, <1>14 DEF Q!IInv


\* The parent prints the value in its variables: the next after those it printed.
LEMMA ReaderReads ==
    ASSUME ReaderConstants, Q!IInv, Q!Read
    PROVE  Q!IInv'
<1>1. /\ flags' = flags /\ pending' = pending /\ blocked' = blocked /\ paced' = paced
      /\ sent' = sent /\ cleared' = 0 /\ pc' = [pc EXCEPT ![Parent] = "reset"]
      /\ received' = Append(received, flags[Parent].data)
      /\ Q!TypeOK /\ pc[Parent] = "read"
    BY DEF Q!Read, Q!IInv, Q!sigVars, Q!Goto
<1>2. Parent \in Proc /\ Child \in Proc /\ Parent # Child
    BY DEF ReaderConstants
<1>3. /\ pc' \in [Proc -> {"unblock", "waitpid", "verify queue", "verify signum", "read", "reset",
                           "send", "exited", "failed"}]
      /\ pc'[Parent] = "reset" /\ pc'[Child] = pc[Child]
    BY <1>1, <1>2 DEF Q!TypeOK
<1>4. flags[Parent].signum /\ flags[Parent].data # Nothing
    BY <1>1 DEF Q!IInv, Q!WholeValue
<1>5. PICK v \in Values : v = flags[Parent].data
    BY <1>1, <1>4, ReaderTypes
<1>6. PICK n \in Nat : n = Len(sent)
    BY <1>1, ReaderTypes
<1>7. /\ v <= n
      /\ \A i \in DOMAIN pending[Parent] : v < pending[Parent][i].data
      /\ \A k \in DOMAIN received : received[k] < v
    BY <1>1, <1>4, <1>5, <1>6 DEF Q!IInv, Q!InOrder
<1>8. received \in Seq(Values)
    BY <1>1 DEF Q!TypeOK, Values
<1>9. /\ received' \in Seq(Values) /\ Len(received') = Len(received) + 1
      /\ DOMAIN received = 1 .. Len(received) /\ Len(received) \in Nat
      /\ \A k \in DOMAIN received' :
             \/ k \in DOMAIN received /\ received'[k] = received[k]
             \/ k = Len(received) + 1 /\ received'[k] = v
    <2>1. received' = Append(received, v)
        BY <1>1, <1>5
    <2> QED
        BY <1>8, <2>1, AppendProperties
<1>15. /\ lapse' \in 0 .. Pace /\ lapse' <= lapse + 1
       /\ lapse \in Nat /\ Pace \in Nat
    <2>1. lapse \in 0 .. Pace /\ Pace \in Nat
        BY <1>1, ReaderTypes
    <2> QED
        BY <2>1 DEF Q!Read, Q!Tick
<1>10. Q!TypeOK'
    <2>1. sent' \in Seq(Values)
        BY <1>1 DEF Q!TypeOK, Values
    <2>2. 0 \in 0 .. Len(Q!ResetOrder)
        BY SameReset, FourVariables
    <2> QED
        BY <1>1, <1>3, <1>9, <1>15, <2>1, <2>2 DEF Q!TypeOK, Values
<1>11. Q!WholeValue'
    <2>1. Len(Q!ResetOrder)' = 4
        BY SameReset, FourVariables DEF Q!ResetOrder
    <2>2. cleared' < Len(Q!ResetOrder)'
        BY <1>1, <2>1
    <2> QED
        BY <1>3, <2>2 DEF Q!WholeValue
<1>12. Q!InOrder'
    <2>1. \A k \in DOMAIN received' :
              /\ received'[k] <= Len(sent)
              /\ \A i \in DOMAIN pending[Parent] : received'[k] < pending[Parent][i].data
        BY <1>6, <1>7, <1>9 DEF Q!IInv, Q!InOrder
    <2> QED
        BY <1>1, <1>3, <2>1 DEF Q!IInv, Q!InOrder
<1>13. Q!OneAtATime'
    <2> SUFFICES ASSUME paced
                 PROVE  Q!OneAtATime'
        BY <1>1 DEF Q!OneAtATime
    <2>1. Len(pending[Parent]) = 0 /\ Q!Unread /\ Q!InTime
        BY <1>1 DEF Q!IInv, Q!OneAtATime, Q!Idle
    <2>2. Q!AllRead'
        BY <1>1, <1>9, <2>1 DEF Q!Unread, Q!AllRead
    <2>3. /\ Len(pending'[Parent]) = 0 /\ flags'[Parent].signum
          /\ ~(cleared' > 0) /\ ~(cleared' > 1) /\ ~(cleared' > 2)
        BY <1>1, <1>4, <2>1
    <2>4. lapse <= 4
        BY <1>1, <2>1 DEF Q!InTime
    <2>5. Q!InTime'
        <3>1. cleared' \in 0 .. 4 /\ cleared' = 0 /\ lapse' <= 5 /\ lapse' \in Nat
            BY <1>1, <1>15, <2>4
        <3>2. lapse' <= 5 + cleared'
            BY <3>1
        <3> QED
            BY <1>3, <3>2, Zenon DEF Q!InTime
    <2> QED
        BY <1>3, <2>2, <2>3, <2>5 DEF Q!OneAtATime
<1>14. Q!ReceivedInOrder'
    <2>1. v \in 1 .. Len(sent)
        BY <1>6, <1>7 DEF Values
    <2>2. \A k \in DOMAIN received' : received'[k] \in 1 .. Len(sent)
        BY <1>9, <2>1 DEF Q!IInv, Q!ReceivedInOrder
    <2>3. ASSUME NEW i \in DOMAIN received', NEW j \in DOMAIN received', i < j
          PROVE  received'[i] < received'[j]
        <3>1. i \in DOMAIN received /\ received'[i] = received[i]
            BY <1>9, <2>3
        <3>2. CASE j \in DOMAIN received /\ received'[j] = received[j]
            BY <2>3, <3>1, <3>2 DEF Q!IInv, Q!ReceivedInOrder
        <3>3. CASE received'[j] = v
            BY <1>7, <3>1, <3>3
        <3> QED
            BY <1>9, <3>2, <3>3
    <2> QED
        BY <1>1, <2>2, <2>3 DEF Q!ReceivedInOrder
<1>16. Q!NoneSkipped'
    <2> SUFFICES ASSUME paced, NEW k \in DOMAIN received'
                 PROVE  received'[k] = k
        BY <1>1 DEF Q!NoneSkipped
    <2>1. Len(sent) = Len(received) + 1
        BY <1>1 DEF Q!IInv, Q!OneAtATime, Q!Idle, Q!Unread
    <2>2. \A i \in DOMAIN received : received[i] = i
        BY DEF Q!IInv, Q!NoneSkipped
    <2>3. v = Len(received) + 1
        <3>1. v \in Nat \ {0} /\ v <= Len(received) + 1
            BY <1>6, <1>7, <2>1 DEF Values
        <3>2. Len(received) # 0 => Len(received) < v
            BY <1>7, <1>9, <2>2
        <3> QED
            BY <1>9, <3>1, <3>2
    <2> QED
        BY <1>9, <2>2, <2>3
<1>17. Q!BlockedAtFirst'
    BY <1>1 DEF Q!IInv, Q!BlockedAtFirst
<1> QED
    BY <1>10, <1>11, <1>12, <1>13, <1>14, <1>16, <1>17 DEF Q!IInv

\* The parent clears one variable: signum is the last.
LEMMA ReaderResets ==
    ASSUME ReaderConstants, Q!IInv, Q!Reset
    PROVE  Q!IInv'
<1>1. /\ pending' = pending /\ blocked' = blocked /\ paced' = paced
      /\ sent' = sent /\ received' = received /\ cleared' = cleared + 1
      /\ Q!TypeOK /\ pc[Parent] = "reset"
    BY DEF Q!Reset, Q!IInv
<1>2. Parent \in Proc /\ Child \in Proc /\ Parent # Child
    BY DEF ReaderConstants
<1>3. cleared \in 0 .. 3
    <2>1. cleared < 4
        BY <1>1, SameReset, FourVariables DEF Q!IInv, Q!WholeValue
    <2> QED
        BY <1>1, <2>1, ReaderTypes
<1> DEFINE k == cleared + 1
<1>4. k \in 1 .. 4 /\ ResetOne(Parent, k)
    BY <1>3, SameReset DEF Q!Reset
<1>5. /\ flags' \in [Proc -> Variables(Values)]
      /\ flags'[Parent].queue <=> k # 1 /\ flags[Parent].queue
      /\ flags'[Parent].data = IF k = 2 THEN Nothing ELSE flags[Parent].data
      /\ flags'[Parent].pid = IF k = 3 THEN Nothing ELSE flags[Parent].pid
      /\ flags'[Parent].signum <=> k # 4 /\ flags[Parent].signum
    <2> HIDE DEF k
    <2> QED
        BY <1>1, <1>2, <1>4, ResetOneClears, ReaderTypes
<1>6. \/ k < 4 /\ pc' = [pc EXCEPT ![Parent] = "reset"]
      \/ k = 4 /\ pc' = [pc EXCEPT ![Parent] = "unblock"]
    <2>1. Len(Q!ResetOrder) = 4
        BY SameReset, FourVariables
    <2>2. CASE k = 4
        BY <2>1, <2>2 DEF Q!Reset, Q!Goto
    <2>3. CASE k < 4
        BY <2>1, <2>3 DEF Q!Reset, Q!Goto
    <2> QED
        BY <1>4, <2>2, <2>3
<1>7. /\ pc' \in [Proc -> {"unblock", "waitpid", "verify queue", "verify signum", "read", "reset",
                           "send", "exited", "failed"}]
      /\ pc'[Child] = pc[Child]
      /\ \/ k < 4 /\ pc'[Parent] = "reset"
         \/ k = 4 /\ pc'[Parent] = "unblock" /\ ~flags'[Parent].signum
    <2> HIDE DEF k
    <2>1. pc \in [Proc -> {"unblock", "waitpid", "verify queue", "verify signum", "read", "reset",
                           "send", "exited", "failed"}]
        BY <1>1 DEF Q!TypeOK
    <2>2. CASE k < 4 /\ pc' = [pc EXCEPT ![Parent] = "reset"]
        BY <1>2, <2>1, <2>2
    <2>3. CASE k = 4 /\ pc' = [pc EXCEPT ![Parent] = "unblock"]
        BY <1>2, <1>5, <2>1, <2>3
    <2> QED
        BY <1>6, <2>2, <2>3
<1>15. /\ lapse' \in 0 .. Pace /\ lapse' <= lapse + 1
       /\ lapse \in Nat /\ Pace \in Nat /\ Pace >= 9
    <2>1. lapse \in 0 .. Pace /\ Pace \in Nat /\ Pace >= 9
        BY <1>1, ReaderTypes, PaceIsEnough
    <2> QED
        BY <2>1 DEF Q!Reset, Q!Tick
<1>8. Q!TypeOK'
    <2>1. sent' \in Seq(Values)
        BY <1>1 DEF Q!TypeOK, Values
    <2>2. received' \in Seq(Values)
        BY <1>1 DEF Q!TypeOK, Values
    <2>3. cleared' \in 0 .. Len(Q!ResetOrder)
        <3>1. Len(Q!ResetOrder) = 4
            BY SameReset, FourVariables
        <3> QED
            BY <1>1, <1>3, <3>1
    <2>4. pc'[Parent] # "send"
        BY <1>7
    <2> QED
        BY <1>1, <1>5, <1>7, <1>15, <2>1, <2>2, <2>3, <2>4 DEF Q!TypeOK, Variables, Values
<1>9. Q!WholeValue'
    <2>1. pc'[Parent] # "read"
        BY <1>7
    <2>2. flags'[Parent].signum => pc'[Parent] = "reset"
        BY <1>7
    <2>3. pc'[Parent] = "reset" => cleared' < Len(Q!ResetOrder)'
        <3>1. pc'[Parent] = "reset" => k < 4
            BY <1>7
        <3>2. Len(Q!ResetOrder)' = 4
            BY SameReset, FourVariables DEF Q!ResetOrder
        <3> QED
            BY <1>1, <3>1, <3>2
    <2> QED
        BY <2>1, <2>2, <2>3 DEF Q!WholeValue
<1>10. Q!InOrder'
    <2>1. flags'[Parent].data = Nothing \/ flags'[Parent].data = flags[Parent].data
        BY <1>5
    <2>2. flags'[Parent].signum => pc'[Parent] = "reset"
        BY <1>7
    <2> HIDE DEF k
    <2> QED
        BY <1>1, <2>1, <2>2 DEF Q!IInv, Q!InOrder
<1>11. Q!OneAtATime'
    <2> SUFFICES ASSUME paced
                 PROVE  Q!OneAtATime'
        BY <1>1 DEF Q!OneAtATime
    <2>1. /\ Len(pending[Parent]) = 0 /\ Q!AllRead /\ flags[Parent].signum
          /\ cleared > 0 => ~flags[Parent].queue
          /\ cleared > 1 => flags[Parent].data = Nothing
          /\ cleared > 2 => flags[Parent].pid = Nothing
          /\ Q!InTime
        BY <1>1 DEF Q!IInv, Q!OneAtATime, Q!Idle
    <2>2. Q!AllRead' /\ Len(pending'[Parent]) = 0
        BY <1>1, <2>1 DEF Q!AllRead
    <2>3. /\ k > 0 => ~flags'[Parent].queue
          /\ k > 1 => flags'[Parent].data = Nothing
          /\ k > 2 => flags'[Parent].pid = Nothing
        <3>1. cleared = 0 \/ cleared = 1 \/ cleared = 2 \/ cleared = 3
            BY <1>3
        <3> QED
            BY <1>5, <2>1, <3>1
    <2>4. CASE k < 4 /\ pc'[Parent] = "reset"
        <3>1. flags'[Parent].signum
            BY <1>5, <2>1, <2>4
        <3>2. Q!InTime'
            <4>1. lapse <= 5 + cleared
                BY <1>1, <1>3, <1>15, <2>1 DEF Q!InTime
            <4> HIDE DEF k
            <4> QED
                BY <1>1, <1>3, <1>15, <2>4, <4>1 DEF Q!InTime
        <3> QED
            BY <1>1, <2>2, <2>3, <2>4, <3>1, <3>2 DEF Q!OneAtATime
    <2>5. CASE k = 4 /\ pc'[Parent] = "unblock"
        <3>1. ~flags'[Parent].queue /\ ~flags'[Parent].signum
              /\ flags'[Parent].data = Nothing /\ flags'[Parent].pid = Nothing
            BY <1>5, <2>3, <2>5
        <3>2. flags'[Parent] \in Variables(Values)
            BY <1>2, <1>5
        <3>3. flags'[Parent] = Cleared
            BY <3>1, <3>2 DEF Variables, Cleared
        <3>4. Q!Idle'
            BY <2>5 DEF Q!Idle
        <3>5. flags'[Parent] = Q!Cleared'
            BY <3>3 DEF Cleared, Q!Cleared
        <3> QED
            BY <2>2, <3>4, <3>5 DEF Q!OneAtATime
    <2> QED
        BY <1>7, <2>4, <2>5
<1>12. Q!ReceivedInOrder' /\ Q!NoneSkipped'
    BY <1>1 DEF Q!IInv, Q!ReceivedInOrder, Q!NoneSkipped
<1>16. Q!BlockedAtFirst'
    BY <1>1 DEF Q!IInv, Q!BlockedAtFirst
<1> QED
    BY <1>8, <1>9, <1>10, <1>11, <1>12, <1>16 DEF Q!IInv

\* The handler takes the first pending value.
LEMMA ReaderHandles ==
    ASSUME ReaderConstants, Q!IInv, Q!Handle
    PROVE  Q!IInv'
<1>1. /\ paced' = paced /\ lapse' = lapse /\ pc' = pc /\ cleared' = cleared /\ sent' = sent
      /\ received' = received /\ Q!TypeOK /\ Deliver(Parent)
    BY SameSignals DEF Q!Handle, Q!IInv
<1>2. Parent \in Proc /\ Child \in Proc /\ Parent # Child
    BY DEF ReaderConstants
<1>3. /\ pending' \in [Proc -> Seq(Info(Values))] /\ flags' \in [Proc -> Variables(Values)]
      /\ blocked' = blocked
      /\ 1 \in DOMAIN pending[Parent] /\ pending[Parent][1] \in Info(Values)
      /\ \A i \in DOMAIN pending'[Parent] :
             /\ i \in Nat /\ i + 1 > 1
             /\ i + 1 \in DOMAIN pending[Parent] /\ pending'[Parent][i] = pending[Parent][i + 1]
      /\ flags'[Parent].queue /\ flags'[Parent].signum
      /\ flags'[Parent].data = pending[Parent][1].data
      /\ Len(pending'[Parent]) = Len(pending[Parent]) - 1
      /\ pending[Parent] # << >>
    BY <1>1, <1>2, DeliverTakes, ReaderTypes
<1>4. PICK v \in Values : v = flags'[Parent].data /\ v = pending[Parent][1].data
    BY <1>3 DEF Info
<1>5. v # Nothing
    BY <1>4, ValuesAreNumbers
<1>6. Q!TypeOK'
    <2>1. sent' \in Seq(Values)
        BY <1>1 DEF Q!TypeOK, Values
    <2>2. received' \in Seq(Values)
        BY <1>1 DEF Q!TypeOK, Values
    <2> QED
        BY <1>1, <1>3, <2>1, <2>2 DEF Q!TypeOK, Q!ResetOrder, Variables, Info, Values
<1>7. Q!WholeValue'
    BY <1>1, <1>3, <1>4, <1>5 DEF Q!IInv, Q!WholeValue, Q!ResetOrder
<1>8. Q!InOrder'
    <2>1. \A i \in DOMAIN pending'[Parent] :
              /\ pending'[Parent][i].data <= Len(sent)
              /\ v < pending'[Parent][i].data
              /\ \A j \in DOMAIN received : received[j] < pending'[Parent][i].data
        BY <1>3, <1>4 DEF Q!IInv, Q!InOrder
    <2>2. ASSUME NEW i \in DOMAIN pending'[Parent], NEW j \in DOMAIN pending'[Parent], i < j
          PROVE  pending'[Parent][i].data < pending'[Parent][j].data
        <3>1. i + 1 < j + 1
            BY <1>3, <2>2
        <3> QED
            BY <1>3, <3>1 DEF Q!IInv, Q!InOrder
    <2>3. v <= Len(sent) /\ \A k \in DOMAIN received : received[k] < v
        BY <1>3, <1>4 DEF Q!IInv, Q!InOrder
    <2>4. \A k \in DOMAIN received : received[k] <= Len(sent)
        BY DEF Q!IInv, Q!InOrder
    <2> QED
        BY <1>1, <1>4, <2>1, <2>2, <2>3, <2>4 DEF Q!InOrder
<1>9. Q!OneAtATime'
    <2> SUFFICES ASSUME paced
                 PROVE  Q!OneAtATime'
        BY <1>1 DEF Q!OneAtATime
    <2>1. Len(pending[Parent]) # 0
        BY <1>1, <1>2, <1>3, ReaderTypes
    <2>2. Q!Idle /\ Len(pending[Parent]) = 1 /\ Q!Unread /\ Q!InTime
        BY <2>1 DEF Q!IInv, Q!OneAtATime
    <2>3. Q!Unread' /\ pc'[Parent] # "reset"
        BY <1>1, <2>2 DEF Q!Unread, Q!Idle
    <2>4. Len(pending'[Parent]) = 0
        BY <1>3, <2>2
    <2>5. Q!InTime'
        BY <1>1, <2>2 DEF Q!InTime
    <2> QED
        BY <1>3, <2>3, <2>4, <2>5 DEF Q!OneAtATime
<1>10. Q!ReceivedInOrder' /\ Q!NoneSkipped' /\ Q!BlockedAtFirst'
    BY <1>1, <1>3 DEF Q!IInv, Q!ReceivedInOrder, Q!NoneSkipped, Q!BlockedAtFirst
<1> QED
    BY <1>6, <1>7, <1>8, <1>9, <1>10 DEF Q!IInv

LEMMA ReaderStutters ==
    ASSUME Q!IInv, UNCHANGED Q!vars
    PROVE  Q!IInv'
<1>1. /\ flags' = flags /\ pending' = pending /\ blocked' = blocked /\ paced' = paced
      /\ lapse' = lapse
      /\ pc' = pc /\ cleared' = cleared /\ sent' = sent /\ received' = received
    BY DEF Q!vars, Q!sigVars
<1>2. Q!TypeOK'
    BY <1>1 DEF Q!IInv, Q!TypeOK, Q!ResetOrder
<1>3. Q!WholeValue'
    BY <1>1 DEF Q!IInv, Q!WholeValue, Q!ResetOrder
<1>4. Q!InOrder'
    BY <1>1 DEF Q!IInv, Q!InOrder
<1>5. Q!OneAtATime'
    BY <1>1 DEF Q!IInv, Q!OneAtATime, Q!Idle, Q!AllRead, Q!Unread, Q!InTime, Q!Cleared
<1>6. Q!ReceivedInOrder' /\ Q!NoneSkipped' /\ Q!BlockedAtFirst'
    BY <1>1 DEF Q!IInv, Q!ReceivedInOrder, Q!NoneSkipped, Q!BlockedAtFirst
<1> QED
    BY <1>2, <1>3, <1>4, <1>5, <1>6 DEF Q!IInv

LEMMA ReaderNext ==
    ASSUME ReaderConstants, Q!IInv, [Q!Next]_(Q!vars)
    PROVE  Q!IInv'
<1>1. CASE Q!Send
    BY <1>1, ReaderSend
<1>2. CASE Q!ChildExits \/ Q!CheckChild \/ Q!VerifyQueue \/ Q!VerifySignum \/ Q!Unblock
           \/ Q!ParentFails
    BY <1>2, ReaderMoves
<1>3. CASE Q!Read
    BY <1>3, ReaderReads
<1>4. CASE Q!Reset
    BY <1>4, ReaderResets
<1>5. CASE Q!Handle
    BY <1>5, ReaderHandles
<1>6. CASE UNCHANGED Q!vars
    BY <1>6, ReaderStutters
<1> QED
    BY <1>1, <1>2, <1>3, <1>4, <1>5, <1>6 DEF Q!Next, Q!ParentStep

LEMMA ReaderInvariant ==
    ASSUME ReaderConstants
    PROVE  Q!Spec => []Q!IInv
<1>1. Q!Init => Q!IInv
    BY ReaderInit
<1>2. Q!IInv /\ [Q!Next]_(Q!vars) => Q!IInv'
    BY ReaderNext
<1> QED
    BY <1>1, <1>2, PTL DEF Q!Spec

\* What the parent prints was sent, once and in order.
THEOREM ReaderReceivesInOrder ==
    ASSUME ReaderConstants
    PROVE  Q!Spec => []Q!ReceivedInOrder
<1>1. Q!IInv => Q!ReceivedInOrder
    BY DEF Q!IInv
<1> QED
    BY <1>1, ReaderInvariant, PTL

\* If the parent makes nine steps in a second, at most the last value is
\* missed, however the parent ends.
THEOREM ReaderMissesTheLast ==
    ASSUME ReaderConstants
    PROVE  Q!Spec => []Q!AtMostLastMissed
<1>1. Q!IInv => Q!AtMostLastMissed
    <2> SUFFICES ASSUME Q!IInv, paced, NEW v \in 1 .. Len(sent) - 1
                 PROVE  \E i \in DOMAIN received : received[i] = v
        BY DEF Q!AtMostLastMissed
    <2>1. Len(sent) \in Nat /\ Len(received) \in Nat /\ received \in Seq(Values)
        BY ReaderTypes DEF Q!IInv, Q!TypeOK, Values
    <2>2. Len(sent) = Len(received) + 1 \/ Len(sent) = Len(received)
        BY DEF Q!IInv, Q!OneAtATime, Q!Unread, Q!AllRead
    <2>3. v \in DOMAIN received
        BY <2>1, <2>2
    <2> QED
        BY <2>3 DEF Q!IInv, Q!NoneSkipped
<1> QED
    BY <1>1, ReaderInvariant, PTL

\* If the parent makes nine steps in a second, the handler overwrites no value
\* it has yet to process.
THEOREM ReaderProcessesFirst ==
    ASSUME ReaderConstants
    PROVE  Q!Spec => Q!DataIsProcessedFirst
<1>1. ASSUME Q!IInv, Q!IInv', [Q!Next]_(Q!vars), paced,
             Len(pending'[Parent]) < Len(pending[Parent])
      PROVE  ~flags[Parent].queue
    <2>1. Len(pending[Parent]) \in Nat /\ Len(pending'[Parent]) \in Nat
        <3>1. pending \in [Proc -> Seq(Info(Values))] /\ pending' \in [Proc -> Seq(Info(Values))]
            BY <1>1 DEF Q!IInv, Q!TypeOK, Info, Values
        <3>2. pending[Parent] \in Seq(Info(Values)) /\ pending'[Parent] \in Seq(Info(Values))
            BY <3>1 DEF ReaderConstants
        <3> QED
            BY <3>2
    <2>2. CASE Len(pending[Parent]) = 0
        BY <1>1, <2>1, <2>2
    <2>3. CASE Len(pending[Parent]) # 0
        <3>1. flags[Parent] = Cleared
            BY <1>1, <2>3, SameSignals DEF Q!IInv, Q!OneAtATime
        <3>2. ~Cleared.queue
            BY DEF Cleared
        <3> QED
            BY <3>1, <3>2
    <2> QED
        BY <2>2, <2>3
<1>2. Q!IInv /\ Q!IInv' /\ [Q!Next]_(Q!vars) =>
          [paced /\ Len(pending'[Parent]) < Len(pending[Parent]) => ~flags[Parent].queue]_(Q!vars)
    BY <1>1
<1> QED
    BY <1>2, ReaderInvariant, PTL DEF Q!Spec, Q!DataIsProcessedFirst
================================================================================
