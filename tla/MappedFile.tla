------------------------------ MODULE MappedFile ------------------------------
(***************************************************************************)
(* The two programs that hand a file from a parent to its child in mapped  *)
(* memory.  test_sm_mapped_memory maps a semaphore and the file as structs *)
(* and posts the semaphore; test_sm_handle_ext_read_queue_ptr maps the     *)
(* file alone and queues a signal that carries its address.                *)
(*                                                                         *)
(* The size of the file is asked for before the fork, its contents are     *)
(* read after it, and somebody may write the file in between.              *)
(***************************************************************************)
EXTENDS MappedRegion, Sequences

CONSTANTS
    SemLen,     \* sizeof(sem_t)
    Lengths,    \* the lengths the file may have
    MaxWrites,  \* bound on the times that somebody writes the file
    MaxKills    \* bound on the processes that are killed

ASSUME SemFitsAPage == SemLen \in Nat \ {0} /\ HeaderLen + SemLen <= PageLen
ASSUME FileBounds == Lengths \subseteq Nat /\ {MaxWrites, MaxKills} \subseteq Nat

parent == "parent"
child == "child"
sem == "map_sem"
file_map == "map_file"

ASSUME Roles == Proc = {parent, child} /\ Region = {sem, file_map}

VARIABLES
    program,    \* "struct" or "pointer"
    pc,
    file,       \* the text of the file: its length, and who wrote it
    size,       \* what get_size() said
    file_cont,  \* what read_file() returned
    mem,        \* the cells of the pages
    value,      \* the semaphore
    queue,      \* the child's signal: "none", "pending", or "handled"
    blocked,    \* the child's mask
    printed,
    writes, kills

text == <<file, size, file_cont>>
release == <<value, queue, blocked>>
bounds == <<writes, kills>>
vars == <<mappings, program, pc, text, mem, release, printed, bounds>>

NUL == <<"nul">>
Garbage == <<"garbage">>    \* what lies behind the text in the heap
NoText == [version |-> 0, len |-> 0]

\* The handler is installed before the fork, with its signal blocked.
SignalBlocked == blocked = TRUE

Init ==
    /\ NothingMapped
    /\ program \in {"struct", "pointer"}
    /\ pc = [parent |-> IF program = "struct" THEN "map sem" ELSE "size", child |-> "none"]
    /\ file \in [version : {1}, len : Lengths]
    /\ size = 0 /\ file_cont = NoText
    /\ mem = [a \in 0 .. NumCells - 1 |-> NUL]
    /\ value = 0 /\ queue = "none" /\ SignalBlocked
    /\ printed = <<>>
    /\ writes = 0 /\ kills = 0

Goes(p, place) == pc' = [pc EXCEPT ![p] = place]
Ended(p) == pc[p] \in {"done", "killed"}

(***************************************************************************)
(* The parent.  An error before the fork ends it, one after it skips what  *)
(* is left but the clean-up: the child is not told.                        *)
(***************************************************************************)
MapsSem ==
    /\ pc[parent] = "map sem"
    /\ \/ MapStruct(parent, sem, SemLen) /\ Goes(parent, "size")
       \/ Goes(parent, "done") /\ UNCHANGED mappings
    /\ UNCHANGED <<program, text, mem, release, printed, bounds>>

Sizes ==
    /\ pc[parent] = "size"
    /\ size' = file.len
    /\ Goes(parent, "map file")
    /\ UNCHANGED <<mappings, program, file, file_cont, mem, release, printed, bounds>>

\* The pointer program has one more cell, for the end of the string.
MapsFile ==
    /\ pc[parent] = "map file"
    /\ \/ /\ IF program = "struct" THEN MapStruct(parent, file_map, size)
                                   ELSE MapMem(parent, file_map, size + 1)
          /\ Goes(parent, "fork")
       \/ Goes(parent, "done") /\ UNCHANGED mappings
    /\ UNCHANGED <<program, text, mem, release, printed, bounds>>

Forks ==
    /\ pc[parent] = "fork"
    /\ \/ Inherits(parent, child) /\ pc' = [parent |-> "read", child |-> "start"]
       \/ Goes(parent, "done") /\ UNCHANGED mappings
    /\ UNCHANGED <<program, text, mem, release, printed, bounds>>

\* read_file() fails for an empty file, and when there is no memory.
Reads ==
    /\ pc[parent] = "read"
    /\ \/ /\ file.len > 0
          /\ file_cont' = file
          /\ Goes(parent, "copy")
       \/ Goes(parent, "unmap") /\ UNCHANGED file_cont
    /\ UNCHANGED <<mappings, program, file, size, mem, release, printed, bounds>>

\* memcpy() of as many cells as there were in the file, not as there are.
CopyLen == region[parent][file_map].length - (IF program = "struct" THEN 0 ELSE 1)

Copied(k) ==
    IF k <= file_cont.len THEN <<file_cont.version, k>>
    ELSE IF k = file_cont.len + 1 THEN NUL ELSE Garbage

Target == LET a == region[parent][file_map].addr IN a .. a + CopyLen - 1
IsSpoiled(r) == PagesOf(region[parent][file_map].addr, CopyLen)
                   \cap (region[parent][r].own \ region[parent][file_map].own) # {}

AfterCopyNoPost == "wait"
AfterCopy == "post"

\* A page that is not mapped kills the writer.  One that belongs to the
\* semaphore leaves it with any value.
Copies ==
    /\ pc[parent] = "copy"
    /\ IF Covers(mapped[parent], region[parent][file_map].addr, CopyLen)
       THEN /\ mem' = [a \in DOMAIN mem |->
                          IF a \in Target THEN Copied(a - region[parent][file_map].addr + 1)
                                          ELSE mem[a]]
            /\ value' \in IF IsSpoiled(sem) THEN {0, 1} ELSE {value}
            /\ Goes(parent, AfterCopy)
       ELSE Goes(parent, "killed") /\ UNCHANGED <<mem, value>>
    /\ UNCHANGED <<mappings, program, text, queue, blocked, printed, bounds>>

\* sem_post(), or sigqueue() of the address.
Posts ==
    /\ pc[parent] = "post"
    /\ IF program = "struct" THEN value' = 1 /\ UNCHANGED queue
                             ELSE queue' = "pending" /\ UNCHANGED value
    /\ Goes(parent, "wait")
    /\ UNCHANGED <<mappings, program, text, mem, blocked, printed, bounds>>

PostFails ==
    /\ pc[parent] = "post"
    /\ Goes(parent, "unmap")
    /\ UNCHANGED <<mappings, program, text, mem, release, printed, bounds>>

WaitsForChild ==
    /\ pc[parent] = "wait"
    /\ Ended(child)
    /\ Goes(parent, "unmap")
    /\ UNCHANGED <<mappings, program, text, mem, release, printed, bounds>>

\* The struct program unmaps the semaphore, the pointer program the file.
Unmaps ==
    /\ pc[parent] = "unmap"
    /\ IF program = "struct" THEN UnmapStruct(parent, sem) ELSE UnmapMem(parent, file_map)
    /\ Goes(parent, "done")
    /\ UNCHANGED <<program, text, mem, release, printed, bounds>>

(***************************************************************************)
(* The child.                                                              *)
(***************************************************************************)
Unblocks ==
    /\ pc[child] = "start"
    /\ blocked' = (program = "struct")
    /\ Goes(child, "wait")
    /\ UNCHANGED <<mappings, program, text, mem, value, queue, printed, bounds>>

\* handle_ext_read_queue_ptr(), with the address in skid_sig_hand_data_ptr.
Handles ==
    /\ queue = "pending" /\ ~blocked /\ ~Ended(child)
    /\ queue' = "handled"
    /\ UNCHANGED <<mappings, program, pc, text, mem, value, blocked, printed, bounds>>

IsReadyNow == TRUE
IsReady == IF program = "struct" THEN value = 1 ELSE queue = "handled"

Obtains ==
    /\ pc[child] = "wait"
    /\ IsReady
    /\ value' = 0
    /\ Goes(child, "print")
    /\ UNCHANGED <<mappings, program, text, mem, queue, blocked, printed, bounds>>

\* The struct program prints length cells, the other one a string.
ToPrint ==
    LET a == region[child][file_map].addr
        cells == [k \in 1 .. region[child][file_map].length |-> mem[a + k - 1]]
        ends == {k \in DOMAIN cells : cells[k] = NUL}
    IN IF program = "struct" THEN cells
       ELSE SubSeq(cells, 1, (CHOOSE k \in ends : \A j \in ends : k <= j) - 1)

Prints ==
    /\ pc[child] = "print"
    /\ IF Covers(mapped[child], region[child][file_map].addr, region[child][file_map].length)
       THEN /\ printed' = ToPrint
            /\ Goes(child, IF program = "struct" THEN "unmap" ELSE "done")
       ELSE Goes(child, "killed") /\ UNCHANGED printed
    /\ UNCHANGED <<mappings, program, text, mem, release, bounds>>

\* translate_signal_code() or putchar() fails.
PrintFails ==
    /\ pc[child] = "print"
    /\ Goes(child, IF program = "struct" THEN "unmap" ELSE "done")
    /\ UNCHANGED <<mappings, program, text, mem, release, printed, bounds>>

ChildUnmaps ==
    /\ pc[child] = "unmap"
    /\ UnmapStruct(child, file_map)
    /\ Goes(child, "done")
    /\ UNCHANGED <<program, text, mem, release, printed, bounds>>

(***************************************************************************)
(* The others.                                                             *)
(***************************************************************************)
SomebodyWrites ==
    /\ writes < MaxWrites
    /\ writes' = writes + 1
    /\ \E n \in Lengths : file' = [version |-> file.version + 1, len |-> n]
    /\ UNCHANGED <<mappings, program, pc, size, file_cont, mem, release, printed, kills>>

IsKilled(p) ==
    /\ pc[p] \notin {"none", "done", "killed"}
    /\ kills < MaxKills
    /\ kills' = kills + 1
    /\ Goes(p, "killed")
    /\ UNCHANGED <<mappings, program, text, mem, release, printed, writes>>

ParentSteps ==
    \/ MapsSem \/ Sizes \/ MapsFile \/ Forks \/ Reads \/ Copies \/ Posts \/ PostFails
    \/ WaitsForChild \/ Unmaps

ChildSteps == Unblocks \/ Handles \/ Obtains \/ Prints \/ PrintFails \/ ChildUnmaps

Next == ParentSteps \/ ChildSteps \/ SomebodyWrites \/ \E p \in Proc : IsKilled(p)

Spec == Init /\ [][Next]_vars /\ WF_vars(ParentSteps) /\ WF_vars(ChildSteps)
--------------------------------------------------------------------------------
(***************************************************************************)
(* Properties.                                                             *)
(***************************************************************************)
\* A struct that its page does not hold.
TooLong == program = "struct" /\ HeaderLen + size > PageLen

\* The child prints what the parent read, cut to the size that was found first;
\* the string ends with it, while the struct program prints on when the file
\* has shrunk.  That holds if the struct fits its page.
PrintsWhatWasRead ==
    (printed # << >> /\ ~TooLong) =>
        LET n == IF size < file_cont.len THEN size ELSE file_cont.len
        IN /\ Len(printed) = IF program = "struct" THEN size ELSE n
           /\ \A k \in 1 .. n : printed[k] = <<file_cont.version, k>>

\* Once the memory was handed over the two programs end, whoever is killed,
\* if the struct fits its page.
BothEnd ==
    (pc[parent] = "wait" /\ ~TooLong) ~> (Ended(parent) /\ Ended(child))

\* An unmapping takes the pages of its own region, all of them, and no others.
UnmapsItsOwn ==
    [][\A p \in Proc, r \in Region :
          (region[p][r].own # {} /\ region'[p][r].own = {} /\ ~TooLong)
              => mapped'[p] = mapped[p] \ region[p][r].own]_vars

(***************************************************************************)
(* The strengthening that makes the two inductive: where the regions lie,  *)
(* what the child inherits, and that the memory is handed over only after  *)
(* the copy.                                                               *)
(***************************************************************************)
Text == [version : Nat, len : Nat]
BeforeFork == {"map sem", "size", "map file", "fork"}
BeforeCopy == BeforeFork \cup {"read", "copy"}

TypeOK ==
    /\ mapped \in [Proc -> SUBSET Page]
    /\ region \in [Proc -> [Region -> [addr : Int, length : Nat, own : SUBSET Page]]]
    /\ program \in {"struct", "pointer"}
    /\ pc \in [Proc -> BeforeCopy \cup {"none", "start", "print", "post", "wait", "unmap",
                                        "done", "killed"}]
    /\ {file, file_cont} \subseteq Text
    /\ {size, writes, kills} \subseteq Nat
    /\ DOMAIN mem = 0 .. NumCells - 1
    /\ value \in {0, 1} /\ queue \in {"none", "pending", "handled"} /\ blocked \in BOOLEAN

StructAt(m, length) ==
    \E k \in Page : m = [addr |-> k * PageLen + HeaderLen, length |-> length,
                         own |-> PagesOf(k * PageLen, SizeLen)]

StringAt(m, length) ==
    \E k \in Page : /\ m = [addr |-> k * PageLen, length |-> length,
                            own |-> PagesOf(k * PageLen, length)]
                    /\ k * PageLen + length <= NumCells

\* Where the regions of p lie.
Shapes(p) ==
    /\ region[p][sem] # NoRegion => StructAt(region[p][sem], SemLen)
    /\ region[p][file_map] # NoRegion =>
          IF program = "struct" THEN StructAt(region[p][file_map], size)
                                ELSE StringAt(region[p][file_map], size + 1)

\* What is mapped when, and what the child has of it.
Places ==
    /\ pc[parent] = "map sem" => region[parent][sem] = NoRegion
    /\ pc[parent] \in {"map sem", "size", "map file"} => region[parent][file_map] = NoRegion
    /\ pc[parent] \in {"fork", "read", "copy"} => region[parent][file_map] # NoRegion
    /\ pc[parent] \in BeforeFork => pc[child] = "none"
    /\ pc[child] = "none" => \A r \in Region : region[child][r] = NoRegion
    /\ pc[parent] \in {"read", "copy"} => region[child][file_map] = region[parent][file_map]
    /\ pc[child] \in {"start", "wait", "print"} => region[child][file_map] # NoRegion
    /\ pc[child] = "unmap" => program = "struct"

\* Until the copy there is nothing to be had, and nobody is told that there is.
NotCopied ==
    pc[parent] \in BeforeCopy =>
        /\ value = 0 /\ queue = "none" /\ printed = << >>
        /\ \A a \in DOMAIN mem : mem[a] = NUL
        /\ pc[child] \in {"none", "start", "wait", "killed"}

\* Whoever is told, or is about to be, finds the copy in the child's region.
HandedOver ==
    (\/ value = 1 \/ queue # "none" \/ pc[parent] = "post" \/ pc[child] = "print")
        => LET m == region[child][file_map]
           IN (m # NoRegion /\ ~TooLong) =>
                /\ \A k \in 1 .. size : mem[m.addr + k - 1] = Copied(k)
                /\ program = "pointer" => mem[m.addr + size] = NUL

IInv ==
    /\ TypeOK
    /\ \A p \in Proc : Shapes(p)
    /\ Places
    /\ NotCopied
    /\ HandedOver
    /\ PrintsWhatWasRead
================================================================================
