-------------------------------- MODULE DirTree --------------------------------
(***************************************************************************)
(* read_dir_contents() and destroy_dir() of skid_dir_operations: a         *)
(* directory is listed depth first into one array that grows, and the      *)
(* array is then deleted from its end, while another process makes and     *)
(* removes paths, or puts a symbolic link in the place of a directory, and *)
(* any call may fail.                                                      *)
(*                                                                         *)
(* A path is a node of a given tree; fs holds the paths that exist.  What  *)
(* lies below a symbolic link is outside: it is reached through the link,  *)
(* and is not the directory's.                                             *)
(*                                                                         *)
(* A nested call uses the string its caller stored in the array as the     *)
(* name of its directory.  When the array is freed below a frame that is   *)
(* still open that name is gone, and what the frame stores from then on is *)
(* whatever path the freed memory spells.                                  *)
(***************************************************************************)
EXTENDS Integers, Sequences, SequencesExt

CONSTANTS
    Node,        \* the paths that may exist
    Root,        \* the directory that is listed or destroyed
    parent,      \* the path a path is in
    above,       \* the paths a path is in, directly or not
    firstKind,   \* what a path is when the call begins: see Kinds
    target,      \* what a "link" leads to: a path of the tree, or Nowhere
    Nowhere,     \* a path at which there never is anything
    ArraySize,   \* SKID_ARRAY_SIZE
    MaxChanges   \* bound on what the other process does

\* "link": a symbolic link to a file of the tree, or to nothing; "dirlink": one
\* to a directory that is elsewhere; "other": a pipe, a socket, a device.  A link
\* to a file that is elsewhere is treated as a file is.
Kinds == {"dir", "file", "link", "dirlink", "other"}
Directories == {"dir", "dirlink"}

Path == Node \cup {Nowhere}

ASSUME TreeOK == /\ Root \in Node /\ Nowhere \notin Node
                 /\ parent \in [Node \ {Root} -> Node]
                 /\ firstKind \in [Node -> Kinds]
                 /\ firstKind[Root] = "dir"
                 /\ \A n \in Node \ {Root} : firstKind[parent[n]] \in Directories
                 /\ target \in [Node -> Path]
                 /\ \A n \in Node : target[n] \in Node => firstKind[target[n]] = "file"
ASSUME BoundsOK == ArraySize \in Nat /\ ArraySize > 1 /\ MaxChanges \in Nat

\* Every path is somewhere below Root: a set that holds Root, and with a path
\* all that is in it, holds them all.
ASSUME TreeIsRooted ==
    \A s \in SUBSET Node :
        Root \in s /\ (\A n \in Node \ {Root} : parent[n] \in s => n \in s) => s = Node
ASSUME AboveOK ==
    /\ above \in [Node -> SUBSET Node] /\ above[Root] = {}
    /\ \A n \in Node \ {Root} : above[n] = {parent[n]} \cup above[parent[n]]

Child(d) == {n \in Node \ {Root} : parent[n] = d}
Under(d) == {n \in Node : d \in above[n]}

VARIABLES
    fs,        \* the paths that exist
    kind,      \* what each path is
    op,        \* "read" or "destroy": what was called
    recurse,   \* read_dir_contents()' argument
    stack,     \* the open calls of recurse_dir_contents()
    list,      \* the strings in content_arr; << >> when it is NULL
    capacity,  \* the size of content_arr
    num_paths, \* destroy_dir()'s index
    result,
    pc,
    calm,      \* no call failed and the other process did nothing
    strayed,   \* a path was stored under a name that was already freed
    raced,     \* a directory was replaced after the listing had got to it
    changes

array == <<list, capacity>>
call == <<op, recurse>>
files == <<fs, kind>>
vars == <<files, call, stack, array, num_paths, result, pc, calm, strayed, raced, changes>>

ENOERR == "ENOERR"

\* A call of recurse_dir_contents(): named while the string that names dir is
\* allocated; found, what the directory held when it was opened; dirs, what was
\* a directory then; seen, what readdir() returned.
Frame == [dir : Path, named : BOOLEAN, found : SUBSET Node, dirs : SUBSET Node,
          seen : SUBSET Node]

top == Last(stack)
IsRoot == Len(stack) = 1

\* The trees that may be there: nothing exists without its directory.
Tree == {s \in SUBSET Node : Root \in s /\ \A n \in s \ {Root} : parent[n] \in s}

\* What is reached through a link.
Outside == {n \in Node : \E m \in above[n] : kind[m] = "dirlink"}

NewFrame(d) == [dir |-> d, named |-> TRUE, found |-> {}, dirs |-> {}, seen |-> {}]

Init ==
    /\ fs \in Tree /\ kind = firstKind
    /\ op \in {"read", "destroy"}
    /\ recurse \in BOOLEAN /\ (op = "destroy" => recurse)
    /\ stack = <<NewFrame(Root)>>
    /\ list = << >> /\ capacity = 0
    /\ num_paths = 0
    /\ result = ENOERR
    /\ pc = "open"
    /\ calm = TRUE /\ strayed = FALSE /\ raced = FALSE
    /\ changes = 0

(***************************************************************************)
(* The array.                                                              *)
(***************************************************************************)
\* One index is kept for the NULL that ends the array.
HasSpaceToTheEnd(n) == n < capacity
HasSpace(n) == n < capacity - 1

\* realloc_dir_contents(): the first array, or twice the one there is.
Doubled == IF list = << >> THEN ArraySize
           ELSE IF HasSpace(Len(list)) THEN capacity
           ELSE 2 * capacity

StoreFirst(path) ==
    /\ list' = <<path>> \o list
    /\ capacity' = Doubled
Store(path) ==
    /\ list' = Append(list, path)
    /\ capacity' = Doubled

\* free_skid_dir_contents(), seen by the calls that stay open: all but the
\* first are named by a string of the array.
Unnamed(frames) ==
    [i \in DOMAIN frames |-> IF i = 1 THEN frames[i]
                             ELSE [frames[i] EXCEPT !.named = FALSE]]

(***************************************************************************)
(* recurse_dir_contents()                                                  *)
(***************************************************************************)
\* What comes after read_dir_contents().
AfterRead(res) == IF op = "destroy" /\ res = ENOERR THEN "destroy" ELSE "done"

\* count_content_arr_entries(), when read_dir_contents() returned res.
CountedBeforeFree(res) == Len(list)
Counted(res) == IF res = ENOERR THEN Len(list) ELSE 0

\* The end of a call with the result res.  A caller that is itself a nested
\* call goes on with the next entry, whatever the result.
Return(res) ==
    /\ result' = res
    /\ stack' = IF IsRoot THEN << >>
                ELSE IF res = ENOERR THEN Front(stack) ELSE Unnamed(Front(stack))
    /\ list' = IF res = ENOERR THEN list ELSE << >>
    /\ UNCHANGED <<capacity, strayed, raced>>
    /\ num_paths' = IF IsRoot THEN Counted(res) ELSE num_paths
    /\ pc' = IF IsRoot THEN AfterRead(res) ELSE "read"

\* opendir().  It opens a link to a directory as well: the call gets to one if
\* it took the place of the directory that readdir() returned.
Opens(path) == path \in fs /\ kind[path] \in Directories

OpenDir ==
    /\ pc = "open"
    /\ Opens(top.dir)
    /\ LET held == Child(top.dir) \cap fs
       IN stack' = [stack EXCEPT ![Len(stack)] =
                        [@ EXCEPT !.found = held, !.dirs = {n \in held : kind[n] = "dir"}]]
    /\ pc' = "read"
    /\ UNCHANGED <<files, call, array, num_paths, result, calm, strayed, raced, changes>>

\* The directory is gone, or it may not be read, or memory ran out.
OpenFails ==
    /\ pc = "open"
    /\ Return("error")
    /\ calm' = FALSE
    /\ UNCHANGED <<files, call, changes>>

\* The path under which an entry is stored: its own, if dirname still is the
\* frame's; else any path that is not below Root.
StoredAs(e) == IF top.named THEN {e} ELSE Outside \cup {Nowhere}

\* is_dirent_a_dir(): the type of the entry itself, links are not followed.
DescendsLinks(type) == recurse /\ type \in Directories
Descends(type) == recurse /\ type = "dir"

\* readdir() returns each entry that stays exactly once, and may or may not
\* return one that comes or goes meanwhile.
MayReturn == (top.found \cup (Child(top.dir) \cap fs)) \ top.seen

\* The type that comes with an entry was read with it: it may be what the path
\* was when the directory was opened.
TypesOf(e) == {kind[e]} \cup (IF e \in top.dirs THEN {"dir"} ELSE {})

ReadEntry ==
    /\ pc = "read"
    /\ \E e \in MayReturn : \E path \in StoredAs(e), type \in TypesOf(e) :
        /\ Store(path)
        /\ LET mine == [stack EXCEPT ![Len(stack)].seen = @ \cup {e}]
           IN IF Descends(type)
              THEN stack' = Append(mine, NewFrame(path)) /\ pc' = "open"
              ELSE stack' = mine /\ pc' = pc
        /\ strayed' = (strayed \/ path # e)
    /\ result' = ENOERR
    /\ UNCHANGED <<files, call, num_paths, calm, raced, changes>>

\* store_dirent() finds no memory: the call ends.
StoreFails ==
    /\ pc = "read"
    /\ MayReturn # {}
    /\ Return("error")
    /\ calm' = FALSE
    /\ UNCHANGED <<files, call, changes>>

\* The end of the directory, which closedir() may turn into an error.
EndOfDir ==
    /\ pc = "read"
    /\ top.found \cap fs \subseteq top.seen
    /\ Return(ENOERR)
    /\ UNCHANGED <<files, call, calm, changes>>

CloseFails ==
    /\ pc = "read"
    /\ top.found \cap fs \subseteq top.seen
    /\ Return("error")
    /\ calm' = FALSE
    /\ UNCHANGED <<files, call, changes>>

\* readdir() fails: the loop goes on, and the next call overwrites the result.
ReadFails ==
    /\ pc = "read"
    /\ result' = "error"
    /\ calm' = FALSE
    /\ UNCHANGED <<files, call, stack, array, num_paths, pc, strayed, raced, changes>>

(***************************************************************************)
(* destroy_dir(), once it has the list.                                    *)
(***************************************************************************)
\* The paths go from the last to the first: contents before directories.
NextForward == list[Len(list) - num_paths + 1]
NextPath == list[num_paths]

\* Where stat() ends up, and what it says is there: "none", if nothing is.
Stat(path) == IF path \in fs /\ kind[path] = "link" THEN target[path] ELSE path
FileType(path) ==
    LET end == Stat(path)
    IN CASE end \notin fs -> "none"
         [] end \in fs /\ kind[end] \in Directories -> "dir"
         [] end \in fs /\ kind[end] \notin Directories -> kind[end]

\* is_regular_file() and is_directory() use stat(); a path that is neither is
\* left where it is, and one that it does not find ends the loop.
Examine ==
    /\ pc = "destroy" /\ num_paths > 0
    /\ \/ /\ FileType(NextPath) = "none"
          /\ result' = "error" /\ pc' = "done" /\ UNCHANGED num_paths
       \/ /\ FileType(NextPath) = "other"
          /\ result' = ENOERR /\ num_paths' = num_paths - 1 /\ UNCHANGED pc
       \/ /\ FileType(NextPath) \in {"file", "dir"}
          /\ pc' = IF FileType(NextPath) = "file" THEN "unlink" ELSE "rmdir"
          /\ result' = ENOERR /\ UNCHANGED num_paths
    /\ UNCHANGED <<files, call, stack, array, calm, strayed, raced, changes>>

\* A stat() fails that need not: the loop ends, or, if only the first of the two
\* did, a file is taken for something else.
ExamineFails ==
    /\ pc = "destroy" /\ num_paths > 0
    /\ \/ result' = "error" /\ pc' = "done" /\ UNCHANGED num_paths
       \/ /\ FileType(NextPath) = "file"
          /\ result' = ENOERR /\ num_paths' = num_paths - 1 /\ UNCHANGED pc
    /\ calm' = FALSE
    /\ UNCHANGED <<files, call, stack, array, strayed, raced, changes>>

\* The loop's index, after a deletion with the result res.
IndexStays(res) == IF res = ENOERR THEN num_paths - 1 ELSE num_paths
IndexAfter(res) == num_paths - 1

\* unlink() takes anything but a directory, links for what they are; rmdir()
\* wants an empty directory and no link.
CanUnlink(path) == path \in fs /\ kind[path] # "dir"
CanRmdir(path) == path \in fs /\ kind[path] = "dir" /\ Child(path) \cap fs = {}

\* A deletion that fails does not end the loop: the next path overwrites result.
Delete ==
    /\ pc \in {"unlink", "rmdir"}
    /\ LET can == IF pc = "unlink" THEN CanUnlink(NextPath) ELSE CanRmdir(NextPath)
       IN \E ok \in {can, FALSE} :
            /\ fs' = IF ok THEN fs \ {NextPath} ELSE fs
            /\ result' = IF ok THEN ENOERR ELSE "error"
            /\ num_paths' = IndexAfter(IF ok THEN ENOERR ELSE "error")
            /\ calm' = (calm /\ ok = can)
    /\ pc' = "destroy"
    /\ UNCHANGED <<kind, call, stack, array, strayed, raced, changes>>

\* The result of the loop decides whether the directory itself is deleted.
RootIsNext == result = ENOERR

DeleteRoot ==
    /\ pc = "destroy" /\ num_paths = 0
    /\ RootIsNext
    /\ \E ok \in {CanRmdir(Root), FALSE} :
        /\ fs' = IF ok THEN fs \ {Root} ELSE fs
        /\ result' = IF ok THEN ENOERR ELSE "error"
        /\ calm' = (calm /\ ok = CanRmdir(Root))
    /\ pc' = "done"
    /\ UNCHANGED <<kind, call, stack, array, num_paths, strayed, raced, changes>>

KeepRoot ==
    /\ pc = "destroy" /\ num_paths = 0
    /\ ~RootIsNext
    /\ pc' = "done"
    /\ UNCHANGED <<files, call, stack, array, num_paths, result, calm, strayed, raced,
                   changes>>

(***************************************************************************)
(* Another process: create_dir() or a new file, delete_dir() or unlink(),  *)
(* or a symbolic link that takes the place of a directory.                 *)
(***************************************************************************)
Change ==
    /\ pc # "done" /\ changes < MaxChanges
    /\ changes' = changes + 1
    /\ calm' = FALSE
    /\ UNCHANGED <<call, stack, array, num_paths, result, pc, strayed>>

OtherCreates ==
    /\ Change
    /\ \E n \in Node \ fs : /\ n # Root /\ parent[n] \in fs
                            /\ fs' = fs \cup {n}
    /\ UNCHANGED <<kind, raced>>

\* What is behind a link goes out of reach with the link.
OtherRemoves ==
    /\ Change
    /\ \E n \in fs \ {Root} : /\ CanUnlink(n) \/ CanRmdir(n)
                              /\ fs' = fs \ ({n} \cup Under(n))
    /\ UNCHANGED <<kind, raced>>

\* The paths the listing has got to: stored, open, or read with their directory.
Reached == ToSet(list) \cup UNION {stack[i].found \cup {stack[i].dir} : i \in DOMAIN stack}

\* The directory is moved away, or deleted, and a link to another one put there.
OtherReplaces ==
    /\ Change
    /\ \E n \in fs \ {Root} : \E held \in SUBSET Under(n) :
        /\ kind[n] = "dir"
        /\ kind' = [kind EXCEPT ![n] = "dirlink"]
        /\ fs' = (fs \ Under(n)) \cup held /\ fs' \in Tree
        /\ raced' = (raced \/ ({n} \cup Under(n)) \cap Reached # {})

(***************************************************************************)
(* The specification.                                                      *)
(***************************************************************************)
Proceed == OpenDir \/ ReadEntry \/ EndOfDir \/ Examine \/ Delete \/ DeleteRoot \/ KeepRoot
Fails == OpenFails \/ StoreFails \/ CloseFails \/ ReadFails \/ ExamineFails

Next == Proceed \/ Fails \/ OtherCreates \/ OtherRemoves \/ OtherReplaces

Spec == Init /\ [][Next]_vars

\* The program runs; calls need not fail, and a directory that is not there to
\* be opened is an error for sure.
Stopped == OpenFails /\ ~Opens(top.dir)
FairSpec == Spec /\ WF_vars(Proceed) /\ WF_vars(Stopped)

(***************************************************************************)
(* Properties.                                                             *)
(***************************************************************************)
TypeOK ==
    /\ fs \subseteq Node /\ kind \in [Node -> Kinds]
    /\ op \in {"read", "destroy"} /\ recurse \in BOOLEAN
    /\ stack \in Seq(Frame)
    /\ list \in Seq(Path)
    /\ capacity \in Nat
    /\ num_paths \in 0 .. Len(list)
    /\ result \in {ENOERR, "error"}
    /\ pc \in {"open", "read", "destroy", "unlink", "rmdir", "done"}
    /\ (pc \in {"open", "read"} <=> stack # << >>)
    /\ calm \in BOOLEAN /\ strayed \in BOOLEAN /\ raced \in BOOLEAN
    /\ changes \in 0 .. MaxChanges

\* The NULL that count_content_arr_entries() and free_skid_dir_contents() stop
\* at is always inside the array, however often it grew or was started anew.
EndsWithNull == list # << >> => Len(list) < capacity

\* A directory's own path is stored before those of its contents: deleted from
\* the end, no directory is reached before what is in it.
ParentsFirst ==
    \A i \in DOMAIN list : list[i] \in Node =>
        \/ parent[list[i]] = Root
        \/ list[i] \in Outside
        \/ \E j \in 1 .. i - 1 : list[j] = parent[list[i]]

\* The paths that exist below Root.
Below == fs \ (Outside \cup {Root})

\* read_dir_contents() has returned, and nothing is deleted yet.
ReadIsOver == \/ pc = "done" /\ op = "read"
              \/ pc = "destroy" /\ num_paths = Len(list) /\ Root \in fs

\* When nothing fails and nobody interferes the listing has every path it was
\* asked for, each of them once.
ListingIsComplete ==
    (calm /\ ReadIsOver /\ result = ENOERR)
        => /\ ToSet(list) = IF recurse THEN Below ELSE Child(Root) \cap fs
           /\ IsInjective(list)

\* What destroy_dir() would delete if it got to it.
CanDelete(n) == FileType(n) = "file" \/ CanRmdir(n)

\* A link of the directory whose target is gone, or never was there.
Dangling == {n \in fs \ Outside : kind[n] = "link" /\ target[n] \notin fs}

\* Where the loop stopped: n comes before a link that dangles.
StoppedBefore(n) ==
    /\ num_paths > 0 /\ list[num_paths] \in Dangling
    /\ \E i \in 1 .. num_paths - 1 : list[i] = n

\* ... and destroy_dir() then deletes all it can: a file or an empty directory is
\* left only if the loop stopped at a link that dangles before it got there, from
\* the array's end.  It says so when that, a pipe or a link kept the rest.
CalmDestroys ==
    (calm /\ pc = "done" /\ op = "destroy")
        => /\ \A n \in fs \ Outside : CanDelete(n) => StoppedBefore(n)
           /\ result = ENOERR <=> fs = {}

\* What is behind a link is never deleted by destroy_dir(), as long as every
\* path was stored under the name of its own directory and no directory was
\* replaced by a link after the listing had got to it.
OutsideIsKept == [][Delete /\ ~strayed /\ ~raced => Outside \cap fs \subseteq fs']_vars

\* Both calls end.
Ends == <>(pc = "done")

\* The header: on failure NULL is returned and errnum is set.  A listing that
\* is returned as a success lacks nothing that was there all the time.
SuccessIsComplete ==
    (pc = "done" /\ op = "read" /\ recurse /\ result = ENOERR /\ changes = 0)
        => Below \subseteq ToSet(list)

\* destroy_dir() deletes what can be deleted, whatever links are in the tree.
DestroysAll ==
    (calm /\ pc = "done" /\ op = "destroy") => \A n \in fs \ Outside : ~CanDelete(n)

\* destroy_dir() deletes nothing behind a link, whatever another process does
\* and whatever fails.
NothingBehindLinks == [][Delete => Outside \cap fs \subseteq fs']_vars
=============================================================================
