---------------------------- MODULE DirTree_proofs ----------------------------
(***************************************************************************)
(* What read_dir_contents() and destroy_dir() keep, for every tree, every  *)
(* array size and any interference: the array ends with its NULL, a        *)
(* directory is stored before its contents, and what is behind a link is   *)
(* not deleted unless it came there while the call was at work on it.  If  *)
(* nothing fails and nobody interferes, nothing is missed, and nothing is  *)
(* left unless a link dangles.                                             *)
(***************************************************************************)
EXTENDS DirTree, TLAPS

(***************************************************************************)
(* The invariant.                                                          *)
(***************************************************************************)
\* destroy_dir()'s index is set when the listing is over, and there is a path
\* at it while that path is being deleted.
IndexInv == /\ pc \in {"open", "read"} => num_paths = 0
            /\ pc \in {"unlink", "rmdir"} => num_paths > 0

\* Only directories are replaced, by links to directories.
KindsInv ==
    \A n \in Node : kind[n] # firstKind[n] => firstKind[n] = "dir" /\ kind[n] = "dirlink"
RootInv == kind[Root] = "dir"

\* An open directory holds its own entries only; the first one is Root; the
\* name of every other one is still in the array, unless the array was freed.
FramesInv ==
    /\ \A i \in DOMAIN stack : /\ stack[i].found \subseteq Child(stack[i].dir)
                               /\ stack[i].dirs \subseteq stack[i].found
    /\ stack # << >> => stack[1].dir = Root
    /\ \A i \in DOMAIN stack :
           i > 1 /\ stack[i].named => \E j \in DOMAIN list : list[j] = stack[i].dir

\* Until a name is lost, or a directory replaced behind the call's back, no link
\* is followed.
FrameIsInside(r) == /\ r.dir \in Node /\ kind[r.dir] = "dir" /\ r.dir \notin Outside
                    /\ \A e \in r.dirs : kind[e] = "dir"
FramesInside == \A i \in DOMAIN stack : FrameIsInside(stack[i])
ListInside == \A j \in DOMAIN list : list[j] \notin Outside
LinksInv == ~strayed /\ ~raced => FramesInside /\ ListInside

IInv == /\ TypeOK /\ KindsInv /\ RootInv /\ IndexInv /\ FramesInv /\ LinksInv
        /\ EndsWithNull /\ ParentsFirst

(***************************************************************************)
(* What holds besides as long as the call is calm: no system call failed   *)
(* and the other process did nothing.                                      *)
(***************************************************************************)
Listed == ToSet(list)

\* An open directory is open once and was stored before; of its entries, those
\* it has seen are the ones in the array.
CalmFrames ==
    /\ \A i \in DOMAIN stack :
           /\ stack[i].named
           /\ stack[i].seen = Child(stack[i].dir) \cap Listed
           /\ i < Len(stack) \/ pc = "read" => stack[i].found = Child(stack[i].dir) \cap fs
           /\ i > 1 => stack[i].dir \in Listed
    /\ \A i, j \in DOMAIN stack : stack[i].dir = stack[j].dir => i = j
    /\ recurse \/ Len(stack) = 1

\* A stored directory is open, or all of its entries are stored.
CalmList ==
    /\ Listed \subseteq fs
    /\ recurse => \A d \in Listed : kind[d] = "dir" =>
                      \/ Child(d) \cap fs \subseteq Listed
                      \/ \E i \in DOMAIN stack : stack[i].dir = d
    /\ ~recurse => Listed \subseteq Child(Root)

CalmListing ==
    calm /\ pc \in {"open", "read"} => result = ENOERR /\ CalmFrames /\ CalmList

\* Nothing a further deletion would make any easier to delete, except the last
\* one in a directory.
Passed(n) == n \in fs => kind[n] \notin {"file", "link"} /\ ~CanRmdir(n)

\* destroy_dir() has all there is in its list; what it has yet to reach exists,
\* and what it went past cannot be deleted and is no link.
CalmDeletion ==
    calm /\ pc \in {"destroy", "unlink", "rmdir"} =>
        /\ op = "destroy"
        /\ Below \subseteq Listed
        /\ \A i \in 1 .. num_paths : list[i] \in Below
        /\ \A i \in num_paths + 1 .. Len(list) : Passed(list[i])
        /\ pc = "unlink" => FileType(NextPath) = "file"
        /\ pc = "rmdir" => FileType(NextPath) = "dir"
        /\ result # ENOERR => fs # {Root}

CalmReturn ==
    calm /\ pc = "done" =>
        IF op = "destroy"
        THEN /\ \A n \in fs \ Outside : CanDelete(n) => StoppedBefore(n)
             /\ result = ENOERR <=> fs = {}
        ELSE Listed = IF recurse THEN Below ELSE Child(Root) \cap fs

CalmAlways ==
    calm => /\ ~strayed /\ ~raced /\ (op = "destroy" => recurse)
            /\ IsInjective(list) /\ Root \notin Listed
            /\ \A n \in fs \ {Root} : parent[n] \in fs
            /\ pc # "done" => Root \in fs

CalmInv == CalmAlways /\ CalmListing /\ CalmDeletion /\ CalmReturn

(***************************************************************************)
(* Sequences.                                                              *)
(***************************************************************************)
\* Front() drops the last element and keeps the others in their places.
LEMMA FrontOfSeq ==
    ASSUME NEW S, NEW s \in Seq(S), s # << >>
    PROVE  /\ Front(s) \in Seq(S)
           /\ DOMAIN Front(s) = 1 .. Len(s) - 1
           /\ \A i \in DOMAIN Front(s) : i \in DOMAIN s /\ Front(s)[i] = s[i]
BY DEF Front

\* Append() adds one element after the others, which keep their places.
LEMMA AppendToSeq ==
    ASSUME NEW S, NEW s \in Seq(S), NEW e \in S
    PROVE  /\ Append(s, e) \in Seq(S) /\ Append(s, e) # << >>
           /\ DOMAIN Append(s, e) = DOMAIN s \cup {Len(s) + 1}
           /\ Len(Append(s, e)) = Len(s) + 1
           /\ Append(s, e)[Len(s) + 1] = e
           /\ \A i \in DOMAIN s : Append(s, e)[i] = s[i]
OBVIOUS

\* A sequence of which one element is replaced.
LEMMA ReplaceInSeq ==
    ASSUME NEW S, NEW s \in Seq(S), NEW k \in DOMAIN s, NEW e \in S
    PROVE  /\ [s EXCEPT ![k] = e] \in Seq(S)
           /\ DOMAIN [s EXCEPT ![k] = e] = DOMAIN s
           /\ Len([s EXCEPT ![k] = e]) = Len(s)
           /\ \A i \in DOMAIN s : [s EXCEPT ![k] = e][i] = IF i = k THEN e ELSE s[i]
OBVIOUS

\* The frames after free_skid_dir_contents() differ in their names only.
LEMMA UnnamedFrames ==
    ASSUME NEW s \in Seq(Frame)
    PROVE  /\ Unnamed(s) \in Seq(Frame)
           /\ DOMAIN Unnamed(s) = DOMAIN s
           /\ \A i \in DOMAIN s : /\ Unnamed(s)[i].dir = s[i].dir
                                  /\ Unnamed(s)[i].found = s[i].found
                                  /\ Unnamed(s)[i].dirs = s[i].dirs
                                  /\ i > 1 => ~Unnamed(s)[i].named
<1>1. \A i \in DOMAIN s : [s[i] EXCEPT !.named = FALSE] \in Frame
    <2>1. \A r \in Frame : [r EXCEPT !.named = FALSE] \in Frame
        BY DEF Frame
    <2>2. \A i \in DOMAIN s : s[i] \in Frame
        OBVIOUS
    <2> QED
        BY <2>1, <2>2
<1>2. DOMAIN s = 1 .. Len(s) /\ Len(s) \in Nat
    OBVIOUS
<1>3. Unnamed(s) \in [1 .. Len(s) -> Frame]
    <2>1. \A i \in DOMAIN s :
              (IF i = 1 THEN s[i] ELSE [s[i] EXCEPT !.named = FALSE]) \in Frame
        BY <1>1
    <2> QED
        BY <1>2, <2>1 DEF Unnamed
<1>4. Unnamed(s) \in Seq(Frame)
    BY <1>2, <1>3
<1>5. \A i \in DOMAIN s : /\ Unnamed(s)[i].dir = s[i].dir
                          /\ Unnamed(s)[i].found = s[i].found
                          /\ Unnamed(s)[i].dirs = s[i].dirs
                          /\ i > 1 => ~Unnamed(s)[i].named
    BY DEF Unnamed, Frame
<1> QED
    BY <1>2, <1>3, <1>4, <1>5

\* What is behind a link depends on what the paths are, and on nothing else.
LEMMA SameOutside == UNCHANGED kind => Outside' = Outside
BY DEF Outside

\* What the tree of the first kinds promises is still true of what the paths are.
LEMMA KindFacts ==
    ASSUME IInv
    PROVE  /\ \A n \in Node \ {Root} : parent[n] \in Node /\ kind[parent[n]] \in Directories
           /\ \A n \in Node : kind[n] \in Kinds
           /\ \A n \in Node : target[n] \in Node => kind[target[n]] = "file"
<1>1. \A n \in Node : \/ kind[n] = firstKind[n]
                       \/ (firstKind[n] = "dir" /\ kind[n] = "dirlink")
    BY DEF IInv, KindsInv
<1>2. \A n \in Node \ {Root} : parent[n] \in Node /\ kind[parent[n]] \in Directories
    BY <1>1, TreeOK DEF Directories
<1>3. \A n \in Node : target[n] \in Node => kind[target[n]] = "file"
    BY <1>1, TreeOK
<1> QED
    BY <1>2, <1>3 DEF IInv, TypeOK

\* What stat() says of a path that exists.
LEMMA TypeFacts ==
    ASSUME IInv, NEW n \in fs
    PROVE  /\ FileType(n) \in {"none", "file", "dir", "other"}
           /\ FileType(n) = "file" => kind[n] \in {"file", "link"}
           /\ FileType(n) = "dir" => kind[n] \in Directories
           /\ FileType(n) = "other" => kind[n] = "other"
           /\ FileType(n) = "none" => kind[n] = "link" /\ target[n] \notin fs
<1>1. n \in Node /\ fs \subseteq Node /\ kind[n] \in Kinds
    BY KindFacts DEF IInv, TypeOK
<1>2. CASE kind[n] # "link"
    <2>1. Stat(n) = n
        BY <1>2 DEF Stat
    <2> QED
        BY <1>1, <1>2, <2>1 DEF FileType, Kinds, Directories
<1>3. CASE kind[n] = "link" /\ target[n] \notin fs
    <2>1. Stat(n) = target[n]
        BY <1>3 DEF Stat
    <2> QED
        BY <1>3, <2>1 DEF FileType
<1>4. CASE kind[n] = "link" /\ target[n] \in fs
    <2>1. Stat(n) = target[n] /\ kind[target[n]] = "file"
        BY <1>1, <1>4, KindFacts DEF Stat
    <2>2. FileType(n) = "file"
        BY <1>4, <2>1 DEF FileType, Directories
    <2> QED
        BY <1>4, <2>2
<1> QED
    BY <1>2, <1>3, <1>4

\* The open directory, and what readdir() may return for it.
LEMMA TopOfStack ==
    ASSUME IInv, stack # << >>
    PROVE  /\ Len(stack) \in DOMAIN stack /\ (Len(stack) = 1 \/ Len(stack) > 1)
           /\ top \in Frame /\ top = stack[Len(stack)]
           /\ MayReturn \subseteq Child(top.dir)
           /\ Child(top.dir) \subseteq Node
<1>1. /\ Len(stack) \in DOMAIN stack /\ (Len(stack) = 1 \/ Len(stack) > 1)
      /\ stack \in Seq(Frame)
    <2>1. stack \in Seq(Frame)
        BY DEF IInv, TypeOK
    <2>2. Len(stack) \in Nat /\ Len(stack) # 0 /\ DOMAIN stack = 1 .. Len(stack)
        BY <2>1
    <2>3. Len(stack) = 1 \/ Len(stack) > 1
        BY <2>2
    <2> QED
        BY <2>1, <2>2, <2>3
<1>2. top \in Frame /\ top = stack[Len(stack)]
    BY <1>1 DEF top, Last
<1>3. top.found \subseteq Child(top.dir)
    BY <1>1, <1>2 DEF IInv, FramesInv
<1> QED
    BY <1>1, <1>2, <1>3 DEF MayReturn, Child

(***************************************************************************)
(* The two parts of a step that touch the array.                           *)
(***************************************************************************)
\* store_dirent(): the array grows in time, and the new path comes after its
\* directory.
LEMMA StoreKeeps ==
    ASSUME IInv, UNCHANGED kind, NEW path \in Path, Store(path),
           path \in Node => \/ parent[path] = Root
                            \/ path \in Outside
                            \/ \E j \in DOMAIN list : list[j] = parent[path]
    PROVE  /\ list' \in Seq(Path) /\ list' # << >>
           /\ DOMAIN list' = DOMAIN list \cup {Len(list) + 1}
           /\ Len(list') = Len(list) + 1 /\ Len(list) \in Nat
           /\ list'[Len(list) + 1] = path
           /\ \A i \in DOMAIN list : list'[i] = list[i]
           /\ capacity' \in Nat
           /\ EndsWithNull' /\ ParentsFirst'
<1>1. /\ list' \in Seq(Path) /\ list' # << >>
      /\ DOMAIN list' = DOMAIN list \cup {Len(list) + 1}
      /\ Len(list') = Len(list) + 1 /\ Len(list) \in Nat
      /\ list'[Len(list) + 1] = path
      /\ \A i \in DOMAIN list : list'[i] = list[i]
    BY AppendToSeq DEF IInv, TypeOK, Store
<1>2. capacity \in Nat /\ ArraySize \in Nat /\ ArraySize > 1
    BY BoundsOK DEF IInv, TypeOK
<1>3. capacity' \in Nat /\ Len(list') < capacity'
    <2>1. CASE list = << >>
        BY <1>1, <1>2, <2>1 DEF Store, Doubled
    <2>2. CASE list # << >> /\ HasSpace(Len(list))
        BY <1>1, <1>2, <2>2 DEF Store, Doubled, HasSpace
    <2>3. CASE list # << >> /\ ~HasSpace(Len(list))
        <3>1. Len(list) < capacity
            BY <2>3 DEF IInv, EndsWithNull
        <3>2. capacity' = 2 * capacity
            BY <2>3 DEF Store, Doubled
        <3> QED
            BY <1>1, <1>2, <3>1, <3>2
    <2> QED
        BY <2>1, <2>2, <2>3
<1>4. ParentsFirst'
    <2> SUFFICES ASSUME NEW i \in DOMAIN list', list'[i] \in Node
                 PROVE  \/ parent[list'[i]] = Root
                        \/ list'[i] \in Outside
                        \/ \E j \in 1 .. i - 1 : list'[j] = parent[list'[i]]
        BY SameOutside DEF ParentsFirst
    <2>1. DOMAIN list = 1 .. Len(list)
        BY DEF IInv, TypeOK
    <2>2. CASE i \in DOMAIN list
        <3>1. \/ parent[list[i]] = Root
              \/ list[i] \in Outside
              \/ \E j \in 1 .. i - 1 : list[j] = parent[list[i]]
            BY <1>1, <2>2 DEF IInv, ParentsFirst
        <3>2. \A j \in 1 .. i - 1 : j \in DOMAIN list
            BY <1>1, <2>1, <2>2
        <3> QED
            BY <1>1, <2>2, <3>1, <3>2
    <2>3. CASE i = Len(list) + 1
        <3>1. 1 .. i - 1 = DOMAIN list
            BY <1>1, <2>1, <2>3
        <3> QED
            BY <1>1, <2>3, <3>1
    <2> QED
        BY <1>1, <2>2, <2>3
<1> QED
    BY <1>1, <1>3, <1>4 DEF EndsWithNull

\* The end of a call of recurse_dir_contents(), with any result.
LEMMA ReturnKeeps ==
    ASSUME IInv, pc \in {"open", "read"}, NEW res \in {ENOERR, "error"}, Return(res),
           calm' \in BOOLEAN, UNCHANGED <<files, call, changes>>
    PROVE  IInv'
<1>1. /\ stack \in Seq(Frame) /\ stack # << >> /\ list \in Seq(Path)
      /\ Len(stack) \in Nat /\ Len(stack) > 0 /\ DOMAIN stack = 1 .. Len(stack)
      /\ num_paths = 0 /\ capacity \in Nat /\ strayed \in BOOLEAN /\ raced \in BOOLEAN
    BY DEF IInv, TypeOK, IndexInv
<1>2. list' = list \/ list' = << >>
    BY DEF Return
<1>3. /\ list' \in Seq(Path) /\ capacity' = capacity /\ strayed' = strayed
      /\ raced' = raced /\ kind' = kind /\ fs' = fs /\ Outside' = Outside
    BY <1>1, <1>2, SameOutside DEF Return, files
<1>4. EndsWithNull' /\ ParentsFirst' /\ KindsInv' /\ RootInv'
    BY <1>2, <1>3 DEF IInv, EndsWithNull, ParentsFirst, KindsInv, RootInv, Return
<1>5. CASE IsRoot
    <2>1. stack' = << >> /\ pc' \in {"destroy", "done"} /\ num_paths' = Counted(res)
        BY <1>5 DEF Return, AfterRead
    <2>2. num_paths' \in 0 .. Len(list')
        <3>1. CASE res = ENOERR
            BY <1>1, <2>1, <3>1 DEF Return, Counted
        <3>2. CASE res # ENOERR
            BY <1>1, <2>1, <3>2 DEF Return, Counted
        <3> QED
            BY <3>1, <3>2
    <2>3. TypeOK'
        <3>1. /\ fs' \subseteq Node /\ op' \in {"read", "destroy"} /\ recurse' \in BOOLEAN
              /\ changes' \in 0 .. MaxChanges /\ kind' \in [Node -> Kinds]
              /\ raced' \in BOOLEAN
            BY <1>3 DEF IInv, TypeOK, call
        <3>2. stack' \in Seq(Frame) /\ result' \in {ENOERR, "error"} /\ strayed' \in BOOLEAN
            BY <1>1, <1>3, <2>1 DEF Return
        <3>3. /\ pc' \in {"open", "read", "destroy", "unlink", "rmdir", "done"}
              /\ pc' \in {"open", "read"} <=> stack' # << >>
            BY <2>1
        <3> QED
            BY <1>1, <1>3, <2>2, <3>1, <3>2, <3>3 DEF TypeOK
    <2>4. IndexInv'
        BY <2>1 DEF IndexInv
    <2>5. FramesInv'
        BY <2>1 DEF FramesInv
    <2>6. LinksInv'
        BY <1>2, <1>3, <2>1 DEF IInv, LinksInv, FramesInside, ListInside
    <2> QED
        BY <1>4, <2>3, <2>4, <2>5, <2>6 DEF IInv
<1>6. CASE ~IsRoot
    <2>1. Len(stack) > 1 /\ pc' = "read" /\ num_paths' = 0
        BY <1>1, <1>6 DEF IsRoot, Return
    <2>2. /\ stack' \in Seq(Frame) /\ DOMAIN stack' = 1 .. Len(stack) - 1
          /\ \A i \in DOMAIN stack' :
                 /\ i \in DOMAIN stack
                 /\ stack'[i].dir = stack[i].dir /\ stack'[i].found = stack[i].found
                 /\ stack'[i].dirs = stack[i].dirs
                 /\ i > 1 /\ stack'[i].named => stack[i].named /\ list' = list
        <3>1. /\ Front(stack) \in Seq(Frame) /\ DOMAIN Front(stack) = 1 .. Len(stack) - 1
              /\ \A i \in DOMAIN Front(stack) : i \in DOMAIN stack /\ Front(stack)[i] = stack[i]
            BY <1>1, FrontOfSeq
        <3>2. CASE res = ENOERR
            <4>1. stack' = Front(stack) /\ list' = list
                BY <1>6, <3>2 DEF Return
            <4> QED
                BY <3>1, <4>1
        <3>3. CASE res # ENOERR
            <4>1. stack' = Unnamed(Front(stack))
                BY <1>6, <3>3 DEF Return
            <4>2. /\ stack' \in Seq(Frame) /\ DOMAIN stack' = DOMAIN Front(stack)
                  /\ \A i \in DOMAIN Front(stack) :
                         /\ stack'[i].dir = Front(stack)[i].dir
                         /\ stack'[i].found = Front(stack)[i].found
                         /\ stack'[i].dirs = Front(stack)[i].dirs
                         /\ i > 1 => ~stack'[i].named
                BY <3>1, <4>1, UnnamedFrames
            <4> QED
                BY <3>1, <4>2
        <3> QED
            BY <3>2, <3>3
    <2>3. stack' # << >> /\ 1 \in DOMAIN stack'
        BY <1>1, <2>1, <2>2
    <2>4. TypeOK'
        <3>1. /\ fs' \subseteq Node /\ op' \in {"read", "destroy"} /\ recurse' \in BOOLEAN
              /\ changes' \in 0 .. MaxChanges /\ kind' \in [Node -> Kinds]
              /\ raced' \in BOOLEAN
            BY <1>3 DEF IInv, TypeOK, call
        <3>2. result' \in {ENOERR, "error"} /\ strayed' \in BOOLEAN
            BY <1>1, <1>3 DEF Return
        <3>3. /\ pc' \in {"open", "read", "destroy", "unlink", "rmdir", "done"}
              /\ pc' \in {"open", "read"} <=> stack' # << >>
            BY <2>1, <2>3
        <3>4. num_paths' \in 0 .. Len(list')
            BY <1>3, <2>1
        <3> QED
            BY <1>1, <1>3, <2>2, <3>1, <3>2, <3>3, <3>4 DEF TypeOK
    <2>5. IndexInv'
        BY <2>1 DEF IndexInv
    <2>6. FramesInv'
        <3>1. \A i \in DOMAIN stack' : /\ stack'[i].found \subseteq Child(stack'[i].dir)
                                       /\ stack'[i].dirs \subseteq stack'[i].found
            BY <2>2 DEF IInv, FramesInv
        <3>2. stack'[1].dir = Root
            BY <1>1, <2>2, <2>3 DEF IInv, FramesInv
        <3>3. \A i \in DOMAIN stack' :
                  i > 1 /\ stack'[i].named => \E j \in DOMAIN list' : list'[j] = stack'[i].dir
            BY <2>2 DEF IInv, FramesInv
        <3> QED
            BY <3>1, <3>2, <3>3 DEF FramesInv, Child
    <2>7. LinksInv'
        <3> SUFFICES ASSUME ~strayed', ~raced'
                     PROVE  FramesInside' /\ ListInside'
            BY DEF LinksInv
        <3>1. FramesInside /\ ListInside
            BY <1>3 DEF IInv, LinksInv
        <3>2. FramesInside'
            BY <1>3, <2>2, <3>1 DEF FramesInside, FrameIsInside
        <3>3. ListInside'
            BY <1>2, <1>3, <3>1 DEF ListInside
        <3> QED
            BY <3>2, <3>3
    <2> QED
        BY <1>4, <2>4, <2>5, <2>6, <2>7 DEF IInv
<1> QED
    BY <1>5, <1>6

(***************************************************************************)
(* The actions.                                                            *)
(***************************************************************************)
\* The invariant holds when a call begins.
LEMMA InitInv == Init => IInv
<1> SUFFICES ASSUME Init
             PROVE  IInv
    OBVIOUS
<1>1. /\ NewFrame(Root) \in Frame /\ NewFrame(Root).dir = Root
      /\ NewFrame(Root).found = {} /\ NewFrame(Root).dirs = {}
    BY TreeOK DEF NewFrame, Frame, Path
<1>2. /\ stack \in Seq(Frame) /\ stack # << >> /\ DOMAIN stack = {1}
      /\ stack[1] = NewFrame(Root)
    BY <1>1 DEF Init
<1>3. list = << >> /\ Len(list) = 0 /\ DOMAIN list = {} /\ list \in Seq(Path)
    BY DEF Init
<1>4. TypeOK
    <2>1. fs \subseteq Node /\ kind \in [Node -> Kinds]
        BY TreeOK DEF Init, Tree
    <2>2. changes \in 0 .. MaxChanges
        BY BoundsOK DEF Init
    <2>3. capacity \in Nat /\ num_paths \in 0 .. Len(list)
        BY <1>3 DEF Init
    <2> QED
        BY <1>2, <1>3, <2>1, <2>2, <2>3 DEF Init, TypeOK
<1>5. IndexInv
    BY DEF Init, IndexInv
<1>6. FramesInv
    BY <1>1, <1>2 DEF FramesInv
<1>7. LinksInv
    <2>1. Root \notin Outside /\ kind[Root] = "dir"
        BY TreeOK, AboveOK DEF Init, Outside
    <2> QED
        BY <1>1, <1>2, <1>3, <2>1, TreeOK DEF LinksInv, FramesInside, ListInside, FrameIsInside
<1>8. EndsWithNull /\ ParentsFirst /\ KindsInv /\ RootInv
    BY <1>3, TreeOK DEF Init, EndsWithNull, ParentsFirst, KindsInv, RootInv
<1> QED
    BY <1>4, <1>5, <1>6, <1>7, <1>8 DEF IInv

\* opendir() fills in what the directory holds.
LEMMA OpenDirKeeps == IInv /\ OpenDir => IInv'
<1> SUFFICES ASSUME IInv, OpenDir
             PROVE  IInv'
    OBVIOUS
<1> DEFINE held == Child(top.dir) \cap fs
           f == [top EXCEPT !.found = held, !.dirs = {n \in held : kind[n] = "dir"}]
<1>1. /\ stack # << >> /\ stack \in Seq(Frame)
      /\ kind' = kind /\ fs' = fs /\ Outside' = Outside /\ raced' = raced /\ strayed' = strayed
    BY SameOutside DEF OpenDir, IInv, TypeOK, files
<1>2. /\ Len(stack) \in DOMAIN stack /\ top \in Frame /\ top = stack[Len(stack)]
      /\ Child(top.dir) \subseteq Node
    BY <1>1, TopOfStack
<1> DEFINE dirs == {n \in held : kind[n] = "dir"}
<1>3. /\ f \in Frame /\ f.dir = top.dir /\ f.named = top.named
      /\ f.found \subseteq Child(f.dir) /\ f.dirs \subseteq f.found
      /\ \A n \in f.dirs : kind[n] = "dir"
    <2>1. held \subseteq Node /\ dirs \subseteq held
        BY <1>2
    <2>2. /\ f = [top EXCEPT !.found = held, !.dirs = dirs]
          /\ held \subseteq Child(top.dir) /\ \A n \in dirs : kind[n] = "dir"
        OBVIOUS
    <2> HIDE DEF held, dirs, f
    <2> QED
        BY <1>2, <2>1, <2>2 DEF Frame
<1>4. stack' = [stack EXCEPT ![Len(stack)] = f]
    BY <1>2 DEF OpenDir
<1> HIDE DEF f
<1>5. /\ stack' \in Seq(Frame) /\ DOMAIN stack' = DOMAIN stack /\ Len(stack') = Len(stack)
      /\ \A i \in DOMAIN stack : stack'[i] = IF i = Len(stack) THEN f ELSE stack[i]
    BY <1>1, <1>2, <1>3, <1>4, ReplaceInSeq
<1>6. \A i \in DOMAIN stack : stack'[i].dir = stack[i].dir /\ stack'[i].named = stack[i].named
    BY <1>2, <1>3, <1>5
<1>7. stack' # << >> /\ 1 \in DOMAIN stack
    BY <1>1, <1>5
<1>8. TypeOK'
    <2>1. /\ UNCHANGED <<fs, kind, call, list, capacity, num_paths, result, calm, strayed,
                        raced, changes>>
          /\ pc' = "read"
        BY <1>1 DEF OpenDir, array
    <2> QED
        BY <1>5, <1>7, <2>1 DEF IInv, TypeOK, call
<1>9. FramesInv'
    <2>1. \A i \in DOMAIN stack' : /\ stack'[i].found \subseteq Child(stack'[i].dir)
                                   /\ stack'[i].dirs \subseteq stack'[i].found
        BY <1>3, <1>5 DEF IInv, FramesInv
    <2>2. stack'[1].dir = Root
        BY <1>1, <1>6, <1>7 DEF IInv, FramesInv
    <2>3. list' = list
        BY DEF OpenDir, array
    <2>4. \A i \in DOMAIN stack' :
              i > 1 /\ stack'[i].named => \E j \in DOMAIN list' : list'[j] = stack'[i].dir
        BY <1>5, <1>6, <2>3 DEF IInv, FramesInv
    <2> QED
        BY <2>1, <2>2, <2>4 DEF FramesInv, Child
<1>10. LinksInv'
    <2> SUFFICES ASSUME ~strayed', ~raced'
                 PROVE  FramesInside' /\ ListInside'
        BY DEF LinksInv
    <2>1. FramesInside /\ ListInside
        BY <1>1 DEF IInv, LinksInv
    <2>2. FrameIsInside(f)
        BY <1>2, <1>3, <2>1 DEF FramesInside, FrameIsInside
    <2>3. \A i \in DOMAIN stack' : FrameIsInside(stack'[i])
        BY <1>5, <2>1, <2>2 DEF FramesInside
    <2>4. FramesInside'
        BY <1>1, <2>3 DEF FramesInside, FrameIsInside
    <2>5. ListInside'
        BY <1>1, <2>1 DEF ListInside, OpenDir, array
    <2> QED
        BY <2>4, <2>5
<1>11. IndexInv' /\ EndsWithNull' /\ ParentsFirst' /\ KindsInv' /\ RootInv'
    BY <1>1 DEF OpenDir, array, IInv, IndexInv, EndsWithNull, ParentsFirst, KindsInv, RootInv
<1> QED
    BY <1>8, <1>9, <1>10, <1>11 DEF IInv

\* An entry is stored, and a directory among them is entered under the name it
\* is stored under.
LEMMA ReadEntryKeeps == IInv /\ ReadEntry => IInv'
<1> SUFFICES ASSUME IInv, pc = "read",
                    NEW e \in MayReturn, NEW path \in StoredAs(e), NEW type \in TypesOf(e),
                    Store(path),
                    strayed' = (strayed \/ path # e), result' = ENOERR,
                    UNCHANGED <<files, call, num_paths, calm, raced, changes>>,
                    LET mine == [stack EXCEPT ![Len(stack)].seen = @ \cup {e}]
                    IN IF Descends(type)
                       THEN stack' = Append(mine, NewFrame(path)) /\ pc' = "open"
                       ELSE stack' = mine /\ pc' = pc
             PROVE  IInv'
    BY DEF ReadEntry
<1> DEFINE f == [top EXCEPT !.seen = @ \cup {e}]
           mine == [stack EXCEPT ![Len(stack)] = f]
<1>1. /\ stack # << >> /\ stack \in Seq(Frame) /\ kind' = kind /\ Outside' = Outside
    BY SameOutside DEF IInv, TypeOK, files
<1>2. /\ Len(stack) \in DOMAIN stack /\ (Len(stack) = 1 \/ Len(stack) > 1)
      /\ top \in Frame /\ top = stack[Len(stack)]
      /\ e \in Child(top.dir) /\ e \in Node
    BY <1>1, TopOfStack
<1>3. path \in Path /\ (path # e => path \in Outside \cup {Nowhere})
    BY <1>2 DEF StoredAs, Path, Outside
<1>4. path \in Node => \/ parent[path] = Root
                       \/ path \in Outside
                       \/ \E j \in DOMAIN list : list[j] = parent[path]
    <2>1. CASE ~top.named
        BY <2>1, TreeOK DEF StoredAs
    <2>2. CASE top.named
        <3>1. path = e /\ parent[e] = top.dir
            BY <1>2, <2>2 DEF StoredAs, Child
        <3>2. CASE Len(stack) = 1
            BY <1>1, <1>2, <3>1, <3>2 DEF IInv, FramesInv
        <3>3. CASE Len(stack) > 1
            BY <1>2, <2>2, <3>1, <3>3 DEF IInv, FramesInv
        <3> QED
            BY <1>2, <3>2, <3>3
    <2> QED
        BY <2>1, <2>2
<1>5. /\ list' \in Seq(Path) /\ list' # << >>
      /\ DOMAIN list' = DOMAIN list \cup {Len(list) + 1}
      /\ Len(list') = Len(list) + 1 /\ Len(list) \in Nat
      /\ list'[Len(list) + 1] = path
      /\ \A i \in DOMAIN list : list'[i] = list[i]
      /\ capacity' \in Nat
      /\ EndsWithNull' /\ ParentsFirst'
    BY <1>1, <1>3, <1>4, StoreKeeps
<1>6. /\ f \in Frame /\ f.dir = top.dir /\ f.named = top.named
      /\ f.found = top.found /\ f.dirs = top.dirs
    BY <1>2 DEF Frame
<1>7. [stack EXCEPT ![Len(stack)].seen = @ \cup {e}] = mine
    BY <1>2
<1>8. /\ mine \in Seq(Frame) /\ DOMAIN mine = DOMAIN stack /\ Len(mine) = Len(stack)
      /\ \A i \in DOMAIN stack : mine[i] = IF i = Len(stack) THEN f ELSE stack[i]
    BY <1>1, <1>2, <1>6, ReplaceInSeq
<1>9. \A i \in DOMAIN stack : /\ mine[i].dir = stack[i].dir
                              /\ mine[i].named = stack[i].named
                              /\ mine[i].found = stack[i].found
                              /\ mine[i].dirs = stack[i].dirs
    BY <1>2, <1>6, <1>8
<1>10. /\ NewFrame(path) \in Frame /\ NewFrame(path).dir = path
       /\ NewFrame(path).found = {} /\ NewFrame(path).dirs = {}
    BY <1>3 DEF NewFrame, Frame
<1>11. /\ stack' \in Seq(Frame) /\ stack' # << >> /\ pc' \in {"open", "read"}
       /\ \A i \in DOMAIN stack : i \in DOMAIN stack' /\ stack'[i] = mine[i]
       /\ \A i \in DOMAIN stack' \ DOMAIN stack :
              i > 1 /\ stack'[i] = NewFrame(path) /\ Descends(type)
    <2> HIDE DEF mine
    <2>1. CASE Descends(type)
        <3>1. stack' = Append(mine, NewFrame(path)) /\ pc' = "open"
            BY <1>7, <2>1
        <3>2. /\ stack' \in Seq(Frame) /\ stack' # << >>
              /\ DOMAIN stack' = DOMAIN mine \cup {Len(mine) + 1}
              /\ stack'[Len(mine) + 1] = NewFrame(path)
              /\ \A i \in DOMAIN mine : stack'[i] = mine[i]
            BY <1>8, <1>10, <3>1, AppendToSeq
        <3> QED
            BY <1>2, <1>8, <2>1, <3>1, <3>2
    <2>2. CASE ~Descends(type)
        <3>1. stack' = mine /\ pc' = "read"
            BY <1>7, <2>2
        <3> QED
            BY <1>1, <1>2, <1>8, <3>1
    <2> QED
        BY <2>1, <2>2
<1> HIDE DEF mine, f
<1>12. TypeOK'
    <2>1. num_paths' = 0
        BY DEF IInv, IndexInv
    <2>2. num_paths' \in 0 .. Len(list')
        BY <1>5, <2>1
    <2>3. /\ fs' \subseteq Node /\ op' \in {"read", "destroy"} /\ recurse' \in BOOLEAN
          /\ changes' \in 0 .. MaxChanges /\ calm' \in BOOLEAN /\ strayed' \in BOOLEAN
          /\ kind' \in [Node -> Kinds] /\ raced' \in BOOLEAN
        BY DEF IInv, TypeOK, call, files
    <2> QED
        BY <1>5, <1>11, <2>2, <2>3 DEF TypeOK
<1>13. IndexInv'
    BY <1>11 DEF IInv, IndexInv
<1>14. FramesInv'
    <2>1. \A i \in DOMAIN stack' : /\ stack'[i].found \subseteq Child(stack'[i].dir)
                                   /\ stack'[i].dirs \subseteq stack'[i].found
        BY <1>9, <1>10, <1>11 DEF IInv, FramesInv
    <2>2. stack'[1].dir = Root
        <3>1. 1 \in DOMAIN stack
            BY <1>1
        <3> QED
            BY <1>1, <1>9, <1>11, <3>1 DEF IInv, FramesInv
    <2>3. ASSUME NEW i \in DOMAIN stack', i > 1, stack'[i].named
          PROVE  \E j \in DOMAIN list' : list'[j] = stack'[i].dir
        <3>1. CASE i \in DOMAIN stack
            <4>1. PICK j \in DOMAIN list : list[j] = stack[i].dir
                BY <1>9, <1>11, <2>3, <3>1 DEF IInv, FramesInv
            <4> QED
                BY <1>5, <1>9, <1>11, <3>1, <4>1
        <3>2. CASE i \notin DOMAIN stack
            <4>1. stack'[i].dir = path
                BY <1>10, <1>11, <3>2
            <4> QED
                BY <1>5, <4>1
        <3> QED
            BY <3>1, <3>2
    <2> QED
        BY <2>1, <2>2, <2>3 DEF FramesInv, Child
<1>15. LinksInv'
    <2> SUFFICES ASSUME ~strayed', ~raced'
                 PROVE  FramesInside' /\ ListInside'
        BY DEF LinksInv
    <2>1. ~strayed /\ path = e
        OBVIOUS
    <2>2. FramesInside /\ ListInside
        BY <2>1 DEF IInv, LinksInv
    <2>3. e \notin Outside
        <3>1. /\ top.dir \in Node /\ kind[top.dir] = "dir" /\ top.dir \notin Outside
              /\ parent[e] = top.dir /\ e \in Node \ {Root}
            BY <1>2, <2>2 DEF FramesInside, FrameIsInside, Child
        <3> QED
            BY <3>1, AboveOK DEF Outside
    <2>4. Descends(type) => kind[e] = "dir"
        <3>1. \A n \in top.dirs : kind[n] = "dir"
            BY <1>2, <2>2 DEF FramesInside, FrameIsInside
        <3> QED
            BY <3>1 DEF TypesOf, Descends
    <2>5. \A i \in DOMAIN stack' : FrameIsInside(stack'[i])
        <3>1. \A i \in DOMAIN stack : FrameIsInside(stack'[i])
            BY <1>9, <1>11, <2>2 DEF FramesInside, FrameIsInside
        <3>2. \A i \in DOMAIN stack' \ DOMAIN stack : FrameIsInside(stack'[i])
            BY <1>2, <1>10, <1>11, <2>1, <2>3, <2>4 DEF FrameIsInside
        <3> QED
            BY <3>1, <3>2
    <2>6. FramesInside'
        BY <1>1, <2>5 DEF FramesInside, FrameIsInside
    <2>7. ListInside'
        BY <1>1, <1>5, <2>1, <2>2, <2>3 DEF ListInside
    <2> QED
        BY <2>6, <2>7
<1>16. KindsInv' /\ RootInv'
    BY <1>1 DEF IInv, KindsInv, RootInv
<1> QED
    BY <1>5, <1>12, <1>13, <1>14, <1>15, <1>16 DEF IInv

\* A step that leaves the listing and the kinds alone.
LEMMA ListingUntouched ==
    ASSUME IInv, UNCHANGED <<kind, stack, array, strayed, raced, call>>,
           fs' \subseteq Node, result' \in {ENOERR, "error"}, calm' \in BOOLEAN,
           changes' \in 0 .. MaxChanges, num_paths' \in 0 .. Len(list),
           \/ pc' = pc /\ num_paths' = num_paths
           \/ stack = << >> /\ pc' \in {"destroy", "done"}
           \/ stack = << >> /\ pc' \in {"unlink", "rmdir"} /\ num_paths' > 0
    PROVE  IInv'
<1>1. TypeOK'
    BY DEF array, call, IInv, TypeOK
<1>2. IndexInv'
    BY DEF IInv, IndexInv
<1>3. Outside' = Outside
    BY SameOutside
<1>4. /\ list' = list /\ capacity' = capacity /\ stack' = stack
      /\ kind' = kind /\ strayed' = strayed /\ raced' = raced
    BY DEF array
<1>5. FramesInv' /\ EndsWithNull' /\ ParentsFirst' /\ KindsInv' /\ RootInv'
    BY <1>3, <1>4 DEF IInv, FramesInv, EndsWithNull, ParentsFirst, KindsInv, RootInv, Child
<1>6. LinksInv'
    <2>1. FramesInside => FramesInside'
        BY <1>3, <1>4 DEF FramesInside, FrameIsInside
    <2> QED
        BY <1>3, <1>4, <2>1 DEF IInv, LinksInv, ListInside
<1> QED
    BY <1>1, <1>2, <1>5, <1>6 DEF IInv

\* destroy_dir() looks at a path, and moves past it or decides how to delete it.
LEMMA ExamineKeeps == IInv /\ (Examine \/ ExamineFails) => IInv'
<1> SUFFICES ASSUME IInv, Examine \/ ExamineFails
             PROVE  IInv'
    OBVIOUS
<1>1. /\ num_paths \in Nat /\ num_paths > 0 /\ num_paths <= Len(list) /\ Len(list) \in Nat
      /\ UNCHANGED <<kind, stack, array, strayed, raced, call>> /\ stack = << >>
      /\ fs' \subseteq Node /\ calm' \in BOOLEAN /\ changes' \in 0 .. MaxChanges
      /\ pc = "destroy"
    <2>1. calm' \in BOOLEAN
        BY DEF Examine, ExamineFails, IInv, TypeOK
    <2>2. UNCHANGED <<files, stack, array, strayed, raced, call, changes>>
        BY DEF Examine, ExamineFails
    <2>3. pc = "destroy" /\ num_paths > 0
        BY DEF Examine, ExamineFails
    <2> QED
        BY <2>1, <2>2, <2>3 DEF IInv, TypeOK, files
<1>2. /\ num_paths' = num_paths \/ num_paths' = num_paths - 1
      /\ pc' \in {"destroy", "unlink", "rmdir", "done"} /\ result' \in {ENOERR, "error"}
      /\ pc' \in {"unlink", "rmdir"} => num_paths' = num_paths
    BY <1>1 DEF Examine, ExamineFails
<1>3. num_paths' \in 0 .. Len(list)
    BY <1>1, <1>2
<1> QED
    BY <1>1, <1>2, <1>3, ListingUntouched

\* unlink() or rmdir() of one path, whatever comes of it.
LEMMA DeleteKeeps == IInv /\ Delete => IInv'
<1> SUFFICES ASSUME IInv, Delete
             PROVE  IInv'
    OBVIOUS
<1>1. /\ num_paths \in Nat /\ num_paths > 0 /\ num_paths <= Len(list) /\ Len(list) \in Nat
      /\ stack = << >> /\ calm \in BOOLEAN
    BY DEF Delete, IInv, TypeOK, IndexInv
<1>2. /\ UNCHANGED <<kind, stack, array, strayed, raced, call>>
      /\ changes' \in 0 .. MaxChanges /\ pc' = "destroy"
    BY DEF Delete, IInv, TypeOK
<1>3. /\ fs' \subseteq Node /\ num_paths' = num_paths - 1 /\ result' \in {ENOERR, "error"}
      /\ calm' \in BOOLEAN
    BY <1>1 DEF Delete, IndexAfter, IInv, TypeOK
<1>4. num_paths' \in 0 .. Len(list)
    BY <1>1, <1>3
<1> QED
    BY <1>1, <1>2, <1>3, <1>4, ListingUntouched

\* A directory becomes a link: what the call had got to is not affected, or it is
\* known that another process was faster.
LEMMA ReplaceKeeps == IInv /\ OtherReplaces => IInv'
<1> SUFFICES ASSUME IInv, Change, NEW n \in fs \ {Root}, kind[n] = "dir",
                    kind' = [kind EXCEPT ![n] = "dirlink"], fs' \in Tree,
                    raced' = (raced \/ ({n} \cup Under(n)) \cap Reached # {})
             PROVE  IInv'
    BY DEF OtherReplaces
<1>1. /\ n \in Node /\ n # Root /\ kind \in [Node -> Kinds]
      /\ UNCHANGED <<call, stack, list, capacity, num_paths, result, pc, strayed>>
    BY DEF IInv, TypeOK, Change, array
<1>2. /\ kind'[n] = "dirlink" /\ \A m \in Node \ {n} : kind'[m] = kind[m]
      /\ kind' \in [Node -> Kinds]
    BY <1>1 DEF Kinds
<1>3. Outside' = Outside \cup Under(n)
    BY <1>1, <1>2, AboveOK DEF Outside, Under
<1>4. TypeOK'
    <2>1. fs' \subseteq Node /\ calm' = FALSE /\ changes' \in 0 .. MaxChanges
        BY BoundsOK DEF Change, Tree, IInv, TypeOK
    <2>2. raced' \in BOOLEAN
        BY DEF IInv, TypeOK
    <2> QED
        BY <1>1, <1>2, <2>1, <2>2 DEF IInv, TypeOK, call
<1>5. KindsInv' /\ RootInv'
    <2>1. firstKind[n] = "dir"
        BY <1>1 DEF IInv, KindsInv
    <2>2. RootInv'
        BY <1>1, <1>2, TreeOK DEF IInv, RootInv
    <2> QED
        BY <1>1, <1>2, <2>1, <2>2 DEF IInv, KindsInv
<1>6. IndexInv' /\ FramesInv' /\ EndsWithNull'
    BY <1>1 DEF IInv, IndexInv, FramesInv, EndsWithNull, Child
<1>7. ParentsFirst'
    BY <1>1, <1>3 DEF IInv, ParentsFirst
<1>8. LinksInv'
    <2> SUFFICES ASSUME ~strayed', ~raced'
                 PROVE  FramesInside' /\ ListInside'
        BY DEF LinksInv
    <2>1. ~strayed /\ ~raced /\ ({n} \cup Under(n)) \cap Reached = {}
        BY <1>1
    <2>2. FramesInside /\ ListInside
        BY <2>1 DEF IInv, LinksInv
    <2>3. \A i \in DOMAIN stack :
              stack[i].dir \in Reached /\ stack[i].found \subseteq Reached
        BY DEF Reached
    <2>4. \A j \in DOMAIN list : list[j] \in Reached
        BY DEF Reached, ToSet
    <2>5. ASSUME NEW i \in DOMAIN stack
          PROVE  /\ stack[i].dir \in Node /\ stack[i].dir \notin Outside'
                 /\ kind'[stack[i].dir] = "dir"
                 /\ \A m \in stack[i].dirs : kind'[m] = "dir"
        <3>1. /\ stack[i].dir # n /\ stack[i].dir \notin Under(n) /\ n \notin stack[i].found
            BY <2>1, <2>3
        <3>2. FrameIsInside(stack[i])
            BY <2>2 DEF FramesInside
        <3>3. stack[i].dirs \subseteq stack[i].found /\ stack[i].dirs \subseteq Node
            <4>1. stack[i] \in Frame
                BY DEF IInv, TypeOK
            <4> QED
                BY <4>1 DEF IInv, FramesInv, Frame
        <3>4. \A m \in stack[i].dirs : kind'[m] = "dir"
            BY <1>2, <3>1, <3>2, <3>3 DEF FrameIsInside
        <3> QED
            BY <1>2, <1>3, <3>1, <3>2, <3>4 DEF FrameIsInside
    <2>6. FramesInside'
        BY <1>1, <2>5 DEF FramesInside, FrameIsInside
    <2>7. ListInside'
        BY <1>1, <1>3, <2>1, <2>2, <2>4 DEF ListInside
    <2> QED
        BY <2>6, <2>7
<1> QED
    BY <1>4, <1>5, <1>6, <1>7, <1>8 DEF IInv

\* The ways in which a call fails.
LEMMA FailsKeeps == IInv /\ Fails => IInv'
<1> SUFFICES ASSUME IInv, Fails
             PROVE  IInv'
    OBVIOUS
<1>1. CASE OpenFails
    BY <1>1, ReturnKeeps DEF OpenFails
<1>2. CASE StoreFails
    BY <1>2, ReturnKeeps DEF StoreFails
<1>3. CASE CloseFails
    BY <1>3, ReturnKeeps DEF CloseFails
<1>4. CASE ReadFails
    <2>1. fs' \subseteq Node /\ changes' \in 0 .. MaxChanges /\ num_paths' \in 0 .. Len(list)
        BY <1>4 DEF ReadFails, IInv, TypeOK, files
    <2>2. UNCHANGED <<kind, stack, array, strayed, raced, call>>
        BY <1>4 DEF ReadFails, files
    <2> QED
        BY <1>4, <2>1, <2>2, ListingUntouched DEF ReadFails
<1>5. CASE ExamineFails
    BY <1>5, ExamineKeeps
<1> QED
    BY <1>1, <1>2, <1>3, <1>4, <1>5 DEF Fails

\* Every step of the program, of its failures and of the other process keeps
\* the invariant.
LEMMA NextInv == IInv /\ [Next]_vars => IInv'
<1> SUFFICES ASSUME IInv, [Next]_vars
             PROVE  IInv'
    OBVIOUS
<1>1. CASE OpenDir
    BY <1>1, OpenDirKeeps
<1>2. CASE ReadEntry
    BY <1>2, ReadEntryKeeps
<1>3. CASE EndOfDir
    <2>1. calm' \in BOOLEAN
        BY <1>3 DEF EndOfDir, IInv, TypeOK
    <2> QED
        BY <1>3, <2>1, ReturnKeeps DEF EndOfDir
<1>4. CASE Examine
    BY <1>4, ExamineKeeps
<1>5. CASE Delete
    BY <1>5, DeleteKeeps
<1>6. CASE DeleteRoot
    <2>1. /\ fs' \subseteq Node /\ calm' \in BOOLEAN /\ result' \in {ENOERR, "error"}
        BY <1>6 DEF DeleteRoot, IInv, TypeOK
    <2>2. /\ UNCHANGED <<kind, stack, array, strayed, raced, call>> /\ stack = << >>
          /\ num_paths' \in 0 .. Len(list) /\ changes' \in 0 .. MaxChanges /\ pc' = "done"
        BY <1>6 DEF DeleteRoot, IInv, TypeOK
    <2> QED
        BY <2>1, <2>2, ListingUntouched
<1>7. CASE KeepRoot
    <2>1. /\ fs' \subseteq Node /\ result' \in {ENOERR, "error"} /\ calm' \in BOOLEAN
          /\ changes' \in 0 .. MaxChanges /\ num_paths' \in 0 .. Len(list)
        BY <1>7 DEF KeepRoot, IInv, TypeOK, files
    <2>2. /\ UNCHANGED <<kind, stack, array, strayed, raced, call>> /\ stack = << >>
          /\ pc' = "done"
        BY <1>7 DEF KeepRoot, files, IInv, TypeOK
    <2> QED
        BY <2>1, <2>2, ListingUntouched
<1>8. CASE Fails
    BY <1>8, FailsKeeps
<1>9. CASE OtherCreates \/ OtherRemoves
    <2>1. fs' \subseteq Node
        BY <1>9 DEF OtherCreates, OtherRemoves, IInv, TypeOK
    <2>2. result' \in {ENOERR, "error"} /\ calm' \in BOOLEAN
        BY <1>9 DEF OtherCreates, OtherRemoves, Change, IInv, TypeOK
    <2>3. changes' \in 0 .. MaxChanges
        BY <1>9, BoundsOK DEF OtherCreates, OtherRemoves, Change, IInv, TypeOK
    <2>4. /\ UNCHANGED <<kind, stack, array, strayed, raced, call>>
          /\ pc' = pc /\ num_paths' = num_paths /\ num_paths' \in 0 .. Len(list)
        BY <1>9 DEF OtherCreates, OtherRemoves, Change, IInv, TypeOK
    <2> QED
        BY <2>1, <2>2, <2>3, <2>4, ListingUntouched
<1>10. CASE OtherReplaces
    BY <1>10, ReplaceKeeps
<1>11. CASE UNCHANGED vars
    <2>1. /\ UNCHANGED <<kind, stack, array, strayed, raced, call>>
          /\ pc' = pc /\ num_paths' = num_paths /\ num_paths' \in 0 .. Len(list)
          /\ fs' \subseteq Node /\ result' \in {ENOERR, "error"} /\ calm' \in BOOLEAN
          /\ changes' \in 0 .. MaxChanges
        BY <1>11 DEF vars, files, IInv, TypeOK
    <2> QED
        BY <2>1, ListingUntouched
<1> QED
    BY <1>1, <1>2, <1>3, <1>4, <1>5, <1>6, <1>7, <1>8, <1>9, <1>10, <1>11 DEF Next, Proceed

(***************************************************************************)
(* The tree.                                                               *)
(***************************************************************************)
\* Of paths that each have their directory, and none directly in Root, none is
\* but Root.
LEMMA NothingBelow ==
    ASSUME NEW t \in SUBSET Node, \A n \in t \ {Root} : parent[n] \in t,
           Child(Root) \cap t = {}
    PROVE  t \subseteq {Root}
<1> DEFINE s == (Node \ t) \cup {Root}
<1>1. \A n \in Node \ {Root} : parent[n] \in s => n \in s
    BY DEF Child
<1>2. s \in SUBSET Node /\ Root \in s
    BY TreeOK
<1>3. s = Node
    <2> HIDE DEF s
    <2> QED
        BY <1>1, <1>2, TreeIsRooted
<1> QED
    BY <1>3

\* A set of paths that has the entries of Root, and with a directory its
\* entries, has all but those behind links.
LEMMA AllBelow ==
    ASSUME IInv, NEW t \in SUBSET Node, NEW s,
           \A n \in t \ {Root} : parent[n] \in t,
           Child(Root) \cap t \subseteq s,
           \A d \in s : kind[d] = "dir" => Child(d) \cap t \subseteq s
    PROVE  t \ (Outside \cup {Root}) \subseteq s
<1> DEFINE r == {n \in Node : n \in t \ (Outside \cup {Root}) => n \in s}
<1>1. ASSUME NEW n \in Node \ {Root}, parent[n] \in r, n \in t, n \notin Outside
      PROVE  n \in s
    <2>1. /\ parent[n] \in t /\ n \in Child(parent[n]) /\ kind[parent[n]] = "dir"
          /\ parent[n] \notin Outside
        BY <1>1, KindFacts, AboveOK DEF Outside, Child, Directories
    <2>2. CASE parent[n] = Root
        BY <1>1, <2>1, <2>2
    <2>3. CASE parent[n] # Root
        <3>1. parent[n] \in s
            BY <1>1, <2>1, <2>3
        <3> QED
            BY <1>1, <2>1, <3>1
    <2> QED
        BY <2>2, <2>3
<1>2. Root \in r /\ \A n \in Node \ {Root} : parent[n] \in r => n \in r
    BY <1>1, TreeOK
<1>3. r = Node
    <2>1. r \in SUBSET Node
        OBVIOUS
    <2> HIDE DEF r
    <2> QED
        BY <1>2, <2>1, TreeIsRooted
<1> QED
    BY <1>3

(***************************************************************************)
(* The actions of a calm call.                                             *)
(***************************************************************************)
\* The calm invariants hold when a call begins.
LEMMA InitCalm == Init => CalmInv
<1> SUFFICES ASSUME Init
             PROVE  CalmInv
    OBVIOUS
<1>1. Listed = {} /\ Listed \subseteq fs /\ IsInjective(list)
    BY DEF Init, Listed, ToSet, IsInjective
<1>2. /\ stack # << >> /\ DOMAIN stack = {1} /\ Len(stack) = 1 /\ stack[1] = NewFrame(Root)
      /\ pc = "open" /\ result = ENOERR
    BY DEF Init
<1>3. CalmAlways
    BY <1>1, <1>2 DEF Init, Tree, CalmAlways
<1>4. CalmFrames
    BY <1>1, <1>2 DEF CalmFrames, NewFrame
<1>5. CalmList
    BY <1>1 DEF CalmList
<1> QED
    BY <1>2, <1>3, <1>4, <1>5 DEF CalmInv, CalmListing, CalmDeletion, CalmReturn

\* A step that is not calm, or comes after one, asks for nothing.
LEMMA NotCalm == ~calm' => CalmInv'
BY DEF CalmInv, CalmAlways, CalmListing, CalmDeletion, CalmReturn

\* opendir() reads what the directory holds.
LEMMA OpenDirCalm ==
    ASSUME IInv, CalmInv, OpenDir
    PROVE  CalmInv'
<1> SUFFICES ASSUME calm
             PROVE  CalmInv'
    BY NotCalm DEF OpenDir
<1> DEFINE held == Child(top.dir) \cap fs
           dirs == {n \in held : kind[n] = "dir"}
           f == [top EXCEPT !.found = held, !.dirs = dirs]
<1>1. /\ stack # << >> /\ stack \in Seq(Frame) /\ pc = "open" /\ pc' = "read"
      /\ fs' = fs /\ list' = list /\ result' = result /\ calm' = calm /\ strayed' = strayed
      /\ op' = op /\ recurse' = recurse /\ kind' = kind /\ raced' = raced
    BY DEF OpenDir, IInv, TypeOK, call, array, files
<1>2. Len(stack) \in DOMAIN stack /\ top \in Frame /\ top = stack[Len(stack)]
    BY <1>1, TopOfStack
<1>3. /\ f \in Frame /\ f.dir = top.dir /\ f.named = top.named /\ f.seen = top.seen
      /\ f.found = Child(top.dir) \cap fs
    <2>1. held \subseteq Node /\ dirs \subseteq Node
        BY DEF Child
    <2>2. f = [top EXCEPT !.found = held, !.dirs = dirs]
        OBVIOUS
    <2> HIDE DEF dirs, f
    <2> QED
        BY <1>2, <2>1, <2>2 DEF Frame
<1>4. stack' = [stack EXCEPT ![Len(stack)] = f]
    BY <1>2 DEF OpenDir
<1> HIDE DEF f
<1>5. /\ DOMAIN stack' = DOMAIN stack /\ Len(stack') = Len(stack)
      /\ \A i \in DOMAIN stack : stack'[i] = IF i = Len(stack) THEN f ELSE stack[i]
    BY <1>1, <1>2, <1>3, <1>4, ReplaceInSeq
<1>6. /\ \A i \in DOMAIN stack : /\ stack'[i].dir = stack[i].dir
                                 /\ stack'[i].named = stack[i].named
                                 /\ stack'[i].seen = stack[i].seen
      /\ \A i \in DOMAIN stack : i # Len(stack) => stack'[i].found = stack[i].found
      /\ stack'[Len(stack)].found = Child(stack[Len(stack)].dir) \cap fs
    BY <1>2, <1>3, <1>5
<1>7. CalmFrames /\ CalmList /\ result = ENOERR
    BY <1>1 DEF CalmInv, CalmListing
<1>8. Listed' = Listed
    BY <1>1 DEF Listed
<1>9. \A i \in DOMAIN stack : i < Len(stack) \/ i = Len(stack)
    BY <1>1
<1>10. CalmFrames'
    <2>1. \A i \in DOMAIN stack' : /\ stack'[i].named
                                   /\ stack'[i].seen = Child(stack'[i].dir) \cap Listed
                                   /\ i > 1 => stack'[i].dir \in Listed
        BY <1>5, <1>6, <1>7 DEF CalmFrames
    <2>2. \A i \in DOMAIN stack' : stack'[i].found = Child(stack'[i].dir) \cap fs
        <3> SUFFICES ASSUME NEW i \in DOMAIN stack
                     PROVE  stack'[i].found = Child(stack'[i].dir) \cap fs
            BY <1>5
        <3>1. CASE i < Len(stack)
            BY <1>1, <1>6, <1>7, <3>1 DEF CalmFrames
        <3>2. CASE i = Len(stack)
            BY <1>6, <3>2
        <3> QED
            BY <1>9, <3>1, <3>2
    <2>3. \A i, j \in DOMAIN stack' : stack'[i].dir = stack'[j].dir => i = j
        BY <1>5, <1>6, <1>7 DEF CalmFrames
    <2>4. recurse \/ Len(stack') = 1
        BY <1>5, <1>7 DEF CalmFrames
    <2> QED
        BY <1>1, <1>8, <2>1, <2>2, <2>3, <2>4 DEF CalmFrames, Child
<1>11. CalmList'
    <2>1. \A d : (\E i \in DOMAIN stack : stack[i].dir = d)
                     => \E i \in DOMAIN stack' : stack'[i].dir = d
        BY <1>5, <1>6
    <2> QED
        BY <1>1, <1>7, <1>8, <2>1 DEF CalmList, Child
<1>12. CalmAlways'
    BY <1>1, <1>8 DEF CalmInv, CalmAlways
<1> QED
    BY <1>1, <1>7, <1>10, <1>11, <1>12 DEF CalmInv, CalmListing, CalmDeletion, CalmReturn

\* The array with one more path.
LEMMA ListedGrows ==
    ASSUME NEW e, e \notin Listed, IsInjective(list), list \in Seq(Path), e \in Path,
           list' = Append(list, e)
    PROVE  Listed' = Listed \cup {e} /\ IsInjective(list')
<1>1. /\ DOMAIN list' = DOMAIN list \cup {Len(list) + 1}
      /\ list'[Len(list) + 1] = e
      /\ \A i \in DOMAIN list : list'[i] = list[i]
    BY AppendToSeq
<1>2. Listed' = Listed \cup {e}
    BY <1>1 DEF Listed, ToSet
<1>3. IsInjective(list')
    BY <1>1 DEF IsInjective, Listed, ToSet
<1> QED
    BY <1>2, <1>3

\* A calm readdir() returns an entry that was not stored yet, and store_dirent()
\* stores it under its own name.
LEMMA NewEntry ==
    ASSUME IInv, CalmInv, calm, pc = "read", NEW e \in MayReturn, NEW path \in StoredAs(e)
    PROVE  /\ path = e /\ e \notin Listed /\ e # Root /\ e \in fs
           /\ e \in Child(top.dir) /\ kind[top.dir] = "dir"
           /\ \A i \in DOMAIN stack : e \in Child(stack[i].dir) => i = Len(stack)
           /\ \A i \in DOMAIN stack : stack[i].dir # e
           /\ Child(e) \cap Listed = {} /\ TypesOf(e) = {kind[e]}
<1>1. /\ stack # << >> /\ CalmFrames /\ CalmList /\ ~strayed /\ ~raced
      /\ Root \notin Listed
    BY DEF IInv, TypeOK, CalmInv, CalmListing, CalmAlways
<1>2. /\ Len(stack) \in DOMAIN stack /\ top = stack[Len(stack)]
      /\ e \in Child(top.dir) /\ e \in Node /\ stack \in Seq(Frame)
    BY <1>1, TopOfStack DEF IInv, TypeOK
<1>3. /\ top.named /\ top.seen = Child(top.dir) \cap Listed
      /\ top.found = Child(top.dir) \cap fs
    BY <1>1, <1>2 DEF CalmFrames
<1>4. path = e
    BY <1>3 DEF StoredAs
<1>5. e \in fs /\ e \notin Listed /\ e # Root /\ parent[e] = top.dir
    BY <1>2, <1>3 DEF MayReturn, Child
<1>6. kind[top.dir] = "dir" /\ \A n \in top.dirs : kind[n] = "dir"
    BY <1>1, <1>2 DEF IInv, LinksInv, FramesInside, FrameIsInside
<1>7. \A i \in DOMAIN stack : e \in Child(stack[i].dir) => i = Len(stack)
    BY <1>1, <1>2, <1>5 DEF CalmFrames, Child
<1>8. ASSUME NEW i \in DOMAIN stack, stack[i].dir = e
      PROVE  FALSE
    <2>1. CASE i = 1
        BY <1>1, <1>5, <1>8, <2>1 DEF IInv, FramesInv
    <2>2. CASE i # 1
        <3>1. i > 1
            BY <1>2, <2>2
        <3> QED
            BY <1>1, <1>5, <1>8, <3>1 DEF CalmFrames
    <2> QED
        BY <2>1, <2>2
<1>9. ASSUME NEW n \in Child(e), n \in Listed
      PROVE  FALSE
    <2>1. PICK i \in DOMAIN list : list[i] = n
        BY <1>9 DEF Listed, ToSet
    <2>2. n \in Node /\ parent[n] = e
        BY <1>9 DEF Child
    <2>3. n \notin Outside
        BY <1>1, <2>1 DEF IInv, LinksInv, ListInside
    <2>4. PICK j \in 1 .. i - 1 : list[j] = e
        BY <1>5, <2>1, <2>2, <2>3 DEF IInv, ParentsFirst
    <2>5. j \in DOMAIN list
        BY <2>1, <2>4 DEF IInv, TypeOK
    <2> QED
        BY <1>5, <2>4, <2>5 DEF Listed, ToSet
<1>10. TypesOf(e) = {kind[e]}
    BY <1>6 DEF TypesOf
<1> QED
    BY <1>2, <1>4, <1>5, <1>6, <1>7, <1>8, <1>9, <1>10

\* An entry is stored, and entered if it is a directory.
LEMMA ReadEntryCalm ==
    ASSUME IInv, CalmInv, ReadEntry
    PROVE  CalmInv'
<1> SUFFICES ASSUME calm
             PROVE  CalmInv'
    BY NotCalm DEF ReadEntry
<1>1. PICK e \in MayReturn : \E path \in StoredAs(e), type \in TypesOf(e) :
        /\ Store(path)
        /\ LET mine == [stack EXCEPT ![Len(stack)].seen = @ \cup {e}]
           IN IF Descends(type)
              THEN stack' = Append(mine, NewFrame(path)) /\ pc' = "open"
              ELSE stack' = mine /\ pc' = pc
        /\ strayed' = (strayed \/ path # e)
    BY DEF ReadEntry
<1> DEFINE f == [top EXCEPT !.seen = @ \cup {e}]
           mine == [stack EXCEPT ![Len(stack)] = f]
<1>2. /\ pc = "read" /\ fs' = fs /\ op' = op /\ recurse' = recurse /\ calm' = calm
      /\ result' = ENOERR /\ kind' = kind /\ raced' = raced
    BY DEF ReadEntry, call, files
<1>3. /\ e \notin Listed /\ e # Root /\ e \in fs
      /\ e \in Child(top.dir) /\ kind[top.dir] = "dir"
      /\ \A i \in DOMAIN stack : e \in Child(stack[i].dir) => i = Len(stack)
      /\ \A i \in DOMAIN stack : stack[i].dir # e
      /\ Child(e) \cap Listed = {}
      /\ StoredAs(e) = {e} /\ TypesOf(e) = {kind[e]}
    <2>1. \A path \in StoredAs(e) : path = e
        BY <1>2, NewEntry
    <2>2. StoredAs(e) = {e}
        BY <1>1, <2>1
    <2> QED
        BY <1>2, <2>2, NewEntry
<1>4. /\ stack # << >> /\ stack \in Seq(Frame) /\ list \in Seq(Path) /\ e \in Node
      /\ CalmFrames /\ CalmList /\ ~strayed /\ ~raced /\ IsInjective(list)
      /\ Root \notin Listed
    BY <1>2, <1>3 DEF IInv, TypeOK, CalmInv, CalmListing, CalmAlways
<1>5. list' = Append(list, e) /\ ~strayed'
    BY <1>1, <1>3, <1>4 DEF Store
<1>6. Listed' = Listed \cup {e} /\ IsInjective(list')
    BY <1>3, <1>4, <1>5, ListedGrows DEF Path
<1>7. /\ Len(stack) \in DOMAIN stack /\ top \in Frame /\ top = stack[Len(stack)]
    BY <1>4, TopOfStack
<1>8. /\ f \in Frame /\ f.dir = top.dir /\ f.named = top.named /\ f.found = top.found
      /\ f.seen = top.seen \cup {e}
    BY <1>4, <1>7 DEF Frame
<1>9. /\ mine \in Seq(Frame) /\ DOMAIN mine = DOMAIN stack /\ Len(mine) = Len(stack)
      /\ \A i \in DOMAIN stack : mine[i] = IF i = Len(stack) THEN f ELSE stack[i]
    BY <1>4, <1>7, <1>8, ReplaceInSeq
<1>10. \A i \in DOMAIN stack : /\ mine[i].dir = stack[i].dir
                               /\ mine[i].named = stack[i].named
                               /\ mine[i].found = stack[i].found
    BY <1>7, <1>8, <1>9
<1>11. \A i \in DOMAIN stack : mine[i].seen = Child(stack[i].dir) \cap Listed'
    <2> SUFFICES ASSUME NEW i \in DOMAIN stack
                 PROVE  mine[i].seen = Child(stack[i].dir) \cap Listed'
        OBVIOUS
    <2>1. stack[i].seen = Child(stack[i].dir) \cap Listed
        BY <1>4 DEF CalmFrames
    <2>2. CASE i = Len(stack)
        BY <1>3, <1>6, <1>7, <1>8, <1>9, <2>1, <2>2
    <2>3. CASE i # Len(stack)
        BY <1>3, <1>6, <1>9, <2>1, <2>3
    <2> QED
        BY <2>2, <2>3
<1>12. [stack EXCEPT ![Len(stack)].seen = @ \cup {e}] = mine
    BY <1>7
<1>13. IF Descends(kind[e]) THEN stack' = Append(mine, NewFrame(e)) /\ pc' = "open"
       ELSE stack' = mine /\ pc' = "read"
    BY <1>1, <1>2, <1>3, <1>12
<1> HIDE DEF mine, f
<1>14. /\ \A i \in DOMAIN stack : i \in DOMAIN stack' /\ stack'[i] = mine[i]
       /\ \A i \in DOMAIN stack' \ DOMAIN stack :
              /\ i = Len(stack') /\ i > 1 /\ stack'[i] = NewFrame(e)
              /\ Descends(kind[e]) /\ pc' = "open"
       /\ Descends(kind[e]) => /\ Len(stack') \in DOMAIN stack'
                         /\ stack'[Len(stack')] = NewFrame(e)
       /\ ~Descends(kind[e]) => Len(stack') = Len(stack) /\ pc' = "read"
       /\ pc' \in {"open", "read"}
    <2>1. CASE Descends(kind[e])
        <3>1. NewFrame(e) \in Frame
            BY <1>4 DEF NewFrame, Frame, Path
        <3>2. /\ DOMAIN stack' = DOMAIN mine \cup {Len(mine) + 1}
              /\ Len(stack') = Len(mine) + 1
              /\ stack'[Len(mine) + 1] = NewFrame(e)
              /\ \A i \in DOMAIN mine : stack'[i] = mine[i]
            BY <1>9, <1>13, <2>1, <3>1, AppendToSeq
        <3>3. Len(stack) + 1 > 1
            BY <1>4, <1>7
        <3> QED
            BY <1>9, <1>13, <2>1, <3>2, <3>3
    <2>2. CASE ~Descends(kind[e])
        BY <1>9, <1>13, <2>2
    <2> QED
        BY <2>1, <2>2
<1>15. /\ NewFrame(e).dir = e /\ NewFrame(e).named /\ NewFrame(e).seen = {}
       /\ NewFrame(e).found = {}
    BY DEF NewFrame
<1>16. Child(e) \cap Listed' = {}
    <2>1. e \notin Child(e)
        <3>1. top.dir # e
            BY <1>3, <1>7
        <3> QED
            BY <1>3, <3>1 DEF Child
    <2> QED
        BY <1>3, <1>6, <2>1
<1>17. CalmFrames'
    <2>1. ASSUME NEW i \in DOMAIN stack'
          PROVE  /\ stack'[i].named
                 /\ stack'[i].seen = Child(stack'[i].dir) \cap Listed'
                 /\ i < Len(stack') \/ pc' = "read" =>
                        stack'[i].found = Child(stack'[i].dir) \cap fs
                 /\ i > 1 => stack'[i].dir \in Listed'
        <3>1. CASE i \in DOMAIN stack
            <4>1. stack[i].found = Child(stack[i].dir) \cap fs /\ stack[i].named
                BY <1>2, <1>4, <3>1 DEF CalmFrames
            <4>2. i > 1 => stack[i].dir \in Listed'
                BY <1>4, <1>6, <3>1 DEF CalmFrames
            <4> QED
                BY <1>10, <1>11, <1>14, <3>1, <4>1, <4>2
        <3>2. CASE i \notin DOMAIN stack
            <4>1. i = Len(stack') /\ stack'[i] = NewFrame(e) /\ pc' = "open"
                BY <1>14, <3>2
            <4>2. ~(i < Len(stack'))
                <5>1. stack' \in Seq(Frame)
                    BY ReadEntryKeeps DEF IInv, TypeOK
                <5> QED
                    BY <4>1, <5>1
            <4> QED
                BY <1>6, <1>15, <1>16, <4>1, <4>2
        <3> QED
            BY <3>1, <3>2
    <2>2. ASSUME NEW i \in DOMAIN stack', NEW j \in DOMAIN stack',
                 stack'[i].dir = stack'[j].dir
          PROVE  i = j
        <3>1. CASE i \in DOMAIN stack /\ j \in DOMAIN stack
            BY <1>4, <1>10, <1>14, <2>2, <3>1 DEF CalmFrames
        <3>2. CASE i \in DOMAIN stack /\ j \notin DOMAIN stack
            BY <1>3, <1>10, <1>14, <1>15, <2>2, <3>2
        <3>3. CASE i \notin DOMAIN stack /\ j \in DOMAIN stack
            BY <1>3, <1>10, <1>14, <1>15, <2>2, <3>3
        <3>4. CASE i \notin DOMAIN stack /\ j \notin DOMAIN stack
            BY <1>14, <3>4
        <3> QED
            BY <3>1, <3>2, <3>3, <3>4
    <2>3. recurse \/ Len(stack') = 1
        BY <1>4, <1>14 DEF CalmFrames, Descends
    <2> QED
        BY <1>2, <2>1, <2>2, <2>3 DEF CalmFrames, Child
<1>18. CalmList'
    <2>1. Listed' \subseteq fs
        BY <1>3, <1>4, <1>6 DEF CalmList
    <2>2. ASSUME recurse, NEW d \in Listed', kind[d] = "dir"
          PROVE  \/ Child(d) \cap fs \subseteq Listed'
                 \/ \E i \in DOMAIN stack' : stack'[i].dir = d
        <3>1. CASE d \in Listed
            <4>1. CASE Child(d) \cap fs \subseteq Listed
                BY <1>6, <4>1
            <4>2. CASE \E i \in DOMAIN stack : stack[i].dir = d
                BY <1>10, <1>14, <4>2
            <4> QED
                BY <1>4, <2>2, <3>1, <4>1, <4>2 DEF CalmList
        <3>2. CASE d = e
            BY <1>14, <1>15, <2>2, <3>2 DEF Descends
        <3> QED
            BY <1>6, <2>2, <3>1, <3>2
    <2>3. ASSUME ~recurse
          PROVE  Listed' \subseteq Child(Root)
        <3>1. Len(stack) = 1
            BY <1>4, <2>3 DEF CalmFrames
        <3>2. top.dir = Root
            BY <1>4, <1>7, <3>1 DEF IInv, FramesInv
        <3> QED
            BY <1>3, <1>4, <1>6, <2>3, <3>2 DEF CalmList
    <2> QED
        BY <1>2, <2>1, <2>2, <2>3 DEF CalmList, Child
<1>19. CalmAlways'
    <2>1. Root \notin Listed'
        BY <1>3, <1>4, <1>6
    <2> QED
        BY <1>2, <1>5, <1>6, <2>1 DEF CalmInv, CalmAlways
<1> QED
    BY <1>2, <1>14, <1>17, <1>18, <1>19 DEF CalmInv, CalmListing, CalmDeletion, CalmReturn

\* A directory has been read to its end.  After the last one, Root, the array
\* has all there is.
LEMMA EndOfDirCalm ==
    ASSUME IInv, CalmInv, EndOfDir
    PROVE  CalmInv'
<1> SUFFICES ASSUME calm
             PROVE  CalmInv'
    BY NotCalm DEF EndOfDir
<1>1. /\ pc = "read" /\ fs' = fs /\ op' = op /\ recurse' = recurse /\ calm' = calm
      /\ strayed' = strayed /\ list' = list /\ result' = ENOERR
      /\ top.found \cap fs \subseteq top.seen /\ kind' = kind /\ raced' = raced
      /\ Outside' = Outside
    BY SameOutside DEF EndOfDir, Return, call, files
<1>2. /\ stack # << >> /\ stack \in Seq(Frame) /\ list \in Seq(Path) /\ fs \subseteq Node
      /\ CalmFrames /\ CalmList /\ ~strayed /\ ~raced /\ Root \notin Listed
      /\ op \in {"read", "destroy"} /\ (op = "destroy" => recurse)
      /\ \A n \in fs \ {Root} : parent[n] \in fs
    BY <1>1 DEF IInv, TypeOK, CalmInv, CalmListing, CalmAlways
<1>3. /\ Len(stack) \in DOMAIN stack /\ top = stack[Len(stack)]
      /\ Len(stack) = 1 \/ Len(stack) > 1
    BY <1>2, TopOfStack
<1>4. Child(top.dir) \cap fs \subseteq Listed
    BY <1>1, <1>2, <1>3 DEF CalmFrames
<1>5. Listed' = Listed
    BY <1>1 DEF Listed
<1>6. CalmAlways'
    <2>1. pc' # "done" => Root \in fs
        BY <1>1 DEF CalmInv, CalmAlways
    <2> QED
        BY <1>1, <1>5, <2>1 DEF CalmInv, CalmAlways
<1>7. CASE IsRoot
    <2>1. stack' = << >> /\ pc' = AfterRead(ENOERR) /\ num_paths' = Len(list)
        BY <1>7 DEF EndOfDir, Return, Counted
    <2>2. Len(stack) = 1 /\ top.dir = Root
        BY <1>2, <1>3, <1>7 DEF IsRoot, IInv, FramesInv
    <2>3. Listed \subseteq fs \ {Root} /\ Listed \cap Outside = {}
        BY <1>2 DEF CalmList, IInv, LinksInv, ListInside, Listed, ToSet
    <2>4. recurse => Listed = Below
        <3>1. ASSUME recurse, NEW d \in Listed, kind[d] = "dir"
              PROVE  Child(d) \cap fs \subseteq Listed
            <4>1. ASSUME NEW i \in DOMAIN stack
                  PROVE  stack[i].dir = Root
                <5>1. i = 1
                    BY <1>2, <2>2, <4>1
                <5> QED
                    BY <1>3, <2>2, <5>1
            <4> QED
                BY <1>2, <3>1, <4>1 DEF CalmList
        <3>2. recurse => fs \ (Outside \cup {Root}) \subseteq Listed
            BY <1>2, <1>4, <2>2, <3>1, AllBelow
        <3> QED
            BY <2>3, <3>2 DEF Below
    <2>5. ~recurse => Listed = Child(Root) \cap fs
        BY <1>2, <1>4, <2>2 DEF CalmList
    <2>6. CASE op = "destroy"
        <3>1. pc' = "destroy" /\ recurse
            BY <1>2, <2>1, <2>6 DEF AfterRead
        <3>2. \A i \in 1 .. num_paths' : list[i] \in Below
            <4>1. \A i \in 1 .. num_paths' : list[i] \in Listed
                BY <1>2, <2>1 DEF Listed, ToSet
            <4> QED
                BY <2>4, <3>1, <4>1
        <3>3. num_paths' + 1 .. Len(list') = {}
            BY <1>1, <1>2, <2>1
        <3>4. Below' = Below
            BY <1>1 DEF Below
        <3>5. CalmDeletion'
            BY <1>1, <1>5, <2>4, <2>6, <3>1, <3>2, <3>3, <3>4 DEF CalmDeletion
        <3> QED
            BY <1>6, <3>1, <3>5 DEF CalmInv, CalmListing, CalmReturn
    <2>7. CASE op = "read"
        <3>1. pc' = "done"
            BY <2>1, <2>7 DEF AfterRead
        <3>2. CalmReturn'
            BY <1>1, <1>5, <2>4, <2>5, <2>7 DEF CalmReturn, Below, Child
        <3> QED
            BY <1>6, <3>1, <3>2 DEF CalmInv, CalmListing, CalmDeletion
    <2> QED
        BY <1>2, <2>6, <2>7
<1>8. CASE ~IsRoot
    <2>1. stack' = Front(stack) /\ pc' = "read"
        BY <1>8 DEF EndOfDir, Return
    <2>2. /\ DOMAIN stack' = 1 .. Len(stack) - 1
          /\ \A i \in DOMAIN stack' : i \in DOMAIN stack /\ stack'[i] = stack[i]
        BY <1>2, <2>1, FrontOfSeq
    <2>3. /\ Len(stack) \in Nat /\ Len(stack) > 1 /\ DOMAIN stack = 1 .. Len(stack)
        BY <1>2, <1>3, <1>8 DEF IsRoot
    <2>4. recurse
        BY <1>2, <1>8 DEF CalmFrames, IsRoot
    <2>5. CalmFrames'
        <3>1. \A i \in DOMAIN stack' : /\ stack'[i].named
                                       /\ stack'[i].seen = Child(stack'[i].dir) \cap Listed
                                       /\ stack'[i].found = Child(stack'[i].dir) \cap fs
                                       /\ i > 1 => stack'[i].dir \in Listed
            BY <1>1, <1>2, <2>2 DEF CalmFrames
        <3>2. \A i, j \in DOMAIN stack' : stack'[i].dir = stack'[j].dir => i = j
            BY <1>2, <2>2 DEF CalmFrames
        <3> QED
            BY <1>1, <1>5, <2>4, <3>1, <3>2 DEF CalmFrames, Child
    <2>6. CalmList'
        <3>1. ASSUME NEW d \in Listed, kind[d] = "dir"
              PROVE  \/ Child(d) \cap fs \subseteq Listed
                     \/ \E i \in DOMAIN stack' : stack'[i].dir = d
            <4>1. CASE Child(d) \cap fs \subseteq Listed
                BY <4>1
            <4>2. CASE \E i \in DOMAIN stack : stack[i].dir = d
                <5>1. PICK i \in DOMAIN stack : stack[i].dir = d
                    BY <4>2
                <5>2. CASE i = Len(stack)
                    BY <1>3, <1>4, <5>1, <5>2
                <5>3. CASE i # Len(stack)
                    <6>1. i \in DOMAIN stack'
                        BY <2>2, <2>3, <5>3
                    <6> QED
                        BY <2>2, <5>1, <6>1
                <5> QED
                    BY <5>2, <5>3
            <4> QED
                BY <1>2, <2>4, <3>1, <4>1, <4>2 DEF CalmList
        <3> QED
            BY <1>1, <1>2, <1>5, <2>4, <3>1 DEF CalmList, Child
    <2> QED
        BY <1>1, <1>6, <2>1, <2>5, <2>6 DEF CalmInv, CalmListing, CalmDeletion, CalmReturn
<1> QED
    BY <1>7, <1>8

\* What is there, and what is passed, depends on the files and nothing else.
LEMMA SameFiles ==
    UNCHANGED files => /\ Outside' = Outside /\ Below' = Below /\ Dangling' = Dangling
                       /\ \A n : /\ FileType(n)' = FileType(n) /\ CanRmdir(n)' = CanRmdir(n)
                                 /\ CanDelete(n)' = CanDelete(n) /\ Passed(n)' = Passed(n)
<1> SUFFICES ASSUME fs' = fs, kind' = kind
             PROVE  /\ Outside' = Outside /\ Below' = Below /\ Dangling' = Dangling
                    /\ \A n : /\ FileType(n)' = FileType(n) /\ CanRmdir(n)' = CanRmdir(n)
                              /\ CanDelete(n)' = CanDelete(n) /\ Passed(n)' = Passed(n)
    BY DEF files
<1>1. Outside' = Outside
    BY SameOutside
<1>2. \A n : FileType(n)' = FileType(n)
    BY DEF FileType, Stat
<1>3. \A n : CanRmdir(n)' = CanRmdir(n)
    BY DEF CanRmdir, Child
<1>4. \A n : CanDelete(n)' = CanDelete(n)
    BY <1>2, <1>3 DEF CanDelete
<1>5. \A n : Passed(n)' = Passed(n)
    BY <1>3 DEF Passed
<1>6. Below' = Below /\ Dangling' = Dangling
    BY <1>1 DEF Below, Dangling
<1> QED
    BY <1>1, <1>2, <1>3, <1>4, <1>5, <1>6

\* What destroy_dir() went past is not what it could delete.
LEMMA PassedIsKept ==
    ASSUME IInv, NEW n, Passed(n)
    PROVE  ~CanDelete(n)
<1>1. CASE n \in fs
    BY <1>1, TypeFacts DEF Passed, CanDelete
<1>2. CASE n \notin fs
    <2>1. FileType(n) = "none"
        BY <1>2 DEF FileType, Stat
    <2> QED
        BY <1>2, <2>1 DEF CanDelete, CanRmdir
<1> QED
    BY <1>1, <1>2

\* destroy_dir() looks at a path that is there: if stat() does not find anything
\* it is a link that dangles.
LEMMA ExamineCalm ==
    ASSUME IInv, CalmInv, Examine
    PROVE  CalmInv'
<1> SUFFICES ASSUME calm
             PROVE  CalmInv'
    BY NotCalm DEF Examine
<1>1. /\ pc = "destroy" /\ fs' = fs /\ op' = op /\ recurse' = recurse /\ calm' = calm
      /\ strayed' = strayed /\ raced' = raced /\ list' = list /\ UNCHANGED files
      /\ num_paths \in Nat /\ num_paths > 0 /\ num_paths <= Len(list) /\ Len(list) \in Nat
    BY DEF Examine, IInv, TypeOK, call, array, files
<1>2. /\ op = "destroy" /\ Below \subseteq Listed
      /\ \A i \in 1 .. num_paths : list[i] \in Below
      /\ \A i \in num_paths + 1 .. Len(list) : Passed(list[i])
    BY <1>1 DEF CalmInv, CalmDeletion
<1>3. NextPath \in Below /\ NextPath \in fs /\ NextPath \notin Outside
    <2>1. num_paths \in 1 .. num_paths
        BY <1>1
    <2> QED
        BY <1>2, <2>1 DEF NextPath, Below
<1>4. /\ Listed' = Listed /\ Below' = Below /\ Dangling' = Dangling
      /\ \A n : FileType(n)' = FileType(n) /\ Passed(n)' = Passed(n)
    BY <1>1, SameFiles DEF Listed
<1>5. pc' # "done" => Root \in fs
    BY <1>1 DEF CalmInv, CalmAlways
<1>6. CalmAlways'
    BY <1>1, <1>4, <1>5 DEF CalmInv, CalmAlways
<1>7. CASE FileType(NextPath) = "none"
    <2>1. pc' = "done" /\ result' = "error"
        BY <1>7 DEF Examine
    <2>2. NextPath \in Dangling
        BY <1>3, <1>7, TypeFacts DEF Dangling
    <2>3. ASSUME NEW n \in fs \ Outside, CanDelete(n)
          PROVE  StoppedBefore(n)
        <3>1. n # Root
            <4>1. kind[Root] = "dir" /\ Root \in fs /\ Root \in Node /\ fs \subseteq Node
                BY <1>1, TreeOK DEF IInv, RootInv, TypeOK, CalmInv, CalmAlways
            <4>2. FileType(Root) # "file" /\ NextPath # Root
                BY <1>3, <4>1, TypeFacts DEF Below
            <4>3. CanRmdir(Root) => Child(Root) \cap fs = {}
                BY DEF CanRmdir
            <4>4. \A m \in fs \ {Root} : parent[m] \in fs
                BY DEF CalmInv, CalmAlways
            <4>5. ~CanRmdir(Root)
                BY <1>3, <4>1, <4>2, <4>3, <4>4, NothingBelow
            <4> QED
                BY <2>3, <4>2, <4>5 DEF CanDelete
        <3>2. PICK i \in 1 .. Len(list) : list[i] = n
            <4>1. n \in Listed /\ DOMAIN list = 1 .. Len(list)
                BY <1>2, <2>3, <3>1 DEF Below, IInv, TypeOK
            <4> QED
                BY <4>1 DEF Listed, ToSet
        <3>3. i \notin num_paths + 1 .. Len(list)
            BY <1>2, <2>3, <3>2, PassedIsKept
        <3>4. i # num_paths
            <4>1. ~CanDelete(NextPath)
                BY <1>7, <2>2 DEF CanDelete, CanRmdir, Dangling
            <4> QED
                BY <2>3, <3>2, <4>1 DEF NextPath
        <3>5. i \in 1 .. num_paths - 1
            BY <1>1, <3>2, <3>3, <3>4
        <3> QED
            BY <1>1, <2>2, <3>2, <3>5 DEF StoppedBefore, NextPath
    <2>4. \A n : StoppedBefore(n)' = StoppedBefore(n) /\ CanDelete(n)' = CanDelete(n)
        <3>1. num_paths' = num_paths
            BY <1>7 DEF Examine
        <3> QED
            BY <1>1, <1>4, <3>1, SameFiles DEF StoppedBefore
    <2>5. Outside' = Outside
        BY <1>1, SameFiles
    <2>6. CalmReturn'
        BY <1>1, <1>2, <1>3, <2>1, <2>3, <2>4, <2>5 DEF CalmReturn, ENOERR
    <2> QED
        BY <1>6, <2>1, <2>6 DEF CalmInv, CalmListing, CalmDeletion
<1>8. CASE FileType(NextPath) = "other"
    <2>1. num_paths' = num_paths - 1 /\ result' = ENOERR /\ pc' = "destroy"
        BY <1>1, <1>8 DEF Examine
    <2>2. Passed(list[num_paths])
        BY <1>3, <1>8, TypeFacts DEF Passed, CanRmdir, NextPath
    <2>3. \A i \in num_paths' + 1 .. Len(list) :
              i = num_paths \/ i \in num_paths + 1 .. Len(list)
        BY <1>1, <2>1
    <2>4. \A i \in num_paths' + 1 .. Len(list) : Passed(list[i])
        BY <1>2, <2>2, <2>3
    <2>5. \A i \in 1 .. num_paths' : list[i] \in Below
        <3>1. \A i \in 1 .. num_paths' : i \in 1 .. num_paths
            BY <1>1, <2>1
        <3> QED
            BY <1>2, <3>1
    <2>6. CalmDeletion'
        BY <1>1, <1>2, <1>4, <2>1, <2>4, <2>5 DEF CalmDeletion
    <2> QED
        BY <1>6, <2>1, <2>6 DEF CalmInv, CalmListing, CalmReturn
<1>9. CASE FileType(NextPath) \in {"file", "dir"}
    <2>1. /\ pc' = IF FileType(NextPath) = "file" THEN "unlink" ELSE "rmdir"
          /\ num_paths' = num_paths /\ result' = ENOERR
        BY <1>9 DEF Examine
    <2>2. NextPath' = NextPath
        BY <1>1, <2>1 DEF NextPath
    <2>3. FileType(NextPath)' = FileType(NextPath)
        <3>1. \A n : n = NextPath => FileType(n)' = FileType(n)
            BY <1>4
        <3> QED
            BY <1>1, <2>2 DEF FileType, Stat, files
    <2>4. CalmDeletion'
        BY <1>1, <1>2, <1>4, <1>9, <2>1, <2>3 DEF CalmDeletion
    <2> QED
        BY <1>6, <2>1, <2>4 DEF CalmInv, CalmListing, CalmReturn
<1> QED
    BY <1>3, <1>7, <1>8, <1>9, TypeFacts

\* unlink() or rmdir() of a path: what was passed before is no easier to delete
\* afterwards, because a path's directory comes before it in the array.
LEMMA DeleteCalm ==
    ASSUME IInv, CalmInv, Delete
    PROVE  CalmInv'
<1> DEFINE can == IF pc = "unlink" THEN CanUnlink(NextPath) ELSE CanRmdir(NextPath)
<1>1. PICK ok \in {can, FALSE} :
          /\ fs' = IF ok THEN fs \ {NextPath} ELSE fs
          /\ result' = IF ok THEN ENOERR ELSE "error"
          /\ num_paths' = num_paths - 1
          /\ calm' = (calm /\ ok = can)
    BY DEF Delete, IndexAfter
<1> SUFFICES ASSUME calm, ok = can
             PROVE  CalmInv'
    BY <1>1, NotCalm
<1>2. /\ pc \in {"unlink", "rmdir"} /\ pc' = "destroy" /\ op' = op /\ recurse' = recurse
      /\ strayed' = strayed /\ raced' = raced /\ kind' = kind /\ Outside' = Outside
      /\ list' = list /\ list \in Seq(Path)
      /\ num_paths \in Nat /\ num_paths > 0 /\ num_paths <= Len(list) /\ Len(list) \in Nat
      /\ fs \subseteq Node
    BY SameOutside DEF Delete, IInv, TypeOK, IndexInv, call, array
<1>3. /\ op = "destroy" /\ Below \subseteq Listed
      /\ \A i \in 1 .. num_paths : list[i] \in Below
      /\ \A i \in num_paths + 1 .. Len(list) : Passed(list[i])
      /\ pc = "unlink" => FileType(NextPath) = "file"
      /\ pc = "rmdir" => FileType(NextPath) = "dir"
      /\ ~strayed /\ ~raced /\ recurse /\ IsInjective(list) /\ Root \notin Listed /\ Root \in fs
      /\ \A n \in fs \ {Root} : parent[n] \in fs
    BY <1>2 DEF CalmInv, CalmDeletion, CalmAlways
<1>4. /\ NextPath = list[num_paths] /\ NextPath \in Below /\ NextPath \in Node
      /\ NextPath # Root /\ NextPath \notin Outside /\ NextPath \in fs
    <2>1. num_paths \in 1 .. num_paths
        BY <1>2
    <2> QED
        BY <1>2, <1>3, <2>1 DEF NextPath, Below
<1>deleted. \/ ok /\ kind[NextPath] \in {"file", "link"}
            \/ ok /\ Child(NextPath) \cap fs = {}
            \/ ~ok /\ kind[NextPath] \in Directories /\ ~CanRmdir(NextPath)
    <2>1. CASE pc = "unlink"
        <3>1. kind[NextPath] \in {"file", "link"}
            BY <1>3, <1>4, <2>1, TypeFacts
        <3> QED
            BY <1>4, <2>1, <3>1 DEF CanUnlink
    <2>2. CASE pc = "rmdir"
        <3>1. kind[NextPath] \in Directories
            BY <1>3, <1>4, <2>2, TypeFacts
        <3> QED
            BY <2>2, <3>1 DEF CanRmdir
    <2> QED
        BY <1>2, <2>1, <2>2
<1> HIDE DEF can
<1>5. Listed' = Listed
    BY <1>2 DEF Listed
<1>6. \A i \in DOMAIN list : list[i] = NextPath => i = num_paths
    BY <1>2, <1>4, <1>3 DEF IsInjective
<1>7. fs' \subseteq fs /\ Root \in fs' /\ (\A i \in DOMAIN list : i # num_paths =>
                                                   (list[i] \in fs' <=> list[i] \in fs))
    BY <1>1, <1>3, <1>4, <1>6
<1>8. ASSUME NEW q, q = NextPath
      PROVE  Passed(q)'
    <2>1. CASE ok
        BY <1>1, <1>8, <2>1 DEF Passed
    <2>2. CASE ~ok
        BY <1>1, <1>2, <1>deleted, <1>8, <2>2 DEF Passed, CanRmdir, Child, Directories
    <2> QED
        BY <2>1, <2>2
<1>9. ASSUME NEW n \in fs' \ {Root}
      PROVE  parent[n] \in fs'
    <2>1. parent[n] \in fs /\ n \in Node \ {Root} /\ n \in fs
        BY <1>2, <1>3, <1>7
    <2>2. CASE ok
        <3>1. kind[NextPath] \in {"file", "link"} => parent[n] # NextPath
            BY <2>1, KindFacts DEF Directories
        <3>2. Child(NextPath) \cap fs = {} => parent[n] # NextPath
            BY <2>1 DEF Child
        <3> QED
            BY <1>1, <1>deleted, <2>1, <2>2, <3>1, <3>2
    <2>3. CASE ~ok
        BY <1>1, <2>1, <2>3
    <2> QED
        BY <2>2, <2>3
<1>10. ASSUME NEW i \in num_paths + 1 .. Len(list), NEW q, q = list[i]
       PROVE  Passed(q)'
    <2> SUFFICES ASSUME ~Passed(q)'
                 PROVE  FALSE
        OBVIOUS
    <2>1. i \in DOMAIN list /\ i # num_paths /\ i > num_paths
        BY <1>2
    <2>2. q \in fs' /\ Passed(q)
        BY <1>3, <1>10 DEF Passed
    <2>3. /\ q \in fs /\ kind[q] = "dir" /\ Child(q) \cap fs' = {}
          /\ Child(q) \cap fs # {}
        BY <1>2, <1>7, <2>2 DEF Passed, CanRmdir, Child
    <2>4. NextPath \in Child(q)
        BY <1>1, <2>3
    <2>5. parent[NextPath] = list[i] /\ list[i] # Root
        <3>1. list[i] \in Listed
            BY <2>1 DEF Listed, ToSet
        <3> QED
            BY <1>3, <1>10, <2>4, <3>1 DEF Child
    <2>6. num_paths \in DOMAIN list
        BY <1>2
    <2>7. PICK j \in 1 .. num_paths - 1 : list[j] = parent[NextPath]
        BY <1>4, <2>5, <2>6 DEF IInv, ParentsFirst
    <2>8. j \in DOMAIN list /\ j # i
        BY <1>2, <2>1, <2>7
    <2> QED
        BY <1>3, <2>1, <2>5, <2>7, <2>8 DEF IsInjective
<1>11. ASSUME NEW i \in num_paths' + 1 .. Len(list), NEW q, q = list[i]
       PROVE  Passed(q)'
    <2>1. i = num_paths \/ i \in num_paths + 1 .. Len(list)
        BY <1>1, <1>2
    <2> QED
        BY <1>4, <1>8, <1>10, <1>11, <2>1
<1>12. Below' \subseteq Listed
    BY <1>2, <1>3, <1>7 DEF Below
<1>13. \A i \in 1 .. num_paths' : list[i] \in Below'
    <2> SUFFICES ASSUME NEW i \in 1 .. num_paths'
                 PROVE  list[i] \in Below'
        OBVIOUS
    <2>1. i \in DOMAIN list /\ i # num_paths /\ i \in 1 .. num_paths
        BY <1>1, <1>2
    <2>2. list[i] \in Below /\ list[i] \in fs'
        BY <1>3, <1>7, <2>1 DEF Below
    <2> QED
        BY <1>2, <2>2 DEF Below
<1>14. result' # ENOERR => fs' # {Root}
    BY <1>1, <1>4
<1>15. CalmDeletion'
    <2>1. \A i \in num_paths' + 1 .. Len(list') : Passed(list[i])'
        BY <1>2, <1>11
    <2>2. \A i \in 1 .. num_paths' : list'[i] \in Below'
        BY <1>2, <1>13
    <2>3. op' = "destroy" /\ Below' \subseteq Listed'
        BY <1>2, <1>3, <1>5, <1>12
    <2> QED
        BY <1>2, <1>14, <2>1, <2>2, <2>3 DEF CalmDeletion
<1>16. CalmAlways'
    BY <1>2, <1>3, <1>5, <1>7, <1>9 DEF CalmAlways
<1> QED
    BY <1>2, <1>15, <1>16 DEF CalmInv, CalmListing, CalmReturn

\* When all the paths are done with, what exists cannot be deleted, and Root can
\* be if it is all there is.
LEMMA LoopIsOver ==
    ASSUME IInv, CalmInv, calm, pc = "destroy", num_paths = 0
    PROVE  /\ op = "destroy" /\ Root \in fs
           /\ \A n \in fs \ (Outside \cup {Root}) : ~CanDelete(n)
           /\ CanDelete(Root) <=> CanRmdir(Root)
           /\ result = ENOERR \/ fs # {Root}
           /\ CanRmdir(Root) => fs = {Root}
<1>1. /\ op = "destroy" /\ Root \in fs /\ Below \subseteq Listed
      /\ \A i \in 1 .. Len(list) : Passed(list[i])
      /\ result # ENOERR => fs # {Root}
      /\ fs \subseteq Node /\ \A n \in fs \ {Root} : parent[n] \in fs
    BY DEF CalmInv, CalmDeletion, CalmAlways, IInv, TypeOK
<1>2. \A n \in fs \ (Outside \cup {Root}) : ~CanDelete(n)
    <2>1. DOMAIN list = 1 .. Len(list)
        BY DEF IInv, TypeOK
    <2>2. \A n \in Listed : Passed(n)
        BY <1>1, <2>1 DEF Listed, ToSet
    <2> QED
        BY <1>1, <2>2, PassedIsKept DEF Below
<1>3. CanRmdir(Root) => fs = {Root}
    <2>1. CanRmdir(Root) => Child(Root) \cap fs = {}
        BY DEF CanRmdir
    <2> QED
        BY <1>1, <2>1, NothingBelow
<1>4. CanDelete(Root) <=> CanRmdir(Root)
    <2>1. kind[Root] = "dir"
        BY DEF IInv, RootInv
    <2>2. FileType(Root) # "file"
        BY <1>1, <2>1, TypeFacts
    <2> QED
        BY <2>2 DEF CanDelete
<1> QED
    BY <1>1, <1>2, <1>3, <1>4

\* The directory itself is deleted, or left because something is in it.
LEMMA DeleteRootCalm ==
    ASSUME IInv, CalmInv, DeleteRoot
    PROVE  CalmInv'
<1>1. PICK ok \in {CanRmdir(Root), FALSE} :
          /\ fs' = IF ok THEN fs \ {Root} ELSE fs
          /\ result' = IF ok THEN ENOERR ELSE "error"
          /\ calm' = (calm /\ ok = CanRmdir(Root))
    BY DEF DeleteRoot
<1> SUFFICES ASSUME calm, ok = CanRmdir(Root)
             PROVE  CalmInv'
    BY <1>1, NotCalm
<1>2. /\ pc = "destroy" /\ pc' = "done" /\ num_paths = 0 /\ op' = op /\ recurse' = recurse
      /\ strayed' = strayed /\ raced' = raced /\ list' = list /\ kind' = kind
    BY DEF DeleteRoot, call, array
<1>3. /\ op = "destroy" /\ Root \in fs
      /\ \A n \in fs \ (Outside \cup {Root}) : ~CanDelete(n)
      /\ CanDelete(Root) <=> CanRmdir(Root)
      /\ CanRmdir(Root) => fs = {Root}
    BY <1>2, LoopIsOver
<1>4. Listed' = Listed
    BY <1>2 DEF Listed
<1>5. CASE ok
    <2>1. fs' = {} /\ result' = ENOERR
        BY <1>1, <1>3, <1>5
    <2>2. CalmReturn'
        BY <1>2, <1>3, <2>1 DEF CalmReturn
    <2>3. CalmAlways'
        BY <1>2, <1>4, <2>1 DEF CalmInv, CalmAlways
    <2> QED
        BY <1>2, <2>2, <2>3 DEF CalmInv, CalmListing, CalmDeletion
<1>6. CASE ~ok
    <2>1. fs' = fs /\ result' # ENOERR
        BY <1>1, <1>6 DEF ENOERR
    <2>2. Outside' = Outside /\ \A n : CanDelete(n)' = CanDelete(n)
        BY <1>2, <2>1, SameFiles DEF files
    <2>3. \A n \in fs \ Outside : ~CanDelete(n)
        BY <1>3, <1>6
    <2>4. \A n \in fs' \ Outside' : ~CanDelete(n)'
        BY <2>1, <2>2, <2>3
    <2>5. CalmReturn'
        BY <1>2, <1>3, <2>1, <2>4 DEF CalmReturn
    <2>6. CalmAlways'
        BY <1>2, <1>4, <2>1 DEF CalmInv, CalmAlways
    <2> QED
        BY <1>2, <2>5, <2>6 DEF CalmInv, CalmListing, CalmDeletion
<1> QED
    BY <1>5, <1>6

\* The last deletion failed: the directory is not empty and is left.
LEMMA KeepRootCalm ==
    ASSUME IInv, CalmInv, KeepRoot
    PROVE  CalmInv'
<1> SUFFICES ASSUME calm
             PROVE  CalmInv'
    BY NotCalm DEF KeepRoot
<1>1. /\ pc = "destroy" /\ pc' = "done" /\ num_paths = 0 /\ op' = op /\ recurse' = recurse
      /\ strayed' = strayed /\ raced' = raced /\ list' = list /\ UNCHANGED files /\ fs' = fs
      /\ result' = result /\ calm' = calm /\ result # ENOERR
    BY DEF KeepRoot, RootIsNext, call, array, files
<1>2. /\ op = "destroy" /\ Root \in fs
      /\ \A n \in fs \ Outside : ~CanDelete(n)
    BY <1>1, LoopIsOver
<1>3. CalmReturn'
    <2>1. Outside' = Outside /\ \A n : CanDelete(n)' = CanDelete(n)
        BY <1>1, SameFiles
    <2>2. \A n \in fs' \ Outside' : ~CanDelete(n)'
        BY <1>1, <1>2, <2>1
    <2> QED
        BY <1>1, <1>2, <2>2 DEF CalmReturn
<1>4. CalmAlways'
    BY <1>1 DEF CalmInv, CalmAlways, Listed
<1> QED
    BY <1>1, <1>3, <1>4 DEF CalmInv, CalmListing, CalmDeletion

\* Every step keeps the calm invariants.
LEMMA NextCalm == IInv /\ CalmInv /\ [Next]_vars => CalmInv'
<1> SUFFICES ASSUME IInv, CalmInv, [Next]_vars
             PROVE  CalmInv'
    OBVIOUS
<1>1. CASE OpenDir
    BY <1>1, OpenDirCalm
<1>2. CASE ReadEntry
    BY <1>2, ReadEntryCalm
<1>3. CASE EndOfDir
    BY <1>3, EndOfDirCalm
<1>4. CASE Examine
    BY <1>4, ExamineCalm
<1>5. CASE Delete
    BY <1>5, DeleteCalm
<1>6. CASE DeleteRoot
    BY <1>6, DeleteRootCalm
<1>7. CASE KeepRoot
    BY <1>7, KeepRootCalm
<1>8. CASE Fails \/ OtherCreates \/ OtherRemoves \/ OtherReplaces
    <2>1. ~calm'
        BY <1>8 DEF Fails, OpenFails, StoreFails, CloseFails, ReadFails, ExamineFails,
                    OtherCreates, OtherRemoves, OtherReplaces, Change
    <2> QED
        BY <2>1, NotCalm
<1>9. CASE UNCHANGED vars
    <2>1. /\ fs' = fs /\ op' = op /\ recurse' = recurse /\ stack' = stack /\ list' = list
          /\ num_paths' = num_paths /\ result' = result /\ pc' = pc /\ calm' = calm
          /\ strayed' = strayed /\ raced' = raced /\ kind' = kind /\ UNCHANGED files
        BY <1>9 DEF vars, call, array, files
    <2>2. CalmAlways' /\ CalmListing'
        BY <2>1 DEF CalmInv, CalmAlways, CalmListing, CalmFrames, CalmList, Listed, Child
    <2>3. /\ Listed' = Listed /\ Outside' = Outside /\ Below' = Below /\ Dangling' = Dangling
          /\ NextPath' = NextPath
          /\ \A n : CanDelete(n)' = CanDelete(n) /\ Passed(n)' = Passed(n)
        BY <2>1, SameFiles DEF Listed, NextPath
    <2>4. FileType(NextPath)' = FileType(NextPath)
        BY <2>1, <2>3 DEF FileType, Stat
    <2>5. \A n : StoppedBefore(n)' = StoppedBefore(n)
        BY <2>1, <2>3 DEF StoppedBefore
    <2>6. CalmDeletion' /\ CalmReturn'
        BY <2>1, <2>3, <2>4, <2>5 DEF CalmInv, CalmDeletion, CalmReturn, Child
    <2> QED
        BY <2>2, <2>6 DEF CalmInv
<1> QED
    BY <1>1, <1>2, <1>3, <1>4, <1>5, <1>6, <1>7, <1>8, <1>9 DEF Next, Proceed


(***************************************************************************)
(* The theorems.                                                           *)
(***************************************************************************)
\* The invariant holds in every state of every run.
THEOREM Invariant == Spec => []IInv
<1> QED
    BY InitInv, NextInv, PTL DEF Spec

\* Every variable of read_dir_contents() and destroy_dir() keeps its type.
THEOREM TypeCorrect == Spec => []TypeOK
<1>1. IInv => TypeOK
    BY DEF IInv
<1> QED
    BY <1>1, Invariant, PTL

\* store_dirent() always leaves room for the NULL that ends content_arr.
THEOREM ArrayEndsWithNull == Spec => []EndsWithNull
<1>1. IInv => EndsWithNull
    BY DEF IInv
<1> QED
    BY <1>1, Invariant, PTL

\* recurse_dir_contents() stores a directory before what is in it, so that
\* destroy_dir() reaches the contents first.
THEOREM DirectoriesComeFirst == Spec => []ParentsFirst
<1>1. IInv => ParentsFirst
    BY DEF IInv
<1> QED
    BY <1>1, Invariant, PTL

\* destroy_dir() deletes nothing that is reached through a symbolic link, as
\* long as no name was lost and no directory became a link after the listing had
\* got to it.
THEOREM LinksAreNotFollowed == Spec => OutsideIsKept
<1>1. IInv /\ [Next]_vars
          => [Delete /\ ~strayed /\ ~raced => Outside \cap fs \subseteq fs']_vars
    <2> SUFFICES ASSUME IInv, Delete, ~strayed, ~raced
                 PROVE  Outside \cap fs \subseteq fs'
        OBVIOUS
    <2>1. num_paths \in DOMAIN list
        BY DEF Delete, IInv, TypeOK, IndexInv
    <2>2. NextPath \notin Outside
        BY <2>1 DEF NextPath, IInv, LinksInv, ListInside
    <2> QED
        BY <2>2 DEF Delete
<1> QED
    BY <1>1, Invariant, PTL DEF Spec, OutsideIsKept

\* The calm invariants hold in every state of every run.
THEOREM CalmInvariant == Spec => []CalmInv
<1> QED
    BY InitCalm, NextCalm, Invariant, PTL DEF Spec

\* read_dir_contents() lists every path below the directory, or every entry of
\* it, and each of them once, if no call fails and nobody interferes.
THEOREM NothingIsMissed == Spec => []ListingIsComplete
<1>1. IInv /\ CalmInv => ListingIsComplete
    <2> SUFFICES ASSUME IInv, CalmInv, calm, ReadIsOver
                 PROVE  /\ ToSet(list) = IF recurse THEN Below ELSE Child(Root) \cap fs
                        /\ IsInjective(list)
        BY DEF ListingIsComplete
    <2>1. IsInjective(list)
        BY DEF CalmInv, CalmAlways
    <2>2. CASE pc = "done" /\ op = "read"
        BY <2>1, <2>2 DEF CalmInv, CalmReturn, Listed
    <2>3. CASE pc = "destroy" /\ num_paths = Len(list) /\ Root \in fs
        <3>1. /\ recurse /\ Below \subseteq Listed
              /\ \A i \in 1 .. num_paths : list[i] \in Below
            BY <2>3 DEF CalmInv, CalmDeletion, CalmAlways
        <3>2. DOMAIN list = 1 .. num_paths
            BY <2>3 DEF IInv, TypeOK
        <3>3. Listed \subseteq Below
            BY <3>1, <3>2 DEF Listed, ToSet
        <3> QED
            BY <2>1, <3>1, <3>3 DEF Listed
    <2> QED
        BY <2>2, <2>3 DEF ReadIsOver
<1> QED
    BY <1>1, Invariant, CalmInvariant, PTL

\* destroy_dir() leaves nothing it can delete but what comes before a dangling link
\* at which it stopped, and succeeds exactly if nothing is left, if no call fails
\* and nobody interferes.
THEOREM AllIsDestroyed == Spec => []CalmDestroys
<1>1. CalmInv => CalmDestroys
    BY DEF CalmInv, CalmReturn, CalmDestroys
<1> QED
    BY <1>1, CalmInvariant, PTL
=============================================================================
