------------------------------- MODULE FileSystem ------------------------------
(***************************************************************************)
(* What stat(2), chmod(2), chown(2), utimensat(2), link(2), symlink(2),    *)
(* open(2), write(2) and unlink(2) see and change: one directory of names, *)
(* and the inodes behind them.  This is the kernel's, modelled from how    *)
(* the library uses it.                                                    *)
(***************************************************************************)
EXTENDS Integers, Sequences, FiniteSets

CONSTANTS
    Names,          \* the paths
    Inodes,         \* the inode numbers
    Modes,          \* the permission bits
    TicksPerSecond  \* instants in a second

ASSUME FileSystemBounds ==
    /\ Inodes \subseteq Nat \ {0}
    /\ Names # {} /\ IsFiniteSet(Names)
    /\ TicksPerSecond \in Nat \ {0}

VARIABLES
    dir,    \* the inode that a name stands for
    inode,  \* the inodes
    now     \* the instant of the next change

fs == <<dir, inode, now>>

NoInode == 0
Stamps == {"atime", "mtime", "ctime"}

\* Every change is stamped with an instant of its own.
Stamp(i, which) ==
    [i EXCEPT !.times = [s \in Stamps |-> IF s \in which THEN now ELSE i.times[s]]]

\* The name at the end of the symbolic links that start at n: no link itself,
\* and in every set of names that holds n and what its links name.
IsLink(n) == dir[n] # NoInode /\ inode[dir[n]].kind = "symlink"
LinksStay(s) == \A n \in s : IsLink(n) => inode[dir[n]].target \in s
Ends(n) ==
    {m \in Names : /\ ~IsLink(m)
                   /\ \A s \in SUBSET Names : n \in s /\ LinksStay(s) => m \in s}
End(n) == IF IsLink(n) /\ Ends(n) # {} THEN CHOOSE m \in Ends(n) : TRUE ELSE n

\* A name that leads nowhere, or in a circle, leads to NoInode.
LStat(n) == dir[n]
Stat(n) ==
    LET i == dir[End(n)]
    IN IF i # NoInode /\ inode[i].kind = "symlink" THEN NoInode ELSE i
At(n, follow) == IF follow THEN Stat(n) ELSE LStat(n)

HardLinks(i) == Cardinality({n \in Names : dir[n] = i})

\* Name n and all that it leads to: what a call on n can depend on.
Node(i) == IF i = NoInode THEN << >> ELSE <<i, inode[i], HardLinks(i)>>
View(n) == <<Node(LStat(n)), Node(Stat(n))>>

\* An inode lives as long as a name or a descriptor stands for it.
Unused(opened) ==
    {i \in Inodes : /\ i \notin opened
                    /\ \A n \in Names : dir[n] # i}

NewInode(kind, target, data) ==
    [kind |-> kind, perms |-> Modes, owner |-> 0, group |-> 0,
     times |-> [s \in Stamps |-> now], data |-> data, target |-> target]

ChangeInode(i, new) ==
    /\ inode' = [inode EXCEPT ![i] = new]
    /\ now' = now + 1
    /\ UNCHANGED dir

Bind(n, i, new) ==
    /\ dir' = [dir EXCEPT ![n] = i]
    /\ inode' = [inode EXCEPT ![i] = new]
    /\ now' = now + 1

Unbind(n) ==
    /\ dir' = [dir EXCEPT ![n] = NoInode]
    /\ now' = now + 1
    /\ UNCHANGED inode
================================================================================
