------------------------------- MODULE MCDirTree -------------------------------
(***************************************************************************)
(* DirTree for TLC: a tree of depth three with a pipe, a link to a         *)
(* directory that is elsewhere, and a link to a file of the tree.          *)
(***************************************************************************)
EXTENDS DirTree, TLC

CONSTANTS root, a, b, c, k, l, o, p

MCNode == {root, a, b, c, k, l, o, p}
MCParent == (a :> root) @@ (b :> a) @@ (c :> b) @@ (k :> a)
            @@ (l :> root) @@ (o :> l) @@ (p :> root)
MCAbove[n \in MCNode] == IF n = root THEN {} ELSE {MCParent[n]} \cup MCAbove[MCParent[n]]
MCKind == (root :> "dir") @@ (a :> "dir") @@ (b :> "dir") @@ (c :> "file")
          @@ (k :> "link") @@ (l :> "dirlink") @@ (o :> "file") @@ (p :> "other")
MCTarget == [n \in MCNode |-> IF n = k THEN c ELSE Nowhere]
=============================================================================
