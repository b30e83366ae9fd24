--------------------------- MODULE PathCalls_proofs ---------------------------
(***************************************************************************)
(* Proofs about PathCalls, for any number of processes, names and inodes,  *)
(* any calls and any failures: what a getter or read_file() returns is     *)
(* true if nobody interfered, bits of a mode add up, a link that is not to *)
(* be followed is not, and what was appended is kept.                      *)
(***************************************************************************)
EXTENDS PathCalls, TLAPS, SequenceTheorems, FiniteSetTheorems

(***************************************************************************)
(* The invariant.                                                          *)
(***************************************************************************)
Writers == Procs \cup {Somebody}
AnyInode == Inode(Cells(Writers))

TypeOK ==
    /\ dir \in [Names -> Inodes \cup {NoInode}]
    /\ inode \in [Inodes -> AnyInode]
    /\ now \in Nat
    /\ scene \in DOMAIN Scenes
    /\ call = [p \in Procs |-> call[p]] /\ todo = [p \in Procs |-> todo[p]]
    /\ got = [p \in Procs |-> got[p]]
    /\ \A p \in Procs : IsCall([call[p] EXCEPT !.valid = TRUE])
    /\ sym \in [Procs -> BOOLEAN]
    /\ fd \in [Procs -> Inodes \cup {NoInode}]
    /\ moved \in [Procs -> Nat]
    /\ result \in [Procs -> Errno]
    /\ calls \in [Procs -> Nat]
    /\ errors \in Nat
    /\ disturbed \in [Procs -> BOOLEAN]
    /\ clobbered \subseteq Procs

\* What may be left of a call's steps, and how much it has read by then.
Left(p, steps, n) == todo[p] = steps /\ Len(got[p]) = n

Wants(p) == Len(call[p].fields)

GetsLeft(p) ==
    \/ Left(p, <<"stat">>, 0) /\ call[p].follow /\ Wants(p) = 1
    \/ Left(p, <<"lstat">>, 0) /\ ~call[p].follow /\ Wants(p) = 1
    \/ /\ todo[p] \in {<<"is_sym_link", "a_stat">>, <<"a_stat">>}
       /\ Wants(p) = Len(got[p]) + 1
    \/ /\ todo[p] \in {<<"is_sym_link", "a_stat", "is_sym_link", "a_stat">>,
                       <<"a_stat", "is_sym_link", "a_stat">>}
       /\ got[p] = << >> /\ Wants(p) = 2

ReadsLeft(p) ==
    \/ Left(p, <<"is_file", "stat", "fopen_r", "fread">>, 0)
    \/ Left(p, <<"stat", "fopen_r", "fread">>, 1)
    \/ Left(p, <<"fopen_r", "fread">>, 2)
    \/ Left(p, <<"fread">>, 2)

ModeLeft(p) == Left(p, <<"stat", "chmod">>, 0) \/ Left(p, <<"chmod">>, 1)

AppendLeft(p) ==
    \/ Left(p, <<"is_path", "open", "write">>, 0) /\ moved[p] = 0
    \/ Left(p, <<"open", "write">>, 1) /\ moved[p] = 0
    \/ Left(p, <<"write">>, 2) /\ fd[p] = got[p][2] /\ moved[p] <= call[p].len

CreateLeft(p) ==
    \/ Left(p, <<"is_file", "fopen_w", "fclose">>, 0)
    \/ Left(p, <<"fopen_w", "fclose">>, 1)
    \/ Left(p, <<"fclose">>, 1)

Under(p) ==
    CASE call[p].name = "get" -> GetsLeft(p)
      [] call[p].name = "read" -> ReadsLeft(p)
      [] call[p].name \in {"add_mode", "remove_mode"} -> ModeLeft(p)
      [] call[p].name = "append" -> AppendLeft(p)
      [] call[p].name = "create" -> CreateLeft(p)
      [] call[p].name = "mkfifo" -> todo[p] \in {<<"is_path", "mkfifo">>, <<"mkfifo">>}
      [] call[p].name = "set_owner" -> todo[p] \in {<<"is_sym_link", "a_chown">>, <<"a_chown">>}
      [] call[p].name = "set_mode" -> todo[p] = <<"chmod">>
      [] call[p].name = "set_times" -> todo[p] = <<"utimensat">>
      [] OTHER -> todo[p] = <<call[p].name>>

Returned(p) ==
    todo[p] = << >> /\ calls[p] > 0 /\ result[p] = "ENOERR" =>
        /\ call[p].name \in {"get", "read"} => Len(got[p]) = Wants(p)
        /\ call[p].name = "append" => Len(got[p]) = 2 /\ moved[p] = call[p].len

CallInv(p) ==
    /\ todo[p] \in {<< >>, <<"validate">>} \/ Under(p)
    /\ Returned(p)
    /\ todo[p] \in {<<"write">>, <<"fclose">>, <<"fread">>} => fd[p] \in Inodes
    /\ Len(got[p]) \in Nat /\ got[p] = [k \in 1 .. Len(got[p]) |-> got[p][k]]

\* What a call has read is what is there, as long as nobody interferes.
Here(p) == At(call[p].path, call[p].follow)
Fetched(p) == [k \in 1 .. Len(got[p]) |-> Value(Here(p), call[p].fields[k])]

ReadInv(p) ==
    ~disturbed[p] /\ call[p].name \in {"get", "read"}
        /\ (todo[p] # << >> \/ result[p] = "ENOERR") =>
        /\ Len(got[p]) <= Wants(p)
        /\ got[p] = Fetched(p)
        /\ got[p] # << >> => Here(p) # NoInode
        /\ todo[p] = <<"fread">> => fd[p] = Here(p)

ModeInv(p) ==
    call[p].name \in {"add_mode", "remove_mode"} /\ todo[p] = <<"chmod">> =>
        /\ got[p][1] \in SUBSET Modes
        /\ ~disturbed[p] => Stat(call[p].path) # NoInode
                            /\ got[p][1] = inode[Stat(call[p].path)].perms

Looked(p) == todo[p] # << >> /\ Head(todo[p]) \in {"a_stat", "a_chown"}

LinkInv(p) ==
    Looked(p) /\ ~disturbed[p] =>
        /\ LStat(call[p].path) # NoInode
        /\ sym[p] <=> inode[LStat(call[p].path)].kind = "symlink"

\* What a call has appended is there, unless somebody overwrote it.
AppendInv(p) ==
    call[p].name = "append" =>
        /\ todo[p] = <<"open", "write">> => got[p][1] \in BOOLEAN
        /\ Len(got[p]) = 2 =>
              /\ got[p][2] \in Inodes
              /\ p \notin clobbered /\ inode[got[p][2]].kind = "regular" => Appended(p, moved[p])

\* Bytes of the current call are in the file that it opened.
Opens(p, i) ==
    \/ call[p].name = "create"
    \/ call[p].name = "append" /\ Len(got[p]) = 2 /\ got[p][2] = i

CellsInv ==
    \A i \in Inodes : \A k \in DOMAIN inode[i].data :
        LET c == inode[i].data[k]
        IN c[1] \in Procs => c[2] <= calls[c[1]] /\ (c[2] = calls[c[1]] => Opens(c[1], i))

ProcInv(p) == CallInv(p) /\ ReadInv(p) /\ ModeInv(p) /\ LinkInv(p) /\ AppendInv(p)

IInv == TypeOK /\ CellsInv /\ \A p \in Procs : ProcInv(p)

(***************************************************************************)
(* Sequences.                                                              *)
(***************************************************************************)
\* A function over 1..n is a sequence of n values.
LEMMA FunIsSeq ==
    ASSUME NEW S, NEW n \in Nat, NEW f \in [1 .. n -> S]
    PROVE  f \in Seq(S) /\ Len(f) = n
  BY SeqDef

LEMMA Tuple1 ==
    ASSUME NEW a
    PROVE  <<a>> # << >> /\ Len(<<a>>) = 1 /\ Head(<<a>>) = a /\ Tail(<<a>>) = << >>
<1> <<a>> \in Seq({a})
  OBVIOUS
<1> QED
  OBVIOUS

LEMMA Tuple2 ==
    ASSUME NEW a, NEW b
    PROVE  <<a, b>> # << >> /\ Len(<<a, b>>) = 2 /\ Head(<<a, b>>) = a /\ Tail(<<a, b>>) = <<b>>
<1> <<a, b>> \in Seq({a, b})
  OBVIOUS
<1> QED
  OBVIOUS

LEMMA Tuple3 ==
    ASSUME NEW a, NEW b, NEW c
    PROVE  /\ <<a, b, c>> # << >> /\ Len(<<a, b, c>>) = 3
           /\ Head(<<a, b, c>>) = a /\ Tail(<<a, b, c>>) = <<b, c>>
<1> <<a, b, c>> \in Seq({a, b, c})
  OBVIOUS
<1> QED
  OBVIOUS

LEMMA Tuple4 ==
    ASSUME NEW a, NEW b, NEW c, NEW d
    PROVE  /\ <<a, b, c, d>> # << >> /\ Len(<<a, b, c, d>>) = 4
           /\ Head(<<a, b, c, d>>) = a /\ Tail(<<a, b, c, d>>) = <<b, c, d>>
<1> <<a, b, c, d>> \in Seq({a, b, c, d})
  OBVIOUS
<1> QED
  OBVIOUS

\* One value more at the end of what a call has read.
LEMMA OneMore ==
    ASSUME NEW s, NEW n \in Nat, s = [k \in 1 .. n |-> s[k]], NEW v
    PROVE  /\ Len(s) = n
           /\ Append(s, v) = [k \in 1 .. n + 1 |-> IF k <= n THEN s[k] ELSE v]
           /\ Len(Append(s, v)) = n + 1
           /\ s = << >> <=> n = 0
<1> DEFINE S == {s[k] : k \in 1 .. n} \cup {v}
<1>1. s \in [1 .. n -> S]
  OBVIOUS
<1>2. s \in Seq(S) /\ Len(s) = n
  BY <1>1, FunIsSeq
<1>3. v \in S
  OBVIOUS
<1>4. Append(s, v) \in Seq(S) /\ Len(Append(s, v)) = n + 1
  BY <1>2, <1>3
<1>5. \A k \in 1 .. n : Append(s, v)[k] = s[k]
  BY <1>2, <1>3
<1>6. Append(s, v)[n + 1] = v
  BY <1>2, <1>3
<1>7. Append(s, v) = [k \in 1 .. n + 1 |-> IF k <= n THEN s[k] ELSE v]
  BY <1>4, <1>5, <1>6
<1>8. s = << >> <=> n = 0
  BY <1>2
<1> QED
  BY <1>2, <1>4, <1>7, <1>8

(***************************************************************************)
(* What a path leads to.                                                   *)
(***************************************************************************)
LEMMA EndIsName ==
    ASSUME TypeOK, NEW n \in Names
    PROVE  End(n) \in Names /\ (~IsLink(n) => End(n) = n)
<1> \A m \in Ends(n) : m \in Names
  BY DEF Ends
<1> QED
  BY DEF End

LEMMA InodesThere ==
    ASSUME TypeOK, NEW n \in Names
    PROVE  /\ LStat(n) \in Inodes \cup {NoInode}
           /\ Stat(n) \in Inodes \cup {NoInode}
           /\ Stat(n) # NoInode => inode[Stat(n)].kind # "symlink"
           /\ NoInode \notin Inodes
           /\ \A f \in BOOLEAN : At(n, f) \in Inodes \cup {NoInode}
  BY EndIsName, FileSystemBounds DEF Stat, LStat, At, TypeOK, NoInode

\* stat(2) and lstat(2) agree about a path that is no link.
LEMMA StatOfNoLink ==
    ASSUME TypeOK, NEW n \in Names, LStat(n) # NoInode,
           inode[LStat(n)].kind # "symlink"
    PROVE  Stat(n) = LStat(n)
  BY EndIsName DEF Stat, LStat, IsLink

\* What a path leads to is as it was, if its view is.
LEMMA NodeSame ==
    ASSUME NEW i, NEW a, NEW h, NEW j, NEW b, NEW g,
           (IF i = NoInode THEN << >> ELSE <<i, a, h>>)
              = (IF j = NoInode THEN << >> ELSE <<j, b, g>>)
    PROVE  i = j /\ (i # NoInode => a = b /\ h = g)
  BY Tuple3

LEMMA ViewSame ==
    ASSUME NEW n \in Names, View(n)' = View(n)
    PROVE  /\ LStat(n)' = LStat(n) /\ Stat(n)' = Stat(n)
           /\ \A i \in {LStat(n), Stat(n)} : i # NoInode =>
                 inode'[i] = inode[i] /\ HardLinks(i)' = HardLinks(i)
<1>1. Node(LStat(n))' = Node(LStat(n)) /\ Node(Stat(n))' = Node(Stat(n))
  BY DEF View
<1>2. LStat(n)' = LStat(n)
      /\ (LStat(n) # NoInode => inode'[LStat(n)] = inode[LStat(n)]
                                /\ HardLinks(LStat(n))' = HardLinks(LStat(n)))
  BY <1>1, NodeSame DEF Node
<1>3. Stat(n)' = Stat(n)
      /\ (Stat(n) # NoInode => inode'[Stat(n)] = inode[Stat(n)]
                               /\ HardLinks(Stat(n))' = HardLinks(Stat(n)))
  BY <1>1, NodeSame DEF Node
<1> QED
  BY <1>2, <1>3

\* So the fields of it are too.
LEMMA ValueSame ==
    ASSUME NEW n \in Names, View(n)' = View(n), NEW f \in BOOLEAN,
           At(n, f) # NoInode, NEW field
    PROVE  /\ At(n, f)' = At(n, f) /\ inode'[At(n, f)] = inode[At(n, f)]
           /\ Value(At(n, f), field)' = Value(At(n, f), field)
<1>1. /\ At(n, f)' = At(n, f)
      /\ inode'[At(n, f)] = inode[At(n, f)]
      /\ HardLinks(At(n, f))' = HardLinks(At(n, f))
  BY ViewSame DEF At
<1>2. PICK i : i = At(n, f)
  OBVIOUS
<1>3. inode'[i] = inode[i] /\ HardLinks(i)' = HardLinks(i)
  BY <1>1, <1>2
<1>4. Value(i, field)' = Value(i, field)
  BY <1>3 DEF Value
<1> QED
  BY <1>1, <1>2, <1>4

(***************************************************************************)
(* What a call is.                                                         *)
(***************************************************************************)
CallNames ==
    {"get", "is_path", "add_mode", "remove_mode", "set_mode", "set_times", "set_owner",
     "link", "symlink", "append", "create", "read", "unlink", "mkfifo"}

IsGet(c) ==
    \/ c.steps = <<"stat">> /\ c.follow /\ Len(c.fields) = 1
    \/ c.steps = <<"lstat">> /\ ~c.follow /\ Len(c.fields) = 1
    \/ c.steps = <<"is_sym_link", "a_stat">> /\ Len(c.fields) = 1
    \/ c.steps = <<"is_sym_link", "a_stat", "is_sym_link", "a_stat">> /\ Len(c.fields) = 2

IsOther(c) ==
    CASE c.name = "read" ->
            /\ c.steps = <<"is_file", "stat", "fopen_r", "fread">>
            /\ c.fields = <<<<"regular">>, <<"size">>, <<"data">>>>
      [] c.name \in {"add_mode", "remove_mode"} ->
            c.steps = <<"stat", "chmod">> /\ c.fields = <<<<"perms">>>>
      [] c.name = "append" -> c.steps = <<"is_path", "open", "write">>
      [] c.name = "create" -> c.steps = <<"is_file", "fopen_w", "fclose">>
      [] c.name = "mkfifo" -> c.steps = <<"is_path", "mkfifo">>
      [] c.name = "set_owner" -> c.steps = <<"is_sym_link", "a_chown">>
      [] c.name = "set_mode" -> c.steps = <<"chmod">>
      [] c.name = "set_times" -> c.steps = <<"utimensat">>
      [] OTHER -> c.steps = <<c.name>>

Facts(c) ==
    /\ {c.path, c.other} \subseteq Names /\ c.bits \subseteq Modes
    /\ {c.owner, c.group, c.atime, c.mtime} \subseteq Int /\ c.len \in Nat
    /\ {c.follow, c.flag} \subseteq BOOLEAN
    /\ c.name \in CallNames
    /\ IF c.name = "get" THEN IsGet(c) ELSE IsOther(c)
    /\ c.name \in {"read", "add_mode", "remove_mode", "set_mode", "append", "create"} =>
          c.follow

LEMMA TwoPairs ==
    ASSUME NEW a, NEW b
    PROVE  <<a, b>> \o <<a, b>> = <<a, b, a, b>>
<1>1. <<a, b>> \in Seq({a, b}) /\ <<a, b, a, b>> \in Seq({a, b})
  OBVIOUS
<1>2. <<a, b>> \o <<a, b>> \in Seq({a, b}) /\ Len(<<a, b>> \o <<a, b>>) = 4
  BY <1>1, Tuple2
<1>3. Len(<<a, b, a, b>>) = 4
  BY Tuple4
<1>4. \A k \in 1 .. 4 : k = 1 \/ k = 2 \/ k = 3 \/ k = 4
  OBVIOUS
<1>5. \A k \in 1 .. 4 : (<<a, b>> \o <<a, b>>)[k] = IF k <= 2 THEN <<a, b>>[k] ELSE <<a, b>>[k - 2]
  BY <1>1, Tuple2
<1>6. \A k \in 1 .. 4 : (<<a, b>> \o <<a, b>>)[k] = <<a, b, a, b>>[k]
  BY <1>4, <1>5
<1> QED
  BY <1>1, <1>2, <1>3, <1>6, SeqEqual

LEMMA PlainFacts ==
    ASSUME NEW c, IsCall(c)
    PROVE  Facts(c)
<1> DEFINE n == c.path
           f == c.follow
<1>1. /\ {c.path, c.other} \subseteq Names /\ c.bits \subseteq Modes
      /\ {c.owner, c.group, c.atime, c.mtime} \subseteq Int /\ c.len \in Nat
      /\ {c.follow, c.flag} \subseteq BOOLEAN
  BY DEF IsCall
<1>2. CASE \E field \in Fields : c = Getter(n, field)
  BY <1>1, <1>2 DEF Facts, Getter, Call, IsGet, CallNames
<1>3. CASE \E s \in Stamps, part \in {"seconds", "nseconds"} : c = GetStamp(n, s, part, f)
  BY <1>1, <1>3 DEF Facts, GetStamp, CallAStat, Call, IsGet, CallNames
<1>4. CASE \E s \in Stamps : c = GetBoth(n, s, f)
  <2>1. CallAStat \o CallAStat = <<"is_sym_link", "a_stat", "is_sym_link", "a_stat">>
    BY TwoPairs DEF CallAStat
  <2> QED
    BY <1>1, <1>4, <2>1 DEF Facts, GetBoth, Call, IsGet, CallNames
<1>5. CASE c \in {GetGroup(n, f), GetOwner(n, f), IsSymLink(n)}
  BY <1>1, <1>5 DEF Facts, GetGroup, GetOwner, IsSymLink, Call, IsGet, CallNames
<1>6. CASE c \in {IsPath(n), DeleteFile(n), CreateHardLink(c.other, n), CreateSymLink(c.other, n)}
  BY <1>1, <1>6 DEF Facts, IsPath, DeleteFile, CreateHardLink, CreateSymLink, Call, IsOther, CallNames
<1>7. CASE c \in {AddMode(n, c.bits), RemoveMode(n, c.bits), SetMode(n, c.bits)}
  BY <1>1, <1>7 DEF Facts, AddMode, RemoveMode, SetMode, ModeCall, Call, IsOther, CallNames
<1>8. CASE c \in {MakeNamedPipe(n, c.bits), TimesCall(n, f, c.atime, c.mtime),
                  SetOwnership(n, c.owner, c.group, f)}
  BY <1>1, <1>8 DEF Facts, MakeNamedPipe, TimesCall, SetOwnership, CallAChown, Call, IsOther, CallNames
<1>9. CASE c = AppendToFile(n, c.len, c.flag)
  <2>1. /\ c.name = "append" /\ c.follow = TRUE
        /\ c.steps = <<"is_path", "open", "write">>
    BY <1>9 DEF AppendToFile, Call
  <2>2. IsOther(c)
    BY <2>1 DEF IsOther
  <2> QED
    BY <1>1, <2>1, <2>2 DEF Facts, CallNames
<1>11. CASE c = CreateFile(n, c.len, c.flag)
  <2>1. /\ c.name = "create" /\ c.follow = TRUE
        /\ c.steps = <<"is_file", "fopen_w", "fclose">>
    BY <1>11 DEF CreateFile, Call
  <2>2. IsOther(c)
    BY <2>1 DEF IsOther
  <2> QED
    BY <1>1, <2>1, <2>2 DEF Facts, CallNames
<1>10. CASE c = ReadFile(n)
  <2>1. /\ c.name = "read" /\ c.follow = TRUE
        /\ c.steps = <<"is_file", "stat", "fopen_r", "fread">>
        /\ c.fields = <<<<"regular">>, <<"size">>, <<"data">>>>
    BY <1>10 DEF ReadFile, Call
  <2>2. IsOther(c)
    BY <2>1 DEF IsOther
  <2> QED
    BY <1>1, <2>1, <2>2 DEF Facts, CallNames
<1> QED
  BY <1>2, <1>3, <1>4, <1>5, <1>6, <1>7, <1>8, <1>9, <1>10, <1>11 DEF IsCall

\* The validity of the arguments changes nothing else about a call.
CallFields ==
    {"name", "path", "follow", "steps", "fields", "bits", "atime", "mtime", "owner", "group",
     "len", "flag", "other", "valid"}

LEMMA CallDomain ==
    ASSUME NEW c, IsCall(c)
    PROVE  DOMAIN c = CallFields
<1>1. \A name, n, follow, steps, fields :
         DOMAIN Call(name, n, follow, steps, fields) = CallFields
  BY DEF Call, CallFields
<1> DEFINE n == c.path
           f == c.follow
<1>2. CASE \E field \in Fields : c = Getter(n, field)
  BY <1>1, <1>2 DEF Getter
<1>3. CASE \E s \in Stamps, part \in {"seconds", "nseconds"} : c = GetStamp(n, s, part, f)
  BY <1>1, <1>3 DEF GetStamp
<1>4. CASE \E s \in Stamps : c = GetBoth(n, s, f)
  BY <1>1, <1>4 DEF GetBoth
<1>5. CASE c \in {GetGroup(n, f), GetOwner(n, f), IsSymLink(n)}
  BY <1>1, <1>5 DEF GetGroup, GetOwner, IsSymLink
<1>6. CASE c \in {IsPath(n), DeleteFile(n), CreateHardLink(c.other, n), CreateSymLink(c.other, n)}
  BY <1>1, <1>6 DEF IsPath, DeleteFile, CreateHardLink, CreateSymLink
<1>7. CASE c \in {AddMode(n, c.bits), RemoveMode(n, c.bits), SetMode(n, c.bits)}
  BY <1>1, <1>7 DEF AddMode, RemoveMode, SetMode, ModeCall
<1>8. CASE c \in {MakeNamedPipe(n, c.bits), TimesCall(n, f, c.atime, c.mtime),
                  SetOwnership(n, c.owner, c.group, f)}
  BY <1>1, <1>8 DEF MakeNamedPipe, TimesCall, SetOwnership
<1>9. CASE c \in {AppendToFile(n, c.len, c.flag), CreateFile(n, c.len, c.flag), ReadFile(n)}
  BY <1>1, <1>9 DEF AppendToFile, CreateFile, ReadFile
<1> QED
  BY <1>2, <1>3, <1>4, <1>5, <1>6, <1>7, <1>8, <1>9 DEF IsCall

LEMMA CallFacts ==
    ASSUME NEW c, IsCall([c EXCEPT !.valid = TRUE])
    PROVE  Facts(c)
<1> DEFINE d == [c EXCEPT !.valid = TRUE]
<1>1. Facts(d) /\ DOMAIN d = CallFields
  BY PlainFacts, CallDomain
<1>2. \A x \in CallFields \ {"valid"} : c[x] = d[x]
  BY <1>1
<1>3. /\ c.name = d.name /\ c.path = d.path /\ c.follow = d.follow /\ c.steps = d.steps
      /\ c.fields = d.fields /\ c.bits = d.bits /\ c.atime = d.atime /\ c.mtime = d.mtime
      /\ c.owner = d.owner /\ c.group = d.group /\ c.len = d.len /\ c.flag = d.flag
      /\ c.other = d.other
  BY <1>2 DEF CallFields
<1> HIDE DEF d
<1> QED
  BY <1>1, <1>3 DEF Facts, IsGet, IsOther

(***************************************************************************)
(* The initial state.                                                      *)
(***************************************************************************)
LEMMA InitTypeOK == Init => TypeOK /\ CellsInv
<1> SUFFICES ASSUME Init PROVE TypeOK /\ CellsInv
  OBVIOUS
<1>1. PICK s \in Scenes[scene].starts : dir = s.dir /\ inode = s.inode
  BY DEF Init
<1>2. IsDisk(s) /\ Somebody \notin Procs
  BY <1>1, PathCallsBounds DEF Init
<1>3. /\ dir \in [Names -> Inodes \cup {NoInode}]
      /\ inode \in [Inodes -> Inode(Cells({Somebody}))]
  BY <1>1, <1>2 DEF IsDisk
<1>4. Seq(Cells({Somebody})) \subseteq Seq(Cells(Writers))
  <2>1. Cells({Somebody}) \subseteq Cells(Writers)
    BY DEF Cells, Writers
  <2> QED
    BY <2>1, SeqMonotonic
<1>5. inode \in [Inodes -> AnyInode]
  BY <1>3, <1>4 DEF AnyInode, Inode
<1>6. now \in Nat
  BY FileSystemBounds DEF Init
<1>7. PICK n \in Names : n = CHOOSE m \in Names : TRUE
  BY FileSystemBounds
<1>8. IsCall([IsPath(n) EXCEPT !.valid = TRUE])
  <2>1. [IsPath(n) EXCEPT !.valid = TRUE] = IsPath(n)
    <3>1. PICK d : d = IsPath(n)
      OBVIOUS
    <3>2. d = [x \in DOMAIN d |-> d[x]] /\ d["valid"] = TRUE
      BY <3>1 DEF IsPath, Call
    <3>3. [d EXCEPT !.valid = TRUE] = d
      BY <3>2
    <3> QED
      BY <3>1, <3>3
  <2>2. /\ IsPath(n).path = n /\ IsPath(n).other = n /\ IsPath(n).bits = {}
        /\ {IsPath(n).owner, IsPath(n).group, IsPath(n).atime, IsPath(n).mtime} \subseteq Int
        /\ IsPath(n).len \in Nat
        /\ {IsPath(n).follow, IsPath(n).flag, IsPath(n).valid} \subseteq BOOLEAN
    BY DEF IsPath, Call, Omit
  <2> QED
    BY <2>1, <2>2 DEF IsCall
<1>9. \A p \in Procs : IsCall([call[p] EXCEPT !.valid = TRUE])
  BY <1>7, <1>8 DEF Init
<1>10. TypeOK
  BY <1>3, <1>5, <1>6, <1>9 DEF Init, TypeOK, Errno, NoInode
<1>11. CellsInv
  <2> SUFFICES ASSUME NEW i \in Inodes, NEW k \in DOMAIN inode[i].data
               PROVE  inode[i].data[k][1] \notin Procs
    BY DEF CellsInv
  <2>1. inode[i].data \in Seq(Cells({Somebody}))
    BY <1>3 DEF Inode
  <2>2. inode[i].data[k] \in Cells({Somebody})
    BY <2>1
  <2> QED
    BY <1>2, <2>2 DEF Cells
<1> QED
  BY <1>10, <1>11

LEMMA InitIInv == Init => IInv
<1> SUFFICES ASSUME Init PROVE IInv
  OBVIOUS
<1> SUFFICES ASSUME NEW p \in Procs PROVE ProcInv(p)
  BY InitTypeOK DEF IInv
<1>1. call[p].name = "is_path"
  BY DEF Init, IsPath, Call
<1>2. todo[p] = << >> /\ got[p] = << >> /\ calls[p] = 0
  BY DEF Init
<1>3. CallInv(p)
  <2>1. Len(got[p]) = 0 /\ got[p] = [k \in 1 .. 0 |-> got[p][k]]
    BY <1>2
  <2> QED
    BY <1>2, <2>1, Tuple1 DEF CallInv, Returned
<1>4. ReadInv(p) /\ ModeInv(p) /\ AppendInv(p)
  BY <1>1 DEF ReadInv, ModeInv, AppendInv
<1>5. LinkInv(p)
  BY <1>2 DEF LinkInv, Looked
<1> QED
  BY <1>3, <1>4, <1>5 DEF ProcInv

(***************************************************************************)
(* A step of one process.                                                  *)
(***************************************************************************)
\* It leaves what the other processes keep to themselves alone.
Kept(q) ==
    /\ call'[q] = call[q] /\ todo'[q] = todo[q] /\ sym'[q] = sym[q] /\ got'[q] = got[q]
    /\ fd'[q] = fd[q] /\ moved'[q] = moved[q] /\ result'[q] = result[q]
    /\ calls'[q] = calls[q]

LEMMA ReturnsMine ==
    ASSUME TypeOK, NEW p \in Procs, NEW errno \in Errno, Returns(p, errno)
    PROVE  /\ \A q \in Procs \ {p} :
                 todo'[q] = todo[q] /\ fd'[q] = fd[q] /\ result'[q] = result[q]
           /\ todo' = [q \in Procs |-> todo'[q]] /\ todo'[p] = << >>
           /\ fd' \in [Procs -> Inodes \cup {NoInode}] /\ result' \in [Procs -> Errno]
           /\ result'[p] = errno /\ fd'[p] = NoInode
  BY DEF TypeOK, Returns

LEMMA ProceedsMine ==
    ASSUME TypeOK, NEW p \in Procs, Proceeds(p)
    PROVE  /\ \A q \in Procs \ {p} :
                 todo'[q] = todo[q] /\ fd'[q] = fd[q] /\ result'[q] = result[q]
           /\ todo' = [q \in Procs |-> todo'[q]]
           /\ fd' \in [Procs -> Inodes \cup {NoInode}] /\ result' \in [Procs -> Errno]
           /\ Len(todo[p]) = 1 => todo'[p] = << >> /\ result'[p] = "ENOERR"
           /\ Len(todo[p]) # 1 => todo'[p] = Tail(todo[p]) /\ fd' = fd /\ result' = result
<1> "ENOERR" \in Errno
  BY DEF Errno
<1>1. CASE Len(todo[p]) = 1
  BY <1>1, ReturnsMine DEF Proceeds
<1>2. CASE Len(todo[p]) # 1
  BY <1>2 DEF TypeOK, Proceeds
<1> QED
  BY <1>1, <1>2

LEMMA GetsMine ==
    ASSUME TypeOK, NEW p \in Procs, NEW v, Gets(p, v)
    PROVE  /\ \A q \in Procs \ {p} : got'[q] = got[q]
           /\ got' = [q \in Procs |-> got'[q]]
           /\ got'[p] = Append(got[p], v)
  BY DEF TypeOK, Gets

\* The call that a process makes, and where it is in it.
LEMMA FactsOfCall ==
    ASSUME IInv, NEW p \in Procs
    PROVE  Facts(call[p])
  BY CallFacts DEF IInv, TypeOK

\* What is left of a call, by the system call that comes next.
LEMMA GetsNext ==
    ASSUME IInv, NEW p \in Procs, call[p].name = "get", todo[p] # << >>
    PROVE  \/ At1(p, "validate") /\ todo[p] = <<"validate">>
           \/ At1(p, "stat") /\ todo[p] = <<"stat">> /\ GetsLeft(p)
           \/ At1(p, "lstat") /\ todo[p] = <<"lstat">> /\ GetsLeft(p)
           \/ At1(p, "is_sym_link") /\ todo[p] = <<"is_sym_link", "a_stat">> /\ GetsLeft(p)
           \/ At1(p, "a_stat") /\ todo[p] = <<"a_stat">> /\ GetsLeft(p)
           \/ /\ At1(p, "is_sym_link") /\ GetsLeft(p)
              /\ todo[p] = <<"is_sym_link", "a_stat", "is_sym_link", "a_stat">>
           \/ /\ At1(p, "a_stat") /\ GetsLeft(p)
              /\ todo[p] = <<"a_stat", "is_sym_link", "a_stat">>
<1>1. todo[p] = <<"validate">> \/ GetsLeft(p)
  BY DEF IInv, ProcInv, CallInv, Under
<1>2. todo[p] \in {<<"validate">>, <<"stat">>, <<"lstat">>, <<"is_sym_link", "a_stat">>,
                   <<"a_stat">>, <<"is_sym_link", "a_stat", "is_sym_link", "a_stat">>,
                   <<"a_stat", "is_sym_link", "a_stat">>}
  BY <1>1 DEF GetsLeft, Left
<1>3. \A s \in {"validate", "stat", "lstat", "a_stat"} : Head(<<s>>) = s
  BY Tuple1
<1>4. /\ Head(<<"is_sym_link", "a_stat">>) = "is_sym_link"
      /\ Head(<<"is_sym_link", "a_stat", "is_sym_link", "a_stat">>) = "is_sym_link"
      /\ Head(<<"a_stat", "is_sym_link", "a_stat">>) = "a_stat"
  BY Tuple2, Tuple3, Tuple4
<1>5. todo[p] # <<"validate">> => GetsLeft(p)
  BY <1>1
<1> HIDE DEF IInv
<1> QED
  BY <1>2, <1>3, <1>4, <1>5 DEF At1

LEMMA OthersNext ==
    ASSUME IInv, NEW p \in Procs, call[p].name # "get", todo[p] # << >>
    PROVE  \/ At1(p, "validate") /\ todo[p] = <<"validate">>
           \/ /\ call[p].name = "read" /\ ReadsLeft(p)
              /\ \/ At1(p, "is_file") /\ todo[p] = <<"is_file", "stat", "fopen_r", "fread">>
                 \/ At1(p, "stat") /\ todo[p] = <<"stat", "fopen_r", "fread">>
                 \/ At1(p, "fopen_r") /\ todo[p] = <<"fopen_r", "fread">>
                 \/ At1(p, "fread") /\ todo[p] = <<"fread">>
           \/ /\ call[p].name \in {"add_mode", "remove_mode"} /\ ModeLeft(p)
              /\ \/ At1(p, "stat") /\ todo[p] = <<"stat", "chmod">>
                 \/ At1(p, "chmod") /\ todo[p] = <<"chmod">>
           \/ /\ call[p].name = "append" /\ AppendLeft(p)
              /\ \/ At1(p, "is_path") /\ todo[p] = <<"is_path", "open", "write">>
                 \/ At1(p, "open") /\ todo[p] = <<"open", "write">>
                 \/ At1(p, "write") /\ todo[p] = <<"write">>
           \/ /\ call[p].name = "create" /\ CreateLeft(p)
              /\ \/ At1(p, "is_file") /\ todo[p] = <<"is_file", "fopen_w", "fclose">>
                 \/ At1(p, "fopen_w") /\ todo[p] = <<"fopen_w", "fclose">>
                 \/ At1(p, "fclose") /\ todo[p] = <<"fclose">>
           \/ /\ call[p].name = "mkfifo"
              /\ \/ At1(p, "is_path") /\ todo[p] = <<"is_path", "mkfifo">>
                 \/ At1(p, "mkfifo") /\ todo[p] = <<"mkfifo">>
           \/ /\ call[p].name = "set_owner"
              /\ \/ At1(p, "is_sym_link") /\ todo[p] = <<"is_sym_link", "a_chown">>
                 \/ At1(p, "a_chown") /\ todo[p] = <<"a_chown">>
           \/ call[p].name = "set_mode" /\ At1(p, "chmod") /\ todo[p] = <<"chmod">>
           \/ call[p].name = "set_times" /\ At1(p, "utimensat") /\ todo[p] = <<"utimensat">>
           \/ /\ call[p].name \in {"is_path", "link", "symlink", "unlink"}
              /\ At1(p, call[p].name) /\ todo[p] = <<call[p].name>>
<1>1. todo[p] = <<"validate">> \/ Under(p)
  BY DEF IInv, ProcInv, CallInv
<1>2. call[p].name \in CallNames
  BY FactsOfCall DEF Facts
<1>3. \A s : Head(<<s>>) = s
  BY Tuple1
<1>4. \A s, t : Head(<<s, t>>) = s
  BY Tuple2
<1>5. \A s, t, u : Head(<<s, t, u>>) = s
  BY Tuple3
<1>6. \A s, t, u, v : Head(<<s, t, u, v>>) = s
  BY Tuple4
<1>7. CASE todo[p] = <<"validate">>
  BY <1>3, <1>7 DEF At1
<1>8. CASE call[p].name = "read" /\ Under(p)
  <2>1. ReadsLeft(p)
    BY <1>8 DEF Under
  <2> QED
    BY <1>3, <1>4, <1>5, <1>6, <1>8, <2>1 DEF At1, ReadsLeft, Left
<1>9. CASE call[p].name \in {"add_mode", "remove_mode"} /\ Under(p)
  <2>1. ModeLeft(p)
    BY <1>9 DEF Under
  <2> QED
    BY <1>3, <1>4, <1>9, <2>1 DEF At1, ModeLeft, Left
<1>10. CASE call[p].name = "append" /\ Under(p)
  <2>1. AppendLeft(p)
    BY <1>10 DEF Under
  <2> QED
    BY <1>3, <1>4, <1>5, <1>10, <2>1 DEF At1, AppendLeft, Left
<1>11. CASE call[p].name = "create" /\ Under(p)
  <2>1. CreateLeft(p)
    BY <1>11 DEF Under
  <2> QED
    BY <1>3, <1>4, <1>5, <1>11, <2>1 DEF At1, CreateLeft, Left
<1>12. CASE call[p].name \in {"mkfifo", "set_owner"} /\ Under(p)
  BY <1>3, <1>4, <1>12 DEF At1, Under
<1>13. CASE call[p].name \in {"set_mode", "set_times"} /\ Under(p)
  BY <1>3, <1>13 DEF At1, Under
<1>14. CASE call[p].name \in {"is_path", "link", "symlink", "unlink"} /\ Under(p)
  <2>1. todo[p] = <<call[p].name>>
    BY <1>14 DEF Under
  <2> QED
    BY <1>3, <1>14, <2>1 DEF At1
<1> QED
  BY <1>1, <1>2, <1>7, <1>8, <1>9, <1>10, <1>11, <1>12, <1>13, <1>14 DEF CallNames

(***************************************************************************)
(* Contents.                                                               *)
(***************************************************************************)
LEMMA MessageType ==
    ASSUME IInv, NEW p \in Procs
    PROVE  /\ Message(p) \in Seq(Cells(Writers)) /\ Len(Message(p)) = call[p].len
           /\ \A k \in 1 .. call[p].len : Message(p)[k] = <<p, calls[p], k>>
<1>1. call[p].len \in Nat /\ calls[p] \in Nat
  BY FactsOfCall DEF Facts, IInv, TypeOK
<1>2. \A k \in 1 .. call[p].len : <<p, calls[p], k>> \in Cells(Writers)
  BY <1>1 DEF Cells, Writers
<1>3. Message(p) \in [1 .. call[p].len -> Cells(Writers)]
  BY <1>2 DEF Message
<1>4. Message(p) \in Seq(Cells(Writers)) /\ Len(Message(p)) = call[p].len
  BY <1>1, <1>3, FunIsSeq
<1> QED
  BY <1>4 DEF Message

\* A write(2) at the end of a file adds what it writes.
LEMMA AddedCells ==
    ASSUME NEW S, NEW data \in Seq(S), NEW msg \in Seq(S), NEW a \in Nat, NEW k \in Nat,
           a + k <= Len(msg)
    PROVE  /\ Len(data \o SubSeq(msg, a + 1, a + k)) = Len(data) + k
           /\ \A j \in 1 .. Len(data) + k : (data \o SubSeq(msg, a + 1, a + k))[j] =
                 IF j <= Len(data) THEN data[j] ELSE msg[a + j - Len(data)]
<1> DEFINE new == SubSeq(msg, a + 1, a + k)
<1>1. new \in Seq(S) /\ Len(new) = k
  OBVIOUS
<1>2. \A j \in 1 .. k : new[j] = msg[a + j]
  OBVIOUS
<1> HIDE DEF new
<1>3. /\ Len(data \o new) = Len(data) + k
      /\ \A j \in 1 .. Len(data) + k :
            (data \o new)[j] = IF j <= Len(data) THEN data[j] ELSE new[j - Len(data)]
  BY <1>1, ConcatProperties
<1>4. \A j \in 1 .. Len(data) + k : j > Len(data) => new[j - Len(data)] = msg[a + j - Len(data)]
  <2> SUFFICES ASSUME NEW j \in 1 .. Len(data) + k, j > Len(data)
               PROVE  new[j - Len(data)] = msg[a + j - Len(data)]
    OBVIOUS
  <2>1. j - Len(data) \in 1 .. k /\ a + (j - Len(data)) = a + j - Len(data)
    OBVIOUS
  <2> QED
    BY <1>2, <2>1
<1>5. \A j \in 1 .. Len(data) + k : (data \o new)[j] =
         IF j <= Len(data) THEN data[j] ELSE msg[a + j - Len(data)]
  <2> TAKE j \in 1 .. Len(data) + k
  <2>1. CASE j <= Len(data)
    BY <1>3, <2>1
  <2>2. CASE j > Len(data)
    BY <1>3, <1>4, <2>2
  <2>3. j <= Len(data) \/ j > Len(data)
    OBVIOUS
  <2> QED
    BY <2>1, <2>2, <2>3, Zenon
<1> QED
  BY <1>3, <1>5 DEF new

LEMMA AddsAtEnd ==
    ASSUME NEW S, NEW data \in Seq(S), NEW msg \in Seq(S), NEW a \in Nat, NEW k \in Nat,
           a + k <= Len(msg)
    PROVE  /\ SubSeq(data, 1, Len(data)) \o SubSeq(msg, a + 1, a + k)
                 \o SubSeq(data, Len(data) + k + 1, Len(data))
              = data \o SubSeq(msg, a + 1, a + k)
           /\ data \o SubSeq(msg, a + 1, a + k) \in Seq(S)
<1> DEFINE new == SubSeq(msg, a + 1, a + k)
<1>1. new \in Seq(S)
  OBVIOUS
<1>2. SubSeq(data, 1, Len(data)) = data
  BY SubSeqFull
<1>3. SubSeq(data, Len(data) + k + 1, Len(data)) = << >>
  OBVIOUS
<1> HIDE DEF new
<1>4. data \o new \in Seq(S)
  BY <1>1
<1>5. data \o new \o << >> = data \o new
  BY <1>4, ConcatEmptySeq
<1>6. SubSeq(data, 1, Len(data)) \o new \o SubSeq(data, Len(data) + k + 1, Len(data)) = data \o new
  BY <1>2, <1>3, <1>5
<1> QED
  BY <1>4, <1>6 DEF new

\* A write(2) at the beginning of it overwrites what is there.
LEMMA WritesOver ==
    ASSUME NEW S, NEW data \in Seq(S), NEW msg \in Seq(S),
           NEW new, new = msg \o SubSeq(data, Len(msg) + 1, Len(data))
    PROVE  /\ new \in Seq(S)
           /\ \A j \in DOMAIN new : \/ j \in 1 .. Len(msg) /\ new[j] = msg[j]
                                    \/ j \in DOMAIN data /\ new[j] = data[j]
<1> DEFINE rest == SubSeq(data, Len(msg) + 1, Len(data))
<1>1. CASE Len(msg) >= Len(data)
  <2>1. rest = << >>
    BY <1>1
  <2>2. msg \o rest = msg
    BY <2>1, ConcatEmptySeq
  <2> QED
    BY <2>2
<1>2. CASE Len(msg) < Len(data)
  <2>1. rest \in Seq(S) /\ Len(rest) = Len(data) - Len(msg)
        /\ \A j \in 1 .. Len(data) - Len(msg) : rest[j] = data[Len(msg) + j]
    BY <1>2
  <2> HIDE DEF rest
  <2>2. /\ msg \o rest \in Seq(S) /\ Len(msg \o rest) = Len(data)
        /\ \A j \in 1 .. Len(data) :
              (msg \o rest)[j] = IF j <= Len(msg) THEN msg[j] ELSE rest[j - Len(msg)]
    BY <1>2, <2>1, ConcatProperties
  <2>3. \A j \in 1 .. Len(data) : j > Len(msg) => rest[j - Len(msg)] = data[j]
    BY <2>1
  <2> QED
    BY <2>2, <2>3 DEF rest
<1> QED
  BY <1>1, <1>2

(***************************************************************************)
(* What a step does to the files, and that it keeps the types.             *)
(***************************************************************************)
FsTyped ==
    /\ dir' \in [Names -> Inodes \cup {NoInode}]
    /\ inode' \in [Inodes -> AnyInode]
    /\ now' \in Nat

SameFile(j) == inode'[j].kind = inode[j].kind /\ inode'[j].data = inode[j].data

\* The file is emptied or overwritten by p, and who appended to it knows.
Clobbers(p, j) ==
    /\ AppendersTo(j) \subseteq clobbered'
    /\ \A k \in DOMAIN inode'[j].data :
          \/ \E h \in DOMAIN inode[j].data : inode'[j].data[k] = inode[j].data[h]
          \/ /\ call[p].name = "create"
             /\ inode'[j].data[k][1] = p /\ inode'[j].data[k][2] = calls[p]

AddsTo(p, j) ==
    /\ At1(p, "write") /\ j = fd[p] /\ inode'[j].kind = inode[j].kind
    /\ inode'[j].data = inode[j].data \o SubSeq(Message(p), moved[p] + 1, moved'[p])

FileEffect(p) == \A j \in Inodes : SameFile(j) \/ Clobbers(p, j) \/ AddsTo(p, j)

LEMMA StampType ==
    ASSUME TypeOK, NEW i \in Inodes, NEW w
    PROVE  /\ Stamp(inode[i], w) \in AnyInode
           /\ Stamp(inode[i], w).kind = inode[i].kind /\ Stamp(inode[i], w).data = inode[i].data
           /\ Stamp(inode[i], w).perms = inode[i].perms
           /\ Stamp(inode[i], w).owner = inode[i].owner
           /\ Stamp(inode[i], w).group = inode[i].group
           /\ Stamp(inode[i], w).target = inode[i].target
           /\ Stamp(inode[i], w).times \in [Stamps -> Int]
<1>1. inode[i] \in AnyInode /\ now \in Int
  BY DEF TypeOK
<1>2. [s \in Stamps |-> IF s \in w THEN now ELSE inode[i].times[s]] \in [Stamps -> Int]
  BY <1>1 DEF AnyInode, Inode
<1> QED
  BY <1>1, <1>2 DEF Stamp, AnyInode, Inode

LEMMA ChangeEffect ==
    ASSUME TypeOK, NEW i \in Inodes, NEW new \in AnyInode, ChangeInode(i, new)
    PROVE  /\ FsTyped /\ inode'[i] = new /\ \A j \in Inodes \ {i} : inode'[j] = inode[j]
           /\ dir' = dir
  BY DEF TypeOK, ChangeInode, FsTyped

LEMMA BindEffect ==
    ASSUME TypeOK, NEW n \in Names, NEW i \in Inodes, NEW new \in AnyInode, Bind(n, i, new)
    PROVE  FsTyped /\ inode'[i] = new /\ \A j \in Inodes \ {i} : inode'[j] = inode[j]
  BY DEF TypeOK, Bind, FsTyped

LEMMA NewInodeType ==
    ASSUME TypeOK, NEW kind \in {"regular", "symlink", "fifo"}, NEW n \in Names
    PROVE  /\ NewInode(kind, n, << >>) \in AnyInode /\ NewInode(kind, n, << >>).data = << >>
           /\ \A bits \in SUBSET Modes :
                 /\ [NewInode(kind, n, << >>) EXCEPT !.perms = bits] \in AnyInode
                 /\ [NewInode(kind, n, << >>) EXCEPT !.perms = bits].data = << >>
<1>1. << >> \in Seq(Cells(Writers)) /\ [s \in Stamps |-> now] \in [Stamps -> Int]
  BY EmptySeq DEF TypeOK
<1>2. NewInode(kind, n, << >>) \in AnyInode /\ NewInode(kind, n, << >>).data = << >>
  BY <1>1 DEF NewInode, AnyInode, Inode
<1>3. \A i \in AnyInode : \A bits \in SUBSET Modes :
         [i EXCEPT !.perms = bits] \in AnyInode /\ [i EXCEPT !.perms = bits].data = i.data
  BY DEF AnyInode, Inode
<1> QED
  BY <1>2, <1>3

\* What a step leaves of the types, apart from the file system.
Typed ==
    /\ call' = [q \in Procs |-> call'[q]] /\ todo' = [q \in Procs |-> todo'[q]]
    /\ got' = [q \in Procs |-> got'[q]]
    /\ sym' \in [Procs -> BOOLEAN]
    /\ fd' \in [Procs -> Inodes \cup {NoInode}]
    /\ moved' \in [Procs -> Nat]
    /\ result' \in [Procs -> Errno]
    /\ calls' \in [Procs -> Nat]
    /\ errors' \in Nat
    /\ clobbered' \subseteq Procs /\ clobbered \subseteq clobbered'

\* A step within a call.
Within(p) ==
    /\ FsTyped /\ Typed /\ FileEffect(p)
    /\ \A q \in Procs \ {p} : Kept(q)
    /\ call' = call /\ calls' = calls

\* A step that only looks.
LEMMA LooksWithin ==
    ASSUME TypeOK, NEW p \in Procs, UNCHANGED <<fs, call, moved, calls, clobbered>>,
           errors' \in Nat,
           UNCHANGED sym \/ \E b \in BOOLEAN : sym' = [sym EXCEPT ![p] = b],
           UNCHANGED got \/ \E v : Gets(p, v),
           Proceeds(p) \/ \E errno \in Errno : Returns(p, errno)
    PROVE  Within(p)
<1>1. FsTyped /\ FileEffect(p)
  BY DEF TypeOK, fs, FsTyped, FileEffect, SameFile
<1>2. /\ sym' \in [Procs -> BOOLEAN]
      /\ \A q \in Procs \ {p} : sym'[q] = sym[q]
  BY DEF TypeOK
<1>3. /\ got' = [q \in Procs |-> got'[q]]
      /\ \A q \in Procs \ {p} : got'[q] = got[q]
  BY GetsMine DEF TypeOK
<1>4. /\ todo' = [q \in Procs |-> todo'[q]]
      /\ fd' \in [Procs -> Inodes \cup {NoInode}] /\ result' \in [Procs -> Errno]
      /\ \A q \in Procs \ {p} : todo'[q] = todo[q] /\ fd'[q] = fd[q] /\ result'[q] = result[q]
  BY ReturnsMine, ProceedsMine
<1> QED
  BY <1>1, <1>2, <1>3, <1>4 DEF Within, Typed, Kept, TypeOK

LEMMA LookingWithin ==
    ASSUME IInv, NEW p \in Procs,
           \/ Refuses(p) \/ LooksAtLink(p) \/ CallsAStat(p) \/ CallsStat(p) \/ CallsLStat(p)
           \/ ChecksPath(p) \/ ChecksFile(p) \/ ReadsStream(p) \/ Fails(p)
    PROVE  Within(p) /\ fs' = fs
<1> USE DEF Errno
<1>1. TypeOK /\ errors \in Nat
  BY DEF IInv, TypeOK
<1>2. CASE Refuses(p)
  BY <1>1, <1>2, LooksWithin DEF Refuses, Looks
<1>3. CASE LooksAtLink(p)
  BY <1>1, <1>3, LooksWithin DEF LooksAtLink, Looks
<1>4. CASE CallsAStat(p) \/ CallsStat(p) \/ CallsLStat(p)
  <2>1. PICK i : Reads(p, i)
    BY <1>4 DEF CallsAStat, CallsStat, CallsLStat
  <2> QED
    BY <1>1, <2>1, LooksWithin DEF Reads, Looks
<1>5. CASE ChecksPath(p)
  BY <1>1, <1>5, LooksWithin DEF ChecksPath, Looks
<1>6. CASE ChecksFile(p)
  BY <1>1, <1>6, LooksWithin DEF ChecksFile, Looks
<1>7. CASE ReadsStream(p)
  BY <1>1, <1>7, LooksWithin DEF ReadsStream, Looks
<1>8. CASE Fails(p)
  <2>1. UNCHANGED <<fs, call, sym, moved, calls, clobbered>> /\ errors' \in Nat
    BY <1>1, <1>8 DEF Fails
  <2>3. UNCHANGED got \/ Gets(p, FALSE)
    BY <1>8 DEF Fails, FailsToStat
  <2>2. Proceeds(p) \/ \E errno \in Errno : Returns(p, errno)
    BY <1>8 DEF Fails, FailsToStat
  <2> QED
    BY <1>1, <2>1, <2>2, <2>3, LooksWithin
<1> QED
  BY <1>2, <1>3, <1>4, <1>5, <1>6, <1>7, <1>8 DEF Looks, Refuses, LooksAtLink, CallsAStat,
     CallsStat, CallsLStat, Reads, ChecksPath, ChecksFile, ReadsStream, Fails

\* chmod(2), utimensat(2) and chown(2) leave kinds and contents alone.
LEMMA ChangesWithin ==
    ASSUME IInv, NEW p \in Procs, NEW i \in Inodes \cup {NoInode}, NEW new, Changes(p, i, new),
           i # NoInode => /\ new \in AnyInode
                          /\ new.kind = inode[i].kind /\ new.data = inode[i].data
    PROVE  Within(p) /\ \A j \in Inodes : j # i => inode'[j] = inode[j]
<1> USE DEF Errno
<1>1. TypeOK
  BY DEF IInv
<1>2. CASE i = NoInode
  <2>1. Within(p)
    BY <1>1, <1>2, LooksWithin DEF Changes, TypeOK
  <2> QED
    BY <1>2, <2>1 DEF Changes, fs
<1>3. CASE i # NoInode
  <2>1. ChangeInode(i, new) /\ Proceeds(p)
        /\ UNCHANGED <<call, sym, got, moved, calls, errors, clobbered>>
    BY <1>3 DEF Changes
  <2>2. FsTyped /\ inode'[i] = new /\ \A j \in Inodes \ {i} : inode'[j] = inode[j]
    BY <1>1, <1>3, <2>1, ChangeEffect
  <2>3. FileEffect(p)
    BY <1>3, <2>2 DEF FileEffect, SameFile
  <2>4. /\ todo' = [q \in Procs |-> todo'[q]]
        /\ fd' \in [Procs -> Inodes \cup {NoInode}] /\ result' \in [Procs -> Errno]
        /\ \A q \in Procs \ {p} : todo'[q] = todo[q] /\ fd'[q] = fd[q] /\ result'[q] = result[q]
    BY <1>1, <2>1, ProceedsMine
  <2>5. Within(p)
    BY <1>1, <2>1, <2>2, <2>3, <2>4 DEF Within, Typed, Kept, TypeOK
  <2> QED
    BY <2>2, <2>5
<1> QED
  BY <1>2, <1>3

LEMMA ChmodsWithin ==
    ASSUME IInv, NEW p \in Procs, Chmods(p)
    PROVE  /\ Within(p)
           /\ \A j \in Inodes : j # Stat(call[p].path) => inode'[j] = inode[j]
<1>1. TypeOK /\ call[p].path \in Names /\ call[p].bits \in SUBSET Modes
  BY FactsOfCall DEF Facts, IInv
<1>2. PICK i \in Inodes \cup {NoInode} : i = Stat(call[p].path)
  BY <1>1, InodesThere
<1>3. NewMode(p) \in SUBSET Modes
  <2>1. todo[p] = <<"chmod">>
    BY OthersNext, GetsNext DEF Chmods, At1
  <2>2. call[p].name \in {"add_mode", "remove_mode"} => got[p][1] \in SUBSET Modes
    BY <2>1 DEF IInv, ProcInv, ModeInv
  <2> QED
    BY <1>1, <2>2 DEF NewMode
<1>4. PICK new : new = [Stamp(inode[i], {"ctime"}) EXCEPT !.perms = NewMode(p)]
  OBVIOUS
<1>5. i # NoInode => /\ new \in AnyInode
                     /\ new.kind = inode[i].kind /\ new.data = inode[i].data
  <2> SUFFICES ASSUME i \in Inodes
               PROVE  /\ new \in AnyInode
                      /\ new.kind = inode[i].kind /\ new.data = inode[i].data
    BY <1>2
  <2>1. PICK old : old = Stamp(inode[i], {"ctime"})
    OBVIOUS
  <2>2. old \in AnyInode /\ old.kind = inode[i].kind /\ old.data = inode[i].data
    BY <1>1, <2>1, StampType
  <2> QED
    BY <1>3, <1>4, <2>1, <2>2 DEF AnyInode, Inode
<1>6. Changes(p, i, new)
  BY <1>2, <1>4 DEF Chmods
<1> QED
  BY <1>2, <1>5, <1>6, ChangesWithin

LEMMA UtimensatsWithin ==
    ASSUME IInv, NEW p \in Procs, Utimensats(p)
    PROVE  /\ Within(p)
           /\ \A j \in Inodes : j # At(call[p].path, call[p].follow) => inode'[j] = inode[j]
<1>1. TypeOK /\ call[p].path \in Names /\ call[p].follow \in BOOLEAN
      /\ call[p].atime \in Int /\ call[p].mtime \in Int
  BY FactsOfCall DEF Facts, IInv
<1>2. PICK i \in Inodes \cup {NoInode} : i = At(call[p].path, call[p].follow)
  BY <1>1, InodesThere
<1>3. PICK old : old = Stamp(inode[i], {"ctime"})
  OBVIOUS
<1>4. PICK new : new = [old EXCEPT !.times["atime"] = NewStamp(call[p].atime, @),
                                   !.times["mtime"] = NewStamp(call[p].mtime, @)]
  OBVIOUS
<1>5. i # NoInode => /\ new \in AnyInode
                     /\ new.kind = inode[i].kind /\ new.data = inode[i].data
  <2> SUFFICES ASSUME i \in Inodes
               PROVE  /\ new \in AnyInode
                      /\ new.kind = inode[i].kind /\ new.data = inode[i].data
    BY <1>2
  <2>1. old \in AnyInode /\ old.kind = inode[i].kind /\ old.data = inode[i].data
    BY <1>1, <1>3, StampType
  <2>2. \A t \in Int : NewStamp(call[p].atime, t) \in Int /\ NewStamp(call[p].mtime, t) \in Int
    BY <1>1 DEF NewStamp, TypeOK
  <2>3. "atime" \in Stamps /\ "mtime" \in Stamps
    BY DEF Stamps
  <2>4. old.times \in [Stamps -> Int]
    BY <2>1 DEF AnyInode, Inode
  <2>5. PICK mid : mid = [old EXCEPT !.times["atime"] = NewStamp(call[p].atime, @)]
    OBVIOUS
  <2>6. mid \in AnyInode /\ mid.kind = old.kind /\ mid.data = old.data
    BY <2>1, <2>2, <2>3, <2>4, <2>5 DEF AnyInode, Inode
  <2>7. mid.times \in [Stamps -> Int]
    BY <2>6 DEF AnyInode, Inode
  <2>8. new = [mid EXCEPT !.times["mtime"] = NewStamp(call[p].mtime, @)]
    BY <1>4, <2>5
  <2>9. new \in AnyInode /\ new.kind = mid.kind /\ new.data = mid.data
    BY <2>2, <2>3, <2>6, <2>7, <2>8 DEF AnyInode, Inode
  <2> QED
    BY <2>1, <2>6, <2>9
<1>6. Changes(p, i, new)
  BY <1>2, <1>3, <1>4 DEF Utimensats
<1> QED
  BY <1>2, <1>5, <1>6, ChangesWithin

LEMMA ChownsWithin ==
    ASSUME IInv, NEW p \in Procs, Chowns(p)
    PROVE  /\ Within(p)
           /\ \A j \in Inodes : j # At(call[p].path, Follows(p)) => inode'[j] = inode[j]
<1>1. TypeOK /\ call[p].path \in Names /\ call[p].owner \in Int /\ call[p].group \in Int
  BY FactsOfCall DEF Facts, IInv
<1>2. PICK i \in Inodes \cup {NoInode} : i = At(call[p].path, Follows(p))
  BY <1>1, InodesThere DEF Follows
<1>3. PICK old : old = Stamp(inode[i], {"ctime"})
  OBVIOUS
<1>4. PICK new : new = [old EXCEPT !.owner = NewId(call[p].owner, @),
                                   !.group = NewId(call[p].group, @)]
  OBVIOUS
<1>5. i # NoInode => /\ new \in AnyInode
                     /\ new.kind = inode[i].kind /\ new.data = inode[i].data
  <2> SUFFICES ASSUME i \in Inodes
               PROVE  /\ new \in AnyInode
                      /\ new.kind = inode[i].kind /\ new.data = inode[i].data
    BY <1>2
  <2>1. old \in AnyInode /\ old.kind = inode[i].kind /\ old.data = inode[i].data
    BY <1>1, <1>3, StampType
  <2>2. \A t \in Int : NewId(call[p].owner, t) \in Int /\ NewId(call[p].group, t) \in Int
    BY <1>1 DEF NewId
  <2> QED
    BY <1>4, <2>1, <2>2 DEF AnyInode, Inode
<1>6. Changes(p, i, new)
  BY <1>2, <1>3, <1>4 DEF Chowns
<1> QED
  BY <1>2, <1>5, <1>6, ChangesWithin

\* A process that returns and leaves everything else alone.
LEMMA OnlyReturns ==
    ASSUME IInv, NEW p \in Procs, NEW errno \in Errno, Returns(p, errno),
           UNCHANGED <<fs, call, sym, got, moved, calls, errors, clobbered>>
    PROVE  Within(p)
<1>1. TypeOK /\ errors' \in Nat
  BY DEF IInv, TypeOK
<1> QED
  BY <1>1, LooksWithin

\* What a step that binds a name to an inode, and goes on, does.
LEMMA BindsWithin ==
    ASSUME IInv, NEW p \in Procs, NEW n \in Names, NEW i \in Inodes, NEW new \in AnyInode,
           Bind(n, i, new), new.data = << >>, AppendersTo(i) \subseteq clobbered',
           clobbered' \subseteq Procs, clobbered \subseteq clobbered',
           UNCHANGED <<call, sym, moved, calls, errors>>,
           UNCHANGED got \/ \E v : Gets(p, v),
           Proceeds(p) \/ OpensInode(p, i)
    PROVE  Within(p)
<1>1. TypeOK
  BY DEF IInv
<1>2. FsTyped /\ inode'[i] = new /\ \A j \in Inodes \ {i} : inode'[j] = inode[j]
  BY <1>1, BindEffect
<1>3. FileEffect(p)
  <2>1. Clobbers(p, i)
    BY <1>2 DEF Clobbers
  <2> QED
    BY <1>2, <2>1 DEF FileEffect, SameFile
<1>4. /\ todo' = [q \in Procs |-> todo'[q]]
      /\ fd' \in [Procs -> Inodes \cup {NoInode}] /\ result' \in [Procs -> Errno]
      /\ \A q \in Procs \ {p} : todo'[q] = todo[q] /\ fd'[q] = fd[q] /\ result'[q] = result[q]
  <2>1. CASE Proceeds(p)
    BY <1>1, <2>1, ProceedsMine
  <2>2. CASE OpensInode(p, i)
    BY <1>1, <2>2 DEF OpensInode, TypeOK
  <2> QED
    BY <2>1, <2>2
<1>5. /\ got' = [q \in Procs |-> got'[q]]
      /\ \A q \in Procs \ {p} : got'[q] = got[q]
  BY <1>1, GetsMine DEF TypeOK
<1> QED
  BY <1>1, <1>2, <1>3, <1>4, <1>5 DEF Within, Typed, Kept, TypeOK

LEMMA LinksWithin ==
    ASSUME IInv, NEW p \in Procs, Links(p)
    PROVE  /\ Within(p)
           /\ dir[call[p].path] # NoInode => fs' = fs
<1>1. TypeOK /\ call[p].path \in Names /\ call[p].other \in Names
  BY FactsOfCall DEF Facts, IInv
<1>2. PICK i \in Inodes \cup {NoInode} : i = LStat(call[p].other)
  BY <1>1, InodesThere
<1>3. CASE i = NoInode \/ dir[call[p].path] # NoInode
  <2>1. /\ Returns(p, IF i = NoInode THEN "ENOENT" ELSE "EEXIST")
        /\ UNCHANGED <<fs, call, sym, got, moved, calls, errors, clobbered>>
    BY <1>2, <1>3 DEF Links, Looks
  <2> QED
    BY <2>1, OnlyReturns DEF Errno
<1>4. CASE i # NoInode /\ dir[call[p].path] = NoInode
  <2>1. PICK new : new = Stamp(inode[i], {"ctime"})
    OBVIOUS
  <2>2. new \in AnyInode /\ new.kind = inode[i].kind /\ new.data = inode[i].data
    BY <1>1, <1>4, <2>1, StampType
  <2>3. /\ Bind(call[p].path, i, new) /\ Proceeds(p)
        /\ UNCHANGED <<call, sym, got, moved, calls, errors, clobbered>>
    BY <1>2, <1>4, <2>1 DEF Links, Binds
  <2>4. FsTyped /\ inode'[i] = new /\ \A j \in Inodes \ {i} : inode'[j] = inode[j]
    BY <1>1, <1>4, <2>2, <2>3, BindEffect
  <2>5. FileEffect(p)
    BY <2>2, <2>4 DEF FileEffect, SameFile
  <2>6. /\ todo' = [q \in Procs |-> todo'[q]]
        /\ fd' \in [Procs -> Inodes \cup {NoInode}] /\ result' \in [Procs -> Errno]
        /\ \A q \in Procs \ {p} : todo'[q] = todo[q] /\ fd'[q] = fd[q] /\ result'[q] = result[q]
    BY <1>1, <2>3, ProceedsMine
  <2> QED
    BY <1>1, <1>4, <2>3, <2>4, <2>5, <2>6 DEF Within, Typed, Kept, TypeOK
<1> QED
  BY <1>3, <1>4

LEMMA OverwritesType ==
    ASSUME TypeOK, NEW i, Overwrites(i)
    PROVE  /\ AppendersTo(i) \subseteq clobbered' /\ clobbered' \subseteq Procs
           /\ clobbered \subseteq clobbered'
  BY DEF TypeOK, Overwrites, AppendersTo

LEMMA SymLinksWithin ==
    ASSUME IInv, NEW p \in Procs, SymLinks(p)
    PROVE  /\ Within(p)
           /\ dir[call[p].path] # NoInode => fs' = fs
<1>1. TypeOK /\ call[p].path \in Names /\ call[p].other \in Names
  BY FactsOfCall DEF Facts, IInv
<1>2. CASE dir[call[p].path] # NoInode
  <2>1. /\ Returns(p, "EEXIST")
        /\ UNCHANGED <<fs, call, sym, got, moved, calls, errors, clobbered>>
    BY <1>2 DEF SymLinks, Looks
  <2> QED
    BY <2>1, OnlyReturns DEF Errno
<1>3. CASE dir[call[p].path] = NoInode
  <2>1. PICK i \in Inodes :
           /\ Binds(p, call[p].path, i, NewInode("symlink", call[p].other, << >>))
           /\ Overwrites(i) /\ Proceeds(p)
    BY <1>3 DEF SymLinks, Unused
  <2>2. PICK new : new = NewInode("symlink", call[p].other, << >>)
    OBVIOUS
  <2>3. new \in AnyInode /\ new.data = << >>
    BY <1>1, <2>2, NewInodeType
  <2>4. Bind(call[p].path, i, new) /\ UNCHANGED <<call, sym, got, moved, calls, errors>>
    BY <2>1, <2>2 DEF Binds
  <2>5. /\ AppendersTo(i) \subseteq clobbered' /\ clobbered' \subseteq Procs
        /\ clobbered \subseteq clobbered'
    BY <1>1, <2>1, OverwritesType
  <2> QED
    BY <1>1, <1>3, <2>1, <2>3, <2>4, <2>5, BindsWithin
<1> QED
  BY <1>2, <1>3

LEMMA MakesPipeWithin ==
    ASSUME IInv, NEW p \in Procs, MakesPipe(p)
    PROVE  /\ Within(p)
           /\ dir[call[p].path] # NoInode => fs' = fs
<1>1. TypeOK /\ call[p].path \in Names /\ call[p].bits \in SUBSET Modes
  BY FactsOfCall DEF Facts, IInv
<1>2. CASE dir[call[p].path] # NoInode
  <2>1. /\ Returns(p, "EEXIST")
        /\ UNCHANGED <<fs, call, sym, got, moved, calls, errors, clobbered>>
    BY <1>2 DEF MakesPipe, Looks
  <2> QED
    BY <2>1, OnlyReturns DEF Errno
<1>3. CASE dir[call[p].path] = NoInode
  <2>1. PICK i \in Inodes :
           /\ Binds(p, call[p].path, i,
                    [NewInode("fifo", call[p].path, << >>) EXCEPT !.perms = call[p].bits])
           /\ Overwrites(i) /\ Proceeds(p)
    BY <1>3 DEF MakesPipe, Unused
  <2>2. PICK new : new = [NewInode("fifo", call[p].path, << >>) EXCEPT !.perms = call[p].bits]
    OBVIOUS
  <2>3. new \in AnyInode /\ new.data = << >>
    BY <1>1, <2>2, NewInodeType
  <2>4. Bind(call[p].path, i, new) /\ UNCHANGED <<call, sym, got, moved, calls, errors>>
    BY <2>1, <2>2 DEF Binds
  <2>5. /\ AppendersTo(i) \subseteq clobbered' /\ clobbered' \subseteq Procs
        /\ clobbered \subseteq clobbered'
    BY <1>1, <2>1, OverwritesType
  <2> QED
    BY <1>1, <1>3, <2>1, <2>3, <2>4, <2>5, BindsWithin
<1> QED
  BY <1>2, <1>3

LEMMA UnlinksWithin ==
    ASSUME IInv, NEW p \in Procs, Unlinks(p)
    PROVE  Within(p) /\ inode' = inode
<1>1. TypeOK /\ call[p].path \in Names
  BY FactsOfCall DEF Facts, IInv
<1>2. CASE dir[call[p].path] = NoInode
  <2>1. /\ Returns(p, "ENOENT")
        /\ UNCHANGED <<fs, call, sym, got, moved, calls, errors, clobbered>>
    BY <1>2 DEF Unlinks
  <2> QED
    BY <2>1, OnlyReturns DEF Errno, fs
<1>3. CASE dir[call[p].path] # NoInode
  <2>1. Unbind(call[p].path) /\ Proceeds(p)
        /\ UNCHANGED <<call, sym, got, moved, calls, errors, clobbered>>
    BY <1>3 DEF Unlinks
  <2>2. FsTyped /\ inode' = inode
    BY <1>1, <2>1 DEF Unbind, FsTyped, TypeOK
  <2>3. FileEffect(p)
    BY <2>2 DEF FileEffect, SameFile
  <2>4. /\ todo' = [q \in Procs |-> todo'[q]]
        /\ fd' \in [Procs -> Inodes \cup {NoInode}] /\ result' \in [Procs -> Errno]
        /\ \A q \in Procs \ {p} : todo'[q] = todo[q] /\ fd'[q] = fd[q] /\ result'[q] = result[q]
    BY <1>1, <2>1, ProceedsMine
  <2> QED
    BY <1>1, <2>1, <2>2, <2>3, <2>4 DEF Within, Typed, Kept, TypeOK
<1> QED
  BY <1>2, <1>3

\* open(2) that makes the file, and what the caller reads of it.
LEMMA MakesWithin ==
    ASSUME IInv, NEW p \in Procs, Makes(p), UNCHANGED got \/ \E v : Gets(p, v)
    PROVE  /\ Within(p) /\ todo'[p] = Tail(todo[p])
           /\ fd'[p] \in Inodes /\ inode'[fd'[p]].data = << >>
<1>1. TypeOK /\ call[p].path \in Names /\ End(call[p].path) \in Names
  BY FactsOfCall, EndIsName DEF Facts, IInv
<1>2. PICK i \in Inodes : /\ Bind(End(call[p].path), i, NewInode("regular", call[p].path, << >>))
                          /\ OpensInode(p, i) /\ Overwrites(i)
  BY DEF Makes, Unused
<1>3. PICK new : new = NewInode("regular", call[p].path, << >>)
  OBVIOUS
<1>4. new \in AnyInode /\ new.data = << >>
  BY <1>1, <1>3, NewInodeType
<1>5. PICK n \in Names : n = End(call[p].path)
  BY <1>1
<1>6. Bind(n, i, new) /\ UNCHANGED <<call, sym, moved, calls, errors>>
  BY <1>2, <1>3, <1>5 DEF OpensInode
<1>7. /\ AppendersTo(i) \subseteq clobbered' /\ clobbered' \subseteq Procs
      /\ clobbered \subseteq clobbered'
  BY <1>1, <1>2, OverwritesType
<1>8. Within(p)
  BY <1>2, <1>4, <1>6, <1>7, BindsWithin
<1>9. fd'[p] = i /\ todo'[p] = Tail(todo[p])
  BY <1>1, <1>2 DEF OpensInode, TypeOK
<1>10. inode'[i] = new
  BY <1>1, <1>4, <1>6, BindEffect
<1> QED
  BY <1>4, <1>8, <1>9, <1>10

\* open(2) of a file that is there.
LEMMA OpensWithin ==
    ASSUME IInv, NEW p \in Procs, NEW i \in Inodes, OpensInode(p, i), FsTyped, FileEffect(p),
           clobbered' \subseteq Procs, clobbered \subseteq clobbered',
           UNCHANGED got \/ \E v : Gets(p, v)
    PROVE  Within(p) /\ todo'[p] = Tail(todo[p]) /\ fd'[p] = i
<1>1. TypeOK
  BY DEF IInv
<1>2. /\ todo' = [q \in Procs |-> todo'[q]]
      /\ fd' \in [Procs -> Inodes \cup {NoInode}]
      /\ \A q \in Procs \ {p} : todo'[q] = todo[q] /\ fd'[q] = fd[q]
      /\ todo'[p] = Tail(todo[p]) /\ fd'[p] = i
  BY <1>1 DEF OpensInode, TypeOK
<1>3. /\ got' = [q \in Procs |-> got'[q]]
      /\ \A q \in Procs \ {p} : got'[q] = got[q]
  BY <1>1, GetsMine DEF TypeOK
<1> QED
  BY <1>1, <1>2, <1>3 DEF OpensInode, Within, Typed, Kept, TypeOK

LEMMA SameFs ==
    ASSUME TypeOK, NEW p \in Procs, fs' = fs
    PROVE  FsTyped /\ FileEffect(p)
  BY DEF TypeOK, fs, FsTyped, FileEffect, SameFile

LEMMA OpensToAppendWithin ==
    ASSUME IInv, NEW p \in Procs, OpensToAppend(p)
    PROVE  /\ Within(p)
           /\ \/ /\ got'[p] = Append(got[p], fd'[p]) /\ fd'[p] \in Inodes
                 /\ todo'[p] = Tail(todo[p])
                 /\ fs' = fs \/ inode'[fd'[p]].data = << >>
              \/ todo'[p] = << >> /\ result'[p] # "ENOERR" /\ got' = got /\ fs' = fs
<1>1. TypeOK /\ call[p].path \in Names
  BY FactsOfCall DEF Facts, IInv
<1>2. PICK i \in Inodes \cup {NoInode} : i = Stat(call[p].path)
  BY <1>1, InodesThere
<1>3. CASE i # NoInode /\ OpensInode(p, i) /\ Gets(p, i) /\ UNCHANGED <<fs, clobbered>>
  <2>1. FsTyped /\ FileEffect(p)
    BY <1>1, <1>3, SameFs
  <2>2. Within(p) /\ todo'[p] = Tail(todo[p]) /\ fd'[p] = i
    BY <1>1, <1>3, <2>1, OpensWithin DEF TypeOK
  <2>3. got'[p] = Append(got[p], i)
    BY <1>1, <1>3, GetsMine
  <2> QED
    BY <1>3, <2>2, <2>3
<1>4. CASE Makes(p) /\ Gets(p, fd'[p])
  <2>1. got'[p] = Append(got[p], fd'[p])
    BY <1>1, <1>4, GetsMine
  <2> QED
    BY <1>4, <2>1, MakesWithin
<1>5. CASE FailsToOpen(p, "ENOENT")
  <2>1. /\ Returns(p, "ENOENT")
        /\ UNCHANGED <<fs, call, sym, got, moved, calls, errors, clobbered>>
    BY <1>5 DEF FailsToOpen, Looks
  <2>2. Within(p)
    BY <2>1, OnlyReturns DEF Errno
  <2> QED
    BY <1>1, <2>1, <2>2, ReturnsMine DEF Errno
<1> QED
  BY <1>2, <1>3, <1>4, <1>5 DEF OpensToAppend

LEMMA TruncateType ==
    ASSUME TypeOK, NEW i \in Inodes
    PROVE  LET new == [Stamp(inode[i], {"mtime", "ctime"}) EXCEPT !.data = << >>]
           IN new \in AnyInode /\ new.data = << >> /\ new.kind = inode[i].kind
<1>1. PICK old : old = Stamp(inode[i], {"mtime", "ctime"})
  OBVIOUS
<1>2. old \in AnyInode /\ old.kind = inode[i].kind
  BY <1>1, StampType
<1>3. << >> \in Seq(Cells(Writers))
  BY EmptySeq
<1>4. [old EXCEPT !.data = << >>] \in AnyInode
  BY <1>2, <1>3 DEF AnyInode, Inode
<1>5. [old EXCEPT !.data = << >>].data = << >> /\ [old EXCEPT !.data = << >>].kind = inode[i].kind
  BY <1>2 DEF AnyInode, Inode
<1> QED
  BY <1>1, <1>4, <1>5

LEMMA OpensToWriteWithin ==
    ASSUME IInv, NEW p \in Procs, OpensToWrite(p)
    PROVE  /\ Within(p) /\ got' = got
           /\ \/ fd'[p] \in Inodes /\ todo'[p] = Tail(todo[p])
              \/ todo'[p] = << >> /\ result'[p] # "ENOERR"
<1>1. TypeOK /\ call[p].path \in Names
  BY FactsOfCall DEF Facts, IInv
<1>2. PICK i \in Inodes \cup {NoInode} : i = Stat(call[p].path)
  BY <1>1, InodesThere
<1>3. CASE i # NoInode /\ OpensInode(p, i) /\ inode[i].kind = "special" /\ UNCHANGED <<fs, clobbered>>
  <2>1. FsTyped /\ FileEffect(p)
    BY <1>1, <1>3, SameFs
  <2>2. Within(p) /\ todo'[p] = Tail(todo[p]) /\ fd'[p] = i
    BY <1>1, <1>3, <2>1, OpensWithin DEF TypeOK, OpensToWrite
  <2> QED
    BY <1>3, <2>2 DEF OpensToWrite
<1>4. CASE /\ i # NoInode /\ OpensInode(p, i)
           /\ ChangeInode(i, [Stamp(inode[i], {"mtime", "ctime"}) EXCEPT !.data = << >>])
           /\ Overwrites(i)
  <2>1. PICK new : new = [Stamp(inode[i], {"mtime", "ctime"}) EXCEPT !.data = << >>]
    OBVIOUS
  <2>2. new \in AnyInode /\ new.data = << >>
    BY <1>1, <1>4, <2>1, TruncateType
  <2>3. FsTyped /\ inode'[i] = new /\ \A j \in Inodes \ {i} : inode'[j] = inode[j]
    BY <1>1, <1>4, <2>1, <2>2, ChangeEffect
  <2>4. /\ AppendersTo(i) \subseteq clobbered' /\ clobbered' \subseteq Procs
        /\ clobbered \subseteq clobbered'
    BY <1>1, <1>4, OverwritesType
  <2>5. FileEffect(p)
    <3>1. Clobbers(p, i)
      BY <2>2, <2>3, <2>4 DEF Clobbers
    <3> QED
      BY <2>3, <3>1 DEF FileEffect, SameFile
  <2>6. Within(p) /\ todo'[p] = Tail(todo[p]) /\ fd'[p] = i
    BY <1>4, <2>3, <2>4, <2>5, OpensWithin DEF OpensToWrite
  <2> QED
    BY <1>4, <2>6 DEF OpensToWrite
<1>5. CASE Makes(p)
  BY <1>5, MakesWithin DEF OpensToWrite
<1>6. CASE FailsToOpen(p, "ENOENT") /\ got' = got
  <2>1. /\ Returns(p, "ENOENT")
        /\ UNCHANGED <<fs, call, sym, got, moved, calls, errors, clobbered>>
    BY <1>6 DEF FailsToOpen, Looks
  <2>2. Within(p)
    BY <2>1, OnlyReturns DEF Errno
  <2> QED
    BY <1>1, <2>1, <2>2, ReturnsMine DEF Errno
<1> QED
  BY <1>2, <1>3, <1>4, <1>5, <1>6 DEF OpensToWrite

LEMMA OpensToReadWithin ==
    ASSUME IInv, NEW p \in Procs, OpensToRead(p)
    PROVE  /\ Within(p) /\ fs' = fs /\ got' = got
           /\ \/ fd'[p] = Stat(call[p].path) /\ fd'[p] \in Inodes /\ todo'[p] = Tail(todo[p])
              \/ todo'[p] = << >> /\ result'[p] # "ENOERR"
<1>1. TypeOK /\ call[p].path \in Names
  BY FactsOfCall DEF Facts, IInv
<1>2. PICK i \in Inodes \cup {NoInode} : i = Stat(call[p].path)
  BY <1>1, InodesThere
<1>3. CASE i # NoInode
  <2>1. OpensInode(p, i) /\ UNCHANGED <<fs, got, clobbered>>
    BY <1>2, <1>3 DEF OpensToRead
  <2>2. FsTyped /\ FileEffect(p)
    BY <1>1, <2>1, SameFs
  <2>3. Within(p) /\ todo'[p] = Tail(todo[p]) /\ fd'[p] = i
    BY <1>1, <1>3, <2>1, <2>2, OpensWithin DEF TypeOK
  <2> QED
    BY <1>2, <1>3, <2>1, <2>3
<1>4. CASE i = NoInode
  <2>1. /\ Returns(p, "ENOENT")
        /\ UNCHANGED <<fs, call, sym, got, moved, calls, errors, clobbered>>
    BY <1>2, <1>4 DEF OpensToRead, FailsToOpen, Looks
  <2>2. Within(p)
    BY <2>1, OnlyReturns DEF Errno
  <2> QED
    BY <1>1, <2>1, <2>2, ReturnsMine DEF Errno
<1> QED
  BY <1>3, <1>4

\* The data of an inode may be any contents.
LEMMA DataType ==
    ASSUME NEW old \in AnyInode, NEW data \in Seq(Cells(Writers))
    PROVE  /\ [old EXCEPT !.data = data] \in AnyInode
           /\ [old EXCEPT !.data = data].data = data
           /\ [old EXCEPT !.data = data].kind = old.kind
  BY DEF AnyInode, Inode

\* write(2), in append_to_file().
LEMMA AppendIsOpen ==
    ASSUME IInv, NEW p \in Procs, At1(p, "write")
    PROVE  /\ call[p].name = "append" /\ todo[p] = <<"write">> /\ Len(got[p]) = 2
           /\ fd[p] \in Inodes /\ fd[p] = got[p][2]
           /\ moved[p] \in Nat /\ call[p].len \in Nat /\ moved[p] <= call[p].len
<1>1. call[p].name = "append" /\ todo[p] = <<"write">> /\ AppendLeft(p)
  BY GetsNext, OthersNext DEF At1
<1>2. fd[p] \in Inodes
  BY <1>1 DEF IInv, ProcInv, CallInv
<1>3. moved[p] \in Nat /\ call[p].len \in Nat
  BY FactsOfCall DEF Facts, IInv, TypeOK
<1>4. <<"write">> # <<"is_path", "open", "write">> /\ <<"write">> # <<"open", "write">>
  BY Tuple1, Tuple2, Tuple3
<1> QED
  BY <1>1, <1>2, <1>3, <1>4 DEF AppendLeft, Left

LEMMA WriteAppends ==
    ASSUME TypeOK, NEW i \in Inodes, NEW m \in Seq(Cells(Writers)), NEW a \in Nat, NEW k \in Nat,
           a + k <= Len(m),
           ChangeInode(i, [Stamp(inode[i], {"mtime", "ctime"}) EXCEPT
               !.data = SubSeq(@, 1, Len(inode[i].data)) \o SubSeq(m, a + 1, a + k)
                           \o SubSeq(@, Len(inode[i].data) + k + 1, Len(@))])
    PROVE  /\ FsTyped /\ \A j \in Inodes \ {i} : inode'[j] = inode[j]
           /\ inode'[i].kind = inode[i].kind
           /\ inode'[i].data = inode[i].data \o SubSeq(m, a + 1, a + k)
<1>1. PICK data \in Seq(Cells(Writers)) : data = inode[i].data
  BY DEF TypeOK, AnyInode, Inode
<1>2. PICK new \in Seq(Cells(Writers)) :
         /\ new = data \o SubSeq(m, a + 1, a + k)
         /\ SubSeq(data, 1, Len(data)) \o SubSeq(m, a + 1, a + k)
               \o SubSeq(data, Len(data) + k + 1, Len(data)) = new
  BY AddsAtEnd
<1>3. PICK old : old = Stamp(inode[i], {"mtime", "ctime"})
  OBVIOUS
<1>4. old \in AnyInode /\ old.data = data /\ old.kind = inode[i].kind
  BY <1>1, <1>3, StampType
<1>5. [old EXCEPT !.data = SubSeq(@, 1, Len(data)) \o SubSeq(m, a + 1, a + k)
                              \o SubSeq(@, Len(data) + k + 1, Len(@))]
      = [old EXCEPT !.data = new]
  BY <1>2, <1>4
<1>6. PICK made : made = [old EXCEPT !.data = new]
  OBVIOUS
<1>7. made \in AnyInode /\ made.data = new /\ made.kind = inode[i].kind
  BY <1>4, <1>6, DataType
<1>8. ChangeInode(i, made)
  BY <1>1, <1>3, <1>5, <1>6
<1>9. FsTyped /\ inode'[i] = made /\ \A j \in Inodes \ {i} : inode'[j] = inode[j]
  BY <1>7, <1>8, ChangeEffect
<1> QED
  BY <1>1, <1>2, <1>7, <1>9

LEMMA WritesSomeWithin ==
    ASSUME IInv, NEW p \in Procs, WritesSome(p)
    PROVE  /\ Within(p) /\ got' = got
           /\ moved'[p] \in moved[p] .. call[p].len
           /\ \/ inode' = inode /\ (inode[fd[p]].kind = "special" \/ moved'[p] = moved[p])
              \/ AddsTo(p, fd[p])
           /\ \/ todo'[p] = todo[p] /\ fd' = fd
              \/ todo'[p] = << >> /\ moved'[p] = call[p].len
<1>1. TypeOK /\ At1(p, "write")
  BY DEF IInv, WritesSome
<1>2. /\ todo[p] = <<"write">> /\ fd[p] \in Inodes
      /\ moved[p] \in Nat /\ call[p].len \in Nat /\ moved[p] <= call[p].len
  BY <1>1, AppendIsOpen
<1> DEFINE left == call[p].len - moved[p]
           data == inode[fd[p]].data
<1>3. PICK k \in (IF left = 0 THEN {0} ELSE 1 .. left) :
         /\ moved' = [moved EXCEPT ![p] = @ + k]
         /\ IF inode[fd[p]].kind = "special" \/ k = 0 THEN UNCHANGED fs
            ELSE ChangeInode(fd[p], [Stamp(inode[fd[p]], {"mtime", "ctime"}) EXCEPT
                    !.data = SubSeq(@, 1, Offset(p))
                               \o SubSeq(Message(p), moved[p] + 1, moved[p] + k)
                               \o SubSeq(@, Offset(p) + k + 1, Len(@))])
         /\ IF k = left THEN Proceeds(p) ELSE UNCHANGED <<todo, result, fd>>
  BY DEF WritesSome
<1>4. k \in Nat /\ moved[p] + k <= call[p].len /\ moved' \in [Procs -> Nat]
      /\ moved'[p] = moved[p] + k /\ \A q \in Procs \ {p} : moved'[q] = moved[q]
  <2>1. k \in Nat /\ k <= left
    BY <1>2, <1>3
  <2>2. moved[p] + k <= call[p].len /\ moved[p] + k \in Nat
    BY <1>2, <2>1
  <2>3. moved \in [Procs -> Nat]
    BY <1>1 DEF TypeOK
  <2> HIDE DEF left
  <2> QED
    BY <1>3, <2>1, <2>2, <2>3
<1>5. /\ UNCHANGED <<call, sym, got, calls, errors, clobbered>>
  BY DEF WritesSome
<1>6. /\ todo' = [q \in Procs |-> todo'[q]]
      /\ fd' \in [Procs -> Inodes \cup {NoInode}] /\ result' \in [Procs -> Errno]
      /\ \A q \in Procs \ {p} : todo'[q] = todo[q] /\ fd'[q] = fd[q] /\ result'[q] = result[q]
      /\ \/ todo'[p] = todo[p] /\ fd' = fd
         \/ todo'[p] = << >> /\ k = left
  <2>1. CASE k = left
    <3>1. Proceeds(p) /\ Len(todo[p]) = 1
      BY <1>2, <1>3, <2>1, Tuple1
    <3> QED
      BY <1>1, <2>1, <3>1, ProceedsMine
  <2>2. CASE k # left
    BY <1>1, <1>3, <2>2 DEF TypeOK
  <2> QED
    BY <2>1, <2>2
<1>7. FsTyped /\ FileEffect(p)
      /\ \/ inode' = inode /\ (inode[fd[p]].kind = "special" \/ moved'[p] = moved[p])
         \/ AddsTo(p, fd[p])
  <2>1. CASE inode[fd[p]].kind = "special" \/ k = 0
    BY <1>1, <1>2, <1>3, <1>4, <2>1, SameFs DEF fs
  <2>2. CASE ~(inode[fd[p]].kind = "special" \/ k = 0)
    <3>1. PICK m \in Seq(Cells(Writers)) : m = Message(p)
      BY MessageType
    <3>2. moved[p] + k <= Len(m)
      BY <1>4, <3>1, MessageType
    <3>3. PICK i \in Inodes : i = fd[p]
      BY <1>2
    <3>4. PICK a \in Nat : a = moved[p]
      BY <1>2
    <3>5. ChangeInode(i, [Stamp(inode[i], {"mtime", "ctime"}) EXCEPT
             !.data = SubSeq(@, 1, Len(inode[i].data)) \o SubSeq(m, a + 1, a + k)
                         \o SubSeq(@, Len(inode[i].data) + k + 1, Len(@))])
      BY <1>3, <2>2, <3>1, <3>3, <3>4 DEF Offset
    <3>6. k \in Nat /\ a + k <= Len(m)
      BY <1>4, <3>2, <3>4
    <3>11. /\ FsTyped /\ \A j \in Inodes \ {i} : inode'[j] = inode[j]
           /\ inode'[i].kind = inode[i].kind
           /\ inode'[i].data = inode[i].data \o SubSeq(m, a + 1, a + k)
      BY <1>1, <3>5, <3>6, WriteAppends
    <3>12. AddsTo(p, fd[p])
      BY <1>1, <1>4, <3>1, <3>3, <3>4, <3>11 DEF AddsTo
    <3>13. FileEffect(p)
      BY <3>3, <3>11, <3>12 DEF FileEffect, SameFile
    <3> QED
      BY <3>11, <3>12, <3>13
  <2> QED
    BY <2>1, <2>2
<1>8. Within(p)
  BY <1>1, <1>4, <1>5, <1>6, <1>7 DEF Within, Typed, Kept, TypeOK
<1>9. moved'[p] \in moved[p] .. call[p].len /\ (k = left => moved'[p] = call[p].len)
  BY <1>2, <1>4
<1> QED
  BY <1>5, <1>6, <1>7, <1>8, <1>9

\* fclose() of what create_file() wrote.
LEMMA ClosesWithin ==
    ASSUME IInv, NEW p \in Procs, Closes(p)
    PROVE  Within(p) /\ got' = got /\ call[p].name = "create" /\ todo'[p] = << >>
<1>1. TypeOK /\ At1(p, "fclose")
  BY DEF IInv, Closes
<1>2. call[p].name = "create" /\ todo[p] = <<"fclose">>
  BY <1>1, GetsNext, OthersNext DEF At1
<1>3. PICK i \in Inodes : i = fd[p]
  BY <1>2 DEF IInv, ProcInv, CallInv
<1>4. UNCHANGED <<call, sym, got, moved, calls, errors>> /\ Proceeds(p)
  BY DEF Closes
<1>5. /\ todo' = [q \in Procs |-> todo'[q]] /\ todo'[p] = << >>
      /\ fd' \in [Procs -> Inodes \cup {NoInode}] /\ result' \in [Procs -> Errno]
      /\ \A q \in Procs \ {p} : todo'[q] = todo[q] /\ fd'[q] = fd[q] /\ result'[q] = result[q]
  BY <1>1, <1>2, <1>4, ProceedsMine, Tuple1
<1>6. CASE inode[i].kind = "special" \/ call[p].len = 0
  <2>1. UNCHANGED <<fs, clobbered>>
    BY <1>3, <1>6 DEF Closes
  <2>2. FsTyped /\ FileEffect(p)
    BY <1>1, <2>1, SameFs
  <2> QED
    BY <1>1, <1>2, <1>4, <1>5, <2>1, <2>2 DEF Within, Typed, Kept, TypeOK
<1>7. CASE ~(inode[i].kind = "special" \/ call[p].len = 0)
  <2>1. PICK data \in Seq(Cells(Writers)) : data = inode[i].data
    BY <1>1 DEF TypeOK, AnyInode, Inode
  <2>2. PICK m \in Seq(Cells(Writers)) : m = Message(p)
    BY MessageType
  <2>3. Len(m) = call[p].len /\ \A k \in 1 .. Len(m) : m[k] = <<p, calls[p], k>>
    BY <2>2, MessageType
  <2>16. PICK new : new = m \o SubSeq(data, Len(m) + 1, Len(data))
    OBVIOUS
  <2>4. /\ new \in Seq(Cells(Writers))
        /\ \A j \in DOMAIN new : \/ j \in 1 .. Len(m) /\ new[j] = m[j]
                                 \/ j \in DOMAIN data /\ new[j] = data[j]
    BY <2>16, WritesOver
  <2>5. PICK old : old = Stamp(inode[i], {"mtime", "ctime"})
    OBVIOUS
  <2>6. old \in AnyInode /\ old.data = data /\ old.kind = inode[i].kind
    BY <1>1, <2>1, <2>5, StampType
  <2>7. /\ ChangeInode(i, [old EXCEPT !.data = m \o SubSeq(@, Len(m) + 1, Len(@))])
        /\ Overwrites(i)
    BY <1>3, <1>7, <2>2, <2>3, <2>5 DEF Closes
  <2>8. [old EXCEPT !.data = m \o SubSeq(@, Len(m) + 1, Len(@))] = [old EXCEPT !.data = new]
    BY <2>6, <2>16
  <2>9. PICK made : made = [old EXCEPT !.data = new]
    OBVIOUS
  <2>10. made \in AnyInode /\ made.data = new
    BY <2>4, <2>6, <2>9, DataType
  <2>11. ChangeInode(i, made)
    BY <2>7, <2>8, <2>9
  <2>12. FsTyped /\ inode'[i] = made /\ \A j \in Inodes \ {i} : inode'[j] = inode[j]
    BY <1>1, <2>10, <2>11, ChangeEffect
  <2>13. /\ AppendersTo(i) \subseteq clobbered' /\ clobbered' \subseteq Procs
         /\ clobbered \subseteq clobbered'
    BY <1>1, <2>7, OverwritesType
  <2>14. Clobbers(p, i)
    <3> SUFFICES ASSUME NEW k \in DOMAIN inode'[i].data
                 PROVE  \/ \E h \in DOMAIN inode[i].data : inode'[i].data[k] = inode[i].data[h]
                        \/ inode'[i].data[k][1] = p /\ inode'[i].data[k][2] = calls[p]
      BY <1>2, <2>13 DEF Clobbers
    <3>1. inode'[i].data = new
      BY <2>10, <2>12
    <3>2. CASE k \in 1 .. Len(m) /\ new[k] = m[k]
      BY <2>3, <3>1, <3>2
    <3>3. CASE k \in DOMAIN data /\ new[k] = data[k]
      BY <2>1, <3>1, <3>3
    <3> QED
      BY <2>4, <3>1, <3>2, <3>3
  <2>15. FileEffect(p)
    BY <2>12, <2>14 DEF FileEffect, SameFile
  <2> QED
    BY <1>1, <1>2, <1>4, <1>5, <2>12, <2>13, <2>15 DEF Within, Typed, Kept, TypeOK
<1> QED
  BY <1>6, <1>7

\* Every step but the first of a call is one within it.
LEMMA StepWithin ==
    ASSUME IInv, NEW p \in Procs, Step(p), ~Begin(p)
    PROVE  Within(p)
  BY LookingWithin, ChmodsWithin, UtimensatsWithin, ChownsWithin, LinksWithin, SymLinksWithin,
     MakesPipeWithin, UnlinksWithin, OpensToAppendWithin, WritesSomeWithin, OpensToWriteWithin,
     ClosesWithin, OpensToReadWithin DEF Step

\* The first one.
LEMMA BeginType ==
    ASSUME TypeOK, NEW p \in Procs, Begin(p)
    PROVE  /\ fs' = fs /\ result' = result
           /\ call' = [q \in Procs |-> call'[q]] /\ todo' = [q \in Procs |-> todo'[q]]
           /\ got' = [q \in Procs |-> got'[q]]
           /\ \A q \in Procs \ {p} : Kept(q)
           /\ IsCall([call'[p] EXCEPT !.valid = TRUE])
           /\ todo'[p] \in {call'[p].steps, <<"validate">>} /\ todo[p] = << >>
           /\ got'[p] = << >> /\ moved'[p] = 0 /\ calls'[p] = calls[p] + 1
           /\ moved' \in [Procs -> Nat] /\ calls' \in [Procs -> Nat]
           /\ sym' = sym /\ fd' = fd /\ errors' = errors /\ clobbered' = clobbered \ {p}
<1>1. PICK c \in Scenes[scene].calls :
         /\ call' = [call EXCEPT ![p] = c]
         /\ todo' = [todo EXCEPT ![p] = IF c.valid THEN c.steps ELSE <<"validate">>]
  BY DEF Begin
<1>2. IsCall([c EXCEPT !.valid = TRUE])
  BY <1>1, PathCallsBounds DEF TypeOK
<1>3. call'[p] = c /\ \A q \in Procs \ {p} : call'[q] = call[q] /\ todo'[q] = todo[q]
  BY <1>1 DEF TypeOK
<1>4. todo'[p] \in {c.steps, <<"validate">>} /\ todo[p] = << >>
  BY <1>1 DEF TypeOK, Begin
<1>5. /\ calls' = [calls EXCEPT ![p] = @ + 1]
      /\ got' = [got EXCEPT ![p] = << >>]
      /\ moved' = [moved EXCEPT ![p] = 0]
      /\ clobbered' = clobbered \ {p}
      /\ UNCHANGED <<fs, sym, fd, result, errors>>
  BY DEF Begin
<1>6. /\ got'[p] = << >> /\ moved'[p] = 0 /\ calls'[p] = calls[p] + 1
      /\ moved' \in [Procs -> Nat] /\ calls' \in [Procs -> Nat]
      /\ got' = [q \in Procs |-> got'[q]]
      /\ \A q \in Procs \ {p} : got'[q] = got[q] /\ moved'[q] = moved[q] /\ calls'[q] = calls[q]
  <2>1. calls[p] + 1 \in Nat /\ calls \in [Procs -> Nat] /\ moved \in [Procs -> Nat]
    BY DEF TypeOK
  <2>2. got = [q \in Procs |-> got[q]]
    BY DEF TypeOK
  <2>3. /\ got'[p] = << >> /\ got' = [q \in Procs |-> got'[q]]
        /\ \A q \in Procs \ {p} : got'[q] = got[q]
    BY <1>5, <2>2
  <2>4. /\ moved'[p] = 0 /\ moved' \in [Procs -> Nat]
        /\ \A q \in Procs \ {p} : moved'[q] = moved[q]
    BY <1>5, <2>1
  <2>5. /\ calls'[p] = calls[p] + 1 /\ calls' \in [Procs -> Nat]
        /\ \A q \in Procs \ {p} : calls'[q] = calls[q]
    BY <1>5, <2>1
  <2> QED
    BY <2>3, <2>4, <2>5
<1>7. call' = [q \in Procs |-> call'[q]] /\ todo' = [q \in Procs |-> todo'[q]]
  BY <1>1 DEF TypeOK
<1>8. \A q \in Procs \ {p} : Kept(q)
  BY <1>3, <1>5, <1>6 DEF Kept
<1> QED
  BY <1>2, <1>3, <1>4, <1>5, <1>6, <1>7, <1>8

\* The types are kept.
LEMMA NextTypeOK == IInv /\ Next => TypeOK'
<1> SUFFICES ASSUME IInv, Next PROVE TypeOK'
  OBVIOUS
<1>1. PICK p \in Procs : Step(p) /\ Disturbs(p) /\ UNCHANGED scene
  BY DEF Next
<1>2. TypeOK
  BY DEF IInv
<1>3. disturbed' \in [Procs -> BOOLEAN]
  BY <1>1, <1>2 DEF Disturbs, TypeOK
<1>4. CASE Begin(p)
  <2>1. \A q \in Procs : IsCall([call'[q] EXCEPT !.valid = TRUE])
    BY <1>2, <1>4, BeginType DEF Kept, TypeOK
  <2> QED
    BY <1>1, <1>2, <1>3, <1>4, <2>1, BeginType DEF TypeOK, fs
<1>5. CASE ~Begin(p)
  <2>1. Within(p)
    BY <1>1, <1>5, StepWithin
  <2> QED
    BY <1>1, <1>2, <1>3, <2>1 DEF Within, Typed, FsTyped, TypeOK
<1> QED
  BY <1>4, <1>5

\* Which action takes which step.
LEMMA ActionsAt ==
    ASSUME NEW p \in Procs
    PROVE  /\ Begin(p) => todo[p] = << >>
           /\ Refuses(p) => At1(p, "validate")
           /\ LooksAtLink(p) => At1(p, "is_sym_link")
           /\ CallsAStat(p) => At1(p, "a_stat")
           /\ CallsStat(p) => At1(p, "stat")
           /\ CallsLStat(p) => At1(p, "lstat")
           /\ ChecksPath(p) => At1(p, "is_path")
           /\ ChecksFile(p) => At1(p, "is_file")
           /\ Chmods(p) => At1(p, "chmod")
           /\ Utimensats(p) => At1(p, "utimensat")
           /\ Chowns(p) => At1(p, "a_chown")
           /\ Links(p) => At1(p, "link")
           /\ SymLinks(p) => At1(p, "symlink")
           /\ MakesPipe(p) => At1(p, "mkfifo")
           /\ Unlinks(p) => At1(p, "unlink")
           /\ OpensToAppend(p) => At1(p, "open")
           /\ WritesSome(p) => At1(p, "write")
           /\ OpensToWrite(p) => At1(p, "fopen_w")
           /\ Closes(p) => At1(p, "fclose")
           /\ OpensToRead(p) => At1(p, "fopen_r")
           /\ ReadsStream(p) => At1(p, "fread")
           /\ Fails(p) => todo[p] # << >> /\ ~At1(p, "validate")
<1>1. (Begin(p) => todo[p] = << >>) /\ (Fails(p) => todo[p] # << >> /\ ~At1(p, "validate"))
  BY DEF Begin, Fails
<1>2. /\ (Refuses(p) => At1(p, "validate"))
      /\ (LooksAtLink(p) => At1(p, "is_sym_link"))
      /\ (CallsAStat(p) => At1(p, "a_stat"))
      /\ (CallsStat(p) => At1(p, "stat"))
      /\ (CallsLStat(p) => At1(p, "lstat"))
  BY DEF Refuses, LooksAtLink, CallsAStat, CallsStat, CallsLStat
<1>3. /\ (ChecksPath(p) => At1(p, "is_path"))
      /\ (ChecksFile(p) => At1(p, "is_file"))
      /\ (Chmods(p) => At1(p, "chmod"))
      /\ (Utimensats(p) => At1(p, "utimensat"))
      /\ (Chowns(p) => At1(p, "a_chown"))
  BY DEF ChecksPath, ChecksFile, Chmods, Utimensats, Chowns
<1>4. /\ (Links(p) => At1(p, "link"))
      /\ (SymLinks(p) => At1(p, "symlink"))
      /\ (MakesPipe(p) => At1(p, "mkfifo"))
      /\ (Unlinks(p) => At1(p, "unlink"))
      /\ (OpensToAppend(p) => At1(p, "open"))
  BY DEF Links, SymLinks, MakesPipe, Unlinks, OpensToAppend
<1>5. /\ (WritesSome(p) => At1(p, "write"))
      /\ (OpensToWrite(p) => At1(p, "fopen_w"))
      /\ (Closes(p) => At1(p, "fclose"))
      /\ (OpensToRead(p) => At1(p, "fopen_r"))
      /\ (ReadsStream(p) => At1(p, "fread"))
  BY DEF WritesSome, OpensToWrite, Closes, OpensToRead, ReadsStream
<1> QED
  BY <1>1, <1>2, <1>3, <1>4, <1>5

LEMMA StepsAt ==
    ASSUME NEW p \in Procs, Step(p)
    PROVE  /\ todo[p] = << >> => Begin(p)
           /\ todo[p] # << >> => ~Begin(p)
           /\ At1(p, "validate") => Refuses(p)
           /\ At1(p, "is_sym_link") => LooksAtLink(p) \/ Fails(p)
           /\ At1(p, "a_stat") => CallsAStat(p) \/ Fails(p)
           /\ At1(p, "stat") => CallsStat(p) \/ Fails(p)
           /\ At1(p, "lstat") => CallsLStat(p) \/ Fails(p)
           /\ At1(p, "is_path") => ChecksPath(p) \/ Fails(p)
           /\ At1(p, "is_file") => ChecksFile(p) \/ Fails(p)
           /\ At1(p, "chmod") => Chmods(p) \/ Fails(p)
           /\ At1(p, "utimensat") => Utimensats(p) \/ Fails(p)
           /\ At1(p, "a_chown") => Chowns(p) \/ Fails(p)
           /\ At1(p, "link") => Links(p) \/ Fails(p)
           /\ At1(p, "symlink") => SymLinks(p) \/ Fails(p)
           /\ At1(p, "mkfifo") => MakesPipe(p) \/ Fails(p)
           /\ At1(p, "unlink") => Unlinks(p) \/ Fails(p)
           /\ At1(p, "open") => OpensToAppend(p) \/ Fails(p)
           /\ At1(p, "write") => WritesSome(p) \/ Fails(p)
           /\ At1(p, "fopen_w") => OpensToWrite(p) \/ Fails(p)
           /\ At1(p, "fclose") => Closes(p) \/ Fails(p)
           /\ At1(p, "fopen_r") => OpensToRead(p) \/ Fails(p)
           /\ At1(p, "fread") => ReadsStream(p) \/ Fails(p)
  BY ActionsAt DEF Step, At1

(***************************************************************************)
(* What was appended is kept.                                              *)
(***************************************************************************)
\* Once append_to_file() has opened its file it reads no more.
LEMMA GotStays ==
    ASSUME IInv, NEW p \in Procs, Step(p), ~Begin(p), call[p].name = "append", Len(got[p]) = 2
    PROVE  got' = got
<1>1. todo[p] # << >>
  BY StepsAt
<1>2. CASE At1(p, "validate")
  BY <1>2, StepsAt DEF Refuses
<1>3. CASE At1(p, "write")
  <2>1. CASE WritesSome(p)
    BY <2>1 DEF WritesSome
  <2>2. CASE Fails(p)
    BY <1>3, <2>2 DEF Fails, At1
  <2> QED
    BY <1>3, <2>1, <2>2, StepsAt
<1>4. CASE At1(p, "is_path") \/ At1(p, "open")
  BY <1>1, <1>4, OthersNext DEF AppendLeft, Left, At1
<1> QED
  BY <1>1, <1>2, <1>3, <1>4, OthersNext

LEMMA InodeCells ==
    ASSUME TypeOK, NEW i \in Inodes
    PROVE  /\ inode[i].data \in Seq(Cells(Writers))
           /\ \A k \in DOMAIN inode[i].data :
                 /\ inode[i].data[k] \in Cells(Writers)
                 /\ inode[i].data[k][1] \in Writers /\ inode[i].data[k][2] \in Nat
                 /\ inode[i].data[k][3] \in Nat
<1>1. inode[i].data \in Seq(Cells(Writers))
  BY DEF TypeOK, AnyInode, Inode
<1>2. \A k \in DOMAIN inode[i].data : inode[i].data[k] \in Cells(Writers)
  BY <1>1
<1>3. \A c \in Cells(Writers) : c[1] \in Writers /\ c[2] \in Nat /\ c[3] \in Nat
  BY DEF Cells
<1> QED
  BY <1>1, <1>2, <1>3

\* The cells that a write(2) adds.
LEMMA AddedAre ==
    ASSUME IInv, NEW p \in Procs, NEW i \in Inodes, AddsTo(p, i),
           moved'[p] \in moved[p] .. call[p].len
    PROVE  /\ DOMAIN inode'[i].data = 1 .. Len(inode[i].data) + (moved'[p] - moved[p])
           /\ Len(inode[i].data) \in Nat /\ DOMAIN inode[i].data = 1 .. Len(inode[i].data)
           /\ \A k \in 1 .. Len(inode[i].data) : inode'[i].data[k] = inode[i].data[k]
           /\ \A k \in DOMAIN inode'[i].data : k > Len(inode[i].data) =>
                 inode'[i].data[k] = <<p, calls[p], moved[p] + (k - Len(inode[i].data))>>
<1>1. PICK data \in Seq(Cells(Writers)) : data = inode[i].data
  BY InodeCells DEF IInv
<1>2. PICK m \in Seq(Cells(Writers)) : m = Message(p)
  BY MessageType
<1>3. Len(m) = call[p].len /\ \A k \in 1 .. Len(m) : m[k] = <<p, calls[p], k>>
  BY <1>2, MessageType
<1>4. PICK a \in Nat : a = moved[p]
  BY DEF IInv, TypeOK
<1>5. call[p].len \in Nat
  BY FactsOfCall DEF Facts
<1>6. PICK k \in Nat : moved'[p] = a + k /\ a + k <= Len(m)
  <2>1. moved'[p] - a \in Nat /\ moved'[p] = a + (moved'[p] - a) /\ moved'[p] <= Len(m)
    BY <1>3, <1>4, <1>5
  <2> QED
    BY <2>1
<1>7. inode'[i].data = data \o SubSeq(m, a + 1, a + k)
  BY <1>1, <1>2, <1>4, <1>6 DEF AddsTo
<1>8. PICK new : new = data \o SubSeq(m, a + 1, a + k)
  OBVIOUS
<1>9. new \in Seq(Cells(Writers))
  BY <1>6, <1>8, AddsAtEnd
<1>10. /\ Len(new) = Len(data) + k
       /\ \A j \in 1 .. Len(data) + k :
             new[j] = IF j <= Len(data) THEN data[j] ELSE m[a + j - Len(data)]
  BY <1>6, <1>8, AddedCells
<1>11. DOMAIN new = 1 .. Len(data) + k /\ Len(data) \in Nat /\ DOMAIN data = 1 .. Len(data)
  BY <1>9, <1>10
<1>12. \A j \in 1 .. Len(data) : new[j] = data[j]
  BY <1>10, <1>11
<1>13. \A j \in 1 .. Len(data) + k : j > Len(data) => new[j] = <<p, calls[p], a + (j - Len(data))>>
  <2> SUFFICES ASSUME NEW j \in 1 .. Len(data) + k, j > Len(data)
               PROVE  new[j] = <<p, calls[p], a + (j - Len(data))>>
    OBVIOUS
  <2>1. PICK h : h = a + (j - Len(data))
    OBVIOUS
  <2>2. h = a + j - Len(data) /\ h \in 1 .. Len(m)
    BY <1>6, <1>11, <2>1
  <2>3. new[j] = m[h]
    BY <1>10, <2>2
  <2> QED
    BY <1>3, <2>1, <2>2, <2>3
<1>14. moved'[p] - moved[p] = k
  BY <1>4, <1>6
<1> QED
  BY <1>1, <1>4, <1>7, <1>8, <1>11, <1>12, <1>13, <1>14

LEMMA BeginCells ==
    ASSUME IInv, NEW p \in Procs, Begin(p)
    PROVE  CellsInv'
<1>1. TypeOK /\ CellsInv
  BY DEF IInv
<1>2. inode' = inode /\ calls'[p] = calls[p] + 1 /\ calls[p] \in Nat
      /\ \A q \in Procs \ {p} : Kept(q)
  BY <1>1, BeginType DEF fs, TypeOK
<1> SUFFICES ASSUME NEW i \in Inodes, NEW k \in DOMAIN inode[i].data, NEW q,
                    q = inode[i].data[k][1], q \in Procs
             PROVE  /\ inode[i].data[k][2] <= calls'[q]
                    /\ inode[i].data[k][2] = calls'[q] => Opens(q, i)'
  BY <1>2 DEF CellsInv
<1>3. PICK n \in Nat : n = inode[i].data[k][2]
  BY <1>1, InodeCells
<1>4. n <= calls[q] /\ (n = calls[q] => Opens(q, i))
  BY <1>1, <1>3 DEF CellsInv
<1>5. CASE q = p
  <2>1. n <= calls'[q] /\ n # calls'[q]
    BY <1>2, <1>4, <1>5
  <2> QED
    BY <1>3, <2>1
<1>6. CASE q # p
  <2>1. calls'[q] = calls[q] /\ Opens(q, i)' = Opens(q, i)
    BY <1>2, <1>6 DEF Kept, Opens
  <2> QED
    BY <1>3, <1>4, <2>1
<1> QED
  BY <1>5, <1>6

\* Who has opened a file still has after any other step.
LEMMA OpensStays ==
    ASSUME IInv, NEW p \in Procs, Step(p), ~Begin(p), NEW q \in Procs, NEW i, Opens(q, i)
    PROVE  Opens(q, i)'
<1>1. Within(p)
  BY StepWithin
<1>2. CASE q = p
  BY <1>1, <1>2, GotStays DEF Opens, Within
<1>3. CASE q # p
  BY <1>1, <1>3 DEF Opens, Within, Kept
<1> QED
  BY <1>2, <1>3

\* All that a step can do to a file; only write(2) adds to it.
LEMMA StepAdds ==
    ASSUME IInv, NEW p \in Procs, Step(p), At1(p, "write"), NEW i \in Inodes, AddsTo(p, i)
    PROVE  \/ moved'[p] \in moved[p] .. call[p].len
           \/ inode'[i].data = inode[i].data /\ moved' = moved
<1>1. CASE WritesSome(p)
  BY <1>1, WritesSomeWithin
<1>2. CASE Fails(p)
  BY <1>2, LookingWithin DEF Fails, fs
<1> QED
  BY <1>1, <1>2, StepsAt

LEMMA StepCells ==
    ASSUME IInv, NEW p \in Procs, Step(p), ~Begin(p)
    PROVE  CellsInv'
<1>1. TypeOK /\ CellsInv
  BY DEF IInv
<1>2. Within(p)
  BY StepWithin
<1> SUFFICES ASSUME NEW i \in Inodes, NEW k \in DOMAIN inode'[i].data,
                    NEW c, c = inode'[i].data[k], c[1] \in Procs
             PROVE  c[2] <= calls[c[1]] /\ (c[2] = calls[c[1]] => Opens(c[1], i)')
  BY <1>2 DEF CellsInv, Within
<1>3. ASSUME NEW h \in DOMAIN inode[i].data, c = inode[i].data[h]
      PROVE  c[2] <= calls[c[1]] /\ (c[2] = calls[c[1]] => Opens(c[1], i)')
  <2>1. c[2] <= calls[c[1]] /\ (c[2] = calls[c[1]] => Opens(c[1], i))
    BY <1>1, <1>3 DEF CellsInv
  <2> QED
    BY <2>1, OpensStays
<1>4. ASSUME c[1] = p, c[2] = calls[p], Opens(p, i)
      PROVE  c[2] <= calls[c[1]] /\ (c[2] = calls[c[1]] => Opens(c[1], i)')
  <2>1. calls[p] <= calls[p]
    BY <1>1 DEF TypeOK
  <2> QED
    BY <1>4, <2>1, OpensStays
<1>5. CASE inode'[i].data = inode[i].data
  BY <1>3, <1>5
<1>6. CASE Clobbers(p, i)
  BY <1>3, <1>4, <1>6 DEF Clobbers, Opens
<1>7. CASE AddsTo(p, i) /\ moved'[p] \in moved[p] .. call[p].len
  <2>1. Opens(p, i)
    BY <1>7, AppendIsOpen DEF AddsTo, Opens
  <2>2. CASE k \in DOMAIN inode[i].data
    BY <1>3, <1>7, <2>2, AddedAre
  <2>3. CASE k \notin DOMAIN inode[i].data
    <3>1. k > Len(inode[i].data)
      <4>1. PICK l \in Nat : l = Len(inode[i].data) /\ DOMAIN inode[i].data = 1 .. l
        BY <1>7, AddedAre
      <4>2. PICK d \in Int : d = moved'[p] - moved[p]
        BY <1>1, <1>7 DEF TypeOK
      <4>3. k \in 1 .. l + d /\ k \notin 1 .. l
        BY <1>7, <2>3, <4>1, <4>2, AddedAre
      <4>4. k > l
        BY <4>3
      <4> QED
        BY <4>1, <4>4
    <3>2. c = <<p, calls[p], moved[p] + (k - Len(inode[i].data))>>
      BY <1>7, <3>1, AddedAre
    <3> QED
      BY <1>4, <2>1, <3>2
  <2> QED
    BY <2>2, <2>3
<1> QED
  BY <1>2, <1>5, <1>6, <1>7, StepAdds DEF Within, FileEffect, SameFile, AddsTo

\* Of the cells of data, those that p wrote in its call r.
Own(data, p, r) == {k \in DOMAIN data : data[k][1] = p /\ data[k][2] = r}

InOrder(data, p, r, n) ==
    /\ {data[k][3] : k \in Own(data, p, r)} = 1 .. n
    /\ \A j, k \in Own(data, p, r) : j < k => data[j][3] < data[k][3]

LEMMA AppendedIsInOrder ==
    ASSUME NEW p, NEW n
    PROVE  Appended(p, n) <=> InOrder(inode[got[p][2]].data, p, calls[p], n)
  BY DEF Appended, InOrder, Own

\* Cells that others add do not matter.
LEMMA OthersAdd ==
    ASSUME NEW data, NEW new, NEW l \in Nat, NEW d \in Nat,
           DOMAIN data = 1 .. l, DOMAIN new = 1 .. l + d, l + d \in Nat,
           \A k \in 1 .. l : new[k] = data[k],
           NEW p, NEW r, \A k \in DOMAIN new : k > l => new[k][1] # p
    PROVE  \A n : InOrder(data, p, r, n) => InOrder(new, p, r, n)
<1>1. Own(new, p, r) = Own(data, p, r)
  BY DEF Own
<1>2. \A k \in Own(data, p, r) : new[k] = data[k]
  BY DEF Own
<1>3. {new[k][3] : k \in Own(new, p, r)} = {data[k][3] : k \in Own(data, p, r)}
  BY <1>1, <1>2
<1> QED
  BY <1>1, <1>2, <1>3 DEF InOrder

\* The next cells of the message, at the end, continue it.
LEMMA OwnAdds ==
    ASSUME NEW data, NEW new, NEW l \in Nat, NEW a \in Nat, NEW b \in Nat, a <= b,
           DOMAIN data = 1 .. l, DOMAIN new = 1 .. l + (b - a),
           \A k \in 1 .. l : new[k] = data[k],
           NEW p, NEW r, \A k \in DOMAIN new : k > l => new[k] = <<p, r, a + (k - l)>>,
           InOrder(data, p, r, a)
    PROVE  InOrder(new, p, r, b)
<1> DEFINE more == l + 1 .. l + (b - a)
<1>1. DOMAIN new = 1 .. l \cup more /\ \A k \in more : k > l /\ k \in DOMAIN new
  OBVIOUS
<1>2. \A k \in more : new[k][1] = p /\ new[k][2] = r /\ new[k][3] = a + (k - l)
  BY <1>1
<1>3. Own(new, p, r) = Own(data, p, r) \cup more
  BY <1>1, <1>2 DEF Own
<1>4. \A k \in Own(data, p, r) : k \in 1 .. l /\ new[k] = data[k] /\ data[k][3] \in 1 .. a
  BY DEF Own, InOrder
<1>5. {new[k][3] : k \in Own(new, p, r)} = 1 .. b
  <2>1. ASSUME NEW k \in Own(new, p, r) PROVE new[k][3] \in 1 .. b
    <3>1. CASE k \in Own(data, p, r)
      BY <1>4, <3>1
    <3>2. CASE k \in more
      <4>1. new[k][3] = a + (k - l)
        BY <1>2, <3>2
      <4>2. a + (k - l) \in 1 .. b
        BY <3>2
      <4> QED
        BY <4>1, <4>2
    <3> QED
      BY <1>3, <2>1, <3>1, <3>2
  <2>2. ASSUME NEW v \in 1 .. b PROVE \E k \in Own(new, p, r) : new[k][3] = v
    <3>1. CASE v <= a
      <4>1. v \in 1 .. a
        BY <3>1
      <4>2. PICK k \in Own(data, p, r) : data[k][3] = v
        BY <4>1 DEF InOrder
      <4> QED
        BY <1>3, <1>4, <4>2
    <3>2. CASE v > a
      <4>1. l + (v - a) \in more /\ a + ((l + (v - a)) - l) = v
        BY <3>2
      <4> QED
        BY <1>2, <1>3, <4>1
    <3> QED
      BY <3>1, <3>2
  <2> QED
    BY <2>1, <2>2
<1>6. ASSUME NEW j \in Own(new, p, r), NEW k \in Own(new, p, r), j < k
      PROVE  new[j][3] < new[k][3]
  <2>1. CASE j \in Own(data, p, r) /\ k \in Own(data, p, r)
    BY <1>4, <1>6, <2>1 DEF InOrder
  <2>2. CASE j \in Own(data, p, r) /\ k \in more
    <3>1. new[j][3] \in 1 .. a
      BY <1>4, <2>2
    <3>2. new[k][3] = a + (k - l)
      BY <1>2, <2>2
    <3>3. a + (k - l) > a /\ a + (k - l) \in Nat
      BY <2>2
    <3> QED
      BY <3>1, <3>2, <3>3
  <2>3. CASE j \in more /\ k \in Own(data, p, r)
    BY <1>4, <1>6, <2>3
  <2>4. CASE j \in more /\ k \in more
    <3>1. new[j][3] = a + (j - l) /\ new[k][3] = a + (k - l)
      BY <1>2, <2>4
    <3>2. a + (j - l) < a + (k - l)
      BY <1>6, <2>4
    <3> QED
      BY <3>1, <3>2
  <2> QED
    BY <1>3, <1>6, <2>1, <2>2, <2>3, <2>4
<1> QED
  BY <1>5, <1>6 DEF InOrder

LEMMA NoneIsInOrder ==
    ASSUME NEW data, NEW p, NEW r, Own(data, p, r) = {}
    PROVE  InOrder(data, p, r, 0)
  BY DEF InOrder

LEMMA GotShape ==
    ASSUME IInv, NEW p \in Procs, NEW v
    PROVE  /\ Len(got[p]) \in Nat
           /\ \A n : n = Len(got[p]) + 1 =>
                 Len(Append(got[p], v)) = n /\ Append(got[p], v)[n] = v
           /\ \A k \in 1 .. Len(got[p]) : Append(got[p], v)[k] = got[p][k]
           /\ Append(got[p], v) = [k \in 1 .. Len(got[p]) + 1 |-> Append(got[p], v)[k]]
           /\ got[p] = << >> <=> Len(got[p]) = 0
<1>1. PICK n \in Nat : n = Len(got[p]) /\ got[p] = [k \in 1 .. n |-> got[p][k]]
  BY DEF IInv, ProcInv, CallInv
<1>2. /\ Append(got[p], v) = [k \in 1 .. n + 1 |-> IF k <= n THEN got[p][k] ELSE v]
      /\ Len(Append(got[p], v)) = n + 1
      /\ got[p] = << >> <=> n = 0
  BY <1>1, OneMore
<1>3. PICK s : s = Append(got[p], v)
  OBVIOUS
<1>4. s = [k \in 1 .. n + 1 |-> IF k <= n THEN got[p][k] ELSE v]
  BY <1>2, <1>3
<1>5. (\A k \in 1 .. n : s[k] = got[p][k]) /\ s[n + 1] = v /\ s = [k \in 1 .. n + 1 |-> s[k]]
  BY <1>4
<1> QED
  BY <1>1, <1>2, <1>3, <1>5

\* The file of another process's append_to_file().
LEMMA AppendInvOther ==
    ASSUME IInv, NEW p \in Procs, Step(p), NEW q \in Procs, q # p
    PROVE  AppendInv(q)'
<1>1. TypeOK /\ AppendInv(q)
  BY DEF IInv, ProcInv
<1>2. Kept(q) /\ (q \notin clobbered' => q \notin clobbered)
  <2>1. CASE Begin(p)
    BY <1>1, <2>1, BeginType
  <2>2. CASE ~Begin(p)
    BY <2>2, StepWithin DEF Within, Typed
  <2> QED
    BY <2>1, <2>2
<1> SUFFICES ASSUME call[q].name = "append", Len(got[q]) = 2, q \notin clobbered',
                    inode'[got[q][2]].kind = "regular"
             PROVE  Appended(q, moved[q])'
  BY <1>1, <1>2 DEF AppendInv, Kept
<1>3. PICK i \in Inodes : i = got[q][2]
  BY <1>1 DEF AppendInv
<1>4. inode[i].kind = "regular" => InOrder(inode[i].data, q, calls[q], moved[q])
  BY <1>1, <1>2, <1>3, AppendedIsInOrder DEF AppendInv
<1>5. InOrder(inode'[i].data, q, calls[q], moved[q]) => Appended(q, moved[q])'
  BY <1>2, <1>3 DEF Kept, InOrder, Own, Appended
<1>6. CASE inode'[i].data = inode[i].data /\ inode'[i].kind = inode[i].kind
  BY <1>3, <1>4, <1>5, <1>6
<1>7. CASE Clobbers(p, i)
  BY <1>3, <1>7 DEF Clobbers, AppendersTo
<1>8. CASE AddsTo(p, i) /\ moved'[p] \in moved[p] .. call[p].len
  <2>1. PICK l \in Nat : l = Len(inode[i].data)
    BY <1>8, AddedAre
  <2>2. PICK d : d = moved'[p] - moved[p]
    OBVIOUS
  <2>3. d \in Nat /\ l + d \in Nat
    <3>1. moved[p] \in Nat
      BY <1>1 DEF TypeOK
    <3> QED
      BY <1>8, <2>2, <3>1
  <2>4. /\ DOMAIN inode[i].data = 1 .. l /\ DOMAIN inode'[i].data = 1 .. l + d
        /\ \A k \in 1 .. l : inode'[i].data[k] = inode[i].data[k]
        /\ \A k \in DOMAIN inode'[i].data : k > l => inode'[i].data[k][1] # q
    BY <1>8, <2>1, <2>2, AddedAre
  <2>5. \A n : InOrder(inode[i].data, q, calls[q], n) => InOrder(inode'[i].data, q, calls[q], n)
    BY <2>3, <2>4, OthersAdd
  <2> QED
    BY <1>3, <1>4, <1>5, <1>8, <2>5 DEF AddsTo
<1>9. CASE Begin(p)
  BY <1>1, <1>6, <1>9, BeginType DEF fs
<1>10. CASE ~Begin(p)
  BY <1>6, <1>7, <1>8, <1>10, StepWithin, StepAdds DEF Within, FileEffect, SameFile, AddsTo
<1> QED
  BY <1>9, <1>10

\* Its own file.
LEMMA AppendInvBegins ==
    ASSUME IInv, NEW p \in Procs, Begin(p)
    PROVE  AppendInv(p)'
<1>1. /\ IsCall([call'[p] EXCEPT !.valid = TRUE]) /\ got'[p] = << >>
      /\ todo'[p] \in {call'[p].steps, <<"validate">>}
  BY BeginType DEF IInv
<1>2. Facts(call'[p]) /\ Len(got'[p]) = 0
  BY <1>1, CallFacts
<1>3. call'[p].name = "append" => call'[p].steps = <<"is_path", "open", "write">>
  BY <1>2 DEF Facts, IsOther
<1>4. <<"is_path", "open", "write">> # <<"open", "write">> /\ <<"validate">> # <<"open", "write">>
  BY Tuple1, Tuple2, Tuple3
<1> QED
  BY <1>1, <1>2, <1>3, <1>4 DEF AppendInv

LEMMA AppendInvSelf ==
    ASSUME IInv, NEW p \in Procs, Step(p), ~Begin(p)
    PROVE  AppendInv(p)'
<1>1. TypeOK /\ AppendInv(p) /\ CellsInv
  BY DEF IInv, ProcInv
<1>2. Within(p) /\ call' = call /\ calls' = calls /\ (p \notin clobbered' => p \notin clobbered)
  BY StepWithin DEF Within, Typed
<1>3. << >> # <<"open", "write">>
  BY Tuple2
<1> SUFFICES ASSUME call[p].name = "append"
             PROVE  AppendInv(p)'
  BY <1>2 DEF AppendInv
<1>4. ASSUME fs' = fs, got' = got, moved' = moved, todo'[p] = << >>
      PROVE  AppendInv(p)'
  <2>1. Appended(p, moved[p]) => Appended(p, moved[p])'
    BY <1>2, <1>4 DEF fs, Appended
  <2> QED
    BY <1>1, <1>2, <1>3, <1>4, <2>1 DEF AppendInv, fs
<1>5. CASE At1(p, "validate")
  <2>1. Refuses(p) /\ Returns(p, IF call[p].name = "read" THEN "ENOENT" ELSE "EINVAL")
    BY <1>5, StepsAt DEF Refuses
  <2>2. todo'[p] = << >>
    BY <1>1, <2>1, ReturnsMine DEF Errno
  <2> QED
    BY <1>4, <2>1, <2>2 DEF Refuses, Looks, fs
<1>6. CASE Fails(p) /\ ~At1(p, "is_file") /\ ~At1(p, "fclose")
  <2>1. Returns(p, "EIO") /\ got' = got /\ fs' = fs /\ moved' = moved
    BY <1>6 DEF Fails, At1, fs
  <2>2. todo'[p] = << >>
    BY <1>1, <2>1, ReturnsMine DEF Errno
  <2> QED
    BY <1>4, <2>1, <2>2
<1>7. CASE At1(p, "is_path") /\ ChecksPath(p)
  <2>1. Len(got[p]) = 0
    BY <1>7, OthersNext, Tuple2, Tuple3, Tuple1 DEF AppendLeft, Left, At1
  <2>2. PICK b \in BOOLEAN : Gets(p, b)
    BY <1>7 DEF ChecksPath
  <2>3. got'[p] = Append(got[p], b)
    BY <1>1, <2>2, GetsMine
  <2>4. Len(got'[p]) = 1 /\ got'[p][1] = b
    BY <2>1, <2>3, GotShape
  <2> QED
    BY <2>4 DEF AppendInv
<1>8. CASE At1(p, "open") /\ OpensToAppend(p)
  <2>1. Len(got[p]) = 1 /\ moved[p] = 0 /\ todo[p] = <<"open", "write">>
    BY <1>8, OthersNext, Tuple2, Tuple3, Tuple1 DEF AppendLeft, Left, At1
  <2>2. moved' = moved
    BY <1>8 DEF OpensToAppend, OpensInode, Makes, FailsToOpen, Looks
  <2>3. CASE todo'[p] = << >> /\ got' = got /\ fs' = fs
    BY <1>4, <2>2, <2>3
  <2>4. CASE /\ got'[p] = Append(got[p], fd'[p]) /\ fd'[p] \in Inodes
             /\ todo'[p] = Tail(todo[p]) /\ (fs' = fs \/ inode'[fd'[p]].data = << >>)
    <3>1. PICK i \in Inodes : i = fd'[p]
      BY <2>4
    <3>2. Len(got'[p]) = 2 /\ got'[p][2] = i
      <4>1. PICK s : s = Append(got[p], i)
        OBVIOUS
      <4>2. 2 = Len(got[p]) + 1
        BY <2>1
      <4>3. Len(s) = 2 /\ s[2] = i
        BY <4>1, <4>2, GotShape
      <4> QED
        BY <2>4, <3>1, <4>1, <4>3
    <3>3. Own(inode'[i].data, p, calls[p]) = {}
      <4>1. CASE inode'[i].data = << >>
        BY <4>1 DEF Own
      <4>2. CASE inode'[i].data = inode[i].data
        <5>1. ~Opens(p, i)
          BY <2>1 DEF Opens
        <5>2. \A k \in DOMAIN inode[i].data : inode[i].data[k][1] = p =>
                 inode[i].data[k][2] # calls[p]
          BY <1>1, <5>1 DEF CellsInv
        <5> QED
          BY <4>2, <5>2 DEF Own
      <4> QED
        BY <2>4, <3>1, <4>1, <4>2 DEF fs
    <3>4. InOrder(inode'[i].data, p, calls[p], 0)
      BY <3>3, NoneIsInOrder
    <3>5. Appended(p, moved[p])'
      BY <1>2, <2>1, <2>2, <3>2, <3>4 DEF InOrder, Own, Appended
    <3>6. todo'[p] = <<"write">> /\ <<"write">> # <<"open", "write">>
      BY <2>1, <2>4, Tuple1, Tuple2
    <3> QED
      BY <3>1, <3>2, <3>5, <3>6 DEF AppendInv
  <2> QED
    BY <1>8, <2>3, <2>4, OpensToAppendWithin
<1>9. CASE At1(p, "write") /\ WritesSome(p)
  <2>1. /\ todo[p] = <<"write">> /\ Len(got[p]) = 2 /\ fd[p] = got[p][2] /\ fd[p] \in Inodes
        /\ moved[p] \in Nat
    BY <1>9, AppendIsOpen
  <2>2. got' = got /\ moved'[p] \in moved[p] .. call[p].len
        /\ todo'[p] \in {<< >>, <<"write">>}
    BY <1>9, <2>1, WritesSomeWithin
  <2>3. todo'[p] # <<"open", "write">>
    <3>1. <<"write">> # <<"open", "write">>
      BY Tuple1, Tuple2
    <3> QED
      BY <1>3, <2>2, <3>1
  <2>4. PICK i \in Inodes : i = got[p][2]
    BY <2>1
  <2> SUFFICES ASSUME p \notin clobbered, inode'[i].kind = "regular"
               PROVE  InOrder(inode'[i].data, p, calls[p], moved'[p])
    BY <1>2, <2>1, <2>2, <2>3, <2>4 DEF AppendInv, Appended, InOrder, Own
  <2>5. inode[i].kind = "regular" => InOrder(inode[i].data, p, calls[p], moved[p])
    BY <1>1, <2>1, <2>4, AppendedIsInOrder DEF AppendInv
  <2>6. CASE inode' = inode /\ (inode[fd[p]].kind = "special" \/ moved'[p] = moved[p])
    BY <2>1, <2>4, <2>5, <2>6
  <2>7. CASE AddsTo(p, fd[p])
    <3>1. InOrder(inode[i].data, p, calls[p], moved[p])
      BY <2>1, <2>4, <2>5, <2>7 DEF AddsTo
    <3>2. PICK l \in Nat : l = Len(inode[i].data)
      BY <2>1, <2>2, <2>4, <2>7, AddedAre
    <3>3. PICK a \in Nat : a = moved[p]
      BY <2>1
    <3>4. PICK b \in Nat : b = moved'[p] /\ a <= b
      BY <2>1, <2>2, <3>3
    <3>5. /\ DOMAIN inode[i].data = 1 .. l /\ DOMAIN inode'[i].data = 1 .. l + (b - a)
          /\ \A k \in 1 .. l : inode'[i].data[k] = inode[i].data[k]
          /\ \A k \in DOMAIN inode'[i].data : k > l =>
                inode'[i].data[k] = <<p, calls[p], a + (k - l)>>
      BY <2>1, <2>2, <2>4, <2>7, <3>2, <3>3, <3>4, AddedAre
    <3>6. PICK data : data = inode[i].data
      OBVIOUS
    <3>7. PICK new : new = inode'[i].data
      OBVIOUS
    <3>8. InOrder(data, p, calls[p], a) /\ a <= b
      BY <3>1, <3>3, <3>4, <3>6
    <3>9. /\ DOMAIN data = 1 .. l /\ DOMAIN new = 1 .. l + (b - a)
          /\ \A k \in 1 .. l : new[k] = data[k]
          /\ \A k \in DOMAIN new : k > l => new[k] = <<p, calls[p], a + (k - l)>>
      BY <3>5, <3>6, <3>7
    <3>10. InOrder(new, p, calls[p], b)
      BY <3>8, <3>9, OwnAdds
    <3> QED
      BY <3>4, <3>7, <3>10
  <2> QED
    BY <1>9, <2>6, <2>7, WritesSomeWithin
<1>10. \/ At1(p, "validate") \/ At1(p, "is_path") \/ At1(p, "open") \/ At1(p, "write")
  BY OthersNext, StepsAt
<1>11. CASE ~At1(p, "is_file") /\ ~At1(p, "fclose")
  BY <1>5, <1>6, <1>7, <1>8, <1>9, <1>10, <1>11, StepsAt
<1> QED
  BY <1>10, <1>11 DEF At1

(***************************************************************************)
(* What a call has read is true as long as nobody interferes.              *)
(***************************************************************************)
\* Where the others are in their calls does not change.
LEMMA CallInvOther ==
    ASSUME IInv, NEW q \in Procs, Kept(q)
    PROVE  CallInv(q)'
<1>1. CallInv(q)
  BY DEF IInv, ProcInv
<1>2. Under(q)' = Under(q)
  <2>1. GetsLeft(q)' = GetsLeft(q) /\ ReadsLeft(q)' = ReadsLeft(q) /\ ModeLeft(q)' = ModeLeft(q)
    BY DEF Kept, GetsLeft, ReadsLeft, ModeLeft, Left, Wants
  <2>2. AppendLeft(q)' = AppendLeft(q) /\ CreateLeft(q)' = CreateLeft(q)
    BY DEF Kept, AppendLeft, CreateLeft, Left
  <2> QED
    BY <2>1, <2>2 DEF Kept, Under
<1>3. Returned(q)' = Returned(q)
  BY DEF Kept, Returned, Wants
<1> QED
  BY <1>1, <1>2, <1>3 DEF CallInv, Kept

\* Nobody interfered with q before, and what its path leads to is as it was.
LEMMA Undisturbed ==
    ASSUME IInv, NEW p \in Procs, Disturbs(p), NEW q \in Procs, q # p, ~disturbed'[q],
           call'[q] = call[q], NEW n, n = call[q].path
    PROVE  ~disturbed[q] /\ View(n)' = View(n) /\ n \in Names
<1>1. ~disturbed[q] /\ View(call[q].path)' = View(call[q].path)
  BY DEF Disturbs
<1>2. n \in Names
  BY FactsOfCall DEF Facts
<1>3. View(call[q].path)' = View(n)'
  OBVIOUS
<1> QED
  BY <1>1, <1>2, <1>3

LEMMA ReadInvOther ==
    ASSUME IInv, NEW p \in Procs, Disturbs(p), NEW q \in Procs, q # p, Kept(q)
    PROVE  ReadInv(q)'
<1> SUFFICES ASSUME ~disturbed'[q], call[q].name \in {"get", "read"},
                    todo[q] # << >> \/ result[q] = "ENOERR"
             PROVE  /\ Len(got[q]) <= Wants(q)
                    /\ got[q] = Fetched(q)'
                    /\ got[q] # << >> => Here(q)' # NoInode
                    /\ todo[q] = <<"fread">> => fd[q] = Here(q)'
  BY DEF ReadInv, Kept, Wants
<1>1. PICK n : n = call[q].path
  OBVIOUS
<1>2. PICK f \in BOOLEAN : f = call[q].follow
  BY FactsOfCall DEF Facts
<1>3. ~disturbed[q] /\ View(n)' = View(n) /\ n \in Names
  BY <1>1, Undisturbed DEF Kept
<1>4. Here(q) = At(n, f) /\ Here(q)' = At(n, f)'
  BY <1>1, <1>2 DEF Here, Kept
<1>5. /\ Len(got[q]) <= Wants(q)
      /\ got[q] = Fetched(q)
      /\ got[q] # << >> => At(n, f) # NoInode
      /\ todo[q] = <<"fread">> => fd[q] = At(n, f)
  BY <1>3, <1>4 DEF IInv, ProcInv, ReadInv
<1>6. At(n, f)' = At(n, f)
  BY <1>3, ViewSame DEF At
<1>7. CASE got[q] = << >>
  <2>1. Len(got[q]) = 0 /\ Fetched(q)' = << >>
    BY <1>7 DEF Fetched, Kept
  <2> QED
    BY <1>4, <1>5, <1>6, <1>7, <2>1
<1>8. CASE At(n, f) # NoInode
  <2>1. \A field : Value(At(n, f), field)' = Value(At(n, f), field)
    BY <1>3, <1>8, ValueSame
  <2>2. \A k : Value(Here(q), call[q].fields[k])' = Value(Here(q), call[q].fields[k])
    BY <1>4, <2>1 DEF Kept
  <2>3. Fetched(q)' = Fetched(q)
    BY <2>2 DEF Fetched, Kept
  <2> QED
    BY <1>4, <1>5, <1>6, <2>3
<1> QED
  BY <1>5, <1>7, <1>8

LEMMA ModeInvOther ==
    ASSUME IInv, NEW p \in Procs, Disturbs(p), NEW q \in Procs, q # p, Kept(q)
    PROVE  ModeInv(q)' /\ LinkInv(q)'
<1>1. PICK n : n = call[q].path
  OBVIOUS
<1>2. ModeInv(q) /\ LinkInv(q) /\ n \in Names
  BY <1>1, FactsOfCall DEF Facts, IInv, ProcInv
<1>3. ASSUME ~disturbed'[q]
      PROVE  /\ ~disturbed[q]
             /\ LStat(n)' = LStat(n) /\ Stat(n)' = Stat(n)
             /\ \A i \in {LStat(n), Stat(n)} : i # NoInode => inode'[i] = inode[i]
  BY <1>1, <1>3, Undisturbed, ViewSame DEF Kept
<1>4. ModeInv(q)'
  BY <1>1, <1>2, <1>3 DEF ModeInv, Kept
<1>5. LinkInv(q)'
  BY <1>1, <1>2, <1>3 DEF LinkInv, Looked, Kept
<1> QED
  BY <1>4, <1>5

\* A call begins.
LEMMA BeginInv ==
    ASSUME IInv, NEW p \in Procs, Begin(p), Disturbs(p)
    PROVE  CallInv(p)' /\ ReadInv(p)' /\ ModeInv(p)' /\ LinkInv(p)'
<1>1. /\ todo'[p] \in {call'[p].steps, <<"validate">>}
      /\ got'[p] = << >> /\ moved'[p] = 0 /\ Facts(call'[p])
  BY BeginType, CallFacts DEF IInv
<1>2. Len(got'[p]) = 0 /\ got'[p] = [k \in 1 .. Len(got'[p]) |-> got'[p][k]]
  BY <1>1
<1>3. PICK c : c = call'[p]
  OBVIOUS
<1>4. \A s, t : <<s, t>> # <<>> /\ Len(<<s, t>>) = 2 /\ Head(<<s, t>>) = s
  BY Tuple2
<1>5. \A s, t, u : <<s, t, u>> # <<>> /\ Len(<<s, t, u>>) = 3 /\ Head(<<s, t, u>>) = s
  BY Tuple3
<1>6. \A s, t, u, v : <<s, t, u, v>> # << >> /\ Len(<<s, t, u, v>>) = 4
                      /\ Head(<<s, t, u, v>>) = s
  BY Tuple4
<1>7. \A s : <<s>> # << >> /\ Len(<<s>>) = 1 /\ Head(<<s>>) = s
  BY Tuple1
<1>8. /\ c.steps # << >>
      /\ c.steps \notin {<<"write">>, <<"fclose">>, <<"fread">>}
      /\ Head(c.steps) \notin {"a_stat", "a_chown", "validate"}
      /\ c.name \in {"add_mode", "remove_mode"} => c.steps # <<"chmod">>
  <2>1. CASE c.name = "get"
    <3>1. c.steps \in {<<"stat">>, <<"lstat">>, <<"is_sym_link", "a_stat">>,
                       <<"is_sym_link", "a_stat", "is_sym_link", "a_stat">>}
      BY <1>1, <1>3, <2>1 DEF Facts, IsGet
    <3> QED
      BY <1>4, <1>6, <1>7, <2>1, <3>1
  <2>2. CASE c.name # "get"
    <3>1. IsOther(c) /\ c.name \in CallNames
      BY <1>1, <1>3, <2>2 DEF Facts
    <3>2. CASE c.name \in {"is_path", "link", "symlink", "unlink"}
      <4>1. c.steps = <<c.name>>
        BY <3>1, <3>2 DEF IsOther
      <4> QED
        BY <1>7, <3>2, <4>1
    <3>3. CASE c.name \in {"set_mode", "set_times"}
      <4>1. c.steps \in {<<"chmod">>, <<"utimensat">>}
        BY <3>1, <3>3 DEF IsOther
      <4> QED
        BY <1>7, <3>3, <4>1
    <3>4. CASE c.name \in {"add_mode", "remove_mode", "mkfifo", "set_owner"}
      <4>1. c.steps \in {<<"stat", "chmod">>, <<"is_path", "mkfifo">>, <<"is_sym_link", "a_chown">>}
        BY <3>1, <3>4 DEF IsOther
      <4> QED
        BY <1>4, <1>7, <4>1
    <3>5. CASE c.name \in {"append", "create"}
      <4>1. c.steps \in {<<"is_path", "open", "write">>, <<"is_file", "fopen_w", "fclose">>}
        BY <3>1, <3>5 DEF IsOther
      <4> QED
        BY <1>5, <1>7, <3>5, <4>1
    <3>6. CASE c.name = "read"
      <4>1. c.steps = <<"is_file", "stat", "fopen_r", "fread">>
        BY <3>1, <3>6 DEF IsOther
      <4> QED
        BY <1>6, <1>7, <3>6, <4>1
    <3> QED
      BY <2>2, <3>1, <3>2, <3>3, <3>4, <3>5, <3>6 DEF CallNames
  <2> QED
    BY <2>1, <2>2
<1>9. /\ todo'[p] # << >> /\ todo'[p] \notin {<<"write">>, <<"fclose">>, <<"fread">>}
      /\ Head(todo'[p]) \notin {"a_stat", "a_chown"}
      /\ c.name \in {"add_mode", "remove_mode"} => todo'[p] # <<"chmod">>
  BY <1>1, <1>3, <1>7, <1>8
<1>10. ASSUME todo'[p] = c.steps PROVE Under(p)'
  <2>1. CASE c.name = "get"
    <3>1. IsGet(c)
      BY <1>1, <1>3, <2>1 DEF Facts
    <3>2. GetsLeft(p)'
      <4>1. Wants(p)' = Len(c.fields) /\ Len(got'[p]) + 1 = 1
        BY <1>2, <1>3 DEF Wants
      <4> QED
        BY <1>1, <1>2, <1>3, <1>10, <3>1, <4>1 DEF IsGet, GetsLeft, Left
    <3> QED
      BY <1>3, <2>1, <3>2 DEF Under
  <2>2. CASE c.name # "get"
    <3>1. IsOther(c) /\ c.name \in CallNames
      BY <1>1, <1>3, <2>2 DEF Facts
    <3>2. CASE c.name = "read"
      <4>1. ReadsLeft(p)'
        BY <1>2, <1>10, <3>1, <3>2 DEF IsOther, ReadsLeft, Left
      <4> QED
        BY <1>3, <3>2, <4>1 DEF Under
    <3>3. CASE c.name \in {"add_mode", "remove_mode"}
      <4>1. ModeLeft(p)'
        BY <1>2, <1>10, <3>1, <3>3 DEF IsOther, ModeLeft, Left
      <4> QED
        BY <1>3, <3>3, <4>1 DEF Under
    <3>4. CASE c.name = "append"
      <4>1. AppendLeft(p)'
        BY <1>1, <1>2, <1>10, <3>1, <3>4 DEF IsOther, AppendLeft, Left
      <4> QED
        BY <1>3, <3>4, <4>1 DEF Under
    <3>5. CASE c.name = "create"
      <4>1. CreateLeft(p)'
        BY <1>2, <1>10, <3>1, <3>5 DEF IsOther, CreateLeft, Left
      <4> QED
        BY <1>3, <3>5, <4>1 DEF Under
    <3>6. CASE c.name \in {"mkfifo", "set_owner", "set_mode", "set_times"}
      BY <1>3, <1>10, <3>1, <3>6 DEF IsOther, Under
    <3>7. CASE c.name \in {"is_path", "link", "symlink", "unlink"}
      <4>1. todo'[p] = <<c.name>>
        BY <1>10, <3>1, <3>7 DEF IsOther
      <4> QED
        BY <1>3, <3>7, <4>1 DEF Under
    <3> QED
      BY <2>2, <3>1, <3>2, <3>3, <3>4, <3>5, <3>6, <3>7 DEF CallNames
  <2> QED
    BY <2>1, <2>2
<1>11. CallInv(p)'
  BY <1>1, <1>2, <1>3, <1>9, <1>10 DEF CallInv, Returned
<1>12. ReadInv(p)'
  <2>1. c.name \in {"get", "read"} => Len(c.fields) \in Nat
    <3>1. c.name = "get" => Len(c.fields) \in Nat
      BY <1>1, <1>3 DEF Facts, IsGet
    <3>2. c.name = "read" => c.fields = <<<<"regular">>, <<"size">>, <<"data">>>>
      BY <1>1, <1>3 DEF Facts, IsOther
    <3> QED
      BY <1>5, <3>1, <3>2
  <2>2. got'[p] = Fetched(p)'
    BY <1>1, <1>2 DEF Fetched
  <2>3. c.name \in {"get", "read"} => Len(got'[p]) <= Wants(p)'
    BY <1>2, <1>3, <2>1 DEF Wants
  <2> QED
    BY <1>1, <1>3, <1>9, <2>2, <2>3 DEF ReadInv
<1>13. ModeInv(p)' /\ LinkInv(p)'
  BY <1>3, <1>9 DEF ModeInv, LinkInv, Looked
<1> QED
  BY <1>11, <1>12, <1>13

\* Within a call: it reads no more than one value, and goes on or returns.
LEMMA GotAfter ==
    ASSUME IInv, NEW p \in Procs, Step(p), ~Begin(p)
    PROVE  /\ Len(got'[p]) \in Nat /\ got'[p] = [k \in 1 .. Len(got'[p]) |-> got'[p][k]]
           /\ got' = got \/ \E v : Gets(p, v)
<1>1. TypeOK
  BY DEF IInv
<1>2. got' = got \/ \E v : Gets(p, v)
  <2>1. CASE Refuses(p) \/ LooksAtLink(p) \/ Utimensats(p) \/ Chowns(p) \/ Chmods(p)
    BY <2>1 DEF Refuses, LooksAtLink, Utimensats, Chowns, Chmods, Changes
  <2>2. CASE CallsAStat(p) \/ CallsStat(p) \/ CallsLStat(p)
    BY <2>2 DEF CallsAStat, CallsStat, CallsLStat, Reads
  <2>3. CASE ChecksPath(p) \/ ChecksFile(p) \/ ReadsStream(p)
    BY <2>3 DEF ChecksPath, ChecksFile, ReadsStream
  <2>4. CASE Links(p) \/ SymLinks(p) \/ MakesPipe(p) \/ Unlinks(p)
    BY <2>4 DEF Links, SymLinks, MakesPipe, Unlinks, Binds
  <2>5. CASE OpensToAppend(p) \/ WritesSome(p) \/ OpensToWrite(p) \/ Closes(p) \/ OpensToRead(p)
    BY <2>5, OpensToReadWithin DEF OpensToAppend, WritesSome, OpensToWrite, Closes, FailsToOpen
  <2>6. CASE Fails(p)
    BY <2>6 DEF Fails, FailsToStat
  <2> QED
    BY <2>1, <2>2, <2>3, <2>4, <2>5, <2>6 DEF Step
<1>3. CASE got' = got
  BY <1>3 DEF IInv, ProcInv, CallInv
<1>4. CASE \E v : Gets(p, v)
  <2>1. PICK v : got'[p] = Append(got[p], v)
    BY <1>1, <1>4, GetsMine
  <2>2. PICK n : n = Len(got[p]) + 1
    OBVIOUS
  <2>3. n \in Nat /\ Len(got'[p]) = n /\ got'[p] = [k \in 1 .. n |-> got'[p][k]]
    BY <2>1, <2>2, GotShape
  <2> QED
    BY <1>2, <2>3
<1> QED
  BY <1>2, <1>3, <1>4

MovesOn(p) ==
    \/ \E errno \in Errno \ {"ENOERR"} : Returns(p, errno)
    \/ Proceeds(p)

LEMMA StepMovesOn ==
    ASSUME IInv, NEW p \in Procs, Step(p), ~Begin(p)
    PROVE  \/ MovesOn(p)
           \/ WritesSome(p)
           \/ /\ OpensToAppend(p) \/ OpensToWrite(p) \/ OpensToRead(p)
              /\ todo'[p] = Tail(todo[p]) /\ fd'[p] \in Inodes
<1> USE DEF Errno, MovesOn
<1>1. CASE Refuses(p) \/ LooksAtLink(p)
  BY <1>1 DEF Refuses, LooksAtLink
<1>2. CASE Utimensats(p) \/ Chowns(p) \/ Chmods(p)
  BY <1>2 DEF Utimensats, Chowns, Chmods, Changes
<1>3. CASE CallsAStat(p) \/ CallsStat(p) \/ CallsLStat(p)
  BY <1>3 DEF CallsAStat, CallsStat, CallsLStat, Reads
<1>4. CASE ChecksPath(p) \/ ChecksFile(p) \/ ReadsStream(p)
  BY <1>4 DEF ChecksPath, ChecksFile, ReadsStream
<1>5. CASE Links(p) \/ SymLinks(p) \/ MakesPipe(p) \/ Unlinks(p) \/ Closes(p)
  BY <1>5 DEF Links, SymLinks, MakesPipe, Unlinks, Closes
<1>6. CASE Fails(p)
  BY <1>6 DEF Fails, FailsToStat
<1>7. CASE WritesSome(p)
  BY <1>7
<1>8. CASE OpensToAppend(p) \/ OpensToWrite(p) \/ OpensToRead(p)
  <2>1. TypeOK /\ Stat(call[p].path) \in Inodes \cup {NoInode}
    BY InodesThere, FactsOfCall DEF Facts, IInv
  <2>2. ASSUME NEW i \in Inodes, OpensInode(p, i)
        PROVE  todo'[p] = Tail(todo[p]) /\ fd'[p] \in Inodes
    BY <2>1, <2>2 DEF OpensInode, TypeOK
  <2>3. \/ FailsToOpen(p, "ENOENT") \/ Makes(p)
        \/ \E i \in Inodes : OpensInode(p, i)
    <3>1. CASE OpensToAppend(p)
      BY <2>1, <3>1 DEF OpensToAppend
    <3>2. CASE OpensToWrite(p)
      BY <2>1, <3>2 DEF OpensToWrite
    <3>3. CASE OpensToRead(p)
      BY <2>1, <3>3 DEF OpensToRead
    <3> QED
      BY <1>8, <3>1, <3>2, <3>3
  <2>4. FailsToOpen(p, "ENOENT") => MovesOn(p)
    BY DEF FailsToOpen
  <2>5. Makes(p) => \E i \in Inodes : OpensInode(p, i)
    BY DEF Makes, Unused
  <2> QED
    BY <1>8, <2>2, <2>3, <2>4, <2>5
<1> QED
  BY <1>1, <1>2, <1>3, <1>4, <1>5, <1>6, <1>7, <1>8 DEF Step

SelfInv(p) == CallInv(p) /\ ReadInv(p) /\ ModeInv(p) /\ LinkInv(p)

\* A step within a call, of the process that makes it.
Own1(p) == Step(p) /\ ~Begin(p) /\ Disturbs(p)

\* The rest of a call's steps after one that worked.
LEMMA ProceedsTo ==
    ASSUME IInv, NEW p \in Procs, Proceeds(p)
    PROVE  /\ \A s : todo[p] = <<s>> => todo'[p] = << >> /\ result'[p] = "ENOERR"
           /\ \A s, t : todo[p] = <<s, t>> => todo'[p] = <<t>> /\ fd' = fd
           /\ \A s, t, u : todo[p] = <<s, t, u>> => todo'[p] = <<t, u>> /\ fd' = fd
           /\ \A s, t, u, v : todo[p] = <<s, t, u, v>> => todo'[p] = <<t, u, v>> /\ fd' = fd
<1>1. /\ Len(todo[p]) = 1 => todo'[p] = << >> /\ result'[p] = "ENOERR"
      /\ Len(todo[p]) # 1 => todo'[p] = Tail(todo[p]) /\ fd' = fd
  BY ProceedsMine DEF IInv
<1>2. \A s : todo[p] = <<s>> => todo'[p] = << >> /\ result'[p] = "ENOERR"
  BY <1>1, Tuple1
<1>3. \A s, t : todo[p] = <<s, t>> => todo'[p] = <<t>> /\ fd' = fd
  BY <1>1, Tuple2
<1>4. \A s, t, u : todo[p] = <<s, t, u>> => todo'[p] = <<t, u>> /\ fd' = fd
  BY <1>1, Tuple3
<1>5. \A s, t, u, v : todo[p] = <<s, t, u, v>> => todo'[p] = <<t, u, v>> /\ fd' = fd
  BY <1>1, Tuple4
<1> QED
  BY <1>2, <1>3, <1>4, <1>5

LEMMA Tuples ==
    /\ \A s : <<s>> # << >>
    /\ \A s, t : <<s, t>> # << >>
    /\ \A s, t, u : <<s>> # <<t, u>>
    /\ \A s, t, u, v : <<s>> # <<t, u, v>>
    /\ \A s, t, u, v, w : <<s, t>> # <<u, v, w>>
    /\ \A s, t : <<s>> = <<t>> => s = t
    /\ \A s : Head(<<s>>) = s
    /\ \A s, t : Head(<<s, t>>) = s
    /\ \A s, t, u : Head(<<s, t, u>>) = s /\ <<s, t, u>> # << >>
  BY Tuple1, Tuple2, Tuple3

\* A call that returns an error, or that has nothing to return.
LEMMA Ended ==
    ASSUME IInv, NEW p \in Procs, Own1(p), todo'[p] = << >>,
           \/ result'[p] # "ENOERR"
           \/ call[p].name \notin {"get", "read", "append"}
    PROVE  SelfInv(p)'
<1>1. /\ Len(got'[p]) \in Nat /\ got'[p] = [k \in 1 .. Len(got'[p]) |-> got'[p][k]]
      /\ call' = call
  BY GotAfter, StepWithin DEF Own1, Within
<1>2. CallInv(p)'
  BY <1>1, Tuples DEF CallInv, Returned
<1>3. ReadInv(p)'
  BY <1>1 DEF ReadInv
<1>4. ModeInv(p)' /\ LinkInv(p)'
  BY Tuples DEF ModeInv, LinkInv, Looked
<1> QED
  BY <1>2, <1>3, <1>4 DEF SelfInv

\* A step that returns an error.
LEMMA Returned1 ==
    ASSUME IInv, NEW p \in Procs, Own1(p), NEW errno \in Errno, errno # "ENOERR",
           Returns(p, errno)
    PROVE  SelfInv(p)'
<1>1. todo'[p] = << >> /\ result'[p] = errno
  BY ReturnsMine DEF IInv
<1> QED
  BY <1>1, Ended

LEMMA SelfRefuses ==
    ASSUME IInv, NEW p \in Procs, Own1(p), At1(p, "validate")
    PROVE  SelfInv(p)'
<1>1. Refuses(p)
  BY StepsAt DEF Own1
<1> QED
  BY <1>1, Returned1 DEF Refuses, Errno

\* Calls of one system call.
LEMMA SelfSimple ==
    ASSUME IInv, NEW p \in Procs, Own1(p),
           call[p].name \in {"set_mode", "set_times", "is_path", "link", "symlink", "unlink"}
    PROVE  SelfInv(p)'
<1>1. todo[p] # << >>
  BY StepsAt DEF Own1
<1>2. CASE At1(p, "validate")
  BY <1>2, SelfRefuses
<1>3. CASE \E s \in {"chmod", "utimensat", "is_path", "link", "symlink", "unlink"} :
              At1(p, s) /\ todo[p] = <<s>>
  <2>1. ~WritesSome(p) /\ ~OpensToAppend(p) /\ ~OpensToWrite(p) /\ ~OpensToRead(p)
    BY <1>3, ActionsAt DEF At1
  <2>2. MovesOn(p)
    BY <2>1, StepMovesOn DEF Own1
  <2>3. CASE Proceeds(p)
    <3>1. todo'[p] = << >>
      BY <1>3, <2>3, ProceedsTo
    <3> QED
      BY <3>1, Ended
  <2> QED
    BY <2>2, <2>3, Returned1 DEF MovesOn
<1> QED
  BY <1>1, <1>2, <1>3, OthersNext

\* What a path leads to is the same as long as the file system is.
LEMMA SameViews ==
    ASSUME fs' = fs, NEW n
    PROVE  /\ LStat(n)' = LStat(n) /\ Stat(n)' = Stat(n) /\ \A f : At(n, f)' = At(n, f)
           /\ \A i, field : Value(i, field)' = Value(i, field)
<1>1. dir' = dir /\ inode' = inode
  BY DEF fs
<1>2. LStat(n)' = LStat(n)
  BY <1>1 DEF LStat
<1>3. Ends(n)' = Ends(n) /\ IsLink(n)' = IsLink(n)
  BY <1>1 DEF Ends, IsLink, LinksStay
<1>4. End(n)' = End(n)
  BY <1>3 DEF End
<1>5. Stat(n)' = Stat(n)
  BY <1>1, <1>4 DEF Stat
<1>6. \A f : At(n, f)' = At(n, f)
  BY <1>2, <1>5 DEF At
<1>7. \A i : HardLinks(i)' = HardLinks(i)
  BY <1>1 DEF HardLinks
<1>8. \A i, field : Value(i, field)' = Value(i, field)
  BY <1>1, <1>7 DEF Value
<1> QED
  BY <1>2, <1>5, <1>6, <1>8

\* A call that goes on.
LEMMA GoesOn ==
    ASSUME IInv, NEW p \in Procs, Own1(p), Under(p)', todo'[p] # << >>,
           todo'[p] \in {<<"write">>, <<"fclose">>, <<"fread">>} => fd'[p] \in Inodes,
           ReadInv(p)', ModeInv(p)', LinkInv(p)'
    PROVE  SelfInv(p)'
<1>1. Len(got'[p]) \in Nat /\ got'[p] = [k \in 1 .. Len(got'[p]) |-> got'[p][k]]
  BY GotAfter DEF Own1
<1>2. CallInv(p)'
  BY <1>1 DEF CallInv, Returned
<1> QED
  BY <1>2 DEF SelfInv

LEMMA SelfMkfifo ==
    ASSUME IInv, NEW p \in Procs, Own1(p), call[p].name = "mkfifo"
    PROVE  SelfInv(p)'
<1>1. todo[p] # << >> /\ call' = call
  BY StepsAt, StepWithin DEF Own1, Within
<1>2. CASE At1(p, "validate")
  BY <1>2, SelfRefuses
<1>3. CASE \/ At1(p, "is_path") /\ todo[p] = <<"is_path", "mkfifo">>
           \/ At1(p, "mkfifo") /\ todo[p] = <<"mkfifo">>
  <2>1. ~WritesSome(p) /\ ~OpensToAppend(p) /\ ~OpensToWrite(p) /\ ~OpensToRead(p)
    BY <1>3, ActionsAt DEF At1
  <2>2. MovesOn(p)
    BY <2>1, StepMovesOn DEF Own1
  <2>3. CASE Proceeds(p) /\ todo[p] = <<"mkfifo">>
    <3>1. todo'[p] = << >>
      BY <2>3, ProceedsTo
    <3> QED
      BY <3>1, Ended
  <2>4. CASE Proceeds(p) /\ todo[p] = <<"is_path", "mkfifo">>
    <3>1. todo'[p] = <<"mkfifo">>
      BY <2>4, ProceedsTo
    <3>2. Under(p)'
      BY <1>1, <3>1 DEF Under
    <3>3. ReadInv(p)' /\ ModeInv(p)'
      BY <1>1 DEF ReadInv, ModeInv
    <3>4. LinkInv(p)'
      BY <3>1, Tuples DEF LinkInv, Looked
    <3> QED
      BY <3>1, <3>2, <3>3, <3>4, GoesOn, Tuples
  <2> QED
    BY <1>3, <2>2, <2>3, <2>4, Returned1 DEF MovesOn
<1> QED
  BY <1>1, <1>2, <1>3, OthersNext

\* What is_sym_link() finds is so until somebody changes what the path leads to.
LEMMA Looks1 ==
    ASSUME IInv, NEW p \in Procs, LooksAtLink(p)
    PROVE  \/ Returns(p, "ENOENT")
           \/ /\ Proceeds(p) /\ got' = got /\ fs' = fs /\ call' = call
              /\ LStat(call[p].path)' # NoInode
              /\ sym'[p] <=> inode'[LStat(call[p].path)'].kind = "symlink"
<1>1. PICK n : n = call[p].path
  OBVIOUS
<1>2. fs' = fs /\ call' = call /\ got' = got
  BY DEF LooksAtLink, Looks
<1>3. LStat(n)' = LStat(n) /\ LStat(call[p].path)' = LStat(n)' /\ inode' = inode
  BY <1>1, <1>2, SameViews DEF fs
<1>4. PICK i : i = LStat(n)
  OBVIOUS
<1>5. CASE i = NoInode
  BY <1>1, <1>4, <1>5 DEF LooksAtLink
<1>6. CASE i # NoInode
  <2>1. sym' = [sym EXCEPT ![p] = inode[i].kind = "symlink"] /\ Proceeds(p)
    BY <1>1, <1>4, <1>6 DEF LooksAtLink
  <2>2. sym'[p] = (inode[i].kind = "symlink")
    BY <2>1 DEF IInv, TypeOK
  <2> QED
    BY <1>2, <1>3, <1>4, <1>6, <2>1, <2>2
<1> QED
  BY <1>5, <1>6

LEMMA SelfOwner ==
    ASSUME IInv, NEW p \in Procs, Own1(p), call[p].name = "set_owner"
    PROVE  SelfInv(p)'
<1>1. todo[p] # << >> /\ call' = call
  BY StepsAt, StepWithin DEF Own1, Within
<1>2. CASE At1(p, "validate")
  BY <1>2, SelfRefuses
<1>3. CASE At1(p, "is_sym_link") /\ todo[p] = <<"is_sym_link", "a_chown">>
  <2>1. CASE Fails(p)
    <3>1. Returns(p, "EIO")
      BY <1>3, <2>1 DEF Fails, At1
    <3> QED
      BY <3>1, Returned1 DEF Errno
  <2>2. CASE LooksAtLink(p) /\ ~Returns(p, "ENOENT")
    <3>1. Proceeds(p) /\ LinkInv(p)'
      BY <2>2, Looks1 DEF LinkInv
    <3>2. todo'[p] = <<"a_chown">>
      BY <1>3, <3>1, ProceedsTo
    <3>3. Under(p)'
      BY <1>1, <3>2 DEF Under
    <3>4. ReadInv(p)' /\ ModeInv(p)'
      BY <1>1 DEF ReadInv, ModeInv
    <3> QED
      BY <3>1, <3>2, <3>3, <3>4, GoesOn, Tuples
  <2>3. CASE Returns(p, "ENOENT")
    BY <2>3, Returned1 DEF Errno
  <2> QED
    BY <1>3, <2>1, <2>2, <2>3, StepsAt DEF Own1
<1>4. CASE At1(p, "a_chown") /\ todo[p] = <<"a_chown">>
  <2>1. ~WritesSome(p) /\ ~OpensToAppend(p) /\ ~OpensToWrite(p) /\ ~OpensToRead(p)
    BY <1>4, ActionsAt DEF At1
  <2>2. MovesOn(p)
    BY <2>1, StepMovesOn DEF Own1
  <2>3. CASE Proceeds(p)
    <3>1. todo'[p] = << >>
      BY <1>4, <2>3, ProceedsTo
    <3> QED
      BY <3>1, Ended
  <2> QED
    BY <2>2, <2>3, Returned1 DEF MovesOn
<1> QED
  BY <1>1, <1>2, <1>3, <1>4, OthersNext

\* One more value.
LEMMA GetsOne ==
    ASSUME IInv, NEW p \in Procs, NEW v, Gets(p, v)
    PROVE  /\ \A n \in Nat : Len(got[p]) = n => Len(got'[p]) = n + 1 /\ got'[p][n + 1] = v
           /\ \A k \in 1 .. Len(got[p]) : got'[p][k] = got[p][k]
           /\ Len(got[p]) = 0 => Len(got'[p]) = 1 /\ got'[p][1] = v
           /\ Len(got[p]) = 2 => Len(got'[p]) = 3
<1>1. got'[p] = Append(got[p], v)
  BY GetsMine DEF IInv
<1>2. PICK m : m = Len(got[p]) + 1
  OBVIOUS
<1>3. Len(got'[p]) = m /\ got'[p][m] = v /\ \A k \in 1 .. Len(got[p]) : got'[p][k] = got[p][k]
  BY <1>1, <1>2, GotShape
<1>4. Len(got[p]) = 2 => Len(got'[p]) = 3
  BY <1>2, <1>3
<1>5. Len(got[p]) = 0 => Len(got'[p]) = 1 /\ got'[p][1] = v
  BY <1>2, <1>3
<1> QED
  BY <1>2, <1>3, <1>4, <1>5

LEMMA SelfCreate ==
    ASSUME IInv, NEW p \in Procs, Own1(p), call[p].name = "create"
    PROVE  SelfInv(p)'
<1>1. todo[p] # << >> /\ call' = call
  BY StepsAt, StepWithin DEF Own1, Within
<1>2. ReadInv(p)' /\ ModeInv(p)'
  BY <1>1 DEF ReadInv, ModeInv
<1>3. CASE At1(p, "validate")
  BY <1>3, SelfRefuses
<1>4. CASE At1(p, "is_file") /\ todo[p] = <<"is_file", "fopen_w", "fclose">>
  <2>1. Len(got[p]) = 0
    BY <1>4, OthersNext, Tuples, FactsOfCall DEF CreateLeft, Left
  <2>2. (ChecksFile(p) \/ Fails(p)) /\ Len(got'[p]) = 1 /\ MovesOn(p)
    <3>1. ChecksFile(p) \/ Fails(p)
      BY <1>4, StepsAt DEF Own1
    <3>2. CASE ChecksFile(p)
      <4>1. PICK v : Gets(p, v)
        BY <3>2 DEF ChecksFile
      <4>2. Len(got'[p]) = 1
        BY <2>1, <4>1, GetsOne
      <4> QED
        BY <3>2, <4>2 DEF ChecksFile, MovesOn, Errno
    <3>3. CASE Fails(p)
      <4>1. Gets(p, FALSE) /\ Proceeds(p)
        BY <1>4, <3>3 DEF Fails, FailsToStat, At1
      <4>2. Len(got'[p]) = 1
        BY <2>1, <4>1, GetsOne
      <4> QED
        BY <3>3, <4>1, <4>2 DEF MovesOn
    <3> QED
      BY <3>1, <3>2, <3>3
  <2>3. CASE Proceeds(p)
    <3>1. todo'[p] = <<"fopen_w", "fclose">>
      BY <1>4, <2>3, ProceedsTo
    <3>2. CreateLeft(p)'
      BY <2>2, <3>1 DEF CreateLeft, Left
    <3>3. Under(p)' /\ LinkInv(p)'
      BY <1>1, <3>1, <3>2, Tuples DEF Under, LinkInv, Looked
    <3> QED
      BY <1>2, <3>1, <3>3, GoesOn, Tuples
  <2> QED
    BY <2>2, <2>3, Returned1 DEF MovesOn
<1>5. CASE At1(p, "fopen_w") /\ todo[p] = <<"fopen_w", "fclose">>
  <2>1. Len(got[p]) = 1
    BY <1>5, OthersNext, Tuples DEF CreateLeft, Left
  <2>2. CASE Fails(p)
    <3>1. Returns(p, "EIO")
      BY <1>5, <2>2 DEF Fails, At1
    <3> QED
      BY <3>1, Returned1 DEF Errno
  <2>3. CASE OpensToWrite(p)
    <3>1. /\ got' = got
          /\ \/ fd'[p] \in Inodes /\ todo'[p] = Tail(todo[p])
             \/ todo'[p] = << >> /\ result'[p] # "ENOERR"
      BY <2>3, OpensToWriteWithin
    <3>2. CASE fd'[p] \in Inodes /\ todo'[p] = Tail(todo[p])
      <4>1. todo'[p] = <<"fclose">>
        BY <1>5, <3>2, Tuple2
      <4>2. CreateLeft(p)'
        BY <2>1, <3>1, <4>1 DEF CreateLeft, Left
      <4>3. Under(p)' /\ LinkInv(p)'
        BY <1>1, <4>1, <4>2, Tuples DEF Under, LinkInv, Looked
      <4> QED
        BY <1>2, <3>2, <4>1, <4>3, GoesOn, Tuples
    <3>3. CASE todo'[p] = << >> /\ result'[p] # "ENOERR"
      BY <3>3, Ended
    <3> QED
      BY <3>1, <3>2, <3>3
  <2> QED
    BY <1>5, <2>2, <2>3, StepsAt DEF Own1
<1>6. CASE At1(p, "fclose") /\ todo[p] = <<"fclose">>
  <2>1. ~WritesSome(p) /\ ~OpensToAppend(p) /\ ~OpensToWrite(p) /\ ~OpensToRead(p)
    BY <1>6, ActionsAt DEF At1
  <2>2. MovesOn(p)
    BY <2>1, StepMovesOn DEF Own1
  <2>3. CASE Proceeds(p)
    <3>1. todo'[p] = << >>
      BY <1>6, <2>3, ProceedsTo
    <3> QED
      BY <3>1, Ended
  <2> QED
    BY <2>2, <2>3, Returned1 DEF MovesOn
<1> QED
  BY <1>1, <1>3, <1>4, <1>5, <1>6, OthersNext

LEMMA SelfAppend ==
    ASSUME IInv, NEW p \in Procs, Own1(p), call[p].name = "append"
    PROVE  SelfInv(p)'
<1>1. todo[p] # << >> /\ call' = call
  BY StepsAt, StepWithin DEF Own1, Within
<1>2. ReadInv(p)' /\ ModeInv(p)'
  BY <1>1 DEF ReadInv, ModeInv
<1>3. CASE At1(p, "validate")
  BY <1>3, SelfRefuses
<1>4. CASE At1(p, "is_path") /\ todo[p] = <<"is_path", "open", "write">>
  <2>0. AppendLeft(p)
    BY <1>1, OthersNext, <1>4, Tuples
  <2>1. Len(got[p]) = 0 /\ moved[p] = 0
    BY <1>4, <2>0, Tuples, Tuple3 DEF AppendLeft, Left
  <2>2. CASE Fails(p)
    <3>1. Returns(p, "EIO")
      BY <1>4, <2>2 DEF Fails, At1
    <3> QED
      BY <3>1, Returned1 DEF Errno
  <2>3. CASE ChecksPath(p)
    <3>0. PICK v : Gets(p, v)
      BY <2>3 DEF ChecksPath
    <3>1. Len(got'[p]) = 1 /\ moved' = moved
      BY <2>1, <2>3, <3>0, GetsOne DEF ChecksPath, Looks
    <3>2. MovesOn(p)
      BY <2>3 DEF ChecksPath, MovesOn, Errno
    <3>3. CASE Proceeds(p)
      <4>1. todo'[p] = <<"open", "write">>
        BY <1>4, <3>3, ProceedsTo
      <4>2. AppendLeft(p)'
        BY <2>1, <3>1, <4>1 DEF AppendLeft, Left
      <4>3. Under(p)' /\ LinkInv(p)'
        BY <1>1, <4>1, <4>2, Tuples DEF Under, LinkInv, Looked
      <4> QED
        BY <1>2, <4>1, <4>3, GoesOn, Tuples
    <3> QED
      BY <3>2, <3>3, Returned1 DEF MovesOn
  <2> QED
    BY <1>4, <2>2, <2>3, StepsAt DEF Own1
<1>5. CASE At1(p, "open") /\ todo[p] = <<"open", "write">>
  <2>1. Len(got[p]) = 1 /\ moved[p] = 0
    BY <1>5, OthersNext, Tuples DEF AppendLeft, Left
  <2>2. CASE Fails(p)
    <3>1. Returns(p, "EIO")
      BY <1>5, <2>2 DEF Fails, At1
    <3> QED
      BY <3>1, Returned1 DEF Errno
  <2>3. CASE OpensToAppend(p)
    <3>1. \/ /\ got'[p] = Append(got[p], fd'[p]) /\ fd'[p] \in Inodes
             /\ todo'[p] = Tail(todo[p])
          \/ todo'[p] = << >> /\ result'[p] # "ENOERR"
      BY <2>3, OpensToAppendWithin
    <3>2. CASE /\ got'[p] = Append(got[p], fd'[p]) /\ fd'[p] \in Inodes
               /\ todo'[p] = Tail(todo[p])
      <4>1. todo'[p] = <<"write">>
        BY <1>5, <3>2, Tuple2
      <4>2. Len(got'[p]) = 2 /\ got'[p][2] = fd'[p]
        <5>1. PICK i : i = fd'[p]
          OBVIOUS
        <5>2. PICK m : m = Len(got[p]) + 1
          OBVIOUS
        <5>3. Len(Append(got[p], i)) = m /\ Append(got[p], i)[m] = i
          BY <5>2, GotShape
        <5> QED
          BY <2>1, <3>2, <5>1, <5>2, <5>3
      <4>3. moved'[p] = 0 /\ 0 <= call[p].len
        BY <2>1, <2>3, FactsOfCall DEF Facts, OpensToAppend, OpensInode, Makes, FailsToOpen, Looks
      <4>4. AppendLeft(p)'
        BY <1>1, <4>1, <4>2, <4>3 DEF AppendLeft, Left
      <4>5. Under(p)' /\ LinkInv(p)'
        BY <1>1, <4>1, <4>4, Tuples DEF Under, LinkInv, Looked
      <4> QED
        BY <1>2, <3>2, <4>1, <4>5, GoesOn, Tuples
    <3>3. CASE todo'[p] = << >> /\ result'[p] # "ENOERR"
      BY <3>3, Ended
    <3> QED
      BY <3>1, <3>2, <3>3
  <2> QED
    BY <1>5, <2>2, <2>3, StepsAt DEF Own1
<1>6. CASE At1(p, "write") /\ todo[p] = <<"write">>
  <2>1. /\ Len(got[p]) = 2 /\ fd[p] = got[p][2] /\ fd[p] \in Inodes
    BY <1>6, AppendIsOpen
  <2>2. CASE Fails(p)
    <3>1. Returns(p, "EIO")
      BY <1>6, <2>2 DEF Fails, At1
    <3> QED
      BY <3>1, Returned1 DEF Errno
  <2>3. CASE WritesSome(p)
    <3>1. /\ got' = got /\ moved'[p] \in moved[p] .. call[p].len
          /\ \/ todo'[p] = todo[p] /\ fd' = fd
             \/ todo'[p] = << >> /\ moved'[p] = call[p].len
      BY <2>3, WritesSomeWithin
    <3>2. CASE todo'[p] = todo[p] /\ fd' = fd
      <4>1. moved'[p] <= call[p].len
        BY <3>1, <1>6, AppendIsOpen
      <4>2. AppendLeft(p)'
        BY <1>1, <1>6, <2>1, <3>1, <3>2, <4>1 DEF AppendLeft, Left
      <4>3. Under(p)' /\ LinkInv(p)'
        BY <1>1, <1>6, <3>2, <4>2, Tuples DEF Under, LinkInv, Looked
      <4> QED
        BY <1>2, <1>6, <2>1, <3>2, <4>3, GoesOn, Tuples
    <3>3. CASE todo'[p] = << >> /\ moved'[p] = call[p].len
      <4>1. Returned(p)'
        BY <1>1, <2>1, <3>1, <3>3 DEF Returned
      <4>2. CallInv(p)'
        BY <3>3, <4>1, GotAfter, Tuples DEF Own1, CallInv
      <4>3. LinkInv(p)'
        BY <3>3 DEF LinkInv, Looked
      <4> QED
        BY <1>2, <4>2, <4>3 DEF SelfInv
    <3> QED
      BY <3>1, <3>2, <3>3
  <2> QED
    BY <1>6, <2>2, <2>3, StepsAt DEF Own1
<1> QED
  BY <1>1, <1>3, <1>4, <1>5, <1>6, OthersNext

\* What the fields that the proofs speak of are.
LEMMA Values ==
    ASSUME NEW i
    PROVE  /\ Value(i, <<"perms">>) = inode[i].perms \cap Modes
           /\ Value(i, <<"regular">>) = (inode[i].kind = "regular")
           /\ Value(i, <<"size">>) = Len(inode[i].data)
           /\ Value(i, <<"data">>) = inode[i].data
<1>1. \A s : <<s>>[1] = s
  OBVIOUS
<1> QED
  BY <1>1 DEF Value, Stamps, PermMask

LEMMA ReadsPerms ==
    ASSUME IInv, NEW p \in Procs, CallsStat(p), call[p].name \in {"add_mode", "remove_mode"},
           Len(got[p]) = 0
    PROVE  \/ Returns(p, "ENOENT")
           \/ /\ Proceeds(p) /\ fs' = fs /\ call' = call /\ Len(got'[p]) = 1
              /\ Stat(call[p].path)' # NoInode
              /\ got'[p][1] = inode'[Stat(call[p].path)'].perms
              /\ got'[p][1] \in SUBSET Modes
<1>1. PICK n : n = call[p].path
  OBVIOUS
<1>2. fs' = fs /\ call' = call /\ inode' = inode
  BY DEF CallsStat, Reads, Looks, fs
<1>3. Stat(n)' = Stat(n) /\ Stat(call[p].path)' = Stat(n)'
  BY <1>1, <1>2, SameViews
<1>4. n \in Names /\ IsOther(call[p])
  BY <1>1, FactsOfCall DEF Facts
<1>5. PICK i \in Inodes \cup {NoInode} : i = Stat(n)
  BY <1>4, InodesThere DEF IInv
<1>6. CASE i = NoInode
  BY <1>1, <1>5, <1>6 DEF CallsStat, Reads
<1>7. CASE i # NoInode
  <2>1. Field(p) = <<"perms">>
    BY <1>4 DEF Field, IsOther
  <2>2. Gets(p, Value(i, <<"perms">>)) /\ Proceeds(p)
    BY <1>1, <1>5, <1>7, <2>1 DEF CallsStat, Reads
  <2>3. inode[i].perms \in SUBSET Modes
    BY <1>5, <1>7 DEF IInv, TypeOK, AnyInode, Inode
  <2>4. Value(i, <<"perms">>) = inode[i].perms
    BY <2>3, Values
  <2>5. Len(got'[p]) = 1 /\ got'[p][1] = inode[i].perms
    BY <2>2, <2>4, GetsOne
  <2> QED
    BY <1>2, <1>3, <1>5, <1>7, <2>2, <2>3, <2>5
<1> QED
  BY <1>6, <1>7

LEMMA SelfMode ==
    ASSUME IInv, NEW p \in Procs, Own1(p), call[p].name \in {"add_mode", "remove_mode"}
    PROVE  SelfInv(p)'
<1>1. todo[p] # << >> /\ call' = call
  BY StepsAt, StepWithin DEF Own1, Within
<1>2. ReadInv(p)'
  BY <1>1 DEF ReadInv
<1>3. CASE At1(p, "validate")
  BY <1>3, SelfRefuses
<1>4. CASE At1(p, "stat") /\ todo[p] = <<"stat", "chmod">>
  <2>1. ModeLeft(p)
    BY <1>1, <1>4, OthersNext, Tuples
  <2>2. Len(got[p]) = 0
    BY <1>4, <2>1, Tuples DEF ModeLeft, Left
  <2>3. CASE Fails(p)
    <3>1. Returns(p, "EIO")
      BY <1>4, <2>3 DEF Fails, At1
    <3> QED
      BY <3>1, Returned1 DEF Errno
  <2>4. CASE CallsStat(p) /\ ~Returns(p, "ENOENT")
    <3>1. /\ Proceeds(p) /\ Len(got'[p]) = 1 /\ got'[p][1] \in SUBSET Modes
          /\ Stat(call[p].path)' # NoInode
          /\ got'[p][1] = inode'[Stat(call[p].path)'].perms
      BY <2>2, <2>4, ReadsPerms
    <3>2. todo'[p] = <<"chmod">>
      BY <1>4, <3>1, ProceedsTo
    <3>3. ModeLeft(p)' /\ ModeInv(p)'
      BY <3>1, <3>2 DEF ModeLeft, Left, ModeInv
    <3>4. Under(p)' /\ LinkInv(p)'
      BY <1>1, <3>2, <3>3, Tuples DEF Under, LinkInv, Looked
    <3> QED
      BY <1>2, <3>2, <3>3, <3>4, GoesOn, Tuples
  <2>5. CASE Returns(p, "ENOENT")
    BY <2>5, Returned1 DEF Errno
  <2> QED
    BY <1>4, <2>3, <2>4, <2>5, StepsAt DEF Own1
<1>5. CASE At1(p, "chmod") /\ todo[p] = <<"chmod">>
  <2>1. ~WritesSome(p) /\ ~OpensToAppend(p) /\ ~OpensToWrite(p) /\ ~OpensToRead(p)
    BY <1>5, ActionsAt DEF At1
  <2>2. MovesOn(p)
    BY <2>1, StepMovesOn DEF Own1
  <2>3. CASE Proceeds(p)
    <3>1. todo'[p] = << >>
      BY <1>5, <2>3, ProceedsTo
    <3> QED
      BY <3>1, Ended
  <2> QED
    BY <2>2, <2>3, Returned1 DEF MovesOn
<1> QED
  BY <1>1, <1>3, <1>4, <1>5, OthersNext

\* A getter or read_file() reads one value more, or none, while nothing changes.
LEMMA HereSame ==
    ASSUME IInv, NEW p \in Procs, fs' = fs, call' = call
    PROVE  /\ Here(p)' = Here(p)
           /\ \A k : Value(Here(p), call[p].fields[k])' = Value(Here(p), call[p].fields[k])
<1>1. PICK n : n = call[p].path
  OBVIOUS
<1>2. PICK f \in BOOLEAN : f = call[p].follow
  BY FactsOfCall DEF Facts
<1>3. At(n, f)' = At(n, f)
  BY SameViews
<1>4. Here(p) = At(n, f) /\ Here(p)' = At(n, f)'
  BY <1>1, <1>2 DEF Here
<1>5. PICK h : h = Here(p)
  OBVIOUS
<1>6. \A field : Value(h, field)' = Value(h, field)
  BY SameViews
<1>7. \A k : Value(h, call[p].fields[k])' = Value(h, call[p].fields[k])
  BY <1>6
<1> QED
  BY <1>3, <1>4, <1>5, <1>7

LEMMA ReadNone ==
    ASSUME IInv, NEW p \in Procs, fs' = fs, call' = call, got' = got, Disturbs(p),
           todo[p] # << >>,
           todo'[p] = <<"fread">> /\ ~disturbed[p] => fd'[p] = Here(p)
    PROVE  ReadInv(p)'
<1> SUFFICES ASSUME ~disturbed'[p], call[p].name \in {"get", "read"}
             PROVE  /\ Len(got[p]) <= Wants(p)
                    /\ got[p] = Fetched(p)'
                    /\ got[p] # << >> => Here(p)' # NoInode
                    /\ todo'[p] = <<"fread">> => fd'[p] = Here(p)'
  BY DEF ReadInv, Wants
<1>1. ~disturbed[p]
  BY DEF Disturbs
<1>2. /\ Len(got[p]) <= Wants(p)
      /\ got[p] = Fetched(p)
      /\ got[p] # << >> => Here(p) # NoInode
  BY <1>1 DEF IInv, ProcInv, ReadInv
<1>3. Here(p)' = Here(p)
      /\ \A k : Value(Here(p), call[p].fields[k])' = Value(Here(p), call[p].fields[k])
  BY HereSame
<1>4. Fetched(p)' = Fetched(p)
  BY <1>3 DEF Fetched
<1> QED
  BY <1>1, <1>2, <1>3, <1>4

LEMMA ReadOne ==
    ASSUME IInv, NEW p \in Procs, fs' = fs, call' = call, Disturbs(p), todo[p] # << >>,
           NEW v, Gets(p, v), Wants(p) \in Nat, Len(got[p]) < Wants(p),
           ~disturbed[p] => Here(p) # NoInode /\ v = Value(Here(p), Field(p)),
           todo'[p] # <<"fread">>
    PROVE  ReadInv(p)'
<1> SUFFICES ASSUME ~disturbed'[p], call[p].name \in {"get", "read"}
             PROVE  /\ Len(got'[p]) <= Wants(p)
                    /\ got'[p] = Fetched(p)'
                    /\ Here(p)' # NoInode
  BY DEF ReadInv, Wants
<1>1. ~disturbed[p]
  BY DEF Disturbs
<1>2. got[p] = Fetched(p)
  BY <1>1 DEF IInv, ProcInv, ReadInv
<1>3. Here(p)' = Here(p)
      /\ \A k : Value(Here(p), call[p].fields[k])' = Value(Here(p), call[p].fields[k])
  BY HereSame
<1>4. PICK l \in Nat : l = Len(got[p])
  BY GotShape
<1>5. PICK m \in Nat : m = l + 1
  OBVIOUS
<1>6. got'[p] = Append(got[p], v)
  BY GetsMine DEF IInv
<1>7. /\ Len(got'[p]) = m /\ got'[p][m] = v /\ \A k \in 1 .. l : got'[p][k] = got[p][k]
      /\ got'[p] = [k \in 1 .. m |-> got'[p][k]]
  BY <1>4, <1>5, <1>6, GotShape
<1>8. v = Value(Here(p), call[p].fields[m])
  BY <1>1, <1>4, <1>5 DEF Field
<1>9. \A k \in 1 .. l : got[p][k] = Value(Here(p), call[p].fields[k])
  BY <1>2, <1>4 DEF Fetched
<1>10. \A k \in 1 .. m : k \in 1 .. l \/ k = m
  BY <1>4, <1>5
<1>11. \A k \in 1 .. m : got'[p][k] = Value(Here(p), call[p].fields[k])
  BY <1>7, <1>8, <1>9, <1>10
<1>12. Fetched(p)' = [k \in 1 .. m |-> Value(Here(p), call[p].fields[k])]
  BY <1>3, <1>7 DEF Fetched
<1>13. got'[p] = Fetched(p)'
  BY <1>7, <1>11, <1>12
<1>14. Len(got'[p]) <= Wants(p)
  BY <1>4, <1>5, <1>7
<1> QED
  BY <1>1, <1>3, <1>13, <1>14

\* Where is_sym_link() found no link, following one or not is the same.
LEMMA FollowsHere ==
    ASSUME IInv, NEW p \in Procs, Looked(p), ~disturbed[p]
    PROVE  At(call[p].path, Follows(p)) = Here(p)
<1>1. PICK n \in Names : n = call[p].path
  BY FactsOfCall DEF Facts
<1>2. LStat(n) # NoInode /\ (sym[p] <=> inode[LStat(n)].kind = "symlink")
  BY <1>1 DEF IInv, ProcInv, LinkInv
<1>3. sym[p] \in BOOLEAN /\ call[p].follow \in BOOLEAN /\ TypeOK
  BY FactsOfCall DEF Facts, IInv, TypeOK
<1>4. CASE call[p].follow
  BY <1>3, <1>4 DEF Follows, Here, At
<1>5. CASE ~call[p].follow /\ sym[p]
  BY <1>3, <1>5 DEF Follows, Here, At
<1>6. CASE ~call[p].follow /\ ~sym[p]
  <2>1. Stat(n) = LStat(n)
    BY <1>2, <1>3, <1>6, StatOfNoLink
  <2> QED
    BY <1>1, <1>6, <2>1 DEF Follows, Here, At
<1> QED
  BY <1>4, <1>5, <1>6

LEMMA GetReads ==
    ASSUME IInv, NEW p \in Procs, Own1(p), call[p].name = "get", NEW i, Reads(p, i),
           ~disturbed[p] => i = Here(p), Wants(p) \in Nat,
           \/ /\ \E s : todo[p] = <<s>>
              /\ Wants(p) = Len(got[p]) + 1
           \/ todo[p] = <<"a_stat", "is_sym_link", "a_stat">> /\ got[p] = << >> /\ Wants(p) = 2
    PROVE  SelfInv(p)'
<1>1. todo[p] # << >> /\ call' = call /\ fs' = fs /\ Disturbs(p)
  BY StepsAt DEF Own1, Reads, Looks
<1>2. CASE i = NoInode
  <2>1. Returns(p, "ENOENT")
    BY <1>2 DEF Reads
  <2> QED
    BY <2>1, Returned1 DEF Errno
<1>3. CASE i # NoInode
  <2>1. PICK v : v = Value(i, Field(p))
    OBVIOUS
  <2>2. Gets(p, v) /\ Proceeds(p)
    BY <1>3, <2>1 DEF Reads
  <2>3. Len(got[p]) \in Nat /\ (got[p] = << >> => Len(got[p]) = 0)
    BY GotShape
  <2>4. Len(got[p]) < Wants(p)
    BY <2>3
  <2>5. ModeInv(p)'
    BY <1>1 DEF ModeInv
  <2>6. PICK l \in Nat : l = Len(got[p])
    BY <2>3
  <2>7. Len(got'[p]) = l + 1
    BY <2>2, <2>6, GetsOne
  <2>8. todo'[p] # <<"fread">> => ReadInv(p)'
    BY <1>1, <1>3, <2>1, <2>2, <2>4, ReadOne
  <2>9. CASE (\E s : todo[p] = <<s>>) /\ Wants(p) = Len(got[p]) + 1
    <3>1. todo'[p] = << >>
      BY <2>2, <2>9, ProceedsTo
    <3>2. ReadInv(p)' /\ LinkInv(p)'
      BY <2>8, <3>1, Tuples DEF LinkInv, Looked
    <3>3. Wants(p)' = Wants(p)
      BY <1>1 DEF Wants
    <3>4. Returned(p)'
      BY <1>1, <2>6, <2>7, <2>9, <3>3 DEF Returned
    <3>5. CallInv(p)'
      BY <3>1, <3>4, GotAfter, Tuples DEF Own1, CallInv
    <3> QED
      BY <2>5, <3>2, <3>5 DEF SelfInv
  <2>10. CASE todo[p] = <<"a_stat", "is_sym_link", "a_stat">> /\ got[p] = << >> /\ Wants(p) = 2
    <3>1. todo'[p] = <<"is_sym_link", "a_stat">>
      BY <2>2, <2>10, ProceedsTo
    <3>2. ReadInv(p)' /\ LinkInv(p)'
      BY <2>8, <3>1, Tuples DEF LinkInv, Looked
    <3>3. Wants(p)' = 2 /\ Len(got'[p]) + 1 = 2
      BY <1>1, <2>3, <2>6, <2>7, <2>10 DEF Wants
    <3>4. GetsLeft(p)'
      BY <3>1, <3>3 DEF GetsLeft
    <3>5. Under(p)'
      BY <1>1, <3>4 DEF Under
    <3> QED
      BY <2>5, <3>1, <3>2, <3>5, GoesOn, Tuples
  <2> QED
    BY <2>9, <2>10
<1> QED
  BY <1>2, <1>3

LEMMA SelfGet ==
    ASSUME IInv, NEW p \in Procs, Own1(p), call[p].name = "get"
    PROVE  SelfInv(p)'
<1>1. todo[p] # << >> /\ call' = call /\ Disturbs(p)
  BY StepsAt, StepWithin DEF Own1, Within
<1>2. CASE At1(p, "validate")
  BY <1>2, SelfRefuses
<1>3. CASE GetsLeft(p) /\ todo[p] \in {<<"stat">>, <<"lstat">>, <<"a_stat">>,
                                      <<"a_stat", "is_sym_link", "a_stat">>}
  <2>1. Fails(p) => Returns(p, "EIO")
    BY <1>3, Tuples DEF Fails
  <2>2. CASE Fails(p)
    BY <2>1, <2>2, Returned1 DEF Errno
  <2>3. Wants(p) \in Nat
    BY GotShape, <1>3 DEF GetsLeft, Wants
  <2>4. CASE todo[p] = <<"stat">> /\ ~Fails(p)
    <3>1. call[p].follow /\ Wants(p) = Len(got[p]) + 1
      BY <1>3, <2>4, Tuples DEF GetsLeft, Left
    <3>2. CallsStat(p)
      BY <2>4, StepsAt, Tuples DEF Own1, At1
    <3>3. Reads(p, Stat(call[p].path)) /\ Stat(call[p].path) = Here(p)
      BY <3>1, <3>2 DEF CallsStat, Here, At
    <3> QED
      BY <2>3, <2>4, <3>1, <3>3, GetReads
  <2>5. CASE todo[p] = <<"lstat">> /\ ~Fails(p)
    <3>1. ~call[p].follow /\ Wants(p) = Len(got[p]) + 1
      BY <1>3, <2>5, Tuples DEF GetsLeft, Left
    <3>2. CallsLStat(p)
      BY <2>5, StepsAt, Tuples DEF Own1, At1
    <3>3. Reads(p, LStat(call[p].path)) /\ LStat(call[p].path) = Here(p)
      BY <3>1, <3>2 DEF CallsLStat, Here, At
    <3> QED
      BY <2>3, <2>5, <3>1, <3>3, GetReads
  <2>6. CASE todo[p] \in {<<"a_stat">>, <<"a_stat", "is_sym_link", "a_stat">>} /\ ~Fails(p)
    <3>1. \/ todo[p] = <<"a_stat">> /\ Wants(p) = Len(got[p]) + 1
          \/ todo[p] = <<"a_stat", "is_sym_link", "a_stat">> /\ got[p] = << >> /\ Wants(p) = 2
      <4>1. <<"a_stat">> # <<"a_stat", "is_sym_link", "a_stat">>
        BY Tuple1, Tuple3
      <4> QED
        BY <1>3, <2>6, <4>1, Tuples, Tuple1, Tuple2, Tuple3, Tuple4 DEF GetsLeft, Left
    <3>2. CallsAStat(p) /\ Looked(p)
      BY <2>6, StepsAt, Tuples DEF Own1, At1, Looked
    <3>3. PICK i : i = At(call[p].path, Follows(p))
      OBVIOUS
    <3>4. Reads(p, i) /\ (~disturbed[p] => i = Here(p))
      BY <3>2, <3>3, FollowsHere DEF CallsAStat
    <3> QED
      BY <2>3, <3>1, <3>4, GetReads
  <2> QED
    BY <1>3, <2>2, <2>4, <2>5, <2>6
<1>4. CASE GetsLeft(p) /\ At1(p, "is_sym_link")
           /\ todo[p] \in {<<"is_sym_link", "a_stat">>,
                           <<"is_sym_link", "a_stat", "is_sym_link", "a_stat">>}
  <2>1. CASE Fails(p)
    <3>1. Returns(p, "EIO")
      BY <1>4, <2>1 DEF Fails, At1
    <3> QED
      BY <3>1, Returned1 DEF Errno
  <2>2. CASE Returns(p, "ENOENT")
    BY <2>2, Returned1 DEF Errno
  <2>3. CASE LooksAtLink(p) /\ ~Returns(p, "ENOENT")
    <3>1. Proceeds(p) /\ got' = got /\ fs' = fs /\ LinkInv(p)'
      BY <2>3, Looks1 DEF LinkInv
    <3>2. \/ /\ todo[p] = <<"is_sym_link", "a_stat">> /\ Wants(p) = Len(got[p]) + 1
             /\ todo'[p] = <<"a_stat">>
          \/ /\ todo[p] = <<"is_sym_link", "a_stat", "is_sym_link", "a_stat">>
             /\ got[p] = << >> /\ Wants(p) = 2
             /\ todo'[p] = <<"a_stat", "is_sym_link", "a_stat">>
      <4>1. \A s, t, u, v : <<s, t>> # <<u>> /\ <<s, t, u, v>> # <<s>> /\ <<s, t, u, v>> # <<s, t>>
                            /\ <<s, t, u, v>> # <<t>> /\ <<s, t, u, v>> # <<t, u, v>>
        BY Tuple1, Tuple2, Tuple3, Tuple4
      <4> QED
        BY <1>4, <3>1, <4>1, ProceedsTo, Tuples, Tuple1, Tuple2, Tuple3, Tuple4 DEF GetsLeft, Left
    <3>3. GetsLeft(p)'
      BY <1>1, <3>1, <3>2 DEF GetsLeft, Wants
    <3>4. Under(p)' /\ ModeInv(p)'
      BY <1>1, <3>3 DEF Under, ModeInv
    <3>5. todo'[p] \notin {<<"write">>, <<"fclose">>, <<"fread">>} /\ todo'[p] # << >>
      <4>1. CASE todo'[p] = <<"a_stat">>
        BY <4>1, Tuple1
      <4>2. CASE todo'[p] = <<"a_stat", "is_sym_link", "a_stat">>
        BY <4>2, Tuple1, Tuple3
      <4> QED
        BY <3>2, <4>1, <4>2
    <3>6. ReadInv(p)'
      BY <1>1, <3>1, <3>5, ReadNone
    <3> QED
      BY <3>1, <3>4, <3>5, <3>6, GoesOn
  <2> QED
    BY <1>4, <2>1, <2>2, <2>3, StepsAt DEF Own1
<1> QED
  BY <1>1, <1>2, <1>3, <1>4, GetsNext

\* read_file(): three values, of the file that the path leads to.
LEMMA ReadFields ==
    ASSUME IInv, NEW p \in Procs, call[p].name = "read"
    PROVE  /\ Wants(p) = 3 /\ call[p].follow /\ call[p].path \in Names
           /\ call[p].fields[1] = <<"regular">> /\ call[p].fields[2] = <<"size">>
           /\ call[p].fields[3] = <<"data">>
           /\ Here(p) = Stat(call[p].path) /\ Here(p) \in Inodes \cup {NoInode}
<1>1. IsOther(call[p]) /\ call[p].follow /\ call[p].path \in Names
  BY FactsOfCall DEF Facts
<1>2. call[p].fields = <<<<"regular">>, <<"size">>, <<"data">>>>
  BY <1>1 DEF IsOther
<1>3. Wants(p) = 3
  BY <1>2, Tuple3 DEF Wants
<1>4. Stat(call[p].path) \in Inodes \cup {NoInode}
  BY <1>1, InodesThere DEF IInv
<1> QED
  BY <1>1, <1>2, <1>3, <1>4 DEF Here, At

\* It goes on with one value more.
LEMMA ReadsOn ==
    ASSUME IInv, NEW p \in Procs, Own1(p), call[p].name = "read", fs' = fs,
           NEW v, Gets(p, v), Proceeds(p), NEW l \in 0 .. 1, Len(got[p]) = l,
           \/ l = 0 /\ todo[p] = <<"is_file", "stat", "fopen_r", "fread">>
           \/ l = 1 /\ todo[p] = <<"stat", "fopen_r", "fread">>,
           ~disturbed[p] => Here(p) # NoInode /\ v = Value(Here(p), Field(p))
    PROVE  SelfInv(p)'
<1>1. todo[p] # << >> /\ call' = call /\ Disturbs(p)
  BY StepsAt, StepWithin DEF Own1, Within
<1>2. Len(got'[p]) = l + 1
  BY GetsOne
<1>3. \/ l = 0 /\ todo'[p] = <<"stat", "fopen_r", "fread">>
      \/ l = 1 /\ todo'[p] = <<"fopen_r", "fread">>
  BY ProceedsTo
<1>4. ReadsLeft(p)'
  BY <1>2, <1>3 DEF ReadsLeft, Left
<1>5. Under(p)' /\ ModeInv(p)'
  BY <1>1, <1>4 DEF Under, ModeInv
<1>6. /\ todo'[p] \notin {<<"write">>, <<"fclose">>, <<"fread">>} /\ todo'[p] # << >>
      /\ Head(todo'[p]) \in {"stat", "fopen_r"}
  <2>1. CASE todo'[p] = <<"stat", "fopen_r", "fread">>
    BY <2>1, Tuple1, Tuple3
  <2>2. CASE todo'[p] = <<"fopen_r", "fread">>
    BY <2>2, Tuple1, Tuple2
  <2> QED
    BY <1>3, <2>1, <2>2
<1>7. LinkInv(p)'
  BY <1>6 DEF LinkInv, Looked
<1>8. Wants(p) = 3
  BY ReadFields
<1>9. ReadInv(p)'
  BY <1>1, <1>6, <1>8, ReadOne
<1> QED
  BY <1>5, <1>6, <1>7, <1>9, GoesOn

LEMMA SelfRead ==
    ASSUME IInv, NEW p \in Procs, Own1(p), call[p].name = "read"
    PROVE  SelfInv(p)'
<1>1. todo[p] # << >> /\ call' = call /\ Disturbs(p)
  BY StepsAt, StepWithin DEF Own1, Within
<1>2. PICK i \in Inodes \cup {NoInode} : i = Here(p) /\ i = Stat(call[p].path)
  BY ReadFields
<1>3. /\ Wants(p) = 3 /\ call[p].fields[1] = <<"regular">>
      /\ call[p].fields[2] = <<"size">> /\ call[p].fields[3] = <<"data">>
  BY ReadFields
<1>4. CASE At1(p, "validate")
  BY <1>4, SelfRefuses
<1>5. CASE At1(p, "is_file") /\ ReadsLeft(p) /\ todo[p] = <<"is_file", "stat", "fopen_r", "fread">>
  <2>1. Len(got[p]) = 0
    BY <1>5, Tuple1, Tuple2, Tuple3, Tuple4 DEF ReadsLeft, Left
  <2>2. CASE Fails(p)
    <3>1. Returns(p, "ENOENT")
      BY <1>5, <2>2 DEF Fails, FailsToStat, At1
    <3> QED
      BY <3>1, Returned1 DEF Errno
  <2>3. CASE Returns(p, "ENOENT")
    BY <2>3, Returned1 DEF Errno
  <2>4. CASE ChecksFile(p) /\ ~Returns(p, "ENOENT")
    <3>1. /\ i # NoInode /\ inode[i].kind = "regular" /\ Gets(p, TRUE) /\ Proceeds(p)
          /\ fs' = fs
      BY <1>2, <2>4 DEF ChecksFile, Looks
    <3>2. Field(p) = <<"regular">>
      BY <1>3, <2>1 DEF Field
    <3>3. Value(i, <<"regular">>) = TRUE
      BY <3>1, Values
    <3>4. PICK l \in 0 .. 1 : l = 0
      OBVIOUS
    <3>6. PICK v : v = TRUE
      OBVIOUS
    <3>5. Len(got[p]) = l /\ Gets(p, v) /\ (~disturbed[p] => Here(p) # NoInode /\ v = Value(Here(p), Field(p)))
      BY <1>2, <2>1, <3>1, <3>2, <3>3, <3>4, <3>6
    <3> QED
      BY <1>5, <3>1, <3>4, <3>5, ReadsOn
  <2> QED
    BY <1>5, <2>2, <2>3, <2>4, StepsAt DEF Own1
<1>6. CASE At1(p, "stat") /\ ReadsLeft(p) /\ todo[p] = <<"stat", "fopen_r", "fread">>
  <2>1. Len(got[p]) = 1
    BY <1>6, Tuple1, Tuple2, Tuple3, Tuple4 DEF ReadsLeft, Left
  <2>2. CASE Fails(p)
    <3>1. Returns(p, "EIO")
      BY <1>6, <2>2 DEF Fails, At1
    <3> QED
      BY <3>1, Returned1 DEF Errno
  <2>3. CASE CallsStat(p)
    <3>1. Reads(p, i) /\ fs' = fs
      BY <1>2, <2>3 DEF CallsStat, Reads, Looks
    <3>2. CASE i = NoInode
      <4>1. Returns(p, "ENOENT")
        BY <3>1, <3>2 DEF Reads
      <4> QED
        BY <4>1, Returned1 DEF Errno
    <3>3. CASE i # NoInode
      <4>1. PICK v : v = Value(i, Field(p))
        OBVIOUS
      <4>2. Gets(p, v) /\ Proceeds(p)
        BY <3>1, <3>3, <4>1 DEF Reads
      <4>3. PICK l \in 0 .. 1 : l = 1
        OBVIOUS
      <4>4. Len(got[p]) = l /\ (~disturbed[p] => Here(p) # NoInode /\ v = Value(Here(p), Field(p)))
        BY <1>2, <2>1, <3>3, <4>1, <4>3
      <4> QED
        BY <1>6, <3>1, <4>2, <4>3, <4>4, ReadsOn
    <3> QED
      BY <3>2, <3>3
  <2> QED
    BY <1>6, <2>2, <2>3, StepsAt DEF Own1
<1>7. CASE At1(p, "fopen_r") /\ ReadsLeft(p) /\ todo[p] = <<"fopen_r", "fread">>
  <2>1. Len(got[p]) = 2
    BY <1>7, Tuple1, Tuple2, Tuple3, Tuple4 DEF ReadsLeft, Left
  <2>2. CASE Fails(p)
    <3>1. Returns(p, "EIO")
      BY <1>7, <2>2 DEF Fails, At1
    <3> QED
      BY <3>1, Returned1 DEF Errno
  <2>3. CASE OpensToRead(p)
    <3>1. /\ fs' = fs /\ got' = got
          /\ \/ fd'[p] = Stat(call[p].path) /\ fd'[p] \in Inodes /\ todo'[p] = Tail(todo[p])
             \/ todo'[p] = << >> /\ result'[p] # "ENOERR"
      BY <2>3, OpensToReadWithin
    <3>2. CASE todo'[p] = << >> /\ result'[p] # "ENOERR"
      BY <3>2, Ended
    <3>3. CASE fd'[p] = Stat(call[p].path) /\ fd'[p] \in Inodes /\ todo'[p] = Tail(todo[p])
      <4>1. todo'[p] = <<"fread">>
        BY <1>7, <3>3, Tuple2
      <4>2. ReadsLeft(p)'
        BY <2>1, <3>1, <4>1 DEF ReadsLeft, Left
      <4>3. Under(p)' /\ ModeInv(p)' /\ LinkInv(p)'
        BY <1>1, <4>1, <4>2, Tuples DEF Under, ModeInv, LinkInv, Looked
      <4>4. ReadInv(p)'
        BY <1>1, <1>2, <3>1, <3>3, ReadNone
      <4> QED
        BY <3>3, <4>1, <4>3, <4>4, GoesOn, Tuples
    <3> QED
      BY <3>1, <3>2, <3>3
  <2> QED
    BY <1>7, <2>2, <2>3, StepsAt DEF Own1
<1>8. CASE At1(p, "fread") /\ ReadsLeft(p) /\ todo[p] = <<"fread">>
  <2>1. Len(got[p]) = 2
    BY <1>8, Tuple1, Tuple2, Tuple3, Tuple4 DEF ReadsLeft, Left
  <2>2. CASE Fails(p)
    <3>1. Returns(p, "EIO")
      BY <1>8, <2>2 DEF Fails, At1
    <3> QED
      BY <3>1, Returned1 DEF Errno
  <2>3. CASE Returns(p, "EINVAL")
    BY <2>3, Returned1 DEF Errno
  <2>4. CASE ReadsStream(p) /\ ~Returns(p, "EINVAL")
    <3>1. PICK data : data = inode[fd[p]].data
      OBVIOUS
    <3>2. PICK v : v = SubSeq(data, 1, IF got[p][2] < Len(data) THEN got[p][2] ELSE Len(data))
      OBVIOUS
    <3>3. Gets(p, v) /\ Proceeds(p) /\ fs' = fs
      BY <2>4, <3>1, <3>2 DEF ReadsStream, Looks
    <3>4. todo'[p] = << >>
      BY <1>8, <3>3, ProceedsTo
    <3>5. Field(p) = <<"data">>
      BY <1>3, <2>1 DEF Field
    <3>6. ASSUME ~disturbed[p]
          PROVE  i # NoInode /\ v = Value(i, <<"data">>)
      <4>1. got[p] = Fetched(p) /\ fd[p] = i
        BY <1>2, <1>8, <3>6, Tuples DEF IInv, ProcInv, ReadInv
      <4>2. got[p][2] = Value(i, <<"size">>)
        BY <1>2, <1>3, <2>1, <4>1 DEF Fetched
      <4>3. fd[p] \in Inodes
        BY <1>8 DEF IInv, ProcInv, CallInv
      <4>4. i \in Inodes /\ i # NoInode
        BY <4>1, <4>3, FileSystemBounds DEF NoInode
      <4>5. data \in Seq(Cells(Writers))
        BY <3>1, <4>3, InodeCells DEF IInv
      <4>6. got[p][2] = Len(data)
        BY <3>1, <4>1, <4>2, Values
      <4>7. v = SubSeq(data, 1, Len(data))
        BY <3>2, <4>6
      <4>8. v = data
        BY <4>5, <4>7
      <4> QED
        BY <3>1, <4>1, <4>4, <4>8, Values
    <3>7. Len(got'[p]) = 3
      BY <2>1, <3>3, GetsOne
    <3>8. ReadInv(p)'
      <4>1. todo'[p] # <<"fread">> /\ Len(got[p]) < Wants(p) /\ Wants(p) \in Nat
        BY <1>3, <2>1, <3>4, Tuples
      <4>2. ~disturbed[p] => Here(p) # NoInode /\ v = Value(Here(p), Field(p))
        BY <1>2, <3>5, <3>6
      <4> QED
        BY <1>1, <3>3, <4>1, <4>2, ReadOne
    <3>9. Returned(p)'
      <4>1. Wants(p)' = 3
        BY <1>1, <1>3 DEF Wants
      <4> QED
        BY <1>1, <3>7, <4>1 DEF Returned
    <3>10. CallInv(p)'
      BY <3>4, <3>9, GotAfter, Tuples DEF Own1, CallInv
    <3>11. ModeInv(p)' /\ LinkInv(p)'
      BY <3>4, Tuples DEF ModeInv, LinkInv, Looked
    <3> QED
      BY <3>8, <3>10, <3>11 DEF SelfInv
  <2> QED
    BY <1>8, <2>2, <2>3, <2>4, StepsAt DEF Own1
<1> QED
  BY <1>1, <1>4, <1>5, <1>6, <1>7, <1>8, OthersNext

(***************************************************************************)
(* The invariant holds, and the theorems.                                  *)
(***************************************************************************)
LEMMA NextIInv == IInv /\ Next => IInv'
<1> SUFFICES ASSUME IInv, Next
             PROVE  IInv'
  OBVIOUS
<1>1. PICK p \in Procs : Step(p) /\ Disturbs(p)
  BY DEF Next
<1>2. TypeOK'
  BY NextTypeOK
<1>3. CellsInv'
  BY <1>1, BeginCells, StepCells
<1>4. ASSUME NEW q \in Procs, q # p
      PROVE  ProcInv(q)'
  <2>1. Kept(q)
    BY <1>1, <1>4, BeginType, StepWithin DEF IInv, Within
  <2>2. CallInv(q)' /\ ReadInv(q)' /\ ModeInv(q)' /\ LinkInv(q)' /\ AppendInv(q)'
    BY <1>1, <1>4, <2>1, CallInvOther, ReadInvOther, ModeInvOther, AppendInvOther
  <2> QED
    BY <2>2 DEF ProcInv
<1>5. ProcInv(p)'
  <2>1. CASE Begin(p)
    BY <1>1, <2>1, BeginInv, AppendInvBegins DEF ProcInv
  <2>2. CASE ~Begin(p)
    <3>1. Own1(p) /\ AppendInv(p)'
      BY <1>1, <2>2, AppendInvSelf DEF Own1
    <3>2. call[p].name \in CallNames
      BY FactsOfCall DEF Facts
    <3>3. SelfInv(p)'
      BY <3>1, <3>2, SelfSimple, SelfMkfifo, SelfOwner, SelfCreate, SelfAppend, SelfMode,
         SelfGet, SelfRead DEF CallNames
    <3> QED
      BY <3>1, <3>3 DEF SelfInv, ProcInv
  <2> QED
    BY <2>1, <2>2
<1>6. \A q \in Procs : ProcInv(q)'
  BY <1>4, <1>5
<1> QED
  BY <1>2, <1>3, <1>6 DEF IInv

LEMMA StutterIInv == IInv /\ UNCHANGED vars => IInv'
<1> SUFFICES ASSUME IInv, UNCHANGED vars
             PROVE  IInv'
  OBVIOUS
<1>1. /\ fs' = fs /\ dir' = dir /\ inode' = inode /\ now' = now
      /\ scene' = scene /\ call' = call /\ todo' = todo /\ sym' = sym /\ got' = got /\ fd' = fd
      /\ moved' = moved /\ result' = result /\ calls' = calls /\ errors' = errors
      /\ disturbed' = disturbed /\ clobbered' = clobbered
  BY DEF vars, fs
<1>2. TypeOK'
  BY <1>1 DEF IInv, TypeOK
<1>3. CellsInv'
  BY <1>1 DEF IInv, CellsInv, Opens
<1>4. ASSUME NEW q \in Procs
      PROVE  ProcInv(q)'
  <2>1. CallInv(q) /\ ReadInv(q) /\ ModeInv(q) /\ LinkInv(q) /\ AppendInv(q)
    BY DEF IInv, ProcInv
  <2>2. CallInv(q)'
    BY <1>1, CallInvOther DEF Kept
  <2>3. ReadInv(q)'
    <3>1. Here(q)' = Here(q)
          /\ \A k : Value(Here(q), call[q].fields[k])' = Value(Here(q), call[q].fields[k])
      BY <1>1, HereSame
    <3>2. Fetched(q)' = Fetched(q)
      BY <1>1, <3>1 DEF Fetched
    <3> QED
      BY <1>1, <2>1, <3>1, <3>2 DEF ReadInv, Wants
  <2>4. PICK n : n = call[q].path
    OBVIOUS
  <2>5. LStat(n)' = LStat(n) /\ Stat(n)' = Stat(n)
    BY <1>1, SameViews
  <2>6. ModeInv(q)' /\ LinkInv(q)'
    BY <1>1, <2>1, <2>4, <2>5 DEF ModeInv, LinkInv, Looked
  <2>7. AppendInv(q)'
    BY <1>1, <2>1 DEF AppendInv, Appended
  <2> QED
    BY <2>2, <2>3, <2>6, <2>7 DEF ProcInv
<1> QED
  BY <1>2, <1>3, <1>4 DEF IInv

\* The types of the variables, and what every call has done and read by each of
\* its steps, stay as IInv says for every run of the calls.
THEOREM Invariant == Spec => []IInv
<1>1. Init => IInv
  BY InitIInv
<1>2. IInv /\ [Next]_vars => IInv'
  BY NextIInv, StutterIInv
<1> QED
  BY <1>1, <1>2, PTL DEF Spec

\* The fields that a call reads are a sequence.
LEMMA FieldsDomain ==
    ASSUME NEW c, IsCall(c)
    PROVE  DOMAIN c.fields = 1 .. Len(c.fields)
<1> DEFINE n == c.path
           f == c.follow
<1>0. /\ DOMAIN << >> = 1 .. Len(<< >>) /\ \A x : DOMAIN <<x>> = 1 .. Len(<<x>>)
      /\ \A x, y : DOMAIN <<x, y>> = 1 .. Len(<<x, y>>)
      /\ \A x, y, z : DOMAIN <<x, y, z>> = 1 .. Len(<<x, y, z>>)
  BY Tuple1, Tuple2, Tuple3
<1>1. \A name, path, follow, steps, fields :
         Call(name, path, follow, steps, fields).fields = fields
  BY DEF Call
<1>2. \A name, path, follow, steps, fields, bits, a, m, o, g, len, flag, other :
         LET d == Call(name, path, follow, steps, fields)
         IN /\ [d EXCEPT !.bits = bits].fields = fields
            /\ [d EXCEPT !.other = other].fields = fields
            /\ [d EXCEPT !.len = len, !.flag = flag].fields = fields
            /\ [d EXCEPT !.atime = a, !.mtime = m].fields = fields
            /\ [d EXCEPT !.owner = o, !.group = g].fields = fields
  BY DEF Call

<1>3. CASE \E field \in Fields : c = Getter(n, field)
  BY <1>0, <1>1, <1>3 DEF Getter
<1>4. CASE \E s \in Stamps, part \in {"seconds", "nseconds"} : c = GetStamp(n, s, part, f)
  BY <1>0, <1>1, <1>4 DEF GetStamp
<1>5. CASE \E s \in Stamps : c = GetBoth(n, s, f)
  BY <1>0, <1>1, <1>5 DEF GetBoth
<1>6. CASE c \in {GetGroup(n, f), GetOwner(n, f), IsSymLink(n)}
  BY <1>0, <1>1, <1>6 DEF GetGroup, GetOwner, IsSymLink
<1>7. CASE c \in {IsPath(n), DeleteFile(n)}
  BY <1>0, <1>1, <1>7 DEF IsPath, DeleteFile
<1>8. CASE c \in {CreateHardLink(c.other, n), CreateSymLink(c.other, n), MakeNamedPipe(n, c.bits)}
  BY <1>0, <1>2, <1>8 DEF CreateHardLink, CreateSymLink, MakeNamedPipe
<1>9. CASE c \in {AddMode(n, c.bits), RemoveMode(n, c.bits), SetMode(n, c.bits)}
  BY <1>0, <1>2, <1>9 DEF AddMode, RemoveMode, SetMode, ModeCall
<1>10. CASE c \in {TimesCall(n, f, c.atime, c.mtime), SetOwnership(n, c.owner, c.group, f)}
  BY <1>0, <1>2, <1>10 DEF TimesCall, SetOwnership
<1>11. CASE c \in {AppendToFile(n, c.len, c.flag), CreateFile(n, c.len, c.flag)}
  BY <1>0, <1>2, <1>11 DEF AppendToFile, CreateFile
<1>12. CASE c = ReadFile(n)
  BY <1>0, <1>1, <1>12 DEF ReadFile
<1> QED
  BY <1>3, <1>4, <1>5, <1>6, <1>7, <1>8, <1>9, <1>10, <1>11, <1>12 DEF IsCall

LEMMA FieldsOfCall ==
    ASSUME IInv, NEW p \in Procs
    PROVE  DOMAIN call[p].fields = 1 .. Wants(p)
<1>1. PICK c : c = call[p]
  OBVIOUS
<1>2. PICK d : d = [c EXCEPT !.valid = TRUE]
  OBVIOUS
<1>3. IsCall(d)
  BY <1>1, <1>2 DEF IInv, TypeOK
<1>4. DOMAIN d = CallFields /\ DOMAIN d.fields = 1 .. Len(d.fields)
  BY <1>3, CallDomain, FieldsDomain
<1>5. d.fields = c.fields
  BY <1>2, <1>4 DEF CallFields
<1> QED
  BY <1>1, <1>4, <1>5 DEF Wants

LEMMA ReadsAreTrue == IInv => QuietReadsAreTrue
<1> SUFFICES ASSUME IInv, NEW p \in Procs, Succeeded(p), call[p].name \in {"get", "read"},
                    ~disturbed[p]
             PROVE  /\ Here(p) # NoInode
                    /\ got[p] = [f \in DOMAIN call[p].fields |-> Value(Here(p), call[p].fields[f])]
  BY DEF QuietReadsAreTrue, Here
<1>1. Len(got[p]) = Wants(p)
  BY DEF IInv, ProcInv, CallInv, Returned, Succeeded
<1>2. got[p] = Fetched(p) /\ (got[p] # << >> => Here(p) # NoInode)
  BY DEF IInv, ProcInv, ReadInv, Succeeded
<1>3. got[p] = [f \in DOMAIN call[p].fields |-> Value(Here(p), call[p].fields[f])]
  BY <1>1, <1>2, FieldsOfCall DEF Fetched
<1>4. Wants(p) \in {1, 2, 3}
  BY FactsOfCall, ReadFields DEF Facts, IsGet, Wants
<1>5. got[p] # << >>
  BY <1>1, <1>4, GotShape
<1> QED
  BY <1>2, <1>3, <1>5

\* What a getter or read_file() returns is what the file system holds for its
\* path, unless another process changed that meanwhile: though they look more
\* than once, and some look for a link first.
THEOREM QuietReads == Spec => []QuietReadsAreTrue
  BY Invariant, ReadsAreTrue, PTL

LEMMA AppendedStays == IInv => AppendedIsKept
<1> SUFFICES ASSUME IInv, NEW p \in Procs \ clobbered, Succeeded(p), call[p].name = "append",
                    inode[got[p][2]].kind = "regular"
             PROVE  Appended(p, call[p].len)
  BY DEF AppendedIsKept
<1>1. Len(got[p]) = 2 /\ moved[p] = call[p].len
  BY DEF IInv, ProcInv, CallInv, Returned, Succeeded
<1>2. Appended(p, moved[p])
  BY <1>1 DEF IInv, ProcInv, AppendInv
<1> QED
  BY <1>1, <1>2

\* Every byte that append_to_file() wrote is in the file, in order, whoever else
\* appends to it and however its write() is cut up, until the file is truncated
\* or overwritten.
THEOREM AppendedKept == Spec => []AppendedIsKept
  BY Invariant, AppendedStays, PTL

LEMMA ModeIsAdded ==
    ASSUME IInv, NEW p \in Procs, Chmods(p), ~disturbed[p], call[p].name \in {"add_mode", "remove_mode"},
           NEW i \in Inodes, i = Stat(call[p].path)
    PROVE  /\ call[p].name = "add_mode" => inode'[i].perms = inode[i].perms \cup call[p].bits
           /\ call[p].name = "remove_mode" => inode'[i].perms = inode[i].perms \ call[p].bits
<1>1. i # NoInode
  BY FileSystemBounds DEF NoInode
<1>2. PICK old : old = Stamp(inode[i], {"ctime"})
  OBVIOUS
<1>3. PICK mode : mode = NewMode(p)
  OBVIOUS
<1>4. ChangeInode(i, [old EXCEPT !.perms = mode])
  BY <1>1, <1>2, <1>3 DEF Chmods, Changes
<1>5. old \in AnyInode
  BY <1>2, StampType DEF IInv
<1>6. [old EXCEPT !.perms = mode].perms = mode
  BY <1>5 DEF AnyInode, Inode
<1>7. PICK new : new = [old EXCEPT !.perms = mode]
  OBVIOUS
<1>8. inode'[i] = new
  BY <1>4, <1>7 DEF ChangeInode, IInv, TypeOK
<1>9. At1(p, "chmod") /\ todo[p] = <<"chmod">>
  <2>1. At1(p, "chmod")
    BY ActionsAt
  <2> QED
    BY <2>1, OthersNext DEF At1
<1>10. got[p][1] = inode[i].perms
  BY <1>9 DEF IInv, ProcInv, ModeInv
<1>11. inode'[i].perms = NewMode(p)
  BY <1>3, <1>6, <1>7, <1>8
<1> QED
  BY <1>10, <1>11 DEF NewMode

\* add_mode() and remove_mode() change the bits that they were asked to and no
\* others, unless another process changed the file between stat() and chmod().
THEOREM ModesAdd == Spec => ModesAddUp
<1>1. ASSUME IInv, Next, NEW p \in Procs, At1(p, "chmod"), ~disturbed[p],
             result'[p] = "ENOERR", Stat(call[p].path) # NoInode, todo'[p] = << >>
      PROVE  /\ call[p].name = "add_mode" =>
                   inode'[Stat(call[p].path)].perms
                      = inode[Stat(call[p].path)].perms \cup call[p].bits
             /\ call[p].name = "remove_mode" =>
                   inode'[Stat(call[p].path)].perms
                      = inode[Stat(call[p].path)].perms \ call[p].bits
  <2>1. PICK q \in Procs : Step(q) /\ Disturbs(q)
    BY <1>1 DEF Next
  <2>2. q = p
    <3>1. q # p => Kept(p)
      BY <1>1, <2>1, BeginType, StepWithin DEF IInv, Within
    <3> QED
      BY <1>1, <3>1 DEF Kept, At1
  <2>3. PICK i \in Inodes : i = Stat(call[p].path)
    BY <1>1, FactsOfCall, InodesThere DEF Facts, IInv
  <2>4. Chmods(p) \/ Fails(p)
    BY <1>1, <2>1, <2>2, StepsAt
  <2>5. ~Fails(p)
    <3>1. Fails(p) => Returns(p, "EIO")
      BY <1>1 DEF Fails, At1
    <3>2. ~Returns(p, "EIO")
      BY <1>1, ReturnsMine DEF IInv, Errno
    <3> QED
      BY <3>1, <3>2
  <2> QED
    BY <1>1, <2>3, <2>4, <2>5, ModeIsAdded
<1>2. IInv /\ [Next]_vars =>
        [\A p \in Procs :
           LET i == Stat(call[p].path)
           IN At1(p, "chmod") /\ ~disturbed[p] /\ result'[p] = "ENOERR" /\ i # NoInode
              /\ todo'[p] = << >> =>
                 /\ call[p].name = "add_mode" =>
                       inode'[i].perms = inode[i].perms \cup call[p].bits
                 /\ call[p].name = "remove_mode" =>
                       inode'[i].perms = inode[i].perms \ call[p].bits]_vars
  BY <1>1
<1> QED
  BY <1>2, Invariant, PTL DEF Spec, ModesAddUp

\* What a call that follows no links can be at.
LEMMA NotFollowing ==
    ASSUME IInv, NEW p \in Procs, ~call[p].follow, Step(p)
    PROVE  ~Chmods(p) /\ ~OpensToAppend(p) /\ ~WritesSome(p) /\ ~OpensToWrite(p)
           /\ ~Closes(p) /\ ~OpensToRead(p)
<1>1. call[p].name \notin {"read", "add_mode", "remove_mode", "set_mode", "append", "create"}
  BY FactsOfCall DEF Facts
<1>2. ASSUME NEW s \in {"chmod", "open", "write", "fopen_w", "fclose", "fopen_r"}, At1(p, s)
      PROVE  FALSE
  <2>1. todo[p] # << >> /\ \A r : At1(p, r) => r = s
    BY <1>2 DEF At1
  <2>2. CASE call[p].name = "get"
    BY <2>1, <2>2, GetsNext
  <2>3. CASE call[p].name # "get"
    BY <1>1, <2>1, <2>3, OthersNext
  <2> QED
    BY <2>2, <2>3
<1> QED
  BY <1>2, ActionsAt

\* A function that is told to leave links alone changes the link and never the
\* file behind it.
THEOREM TargetIsKept == Spec => LinkTargetIsKept
<1>1. ASSUME IInv, Next, NEW p \in Procs, todo[p] # << >>, todo[p] # todo'[p], ~disturbed[p],
             ~call[p].follow, NEW link, link = LStat(call[p].path), link # NoInode,
             inode[link].kind = "symlink", NEW file, file = Stat(call[p].path), file # NoInode
      PROVE  inode'[file] = inode[file]
  <2>1. PICK q \in Procs : Step(q) /\ Disturbs(q)
    BY <1>1 DEF Next
  <2>2. q = p
    <3>1. q # p => Kept(p)
      BY <1>1, <2>1, BeginType, StepWithin DEF IInv, Within
    <3> QED
      BY <1>1, <3>1 DEF Kept
  <2>3. Step(p) /\ ~Begin(p)
    BY <1>1, <2>1, <2>2, StepsAt
  <2>4. file \in Inodes /\ file # link /\ dir[call[p].path] = link
    <3>1. file \in Inodes
      BY <1>1, FactsOfCall, InodesThere DEF Facts, IInv
    <3>2. inode[file].kind # "symlink"
      BY <1>1 DEF Stat
    <3> QED
      BY <1>1, <3>1, <3>2 DEF LStat
  <2>5. fs' = fs => inode' = inode
    BY DEF fs
  <2>6. CASE \/ Refuses(p) \/ LooksAtLink(p) \/ CallsAStat(p) \/ CallsStat(p) \/ CallsLStat(p)
             \/ ChecksPath(p) \/ ChecksFile(p) \/ ReadsStream(p) \/ Fails(p)
    BY <1>1, <2>5, <2>6, LookingWithin
  <2>7. CASE Links(p) \/ SymLinks(p) \/ MakesPipe(p)
    BY <1>1, <2>4, <2>5, <2>7, LinksWithin, SymLinksWithin, MakesPipeWithin
  <2>8. CASE Unlinks(p)
    BY <1>1, <2>8, UnlinksWithin
  <2>9. CASE Utimensats(p)
    <3>1. At(call[p].path, call[p].follow) = link
      BY <1>1 DEF At
    <3> QED
      BY <1>1, <2>4, <2>9, <3>1, UtimensatsWithin
  <2>10. CASE Chowns(p)
    <3>1. Looked(p)
      BY <2>10, ActionsAt DEF At1, Looked
    <3>2. At(call[p].path, Follows(p)) = link
      BY <1>1, <3>1, FollowsHere DEF Here, At
    <3> QED
      BY <1>1, <2>4, <2>10, <3>2, ChownsWithin
  <2> QED
    BY <1>1, <2>3, <2>6, <2>7, <2>8, <2>9, <2>10, NotFollowing DEF Step
<1>2. IInv /\ [Next]_vars =>
        [\A p \in Procs :
           LET link == LStat(call[p].path) file == Stat(call[p].path)
           IN /\ todo[p] # << >> /\ todo[p] # todo'[p] /\ ~disturbed[p]
              /\ ~call[p].follow /\ link # NoInode
              /\ inode[link].kind = "symlink" /\ file # NoInode
              => inode'[file] = inode[file]]_vars
  BY <1>1
<1> QED
  BY <1>2, Invariant, PTL DEF Spec, LinkTargetIsKept
================================================================================
