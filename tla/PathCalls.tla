------------------------------- MODULE PathCalls -------------------------------
(***************************************************************************)
(* skid_file_metadata_read, skid_file_metadata_write,                      *)
(* skid_file_operations, skid_file_link and the named pipes of skid_pipes: *)
(* functions that take a pathname.                                         *)
(*                                                                         *)
(* Few of them are one system call: they look at the path first, and then  *)
(* open, read or change what it stands for by then.  A call is a record    *)
(* whose steps name the system calls it makes, in order; several processes *)
(* make calls on the same names.                                           *)
(***************************************************************************)
EXTENDS FileSystem

CONSTANTS
    Procs,      \* the processes
    Somebody,   \* who wrote what is there at the start
    Scenes,     \* a sequence of [starts, calls]: file systems to start in,
                \* and the calls that the processes make in them
    MaxCalls,   \* MaxCalls[p]: bound on the calls of process p
    MaxErrors   \* bound on the system calls that fail for no reason of ours

VARIABLES
    scene,      \* which of the Scenes this is
    call,       \* call[p]: the call that p makes, or made last
    todo,       \* todo[p]: what is left of its steps
    sym,        \* sym[p]: is_sym_link() found a symbolic link
    got,        \* got[p]: what it has read so far
    fd,         \* fd[p]: the inode it has open
    moved,      \* moved[p]: how much of its message it has written
    result,     \* result[p]: the errno it returned
    calls,      \* calls[p]: how many calls p has begun
    errors,     \* system calls that have failed for no reason of ours
    disturbed,  \* disturbed[p]: another process changed what p's path leads to
    clobbered   \* processes whose appended file was truncated or overwritten since

mine == <<call, todo, sym, got, fd, moved, result>>
vars == <<dir, inode, now, scene, call, todo, sym, got, fd, moved, result,
          calls, errors, disturbed, clobbered>>

Omit == -1      \* UTIME_OMIT, SFMW_IGNORE_ID
Now == -2       \* UTIME_NOW
Errno == {"ENOERR", "ENOENT", "EEXIST", "EINVAL", "EIO"}

(***************************************************************************)
(* What is read.  A field of stat(2) is the name of it, and for the stamps *)
(* whether the seconds or the nanoseconds of it are wanted.                *)
(***************************************************************************)
PermMaskNoSpecial == {CHOOSE m \in Modes : TRUE}
PermMask == Modes

Value(i, field) ==
    IF field[1] \in Stamps
    THEN LET t == inode[i].times[field[1]]
         IN IF field[2] = "seconds" THEN t \div TicksPerSecond ELSE t % TicksPerSecond
    ELSE [perms |-> inode[i].perms \cap PermMask, kind |-> inode[i].kind,
          regular |-> inode[i].kind = "regular", owner |-> inode[i].owner,
          group |-> inode[i].group, size |-> Len(inode[i].data), serial |-> i,
          device |-> IF inode[i].kind = "special" THEN i ELSE 0,
          blocks |-> (Len(inode[i].data) + 1) \div 2,
          links |-> HardLinks(i), data |-> inode[i].data][field[1]]

(***************************************************************************)
(* The calls.                                                              *)
(***************************************************************************)
Call(name, n, follow, steps, fields) ==
    [name |-> name, path |-> n, follow |-> follow, steps |-> steps,
     fields |-> fields, bits |-> {}, atime |-> Omit, mtime |-> Omit,
     owner |-> Omit, group |-> Omit, len |-> 0, flag |-> FALSE, other |-> n,
     valid |-> TRUE]

\* The same call with NULL or an empty string for one of its arguments.
WithBadArgument(c) == [c EXCEPT !.valid = FALSE]

Getter(n, field) == Call("get", n, TRUE, <<"stat">>, <<<<field>>>>)
CallAStat == <<"is_sym_link", "a_stat">>
GetStamp(n, which, part, f) == Call("get", n, f, CallAStat, <<<<which, part>>>>)
GetBoth(n, which, f) ==
    Call("get", n, f, CallAStat \o CallAStat,
         <<<<which, "seconds">>, <<which, "nseconds">>>>)

GetAccessTime(n, part, f) == GetStamp(n, "atime", part, f)
GetAccessTimestamp(n, f) == GetBoth(n, "atime", f)
GetChangeTime(n, part, f) == GetStamp(n, "ctime", part, f)
GetChangeTimestamp(n, f) == GetBoth(n, "ctime", f)
GetModTime(n, part, f) == GetStamp(n, "mtime", part, f)
GetModTimestamp(n, f) == GetBoth(n, "mtime", f)
GetBlockCount(n) == Getter(n, "blocks")
GetFilePerms(n) == Getter(n, "perms")
GetFileType(n) == Getter(n, "kind")
GetFileDeviceId(n) == Getter(n, "device")
GetHardLinkNum(n) == Getter(n, "links")
GetSerialNum(n) == Getter(n, "serial")
GetSize(n) == Getter(n, "size")
GetGroup(n, f) ==
    Call("get", n, f, IF f THEN <<"stat">> ELSE <<"lstat">>, <<<<"group">>>>)
GetOwner(n, f) ==
    Call("get", n, f, IF f THEN <<"stat">> ELSE <<"lstat">>, <<<<"owner">>>>)
IsSpecial(n) == GetFileType(n)
IsRegularFile(n) == Getter(n, "regular")
IsSymLink(n) == Call("get", n, FALSE, <<"lstat">>, <<<<"kind">>>>)
IsPath(n) == Call("is_path", n, FALSE, <<"is_path">>, << >>)

ModeCall(name, n, bits) ==
    [Call(name, n, TRUE, <<"stat", "chmod">>, <<<<"perms">>>>) EXCEPT !.bits = bits]
AddMode(n, more) == ModeCall("add_mode", n, more)
RemoveMode(n, less) == ModeCall("remove_mode", n, less)
SetMode(n, new) ==
    [Call("set_mode", n, TRUE, <<"chmod">>, << >>) EXCEPT !.bits = new]

TimesCall(n, f, a, m) ==
    [Call("set_times", n, f, <<"utimensat">>, << >>) EXCEPT !.atime = a, !.mtime = m]
SetAtime(n, f, t) == TimesCall(n, f, t, Omit)
SetAtimeNow(n, f) == TimesCall(n, f, Now, Omit)
SetMtime(n, f, t) == TimesCall(n, f, Omit, t)
SetMtimeNow(n, f) == TimesCall(n, f, Omit, Now)
SetTimes(n, f, t) == TimesCall(n, f, t, t)
SetTimesNow(n, f) == TimesCall(n, f, Now, Now)

CallAChown == <<"is_sym_link", "a_chown">>
SetOwnership(n, uid, gid, f) ==
    [Call("set_owner", n, f, CallAChown, << >>) EXCEPT !.owner = uid, !.group = gid]
SetOwnerId(n, uid, f) == SetOwnership(n, uid, Omit, f)
SetGroupId(n, gid, f) == SetOwnership(n, Omit, gid, f)

CreateHardLink(source, n) ==
    [Call("link", n, FALSE, <<"link">>, << >>) EXCEPT !.other = source]
CreateSymLink(dest, n) ==
    [Call("symlink", n, FALSE, <<"symlink">>, << >>) EXCEPT !.other = dest]

AppendToFile(n, len, create) ==
    [Call("append", n, TRUE, <<"is_path", "open", "write">>, << >>)
        EXCEPT !.len = len, !.flag = create]
CreateFile(n, len, overwrite) ==
    [Call("create", n, TRUE, <<"is_file", "fopen_w", "fclose">>, << >>)
        EXCEPT !.len = len, !.flag = overwrite]
EmptyFile(n) == CreateFile(n, 0, TRUE)
ReadFile(n) ==
    Call("read", n, TRUE, <<"is_file", "stat", "fopen_r", "fread">>,
         <<<<"regular">>, <<"size">>, <<"data">>>>)
DeleteFile(n) == Call("unlink", n, FALSE, <<"unlink">>, << >>)

MakeNamedPipe(n, bits) ==
    [Call("mkfifo", n, FALSE, <<"is_path", "mkfifo">>, << >>) EXCEPT !.bits = bits]
DeleteNamedPipe(n) == DeleteFile(n)

(***************************************************************************)
(* What the Scenes may hold: file systems with contents of others, and     *)
(* calls of the functions above.                                           *)
(***************************************************************************)
Cells(writers) == writers \X Nat \X Nat
Inode(cells) ==
    [kind : {"regular", "symlink", "fifo", "special"}, perms : SUBSET Modes,
     owner : Int, group : Int, times : [Stamps -> Int], data : Seq(cells), target : Names]

IsDisk(d) ==
    /\ d.dir \in [Names -> Inodes \cup {NoInode}]
    /\ d.inode \in [Inodes -> Inode(Cells({Somebody}))]

Fields == {"perms", "kind", "regular", "size", "serial", "device", "blocks", "links"}

IsCall(c) ==
    /\ {c.path, c.other} \subseteq Names /\ c.bits \subseteq Modes
    /\ {c.owner, c.group, c.atime, c.mtime} \subseteq Int /\ c.len \in Nat
    /\ {c.follow, c.flag, c.valid} \subseteq BOOLEAN
    /\ LET n == c.path f == c.follow
       IN \/ \E field \in Fields : c = Getter(n, field)
          \/ \E s \in Stamps : \/ \E part \in {"seconds", "nseconds"} : c = GetStamp(n, s, part, f)
                               \/ c = GetBoth(n, s, f)
          \/ c \in {GetGroup(n, f), GetOwner(n, f), IsSymLink(n), IsPath(n), DeleteFile(n),
                    AddMode(n, c.bits), RemoveMode(n, c.bits), SetMode(n, c.bits),
                    MakeNamedPipe(n, c.bits), TimesCall(n, f, c.atime, c.mtime),
                    SetOwnership(n, c.owner, c.group, f), CreateHardLink(c.other, n),
                    CreateSymLink(c.other, n), AppendToFile(n, c.len, c.flag),
                    CreateFile(n, c.len, c.flag), ReadFile(n)}

ASSUME PathCallsBounds ==
    /\ Somebody \notin Procs
    /\ MaxCalls \in [Procs -> Nat] /\ MaxErrors \in Nat
    /\ \A k \in DOMAIN Scenes :
          /\ \A d \in Scenes[k].starts : IsDisk(d)
          /\ \A c \in Scenes[k].calls : IsCall([c EXCEPT !.valid = TRUE]) /\ c.valid \in BOOLEAN
--------------------------------------------------------------------------------
Init ==
    /\ scene \in DOMAIN Scenes
    /\ \E s \in Scenes[scene].starts : dir = s.dir /\ inode = s.inode
    /\ now = TicksPerSecond
    /\ call = [p \in Procs |-> IsPath(CHOOSE n \in Names : TRUE)]
    /\ todo = [p \in Procs |-> << >>]
    /\ sym = [p \in Procs |-> FALSE]
    /\ got = [p \in Procs |-> << >>]
    /\ fd = [p \in Procs |-> NoInode]
    /\ moved = [p \in Procs |-> 0]
    /\ result = [p \in Procs |-> "ENOERR"]
    /\ calls = [p \in Procs |-> 0]
    /\ errors = 0
    /\ disturbed = [p \in Procs |-> FALSE]
    /\ clobbered = {}

\* The byte k of what p writes in this call has a name of its own.
Message(p) == [k \in 1 .. call[p].len |-> <<p, calls[p], k>>]

At1(p, step) == todo[p] # << >> /\ Head(todo[p]) = step

Returns(p, errno) ==
    /\ todo' = [todo EXCEPT ![p] = << >>]
    /\ result' = [result EXCEPT ![p] = errno]
    /\ fd' = [fd EXCEPT ![p] = NoInode]

\* The system call at the head of todo worked; the last one ends the call.
Proceeds(p) ==
    IF Len(todo[p]) = 1 THEN Returns(p, "ENOERR")
    ELSE todo' = [todo EXCEPT ![p] = Tail(@)] /\ UNCHANGED <<result, fd>>

Gets(p, v) == got' = [got EXCEPT ![p] = Append(@, v)]

Begin(p) ==
    /\ todo[p] = << >>
    /\ calls[p] < MaxCalls[p]
    /\ \E c \in Scenes[scene].calls :
          /\ call' = [call EXCEPT ![p] = c]
          /\ todo' = [todo EXCEPT ![p] = IF c.valid THEN c.steps ELSE <<"validate">>]
    /\ calls' = [calls EXCEPT ![p] = @ + 1]
    /\ got' = [got EXCEPT ![p] = << >>]
    /\ moved' = [moved EXCEPT ![p] = 0]
    /\ clobbered' = clobbered \ {p}
    /\ UNCHANGED <<fs, sym, fd, result, errors>>

(***************************************************************************)
(* Looking.                                                                *)
(***************************************************************************)
Looks == UNCHANGED <<fs, call, moved, calls, errors, clobbered>>

\* read_file() looks for a regular file before it validates anything.
Refuses(p) ==
    /\ At1(p, "validate")
    /\ Returns(p, IF call[p].name = "read" THEN "ENOENT" ELSE "EINVAL")
    /\ Looks /\ UNCHANGED <<sym, got>>

LooksAtLink(p) ==
    /\ At1(p, "is_sym_link")
    /\ LET i == LStat(call[p].path)
       IN IF i = NoInode THEN Returns(p, "ENOENT") /\ UNCHANGED sym
          ELSE /\ sym' = [sym EXCEPT ![p] = inode[i].kind = "symlink"]
               /\ Proceeds(p)
    /\ Looks /\ UNCHANGED got

FollowsAlways(p) == TRUE
Follows(p) == ~(sym[p] /\ ~call[p].follow)
Field(p) == call[p].fields[Len(got[p]) + 1]

Reads(p, i) ==
    /\ IF i = NoInode THEN Returns(p, "ENOENT") /\ UNCHANGED got
       ELSE Gets(p, Value(i, Field(p))) /\ Proceeds(p)
    /\ Looks /\ UNCHANGED sym

CallsAStat(p) == At1(p, "a_stat") /\ Reads(p, At(call[p].path, Follows(p)))
CallsStat(p) == At1(p, "stat") /\ Reads(p, Stat(call[p].path))
CallsLStat(p) == At1(p, "lstat") /\ Reads(p, LStat(call[p].path))

ChecksPath(p) ==
    /\ At1(p, "is_path")
    /\ LET there == LStat(call[p].path) # NoInode
       IN /\ Gets(p, there)
          /\ IF call[p].name = "append" /\ ~there /\ ~call[p].flag
             THEN Returns(p, "ENOENT")
             ELSE IF call[p].name = "mkfifo" /\ there THEN Returns(p, "EEXIST")
             ELSE Proceeds(p)
    /\ Looks /\ UNCHANGED sym

\* create_file wants no file unless it may overwrite it, read_file wants one.
ChecksFile(p) ==
    /\ At1(p, "is_file")
    /\ LET i == Stat(call[p].path)
           there == i # NoInode /\ inode[i].kind = "regular"
       IN /\ Gets(p, there)
          /\ IF call[p].name = "create" /\ there /\ ~call[p].flag
             THEN Returns(p, "EEXIST")
             ELSE IF call[p].name = "read" /\ ~there THEN Returns(p, "ENOENT")
             ELSE Proceeds(p)
    /\ Looks /\ UNCHANGED sym

(***************************************************************************)
(* Changing what is looked at.                                             *)
(***************************************************************************)
Changes(p, i, new) ==
    /\ IF i = NoInode THEN Returns(p, "ENOENT") /\ UNCHANGED fs
       ELSE ChangeInode(i, new) /\ Proceeds(p)
    /\ UNCHANGED <<call, sym, got, moved, calls, errors, clobbered>>

NewMode(p) ==
    CASE call[p].name = "add_mode" -> got[p][1] \cup call[p].bits
      [] call[p].name = "remove_mode" -> got[p][1] \ call[p].bits
      [] OTHER -> call[p].bits

Chmods(p) ==
    /\ At1(p, "chmod")
    /\ LET i == Stat(call[p].path)
       IN Changes(p, i, [Stamp(inode[i], {"ctime"}) EXCEPT !.perms = NewMode(p)])

\* utimensat() of one stamp, the omitted one keeping what it has.
NewStamp(spec, old) == IF spec = Omit THEN old ELSE IF spec = Now THEN now ELSE spec

Utimensats(p) ==
    /\ At1(p, "utimensat")
    /\ LET i == At(call[p].path, call[p].follow)
       IN Changes(p, i, [Stamp(inode[i], {"ctime"}) EXCEPT
              !.times["atime"] = NewStamp(call[p].atime, @),
              !.times["mtime"] = NewStamp(call[p].mtime, @)])

NewId(spec, old) == IF spec = Omit THEN old ELSE spec

Chowns(p) ==
    /\ At1(p, "a_chown")
    /\ LET i == At(call[p].path, Follows(p))
       IN Changes(p, i, [Stamp(inode[i], {"ctime"}) EXCEPT
              !.owner = NewId(call[p].owner, @), !.group = NewId(call[p].group, @)])

(***************************************************************************)
(* Names.                                                                  *)
(***************************************************************************)
Opened == {fd[p] : p \in Procs}

AppendersTo(i) ==
    {q \in Procs : /\ call[q].name = "append" /\ Len(got[q]) = 2
                   /\ got[q][2] = i}

\* What was appended to inode i before is not in it any longer.
Overwrites(i) == clobbered' = clobbered \cup AppendersTo(i)

Binds(p, n, i, new) ==
    /\ Bind(n, i, new)
    /\ UNCHANGED <<call, sym, got, moved, calls, errors>>

Links(p) ==
    /\ At1(p, "link")
    /\ LET i == LStat(call[p].other) n == call[p].path
       IN IF i = NoInode \/ dir[n] # NoInode
          THEN /\ Returns(p, IF i = NoInode THEN "ENOENT" ELSE "EEXIST")
               /\ Looks /\ UNCHANGED <<sym, got>>
          ELSE Binds(p, n, i, Stamp(inode[i], {"ctime"})) /\ Proceeds(p)
    /\ UNCHANGED clobbered

SymLinks(p) ==
    /\ At1(p, "symlink")
    /\ IF dir[call[p].path] # NoInode
       THEN Returns(p, "EEXIST") /\ Looks /\ UNCHANGED <<sym, got>>
            /\ UNCHANGED clobbered
       ELSE \E i \in Unused(Opened) :
            /\ Binds(p, call[p].path, i, NewInode("symlink", call[p].other, << >>))
            /\ Overwrites(i)
            /\ Proceeds(p)

\* mkfifo(3) itself refuses a name that somebody took since is_path().
MakesPipe(p) ==
    /\ At1(p, "mkfifo")
    /\ IF dir[call[p].path] # NoInode
       THEN Returns(p, "EEXIST") /\ Looks /\ UNCHANGED <<sym, got>>
            /\ UNCHANGED clobbered
       ELSE \E i \in Unused(Opened) :
            /\ Binds(p, call[p].path, i,
                     [NewInode("fifo", call[p].path, << >>) EXCEPT !.perms = call[p].bits])
            /\ Overwrites(i)
            /\ Proceeds(p)

Unlinks(p) ==
    /\ At1(p, "unlink")
    /\ IF dir[call[p].path] = NoInode
       THEN Returns(p, "ENOENT") /\ UNCHANGED fs
       ELSE Unbind(call[p].path) /\ Proceeds(p)
    /\ UNCHANGED <<call, sym, got, moved, calls, errors, clobbered>>

(***************************************************************************)
(* Opening, reading and writing.                                           *)
(***************************************************************************)
OpensInode(p, i) ==
    /\ fd' = [fd EXCEPT ![p] = i]
    /\ todo' = [todo EXCEPT ![p] = Tail(@)]
    /\ UNCHANGED <<call, sym, moved, result, calls, errors>>

\* open(2) or fopen() makes the file that the path leads to, of an inode that
\* may have been another file once.
Makes(p) ==
    /\ LStat(End(call[p].path)) = NoInode
    /\ \E i \in Unused(Opened) :
          /\ Bind(End(call[p].path), i, NewInode("regular", call[p].path, << >>))
          /\ OpensInode(p, i)
          /\ Overwrites(i)

FailsToOpen(p, errno) == Returns(p, errno) /\ Looks /\ UNCHANGED <<sym, got>>

\* O_CREAT is among the flags only if the path was not there to be seen.
OpensToAppend(p) ==
    /\ At1(p, "open")
    /\ LET i == Stat(call[p].path) creates == call[p].flag /\ ~got[p][1]
       IN \/ /\ i # NoInode
             /\ OpensInode(p, i) /\ Gets(p, i) /\ UNCHANGED <<fs, clobbered>>
          \/ i = NoInode /\ creates /\ Makes(p) /\ Gets(p, fd'[p])
          \/ /\ i = NoInode /\ ~(creates /\ LStat(End(call[p].path)) = NoInode)
             /\ FailsToOpen(p, "ENOENT")

OffsetAtOpen(p) ==
    IF moved[p] < Len(inode[fd[p]].data) THEN moved[p] ELSE Len(inode[fd[p]].data)
\* O_APPEND: a write(2) adds to the end of the file, as it is by then.
Offset(p) == Len(inode[fd[p]].data)

WritesSome(p) ==
    /\ At1(p, "write")
    /\ LET i == fd[p] left == call[p].len - moved[p]
       IN \E k \in (IF left = 0 THEN {0} ELSE 1 .. left) :
             /\ moved' = [moved EXCEPT ![p] = @ + k]
             /\ IF inode[i].kind = "special" \/ k = 0 THEN UNCHANGED fs
                ELSE ChangeInode(i, [Stamp(inode[i], {"mtime", "ctime"}) EXCEPT
                        !.data = SubSeq(@, 1, Offset(p))
                                   \o SubSeq(Message(p), moved[p] + 1, moved[p] + k)
                                   \o SubSeq(@, Offset(p) + k + 1, Len(@))])
             /\ IF k = left THEN Proceeds(p) ELSE UNCHANGED <<todo, result, fd>>
    /\ UNCHANGED <<call, sym, got, calls, errors, clobbered>>

\* fopen(filename, "w")
OpensToWrite(p) ==
    /\ At1(p, "fopen_w")
    /\ LET i == Stat(call[p].path)
       IN \/ /\ i # NoInode
             /\ OpensInode(p, i)
             /\ IF inode[i].kind = "special" THEN UNCHANGED <<fs, clobbered>>
                ELSE /\ ChangeInode(i, [Stamp(inode[i], {"mtime", "ctime"})
                                           EXCEPT !.data = << >>])
                     /\ Overwrites(i)
          \/ i = NoInode /\ Makes(p)
          \/ /\ i = NoInode /\ LStat(End(call[p].path)) # NoInode
             /\ FailsToOpen(p, "ENOENT")
    /\ UNCHANGED got

\* write_stream() leaves the contents in the stream's buffer; fclose() writes
\* them, from the beginning of the file.
Closes(p) ==
    /\ At1(p, "fclose")
    /\ LET i == fd[p]
       IN IF inode[i].kind = "special" \/ call[p].len = 0
          THEN UNCHANGED <<fs, clobbered>>
          ELSE /\ ChangeInode(i, [Stamp(inode[i], {"mtime", "ctime"}) EXCEPT
                      !.data = Message(p) \o SubSeq(@, call[p].len + 1, Len(@))])
               /\ Overwrites(i)
    /\ Proceeds(p)
    /\ UNCHANGED <<call, sym, got, moved, calls, errors>>

OpensToRead(p) ==
    /\ At1(p, "fopen_r")
    /\ LET i == Stat(call[p].path)
       IN IF i = NoInode THEN FailsToOpen(p, "ENOENT")
          ELSE OpensInode(p, i) /\ UNCHANGED <<fs, got, clobbered>>

\* read_stream() refuses a size of 0; fread() reads no more than the size.
ReadsStream(p) ==
    /\ At1(p, "fread")
    /\ IF got[p][2] = 0 THEN Returns(p, "EINVAL") /\ UNCHANGED got
       ELSE LET data == inode[fd[p]].data
            IN /\ Gets(p, SubSeq(data, 1, IF got[p][2] < Len(data) THEN got[p][2]
                                           ELSE Len(data)))
               /\ Proceeds(p)
    /\ Looks /\ UNCHANGED sym

(***************************************************************************)
(* A system call fails.  create_file() takes a failing stat(2) for no file *)
(* and ignores the errno of fclose(); read_file() makes ENOENT of it;      *)
(* make_named_pipe() takes it for no path.                                 *)
(***************************************************************************)
FailsToStat(p) ==
    IF call[p].name = "read" THEN Returns(p, "ENOENT") /\ UNCHANGED got
    ELSE Gets(p, FALSE) /\ Proceeds(p)

Fails(p) ==
    /\ todo[p] # << >> /\ ~At1(p, "validate")
    /\ errors < MaxErrors
    /\ errors' = errors + 1
    /\ CASE Head(todo[p]) = "is_file" -> FailsToStat(p)
         [] Head(todo[p]) = "is_path" /\ call[p].name = "mkfifo" ->
               Gets(p, FALSE) /\ Proceeds(p)
         [] Head(todo[p]) = "fclose" -> Proceeds(p) /\ UNCHANGED got
         [] OTHER -> Returns(p, "EIO") /\ UNCHANGED got
    /\ UNCHANGED <<fs, call, sym, moved, calls, clobbered>>

Step(p) ==
    \/ Begin(p) \/ Refuses(p) \/ LooksAtLink(p) \/ CallsAStat(p)
    \/ CallsStat(p) \/ CallsLStat(p) \/ ChecksPath(p) \/ ChecksFile(p) \/ Chmods(p)
    \/ Utimensats(p) \/ Chowns(p) \/ Links(p) \/ SymLinks(p) \/ MakesPipe(p)
    \/ Unlinks(p)
    \/ OpensToAppend(p) \/ WritesSome(p) \/ OpensToWrite(p) \/ Closes(p)
    \/ OpensToRead(p) \/ ReadsStream(p) \/ Fails(p)

\* What p does disturbs the others that look at the same.
Disturbs(p) ==
    disturbed' = [q \in Procs |->
        IF q = p THEN todo[p] # << >> /\ disturbed[p]
        ELSE disturbed[q] \/ View(call[q].path)' # View(call[q].path)]

Next == \E p \in Procs : Step(p) /\ Disturbs(p) /\ UNCHANGED scene

Spec == Init /\ [][Next]_vars
--------------------------------------------------------------------------------
(***************************************************************************)
(* Properties.                                                             *)
(***************************************************************************)
Succeeded(p) == calls[p] > 0 /\ todo[p] = << >> /\ result[p] = "ENOERR"

\* Unless another process changed what the path leads to meanwhile, a getter
\* and read_file() that return ENOERR return what the file system holds for
\* the path: of the link itself or of the file it leads to, as asked for, the
\* two halves of one time stamp, and the whole contents of the file.
QuietReadsAreTrue ==
    \A p \in Procs :
        Succeeded(p) /\ call[p].name \in {"get", "read"} /\ ~disturbed[p] =>
            LET i == At(call[p].path, call[p].follow)
            IN /\ i # NoInode
               /\ got[p] = [f \in DOMAIN call[p].fields |-> Value(i, call[p].fields[f])]

\* add_mode() and remove_mode(), which read the permissions, change them and
\* write them back, change the bits they were asked to and no other, unless
\* another process changed the file between the two system calls.
ModesAddUp ==
    [][\A p \in Procs :
          LET i == Stat(call[p].path)
          IN At1(p, "chmod") /\ ~disturbed[p] /\ result'[p] = "ENOERR" /\ i # NoInode
             /\ todo'[p] = << >> =>
                /\ call[p].name = "add_mode" =>
                      inode'[i].perms = inode[i].perms \cup call[p].bits
                /\ call[p].name = "remove_mode" =>
                      inode'[i].perms = inode[i].perms \ call[p].bits]_vars

\* A function that is told not to follow symbolic links leaves the file that a
\* link leads to as it is, though it looks for the link before it changes what
\* is there - unless another process changes what the path leads to in between.
LinkTargetIsKept ==
    [][\A p \in Procs :
          LET link == LStat(call[p].path) file == Stat(call[p].path)
          IN /\ todo[p] # << >> /\ todo[p] # todo'[p] /\ ~disturbed[p]
             /\ ~call[p].follow /\ link # NoInode
             /\ inode[link].kind = "symlink" /\ file # NoInode
             => inode'[file] = inode[file]]_vars

\* The first n bytes of p's message are in the file it opened, once and in order.
Appended(p, n) ==
    LET data == inode[got[p][2]].data
        own == {k \in DOMAIN data : data[k][1] = p /\ data[k][2] = calls[p]}
    IN /\ {data[k][3] : k \in own} = 1 .. n
       /\ \A j, k \in own : j < k => data[j][3] < data[k][3]

\* What append_to_file() wrote before it returned ENOERR is in the file, each
\* byte of it and in order, however many processes append to the file at once,
\* until somebody truncates or overwrites the file.
AppendedIsKept ==
    \A p \in Procs \ clobbered :
        Succeeded(p) /\ call[p].name = "append" /\ inode[got[p][2]].kind = "regular" =>
            Appended(p, call[p].len)
================================================================================
