----------------------------- MODULE MCPathCalls ------------------------------
(* A file, a symbolic link to it and a free name, for two processes. *)
EXTENDS PathCalls

Reg(perms, data) ==
    [kind |-> "regular", perms |-> perms, owner |-> 0, group |-> 0,
     times |-> [s \in Stamps |-> 0], data |-> data, target |-> "file"]
Lnk(target) == [Reg(Modes, << >>) EXCEPT !.kind = "symlink", !.target = target]
Dev == [Reg(Modes, << >>) EXCEPT !.kind = "special"]

Disk(file, link, other, i1) ==
    [dir |-> [n \in Names |-> CASE n = "file" -> file [] n = "link" -> link [] OTHER -> other],
     inode |-> [i \in Inodes |-> CASE i = 1 -> i1 [] i = 2 -> Lnk("file") [] OTHER -> Dev]]
FileAndLink == Disk(1, 2, NoInode, Reg({"r"}, << >>))
FullFile == Disk(1, 2, NoInode, Reg({"r"}, <<<<Somebody, 0, 1>>, <<Somebody, 0, 2>>>>))
Device == Disk(3, 2, NoInode, Reg({"r"}, << >>))
Dangling == Disk(NoInode, 2, NoInode, Reg({"r"}, << >>))

Paths == {"file", "link"}

ModeScene ==
    [starts |-> {FileAndLink, Dangling},
     calls |-> {AddMode(n, {m}) : n \in Paths, m \in {"w", "s"}}
               \cup {RemoveMode("file", {"r"}), SetMode("link", {"w"}),
                     GetFilePerms("link"), GetFilePerms("file")}]

TimeScene ==
    [starts |-> {FileAndLink},
     calls |-> {GetAccessTimestamp("link", f) : f \in BOOLEAN}
               \cup {GetChangeTimestamp("file", TRUE), GetModTimestamp("link", TRUE),
                     GetAccessTime("link", "nseconds", FALSE),
                     GetModTime("file", "seconds", TRUE),
                     GetChangeTime("link", "seconds", FALSE)}
               \cup {SetAtime("link", f, 3) : f \in BOOLEAN}
               \cup {SetAtimeNow("link", FALSE), SetMtime("file", TRUE, 5),
                     SetMtimeNow("link", FALSE), SetTimes("link", FALSE, 7),
                     SetTimesNow("file", TRUE)}]

OwnerScene ==
    [starts |-> {FileAndLink, Device},
     calls |-> {SetOwnerId("link", 1, f) : f \in BOOLEAN}
               \cup {SetGroupId("file", 1, FALSE), SetOwnership("link", 1, 1, FALSE),
                     GetOwner("link", FALSE), GetGroup("link", TRUE),
                     CreateHardLink("file", "other"), CreateHardLink("link", "other"),
                     CreateSymLink("file", "other"), DeleteFile("link"),
                     MakeNamedPipe("other", {"w"}), DeleteNamedPipe("other"),
                     GetHardLinkNum("file"), GetSerialNum("link"),
                     IsSpecial("other"), GetFileDeviceId("file"), IsSymLink("link"),
                     IsRegularFile("other"),
                     IsPath("other")}]

ContentScene ==
    [starts |-> {FullFile, Dangling, Device},
     calls |-> {AppendToFile(n, 2, TRUE) : n \in Paths}
               \cup {AppendToFile("file", 2, FALSE), CreateFile("file", 1, FALSE),
                     CreateFile("link", 3, TRUE), EmptyFile("file"), ReadFile("link"),
                     DeleteFile("file"), GetSize("file"),
                     WithBadArgument(ReadFile("file")),
                     WithBadArgument(DeleteFile("file")), GetBlockCount("link")}]

MCMaxCalls == [p \in Procs |-> IF p = "p" THEN 2 ELSE 1]
MCScenes == <<ModeScene, TimeScene, OwnerScene, ContentScene>>
================================================================================
