---------------------------- MODULE StoragePaths ----------------------------
(* The object names of the storage package (src/storage/path.go) and how the  *)
(* Manager turns them into files (src/storage/storage.go).                    *)
(*                                                                            *)
(* A name is a number of leading slashes and a sequence of segments; "." and  *)
(* ".." are segments, empty segments are written ".".  Names use one kind of  *)
(* separator, which ReplaceAll makes true of the names that are cleaned.      *)
EXTENDS Integers, SequencesExt

\* path.Clean of the standard library on an absolute (rooted) or
\* relative path.  ".." removes the segment before it; where there is none it
\* is dropped at the root and kept at the start of a relative path.
Climb(rooted, kept) ==
    IF kept # <<>> /\ Last(kept) # ".." THEN Front(kept)
    ELSE IF rooted THEN kept ELSE Append(kept, "..")

Walk(rooted, kept, seg) ==
    CASE seg = "." -> kept
      [] seg = ".." -> Climb(rooted, kept)
      [] OTHER -> Append(kept, seg)

Clean(rooted, segs) ==
    LET walk[i \in 0 .. Len(segs)] ==
            IF i = 0 THEN <<>> ELSE Walk(rooted, walk[i - 1], segs[i])
    IN  walk[Len(segs)]

Name(slashes, segs) == [slashes |-> slashes, segs |-> segs]

Invalid == [ok |-> FALSE, rooted |-> FALSE, segs |-> <<>>]

\* Mutant: only the name ".." itself is refused.
CleanNoPrefixCheck(name) ==
    LET rooted == name.slashes > 1
        segs == Clean(rooted, name.segs)
    IN  IF ~rooted /\ segs \in {<<>>, <<"..">>} THEN Invalid
        ELSE [ok |-> TRUE, rooted |-> rooted, segs |-> segs]

\* One leading slash is cut off, so a name is rooted if it has two of them.
cleanObjectPath(name) ==
    LET rooted == name.slashes > 1
        segs == Clean(rooted, name.segs)
    IN  IF ~rooted /\ (segs = <<>> \/ Head(segs) = "..") THEN Invalid
        ELSE [ok |-> TRUE, rooted |-> rooted, segs |-> segs]

\* path.Join of options.Dir, written without a leading slash, and the file name;
\* an empty Dir leaves the name alone.
JoinDir(dir, name) ==
    IF dir = <<>> THEN name ELSE Name(0, Clean(FALSE, dir \o name.segs))

\* NewManager: the disk that the name "" stands for, "" if there is none.
\* Without any disk the manager makes one called "default".
DefaultDisk(configured, disks) ==
    CASE disks = {} -> "default"
      [] disks # {} /\ configured # "" -> configured
      [] disks # {} /\ configured = "" /\ "default" \in disks -> "default"
      [] OTHER -> IF \E d \in disks : disks = {d} THEN CHOOSE d \in disks : TRUE ELSE ""

DiskNames(disks) == IF disks = {} THEN {"default"} ELSE disks

\* Manager.Disk: the name of the disk used for a name given by the caller.
DiskFor(m, name) == IF name = "" THEN m.default ELSE name

\* Where a file is: its disk and the segments below the root of that disk.
\* Nowhere is the place of a goroutine that is in no save.
Nowhere == [disk |-> "", segs |-> <<>>]

\* A call that returns an error.
Refused(err) == [error |-> err]

\* LocalDisk.OpenPath cleans the name, once more if the manager already did.
LocalOpenPath(d, name) ==
    LET c == cleanObjectPath(name)
    IN  IF c.ok THEN [disk |-> d, segs |-> c.segs] ELSE Refused("invalid")

\* OpenPath of a bucket, in either build, and of external URLs: no files to open.
Unsupported == Refused("unsupported")

\* Manager.OpenPath.
OpenPath(m, diskName, name) ==
    LET d == DiskFor(m, diskName)
    IN  CASE d \notin m.disks -> Refused("disk not found")
          [] d \in m.disks /\ d \in m.local -> LocalOpenPath(d, name)
          [] OTHER -> Unsupported

\* What cleanObjectPath returned, given to a second call.
Rewritten(c) == Name(IF c.rooted THEN 1 ELSE 0, c.segs)

\* Mutant: the name of the disk is not cut off.
OpenWithDiskName(m, name) ==
    LET c == cleanObjectPath(name)
        split == ~c.rooted /\ Len(c.segs) > 1 /\ Head(c.segs) \in m.disks
    IN  CASE ~c.ok -> Refused("invalid")
          [] c.ok /\ split -> OpenPath(m, Head(c.segs), Rewritten(c))
          [] OTHER -> OpenPath(m, "", Rewritten(c))

\* Mutant: the disk in the path is looked at only without a default disk.
OpenDefaultFirst(m, name) ==
    LET c == cleanObjectPath(name)
        split == ~c.rooted /\ Len(c.segs) > 1 /\ Head(c.segs) \in m.disks
    IN  CASE ~c.ok -> Refused("invalid")
          [] c.ok /\ split /\ m.default \notin m.disks ->
                OpenPath(m, Head(c.segs), Name(0, Tail(c.segs)))
          [] OTHER -> OpenPath(m, "", Rewritten(c))

\* Manager.OpenPublicPath and splitDiskPath: the first segment is the disk if it
\* names one and something follows it, else the whole name is on the default.
OpenPublicPath(m, name) ==
    LET c == cleanObjectPath(name)
        split == ~c.rooted /\ Len(c.segs) > 1 /\ Head(c.segs) \in m.disks
    IN  CASE ~c.ok -> Refused("invalid")
          [] c.ok /\ split -> OpenPath(m, Head(c.segs), Name(0, Tail(c.segs)))
          [] OTHER -> OpenPath(m, "", Rewritten(c))

-----------------------------------------------------------------------------
(* The reference: a walk through the directories, without a stack.            *)

\* How deep below its start a walk is after i segments ...
Level(segs, i) ==
    Cardinality({j \in 1 .. i : segs[j] \notin {".", ".."}})
      - Cardinality({j \in 1 .. i : segs[j] = ".."})

\* ... and when the walk cannot leave its start upwards.
Depth(segs, i) == Level(segs, i) - Min({Level(segs, j) : j \in 0 .. i})

\* The segments that no later ".." takes back.
Kept(segs) ==
    LET stays == {i \in 1 .. Len(segs) :
                    /\ segs[i] \notin {".", ".."}
                    /\ \A j \in i .. Len(segs) : Depth(segs, j) >= Depth(segs, i)}
    IN  [n \in 1 .. Cardinality(stays) |->
            segs[CHOOSE i \in stays : Cardinality({j \in stays : j <= i}) = n]]

Inside(name) ==
    \/ name.slashes > 1
    \/ /\ \A i \in 1 .. Len(name.segs) : Level(name.segs, i) >= 0
       /\ Level(name.segs, Len(name.segs)) > 0
=============================================================================
