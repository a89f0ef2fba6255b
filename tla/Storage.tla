------------------------------ MODULE Storage ------------------------------
(* The storage package: a Manager (src/storage/storage.go) in front of local  *)
(* disks (local.go), UPYUN buckets (upyun.go, upyun_disabled.go) and external *)
(* URLs (external.go), used by several goroutines.                            *)
(*                                                                            *)
(* A local save opens the file under its final name, writes it and, when its  *)
(* context is done by then, removes whatever is under the name.  Files are    *)
(* inodes: a writer keeps the one it opened when the name is removed or given *)
(* to another.  A bucket replaces a whole object at once.                     *)
(*                                                                            *)
(* Get, Exists, URL and OpenPath change nothing: they are operators.  Calls   *)
(* that are refused before they reach a disk (ErrDiskNowhere, ErrTooLarge,   *)
(* ErrInvalidPath, ErrUnsupported) change nothing and have no step.           *)
EXTENDS StoragePaths

CONSTANTS
    Threads,        \* goroutines that use the manager
    Configs,        \* configurations: [backends |-> disk -> backend, default |-> name]
    UpYunBuilt,     \* whether the build has the upyun tag
    Names,          \* file names callers use
    Dirs,           \* values of options.Dir, <<>> for none
    Generated,      \* what makeObjectPath returns for each save, a fresh segment
    Sizes,          \* lengths of data
    MaxUploadSize,  \* the manager's limit, 0 for none
    Limits,         \* values of options.MaxBytes, 0 for none
    MaxSaves,       \* bound: how many saves reach a disk
    MaxSegments     \* bound: the longest name NamesStayInside looks at

ASSUME SavesAssumption ==
    /\ MaxSaves \in Nat /\ MaxSegments \in Nat
    /\ Generated \in Seq(STRING) /\ Len(Generated) >= MaxSaves

ASSUME NameAssumption ==
    /\ Names \subseteq [slashes : Nat, segs : Seq(STRING)]
    /\ Dirs \subseteq Seq(STRING) /\ <<>> \in Dirs

ASSUME SizeAssumption ==
    MaxUploadSize \in Nat /\ Limits \subseteq Nat /\ Sizes \subseteq Nat

ASSUME ConfigAssumption ==
    \A c \in Configs : \A d \in DOMAIN c.backends :
        d # "" /\ c.backends[d] \in {"local", "upyun", "external"}

VARIABLES
    config,     \* the configuration the manager was made from
    files,      \* the file (the number of the save that made it) at each place, 0 for none
    content,    \* the bytes of each file
    call,       \* the save each goroutine is in
    saves,      \* how many saves reached a disk
    settled     \* history: how the last change of each place ended

vars == <<config, files, content, call, saves, settled>>

Backend(d) == IF d \in DOMAIN config.backends THEN config.backends[d] ELSE "local"

manager == [disks |-> DiskNames(DOMAIN config.backends),
            local |-> {d \in DiskNames(DOMAIN config.backends) : Backend(d) = "local"},
            default |-> DefaultDisk(config.default, DOMAIN config.backends)]

\* Mutant: the manager does not look whether it has the disk.
SupportedUnchecked(d) == Backend(d) = "local" \/ (Backend(d) = "upyun" /\ UpYunBuilt)

\* Without the upyun tag every operation on a bucket is ErrUnsupported.
Supported(d) ==
    /\ d \in manager.disks
    /\ Backend(d) = "local" \/ (Backend(d) = "upyun" /\ UpYunBuilt)

Place(d, segs) == [disk |-> d, segs |-> segs]

AnyName == Names \union {Name(0, <<g>>) : g \in Range(Generated)}

Located == {cleanObjectPath(JoinDir(dir, name)) : dir \in Dirs, name \in AnyName}

Places ==
    {Place(d, c.segs) : d \in UNION {DiskNames(DOMAIN c.backends) : c \in Configs},
                        c \in {l \in Located : l.ok}}

Bytes(n, size) == [i \in 1 .. size |-> <<n, i>>]

Data == Seq((1 .. MaxSaves) \X Nat)

\* A goroutine inside a save, before the step that pc names.  asked is history:
\* the length of what the caller handed over; so is disturbed: whether another
\* change of the same place overlapped.
Calls == [pc : {"idle", "open", "write", "put", "finish"},
          at : Places \union {Nowhere}, id : 0 .. MaxSaves, file : 0 .. MaxSaves,
          size : Nat, asked : Nat, overwrite : BOOLEAN, disturbed : BOOLEAN]

Idle == [pc |-> "idle", at |-> Nowhere, id |-> 0, file |-> 0, size |-> 0, asked |-> 0,
         overwrite |-> FALSE, disturbed |-> FALSE]

Open == [end |-> "open", data |-> <<>>]
Saved(data) == [end |-> "saved", data |-> data]
Gone == [end |-> "gone", data |-> <<>>]

Init ==
    /\ config \in Configs
    /\ files = [p \in Places |-> 0]
    /\ content = [n \in 1 .. MaxSaves |-> <<>>]
    /\ call = [t \in Threads |-> Idle]
    /\ saves = 0
    /\ settled = [p \in Places |-> Open]

-----------------------------------------------------------------------------
(* Bookkeeping of overlaps, for the properties only.                          *)

\* A save that may already have changed, or may change at any time, what is at
\* its place.  An exclusive save of a local disk is harmless until it has
\* created the file.
Touching(t) ==
    /\ call[t].pc # "idle"
    /\ \/ call[t].pc # "open"
       \/ call[t].overwrite

Others(t, p) == {u \in Threads \ {t} : call[u].at = p /\ Touching(u)}

\* The calls after t began to touch place p: whoever shares it is disturbed.
Disturb(t, p, c) ==
    [u \in Threads |->
        CASE u = t -> [c EXCEPT !.disturbed = @ \/ Others(t, p) # {}]
          [] u # t /\ u \in Others(t, p) -> [call[u] EXCEPT !.disturbed = TRUE]
          [] OTHER -> call[u]]

\* How an undisturbed change of p ended.
Settle(t, p, outcome) ==
    settled' = IF call[t].disturbed THEN settled ELSE [settled EXCEPT ![p] = outcome]

-----------------------------------------------------------------------------
(* Saving.                                                                    *)

Limit(maxBytes) == IF maxBytes > 0 THEN maxBytes ELSE MaxUploadSize

TooLarge(size, maxBytes) == Limit(maxBytes) > 0 /\ size > Limit(maxBytes)

Lesser(a, b) == IF a < b THEN a ELSE b

\* Mutant: the reader stops at the limit, so the check after it never fails.
ReadShort(size, maxBytes) ==
    IF Limit(maxBytes) > 0 THEN Lesser(size, Limit(maxBytes)) ELSE size

\* SaveUpload reads at most one byte more than the limit; the size in the
\* header of the upload is the client's claim.
ReadUpload(size, maxBytes) ==
    IF Limit(maxBytes) > 0 THEN Lesser(size, Limit(maxBytes) + 1) ELSE size

\* The part of SaveBytes before the first system call.  asked is the length of
\* what the caller handed over, size of what is going to be stored.
Save(t, size, asked, maxBytes, diskName, dir, name, overwrite) ==
    LET d == DiskFor(manager, diskName)
        c == cleanObjectPath(JoinDir(dir, name))
        p == Place(d, c.segs)
        touches == Backend(d) = "upyun" \/ overwrite
        new == [pc |-> IF Backend(d) = "upyun" THEN "put" ELSE "open", at |-> p,
                id |-> saves + 1, file |-> 0, size |-> size, asked |-> asked,
                overwrite |-> overwrite, disturbed |-> FALSE]
    IN  /\ call[t].pc = "idle"
        /\ saves < MaxSaves
        /\ Supported(d)
        /\ ~TooLarge(size, maxBytes)
        /\ c.ok
        /\ saves' = saves + 1
        /\ call' = IF touches THEN Disturb(t, p, new) ELSE [call EXCEPT ![t] = new]
        /\ settled' = IF touches THEN [settled EXCEPT ![p] = Open] ELSE settled
        /\ UNCHANGED <<config, files, content>>

\* options.Filename = "" asks for a generated name.
FileNames == Names \union {Name(0, <<Generated[saves + 1]>>)}

SaveBytes(t) ==
    /\ saves < MaxSaves
    /\ \E size \in Sizes, limit \in Limits, d \in {""} \union manager.disks,
          dir \in Dirs, name \in FileNames, overwrite \in BOOLEAN :
            Save(t, size, size, limit, d, dir, name, overwrite)

\* Put is SaveBytes of a given name, overwriting, without options.
Put(t) ==
    \E size \in Sizes, d \in {""} \union manager.disks, name \in Names :
        Save(t, size, size, 0, d, <<>>, name, TRUE)

\* header is the length the client claims.
SaveUpload(t) ==
    /\ saves < MaxSaves
    /\ \E size, header \in Sizes, limit \in Limits, d \in {""} \union manager.disks,
          dir \in Dirs, name \in FileNames, overwrite \in BOOLEAN :
            /\ ~TooLarge(header, limit)
            /\ Save(t, ReadUpload(size, limit), size, limit, d, dir, name, overwrite)

Return(t) == call' = [call EXCEPT ![t] = Idle]

\* MkdirAll and OpenFile with O_TRUNC: an existing file is emptied.
OpenTruncating(t) ==
    LET p == call[t].at
        n == IF files[p] = 0 THEN call[t].id ELSE files[p]
    IN  /\ call[t].pc = "open" /\ call[t].overwrite /\ p.segs # <<>>
        /\ files' = [files EXCEPT ![p] = n]
        /\ content' = [content EXCEPT ![n] = <<>>]
        /\ call' = [call EXCEPT ![t].pc = "write", ![t].file = n]
        /\ UNCHANGED <<config, saves, settled>>

\* Mutant: an existing file is opened too.
OpenExisting(t) ==
    LET p == call[t].at
        n == IF files[p] = 0 THEN call[t].id ELSE files[p]
    IN  /\ call[t].pc = "open" /\ ~call[t].overwrite /\ p.segs # <<>>
        /\ files' = [files EXCEPT ![p] = n]
        /\ call' = Disturb(t, p, [call[t] EXCEPT !.pc = "write", !.file = n])
        /\ settled' = IF settled[p] = Gone THEN [settled EXCEPT ![p] = Open] ELSE settled
        /\ UNCHANGED <<config, content, saves>>

\* The same with O_EXCL, which needs the name to be free.  It may end an absence
\* but leaves an object that was saved alone, so only Gone is given up.
OpenExclusive(t) ==
    LET p == call[t].at
    IN  /\ call[t].pc = "open" /\ ~call[t].overwrite /\ p.segs # <<>>
        /\ files[p] = 0
        /\ files' = [files EXCEPT ![p] = call[t].id]
        /\ call' = Disturb(t, p, [call[t] EXCEPT !.pc = "write", !.file = call[t].id])
        /\ settled' = IF settled[p] = Gone THEN [settled EXCEPT ![p] = Open] ELSE settled
        /\ UNCHANGED <<config, content, saves>>

\* MkdirAll or OpenFile fails: a taken name, a directory, an error of the disk.
OpenFails(t) ==
    /\ call[t].pc = "open"
    /\ Return(t)
    /\ UNCHANGED <<config, files, content, saves, settled>>

\* The first size bytes of the file are replaced, the rest stays.
Overlay(old, n, size) ==
    [i \in 1 .. (IF Len(old) > size THEN Len(old) ELSE size) |->
        IF i <= size THEN <<n, i>> ELSE old[i]]

\* The one write of io.Copy, from the start of the file.
Write(t) ==
    LET c == call[t]
    IN  /\ c.pc = "write"
        /\ content' = [content EXCEPT ![c.file] = Overlay(@, c.id, c.size)]
        /\ call' = [call EXCEPT ![t].pc = "finish"]
        /\ UNCHANGED <<config, files, saves, settled>>

\* It fails half way (a full disk): SaveBytes returns and leaves what it wrote.
WriteFails(t) ==
    LET c == call[t]
    IN  /\ c.pc = "write"
        /\ \E size \in 0 .. c.size - 1 :
              content' = [content EXCEPT ![c.file] = Overlay(@, c.id, size)]
        /\ Return(t)
        /\ UNCHANGED <<config, files, saves, settled>>

\* client.Put of a bucket: the object is replaced, whatever options.Overwrite
\* says.  The root of a bucket is a directory.
PutObject(t) ==
    LET c == call[t]
    IN  /\ c.pc = "put" /\ c.at.segs # <<>>
        /\ files' = [files EXCEPT ![c.at] = c.id]
        /\ content' = [content EXCEPT ![c.id] = Bytes(c.id, c.size)]
        /\ call' = [call EXCEPT ![t].pc = "finish"]
        /\ UNCHANGED <<config, saves, settled>>

\* The context is done before the Put, or the Put fails, perhaps after its effect.
PutFails(t) ==
    LET c == call[t]
    IN  /\ c.pc = "put"
        /\ \/ UNCHANGED <<files, content>>
           \/ /\ c.at.segs # <<>>
              /\ files' = [files EXCEPT ![c.at] = c.id]
              /\ content' = [content EXCEPT ![c.id] = Bytes(c.id, c.size)]
        /\ Return(t)
        /\ UNCHANGED <<config, saves, settled>>

\* The context is still alive: the object's description is returned.
SaveReturns(t) ==
    LET c == call[t]
    IN  /\ c.pc = "finish"
        /\ Settle(t, c.at, Saved(Bytes(c.id, c.asked)))
        /\ Return(t)
        /\ UNCHANGED <<config, files, content, saves>>

\* Mutant: the file is left behind.
SaveCancelledKeeps(t) ==
    /\ call[t].pc = "finish"
    /\ Settle(t, call[t].at, Gone)
    /\ Return(t)
    /\ UNCHANGED <<config, files, content, saves>>

\* The context is done: what is now under the name is removed, whoever put it
\* there, and an error of the removal is ignored.
SaveCancelled(t) ==
    LET p == call[t].at
    IN  /\ call[t].pc = "finish"
        /\ \/ /\ files' = [files EXCEPT ![p] = 0]
              /\ Settle(t, p, Gone)
           \/ UNCHANGED <<files, settled>>
        /\ Return(t)
        /\ UNCHANGED <<config, content, saves>>

\* os.Remove or client.Delete; a missing object is no error.  A removal may
\* fail, on a bucket also after its effect.
Delete(t) ==
    \E diskName \in {""} \union manager.disks, name \in Names, removed, ok \in BOOLEAN :
        LET d == DiskFor(manager, diskName)
            c == cleanObjectPath(name)
            p == Place(d, c.segs)
        IN  /\ call[t].pc = "idle"
            /\ Supported(d)
            /\ c.ok /\ c.segs # <<>>
            /\ IF Backend(d) = "upyun" THEN ok => removed ELSE ok = removed
            /\ files' = IF removed THEN [files EXCEPT ![p] = 0] ELSE files
            /\ call' = [Disturb(t, p, Idle) EXCEPT ![t] = Idle]
            /\ settled' = [settled EXCEPT ![p] = IF ok /\ Others(t, p) = {} THEN Gone ELSE Open]
            /\ UNCHANGED <<config, content, saves>>

Next ==
    \E t \in Threads :
        \/ SaveBytes(t) \/ Put(t) \/ SaveUpload(t)
        \/ OpenTruncating(t) \/ OpenExclusive(t) \/ OpenFails(t)
        \/ Write(t) \/ WriteFails(t)
        \/ PutObject(t) \/ PutFails(t)
        \/ SaveReturns(t) \/ SaveCancelled(t)
        \/ Delete(t)

Spec == Init /\ [][Next]_vars

-----------------------------------------------------------------------------
(* Reading.                                                                   *)

\* The file a name leads to, 0 for none or for a name that is refused.
FileAt(diskName, name) ==
    LET d == DiskFor(manager, diskName)
        c == cleanObjectPath(name)
    IN  IF Supported(d) /\ c.ok /\ c.segs # <<>> THEN files[Place(d, c.segs)] ELSE 0

\* Get with a context that stays alive; no bytes stand for an error.
Get(diskName, name) ==
    LET f == FileAt(diskName, name) IN IF f = 0 THEN <<>> ELSE content[f]

Exists(diskName, name) == FileAt(diskName, name) # 0

\* The file that a public path opens, 0 for none or for a path that is refused.
FileOpened(name) ==
    LET p == OpenPublicPath(manager, name) IN IF p \in Places THEN files[p] ELSE 0

\* The names a caller can use for place p, ObjectInfo.Path among them.
NamesOf(p) ==
    {q \in ({""} \union manager.disks) \X (Names \union {Name(0, p.segs)}) :
        /\ DiskFor(manager, q[1]) = p.disk
        /\ cleanObjectPath(q[2]).ok
        /\ cleanObjectPath(q[2]).segs = p.segs}

-----------------------------------------------------------------------------
(* Properties.                                                                *)

\* Types; a save that is under way has a place on a disk (local.go:134-161).
TypeOK ==
    /\ config \in Configs
    /\ files \in [Places -> 0 .. MaxSaves]
    /\ content \in [1 .. MaxSaves -> Data]
    /\ call \in [Threads -> Calls]
    /\ \A t \in Threads : call[t].pc # "idle" => call[t].at \in Places
    /\ saves \in 0 .. MaxSaves
    /\ settled \in [Places -> [end : {"open", "saved", "gone"}, data : Data]]

(* A save that returned its ObjectInfo and that no other change of the object *)
(* overlapped is read back complete, under every name that leads to it, until *)
(* an overwriting save or a Delete comes: uploads are never cut off at the    *)
(* size limit, and a save without Overwrite never harms an object of a local  *)
(* disk (local.go:157).                                                       *)
SavedReadsBack ==
    \A p \in Places : settled[p].end = "saved" =>
        \A q \in NamesOf(p) : Exists(q[1], q[2]) /\ Get(q[1], q[2]) = settled[p].data

(* After a Delete that returned nil, or a save whose context was done and     *)
(* whose removal worked, nothing is found under any name of the object until  *)
(* the next save reaches the disk: no part of a cancelled save stays visible. *)
GoneStaysGone ==
    \A p \in Places : settled[p].end = "gone" =>
        \A q \in NamesOf(p) : ~Exists(q[1], q[2])

\* A bare path of the default disk whose first directory has the name of a disk
\* is the full path of an object of that disk.
Shadowed(p) == Len(p.segs) > 1 /\ Head(p.segs) \in manager.disks

\* The public paths of place p: the name of the disk and the path, with or
\* without a leading slash, and on the default disk the path alone.  No path
\* leads to a disk that is called "." or "..".
PublicNames(p) ==
    {name \in {Name(slashes, <<p.disk>> \o p.segs) : slashes \in 0 .. 1} :
        p.disk \notin {".", ".."}}
    \union {name \in {Name(0, p.segs)} : p.disk = manager.default /\ ~Shadowed(p)}

(* A browser gets what was saved and never an object of another disk: what a  *)
(* save returned on a local disk is opened complete by each public path of    *)
(* the object until the next change of it, also when the path is a path of    *)
(* the default disk too (storage.go:250), and a removed object is not opened. *)
(* A bucket and external URLs refuse (upyun.go:224, external.go:57): no path  *)
(* of theirs opens a file of the default disk instead.                        *)
PublicPathOpens ==
    \A p \in {q \in Places : q.disk \in manager.disks /\ q.segs # <<>>} :
        \A name \in PublicNames(p) :
            IF p.disk \in manager.local
            THEN /\ settled[p].end = "saved" => /\ FileOpened(name) # 0
                                                /\ content[FileOpened(name)] = settled[p].data
                 /\ settled[p].end = "gone" => FileOpened(name) = 0
            ELSE OpenPublicPath(manager, name) = Unsupported

\* Every name of at most MaxSegments segments.
AllNames ==
    {Name(slashes, segs) : slashes \in 0 .. 2,
                           segs \in SeqOf({"a", "b", ".", ".."}, MaxSegments)}

(* cleanObjectPath accepts exactly the names that stay below the root of the  *)
(* disk at every segment, and leads where walking the segments one by one     *)
(* leads; with a second leading slash ".." stops at the root (path.go:32).    *)
(* No state matters to it, so it is looked at before the first save only.     *)
NamesStayInside ==
    saves = 0 => \A name \in AllNames :
        LET c == cleanObjectPath(name)
        IN  /\ c.ok = Inside(name)
            /\ c.ok => c.segs = Kept(name.segs)
=============================================================================
