------------------------------- MODULE Covers --------------------------------
(***************************************************************************)
(* The worker's cover half: resolving a cover (src/src/cover/mod.rs), the  *)
(* download cache (cover/cache.rs), the scan of a covers directory with    *)
(* its memo (cover/local.rs), the palette memo (color/mod.rs) and the      *)
(* dedup on content identity (worker.rs), over files that a media server   *)
(* writes meanwhile and a cache that outlives crashes.                     *)
(*                                                                         *)
(* A file's bytes are a picture and how much of it is written: 0 nothing,  *)
(* 1 a header that passes the signature sniff, 2 all of it.  Its identity  *)
(* is its size and mtime.  Two writes never share an mtime: the clock's    *)
(* granularity is taken to be finer than the distance of two writes.  Any  *)
(* call on a file or the directory may fail although the file is there.    *)
(*                                                                         *)
(* A definition marked "Mutant" is a plausible bug in the definition after *)
(* it; nothing uses it but the check that a property can fail.             *)
(***************************************************************************)
EXTENDS Integers, FiniteSets, Functions

CONSTANTS
    Urls,          \* remote covers
    Names,         \* file names in the covers directory
    Dir,           \* the source of a job that scans the directory
    Pictures,      \* whole images
    PictureAt,     \* the image a URL serves
    SizeOf,        \* the size of an image's bytes
    None,          \* the absent value
    Unread,        \* the default palette, of a file that could not be read
    MAX_ENTRIES,   \* the cache's budgets
    MAX_BYTES

ASSUME CoversAssumption ==
    /\ PictureAt \in [Urls -> Pictures]
    /\ SizeOf \in [Pictures -> Nat \ {0, 1}]
    /\ None \notin Urls \cup Names \cup Pictures \cup {Dir}
    /\ Unread \notin Pictures \cup {None}
    /\ Urls \cap Names = {}
    /\ Dir \notin Urls \cup Names
    /\ MAX_ENTRIES \in Nat \ {0}
    /\ \A x \in Pictures : SizeOf[x] <= MAX_BYTES

Modes == {"Dark", "Light"}

VARIABLES
    now,             \* mtime of the newest write
    dir,             \* the files of the covers directory, None where there is none
    dir_mtime,       \* the directory's mtime, None while it does not exist
    cache,           \* the published entries
    temp,            \* the temporary file of a publication
    scan_memo,       \* DirScanner's memo of this directory
    slot,            \* PaletteMemo's slot
    last_committed,  \* the worker's dedup key
    shown,           \* the picture and mode of wlchroma's palette
    pc,              \* where the worker is
    job,             \* what it is to show
    dir_seen,        \* the directory's mtime the running scan started from
    path, id,        \* the cover resolved, and its identity
    stuck            \* what the eviction just done could not list or remove (history)

fvars == <<now, dir, dir_mtime>>
mvars == <<scan_memo, slot, last_committed>>
jvars == <<pc, job, dir_seen, path, id, stuck>>
vars == <<fvars, cache, temp, mvars, shown, jvars>>

-----------------------------------------------------------------------------
\* Files.

Bytes == [picture : Pictures, written : 0..2]

\* synced: the bytes survive a crash of the system; aged: older than max_age.
Files == [data : Bytes, mtime : Nat, synced : BOOLEAN, aged : BOOLEAN]

File(data, mtime, synced) ==
    [data |-> data, mtime |-> mtime, synced |-> synced, aged |-> FALSE]

Whole(picture) == [picture |-> picture, written |-> 2]

Size(data) == IF data.written = 2 THEN SizeOf[data.picture] ELSE data.written

ContentId(file) == [size |-> Size(file.data), mtime |-> file.mtime]

LooksLikeImage(data) == data.written > 0

\* What a decoder makes of a file: None (the default palette) unless it is whole.
Decoded(file) == IF file.data.written = 2 THEN file.data.picture ELSE None

FileAt(p) == IF p \in Urls THEN cache[p] ELSE dir[p]

\* What selecting from the file at p may yield, which may have vanished.
Readings(p) == {Unread} \cup (IF FileAt(p) = None THEN {} ELSE {Decoded(FileAt(p))})

\* The newest file of the directory with an accepted signature, but for those that
\* the scan skips because a call on them fails.
Candidates == {n \in Names : dir[n] # None /\ LooksLikeImage(dir[n].data)}
IsNewestBut(skipped, n) ==
    /\ n \in Candidates \ skipped
    /\ \A m \in Candidates \ skipped : dir[m].mtime <= dir[n].mtime

-----------------------------------------------------------------------------

Jobs == [source : Urls \cup Names \cup {Dir, None}, mode : Modes]

Steps == {"idle", "resolve", "fetch", "write", "sync", "rename", "evict", "entry",
          "enumerate", "identify", "dedup", "extract", "ctl"}

\* What ContentId tells of a file.
Identities == [size : Nat, mtime : Nat]

\* skipped: what the scan skipped (history).
Memos == [mtime : Nat, name : Names, skipped : SUBSET Names]
Palettes == Pictures \cup {None, Unread}
Slots == [id : Identities, path : Urls \cup Names, picture : Palettes]

\* The key of a job: its cover's identity and mode, or a revert.
Keys == [id : Identities \cup {None}, mode : Modes]

\* None is neither a number nor a record (a fact about the constant None).
ASSUME AbsentAssumption ==
    None \notin Nat \cup Files \cup Jobs \cup Identities \cup Memos \cup Slots

Key == [id |-> id, mode |-> job.mode]

Init ==
    /\ now = 0
    /\ dir = [n \in Names |-> None]
    /\ dir_mtime = None
    /\ cache = [u \in Urls |-> None]
    /\ temp = None
    /\ scan_memo = None
    /\ slot = None
    /\ \E mode \in Modes :
          /\ last_committed = [id |-> None, mode |-> mode]
          /\ shown = [picture |-> None, mode |-> mode, preset |-> TRUE]
    /\ pc = "idle"
    /\ job = None
    /\ dir_seen = None
    /\ path = None
    /\ id = None
    /\ stuck = {}

Goto(next) == pc' = next /\ stuck' = {} /\ UNCHANGED <<job, dir_seen, path, id>>

\* The job ends with a failure that is reported.
Fail == Goto("idle")

\* Resolution::Ready.
Ready(p) ==
    /\ path' = p
    /\ id' = ContentId(FileAt(p))
    /\ pc' = "dedup"
    /\ stuck' = {}
    /\ UNCHANGED <<job, dir_seen>>

StartJob(source, mode) ==
    /\ pc = "idle"
    /\ job' = [source |-> source, mode |-> mode]
    /\ path' = None
    /\ id' = None
    /\ pc' = IF source = None THEN "dedup" ELSE "resolve"
    /\ UNCHANGED <<fvars, cache, temp, mvars, shown, dir_seen, stuck>>

-----------------------------------------------------------------------------
\* Resolving a remote cover: the cache, else a download published in it.

ResolveRemote ==
    /\ pc = "resolve"
    /\ job.source \in Urls
    /\ (cache[job.source] # None /\ Ready(job.source)) \/ Goto("fetch")
    /\ UNCHANGED <<fvars, cache, temp, mvars, shown>>

\* The download succeeds, or it fails or is refused.
Fetch ==
    /\ pc = "fetch"
    /\ Goto("write") \/ Fail
    /\ UNCHANGED <<fvars, cache, temp, mvars, shown>>

\* Mutant: the bytes are not synced before the rename.
WriteThenRename ==
    /\ pc = "write"
    /\ now' = now + 1
    /\ temp' = File(Whole(PictureAt[job.source]), now', FALSE)
    /\ Goto("rename")
    /\ UNCHANGED <<dir, dir_mtime, cache, mvars, shown>>

\* The private temporary file.  A failure removes it and ends the job.
WriteTemp ==
    /\ pc = "write"
    /\ now' = now + 1
    /\ \/ /\ temp' = File(Whole(PictureAt[job.source]), now', FALSE)
          /\ Goto("sync")
       \/ Fail /\ UNCHANGED temp
    /\ UNCHANGED <<dir, dir_mtime, cache, mvars, shown>>

\* Mutant: the temporary file stays behind when the sync fails.
SyncTempLeaves ==
    /\ pc = "sync"
    /\ \/ temp' = [temp EXCEPT !.synced = TRUE] /\ Goto("rename")
       \/ UNCHANGED temp /\ Fail
    /\ UNCHANGED <<fvars, cache, mvars, shown>>

\* Synced before the rename, so that a crash after it cannot lose the bytes.
SyncTemp ==
    /\ pc = "sync"
    /\ \/ temp' = [temp EXCEPT !.synced = TRUE] /\ Goto("rename")
       \/ temp' = None /\ Fail
    /\ UNCHANGED <<fvars, cache, mvars, shown>>

Rename ==
    /\ pc = "rename"
    /\ temp' = None
    /\ \/ cache' = [cache EXCEPT ![job.source] = temp] /\ Goto("evict")
       \/ UNCHANGED cache /\ Fail
    /\ UNCHANGED <<fvars, mvars, shown>>

Young == {u \in Urls : cache[u] # None /\ ~cache[u].aged}

WithinLimits(S) ==
    /\ Cardinality(S) <= MAX_ENTRIES
    /\ SumFunction([u \in S |-> Size(cache[u].data)]) <= MAX_BYTES

\* Mutant: the newest entries are evicted first.
OldestSuffix(S, listed) ==
    \A u \in S, v \in listed : cache[v].mtime < cache[u].mtime => v \in S

\* Entries newer than a kept one are kept.
NewestSuffix(S, listed) ==
    \A u \in S, v \in listed : cache[v].mtime > cache[u].mtime => v \in S

\* Aged entries go, then the oldest until the budgets hold: what is kept is the
\* largest set of newest entries within them.  Entries that cannot be listed are
\* neither counted nor removed (all of them when the directory cannot be read), and
\* an entry whose removal fails counts as removed.
Evict ==
    /\ pc = "evict"
    /\ \E unlisted \in SUBSET {u \in Urls : cache[u] # None} :
          LET listed == Young \ unlisted
          IN  \E kept \in SUBSET listed :
                 /\ NewestSuffix(kept, listed)
                 /\ WithinLimits(kept)
                 /\ \A S \in SUBSET listed :
                       NewestSuffix(S, listed) /\ WithinLimits(S) => S \subseteq kept
                 /\ stuck' \in SUBSET {u \in Urls : cache[u] # None}
                 /\ unlisted \subseteq stuck'
                 /\ stuck' \cap kept = {}
                 /\ cache' = [u \in Urls |->
                                 IF u \in kept \cup stuck' THEN cache[u] ELSE None]
    /\ pc' = "entry"
    /\ UNCHANGED <<fvars, temp, mvars, shown, job, dir_seen, path, id>>

StatEntry ==
    /\ pc = "entry"
    /\ (cache[job.source] # None /\ Ready(job.source)) \/ Fail
    /\ UNCHANGED <<fvars, cache, temp, mvars, shown>>

-----------------------------------------------------------------------------
\* Resolving a local cover.

\* A file:// cover below the directory; nothing looks at its bytes yet.
ResolveFile ==
    /\ pc = "resolve"
    /\ job.source \in Names
    /\ (dir_mtime # None /\ dir[job.source] # None /\ Ready(job.source)) \/ Fail
    /\ UNCHANGED <<fvars, cache, temp, mvars, shown>>

\* The directory's mtime is read, and the memo used if it is of that mtime and
\* its file can still be looked at.
ScanMemo ==
    LET hit == scan_memo # None /\ scan_memo.mtime = dir_mtime
    IN  /\ pc = "resolve"
        /\ job.source = Dir
        /\ \/ scan_memo' = None /\ Fail
           \/ /\ dir_mtime # None
              /\ hit
              /\ dir[scan_memo.name] # None
              /\ Ready(scan_memo.name)
              /\ UNCHANGED scan_memo
           \/ /\ dir_mtime # None
              /\ scan_memo' = IF hit THEN None ELSE scan_memo
              /\ dir_seen' = dir_mtime
              /\ pc' = "enumerate"
              /\ UNCHANGED <<job, path, id, stuck>>
        /\ UNCHANGED <<fvars, cache, temp, slot, last_committed, shown>>

\* The directory is enumerated and its newest candidate remembered, unless it
\* cannot be read or has none.
Enumerate ==
    /\ pc = "enumerate"
    /\ \/ scan_memo' = None /\ Fail
       \/ \E skipped \in SUBSET Candidates, n \in Candidates :
             /\ IsNewestBut(skipped, n)
             /\ scan_memo' = [mtime |-> dir_seen, name |-> n, skipped |-> skipped]
             /\ path' = n
             /\ pc' = "identify"
             /\ UNCHANGED <<job, dir_seen, id, stuck>>
    /\ UNCHANGED <<fvars, cache, temp, slot, last_committed, shown>>

\* Mutant: the memo is dated when the scan ends, not when it began.
IdentifyAndDate ==
    /\ pc = "identify"
    /\ (dir[path] # None /\ Ready(path)) \/ Fail
    /\ scan_memo' = [scan_memo EXCEPT !.mtime = dir_mtime]
    /\ UNCHANGED <<fvars, cache, temp, slot, last_committed, shown>>

\* The chosen file may have vanished since.
Identify ==
    /\ pc = "identify"
    /\ (dir[path] # None /\ Ready(path)) \/ Fail
    /\ UNCHANGED <<fvars, cache, temp, mvars, shown>>

-----------------------------------------------------------------------------
\* Dedup, extraction and the call of wlchroma-ctl.  (A call that fails changes
\* nothing here; one that is late is the Pipeline's business.)

\* The job ends here when wlchroma shows its cover, or when a newer job waits.
Dedup ==
    /\ pc = "dedup"
    /\ \/ Goto("idle")
       \/ last_committed # Key /\ Goto(IF job.source = None THEN "ctl" ELSE "extract")
    /\ UNCHANGED <<fvars, cache, temp, mvars, shown>>

\* Mutant: the slot is keyed on the path.
SlotKeyedOnPath == slot # None /\ slot.path = path

\* Mutant: a filled slot is never filled again.
SlotFilled == slot # None

SlotHit == slot # None /\ slot.id = id

\* Mutant: the key is stored before the selection, which may panic.
ExtractKeyFirst ==
    /\ pc = "extract"
    /\ \/ SlotHit /\ UNCHANGED slot /\ Goto("ctl")
       \/ /\ ~SlotHit
          /\ \E picture \in Readings(path) :
                slot' = [id |-> id, path |-> path, picture |-> picture]
          /\ Goto("ctl")
       \/ ~SlotHit /\ slot # None /\ slot' = [slot EXCEPT !.id = id] /\ Fail
    /\ UNCHANGED <<fvars, cache, temp, scan_memo, last_committed, shown>>

\* The picture is read when it is not in the slot, which remembers a read that failed
\* like any other; the selection may panic.
Extract ==
    /\ pc = "extract"
    /\ \/ SlotHit /\ UNCHANGED slot /\ Goto("ctl")
       \/ /\ ~SlotHit
          /\ \E picture \in Readings(path) :
                slot' = [id |-> id, path |-> path, picture |-> picture]
          /\ Goto("ctl")
       \/ ~SlotHit /\ UNCHANGED slot /\ Fail
    /\ UNCHANGED <<fvars, cache, temp, scan_memo, last_committed, shown>>

Palette ==
    IF job.source = None THEN [picture |-> None, mode |-> job.mode, preset |-> TRUE]
    ELSE [picture |-> slot.picture, mode |-> job.mode, preset |-> FALSE]

CallCtl ==
    /\ pc = "ctl"
    /\ \/ shown' = Palette /\ last_committed' = Key
       \/ UNCHANGED <<shown, last_committed>>
    /\ Goto("idle")
    /\ UNCHANGED <<fvars, cache, temp, scan_memo, slot>>

Worker ==
    \/ ResolveRemote \/ Fetch \/ WriteTemp \/ SyncTemp \/ Rename \/ Evict \/ StatEntry
    \/ ResolveFile \/ ScanMemo \/ Enumerate \/ Identify
    \/ Dedup \/ Extract \/ CallCtl

-----------------------------------------------------------------------------
\* The media server, time and crashes.

MakeDir ==
    /\ dir_mtime = None
    /\ now' = now + 1
    /\ dir_mtime' = now'
    /\ UNCHANGED <<dir, cache, temp, mvars, shown, jvars>>

\* A new file appears, empty, begun, or complete (renamed into place).
CreateCover(n, picture, written) ==
    /\ dir_mtime # None
    /\ dir[n] = None
    /\ now' = now + 1
    /\ dir_mtime' = now'
    /\ dir' = [dir EXCEPT ![n] =
                  File([picture |-> picture, written |-> written], now', TRUE)]
    /\ UNCHANGED <<cache, temp, mvars, shown, jvars>>

\* More of a file is written: that does not touch the directory.
WriteCover(n) ==
    /\ dir[n] # None
    /\ dir[n].data.written < 2
    /\ now' = now + 1
    /\ dir' = [dir EXCEPT ![n].data.written = @ + 1, ![n].mtime = now']
    /\ UNCHANGED <<dir_mtime, cache, temp, mvars, shown, jvars>>

RemoveCover(n) ==
    /\ dir[n] # None
    /\ now' = now + 1
    /\ dir_mtime' = now'
    /\ dir' = [dir EXCEPT ![n] = None]
    /\ UNCHANGED <<cache, temp, mvars, shown, jvars>>

\* While the worker rests, entries up to some age pass max_age.
Age(u) ==
    /\ pc = "idle"
    /\ cache[u] # None
    /\ ~cache[u].aged
    /\ cache' = [v \in Urls |->
                    IF cache[v] # None /\ cache[v].mtime <= cache[u].mtime
                    THEN [cache[v] EXCEPT !.aged = TRUE]
                    ELSE cache[v]]
    /\ UNCHANGED <<fvars, temp, mvars, shown, jvars>>

\* After a crash the daemon starts with an empty memory and reverts.  A temporary
\* file it left stays behind; nothing looks at it again.
Restart ==
    /\ temp' = None
    /\ scan_memo' = None
    /\ slot' = None
    /\ \E mode \in Modes :
          /\ last_committed' = [id |-> None, mode |-> mode]
          /\ shown' = [picture |-> None, mode |-> mode, preset |-> TRUE]
    /\ pc' = "idle"
    /\ job' = None
    /\ dir_seen' = None
    /\ path' = None
    /\ id' = None
    /\ stuck' = {}

ProcessCrash == Restart /\ UNCHANGED <<fvars, cache>>

\* A crash of the system loses bytes that were not synced.
SystemCrash ==
    /\ Restart
    /\ \E lost \in SUBSET {u \in Urls : cache[u] # None /\ ~cache[u].synced} :
          cache' = [u \in Urls |-> IF u \in lost THEN [cache[u] EXCEPT !.data.written = 0]
                                   ELSE cache[u]]
    /\ UNCHANGED fvars

Environment ==
    \/ MakeDir
    \/ \E n \in Names, picture \in Pictures, written \in 0..2 :
          CreateCover(n, picture, written)
    \/ \E n \in Names : WriteCover(n) \/ RemoveCover(n)
    \/ \E u \in Urls : Age(u)
    \/ ProcessCrash
    \/ SystemCrash

Next ==
    \/ \E source \in Urls \cup Names \cup {Dir, None}, mode \in Modes : StartJob(source, mode)
    \/ Worker
    \/ Environment

Spec == Init /\ [][Next]_vars

-----------------------------------------------------------------------------
\* Properties.

\* The types of the files, the memos and the running job; a temporary file exists
\* only between its creation and the rename ("removed on every failure path").
CTypeOK ==
    /\ now \in Nat
    /\ dir \in [Names -> Files \cup {None}]
    /\ dir_mtime \in Nat \cup {None}
    /\ cache \in [Urls -> Files \cup {None}]
    /\ temp \in Files \cup {None}
    /\ temp # None <=> pc \in {"sync", "rename"}
    /\ scan_memo \in Memos \cup {None}
    /\ slot \in Slots \cup {None}
    /\ last_committed \in Keys
    /\ shown \in [picture : Palettes, mode : Modes, preset : BOOLEAN]
    /\ pc \in Steps
    /\ job \in Jobs \cup {None}
    /\ dir_seen \in Nat \cup {None}
    /\ path \in Urls \cup Names \cup {None}
    /\ id \in Identities \cup {None}
    /\ stuck \in SUBSET Urls

\* "A reader never sees a partial file, a crash cannot leave a published partial
\* entry": what is served as a hit is the whole image the URL served, across
\* crashes at any step of a publication.
CacheHoldsWholeImages ==
    \A u \in Urls : cache[u] # None => cache[u].data = Whole(PictureAt[u])

\* Eviction leaves the cache within its budgets, but for what it could not list or
\* remove, and whatever it could not, never takes the entry whose publication it
\* follows, or the resolve that published it would fail.
EvictionSparesTheNew ==
    pc = "entry" =>
        /\ cache[job.source] # None
        /\ WithinLimits({u \in Urls : cache[u] # None} \ stuck)

Present == ({cache[u] : u \in Urls} \cup {dir[n] : n \in Names}) \ {None}

\* The dedup key tells the picture on screen: whatever file has the committed
\* identity, skipping a job for it leaves the palette of that file's picture on
\* screen, although the picture was read some time after its identity.  (Or the
\* default palette, when the file could not be read.)
KeyTellsPicture ==
    IF last_committed.id = None THEN shown.preset
    ELSE \A file \in Present :
            ContentId(file) = last_committed.id =>
                /\ shown.picture \in {Decoded(file), Unread}
                /\ shown.mode = last_committed.mode
                /\ ~shown.preset

\* The memo never hands out another cover's picks: those in the slot are what any
\* file of the slot's identity decodes to, also after a selection that panicked.
SlotTellsPicture ==
    slot # None => \A file \in Present :
        ContentId(file) = slot.id => slot.picture \in {Decoded(file), Unread}

\* Wherever a content identity stands for a picture, it is that picture's: in the
\* key of the dedup and in the slot of the memo.
IdentityTellsPicture == KeyTellsPicture /\ SlotTellsPicture

\* A remote cover ends up on screen as the picture its URL serves, whatever the
\* cache, the memo and the dedup took a short cut on, or as the default palette if
\* the entry could not be read.
UrlShowsItsPicture ==
    [][/\ pc = "ctl"
       /\ job.source \in Urls
       /\ last_committed' = Key
       => shown'.picture \in {PictureAt[job.source], Unread}]_vars

\* While no file was written after the directory's last change, a memo of the
\* directory's mtime names its newest cover of those its scan could read: the changes
\* between the stat and the enumeration of a scan date the memo back, not forward.
MemoOfSettledDirectory ==
    /\ scan_memo # None
    /\ scan_memo.mtime = dir_mtime
    /\ \A n \in Names : dir[n] # None => dir[n].mtime <= dir_mtime
    => IsNewestBut(scan_memo.skipped, scan_memo.name)

\* A memo that would be served names the newest cover its scan could read: "any
\* change that matters bumps the directory mtime", and "a partial write cannot shadow
\* the real newest cover".
MemoNamesNewest ==
    scan_memo # None /\ scan_memo.mtime = dir_mtime /\ dir[scan_memo.name] # None =>
        IsNewestBut(scan_memo.skipped, scan_memo.name)
=============================================================================
