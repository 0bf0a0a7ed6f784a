---------------------------- MODULE CoversProofs ----------------------------
(***************************************************************************)
(* Theorems about the worker's cover half, for every set of URLs, file     *)
(* names and pictures, and every budget.                                   *)
(***************************************************************************)
EXTENDS Covers, FiniteSetTheorems, TLAPS

\* The sum over one entry is that entry's.
LEMMA SumOfOne ==
    ASSUME NEW f, NEW u, DOMAIN f = {u}, f[u] \in Nat
    PROVE  SumFunction(f) = f[u]
<1> DEFINE pick(s) == CHOOSE x \in s : TRUE
           iter == CHOOSE g : g = [s \in SUBSET {u} |->
                      IF s = {} THEN 0 ELSE f[pick(s)] + g[s \ {pick(s)}]]
           sum == [s \in SUBSET {u} |-> IF s = {} THEN 0 ELSE f[u]]
<1>1. SumFunction(f) = iter[{u}]
  BY DEF SumFunction, SumFunctionOnSet, FoldFunctionOnSet, MapThenFoldSet
<1>2. /\ pick({u}) = u /\ {u} \ {u} = {} /\ {} \in SUBSET {u} /\ {u} \in SUBSET {u}
      /\ \A s \in SUBSET {u} : s = {} \/ s = {u}
  OBVIOUS
<1>3. sum = [s \in SUBSET {u} |->
                IF s = {} THEN 0 ELSE f[pick(s)] + sum[s \ {pick(s)}]]
  <2> SUFFICES ASSUME NEW s \in SUBSET {u}
               PROVE  sum[s] = IF s = {} THEN 0 ELSE f[pick(s)] + sum[s \ {pick(s)}]
    OBVIOUS
  <2>1. CASE s = {}
    BY <2>1
  <2>2. CASE s = {u}
    <3>1. sum[{}] = 0 /\ sum[s] = f[u]
      BY <1>2, <2>2
    <3>2. pick(s) = u /\ s \ {pick(s)} = {} /\ s # {}
      BY <1>2, <2>2
    <3>3. sum[s \ {pick(s)}] = 0 /\ f[pick(s)] = f[u]
      BY <3>1, <3>2
    <3> HIDE DEF sum, pick
    <3>4. f[pick(s)] + sum[s \ {pick(s)}] = f[u]
      BY <3>3
    <3> QED
      BY <3>1, <3>2, <3>4
  <2> QED
    BY <1>2, <2>1, <2>2
<1>4. iter = [s \in SUBSET {u} |->
                 IF s = {} THEN 0 ELSE f[pick(s)] + iter[s \ {pick(s)}]]
  <2> HIDE DEF sum, pick
  <2> QED
    BY <1>3
<1>5. iter[{}] = 0 /\ iter[{u}] = f[pick({u})] + iter[{u} \ {pick({u})}]
  <2> HIDE DEF iter, sum
  <2>1. {u} # {}
    OBVIOUS
  <2>2. ASSUME NEW s \in SUBSET {u}
        PROVE  iter[s] = IF s = {} THEN 0 ELSE f[pick(s)] + iter[s \ {pick(s)}]
    BY <1>4, Zenon
  <2> HIDE DEF pick
  <2> QED
    BY <1>2, <2>1, <2>2
<1> HIDE DEF iter, sum, pick
<1> QED
  BY <1>1, <1>2, <1>5

-----------------------------------------------------------------------------
\* The inductive invariant, part by part.

\* Where a cover may be: in the cache, or in the directory.
Places == Urls \cup Names

\* The steps before the cover's identity is known.
Resolving == {"resolve", "fetch", "write", "sync", "rename", "evict", "entry",
              "enumerate", "identify"}

\* What the worker knows of its job at each step.
JobInStep ==
    /\ pc # "idle" => job # None
    /\ pc \in {"fetch", "write", "sync", "rename", "evict", "entry"} => job.source \in Urls
    /\ pc \in {"enumerate", "identify"} => job.source = Dir /\ dir_seen # None
    /\ pc = "identify" => path \in Names
    /\ pc \in Resolving => job.source # None /\ id = None
    /\ pc \in {"dedup", "extract", "ctl"} => (job.source = None <=> id = None)
    /\ pc = "extract" => job.source # None
    /\ id # None => path # None

\* The job's key is not the last committed one when it is to be called; the slot
\* holds its picture then.
ReadyToCall ==
    /\ pc \in {"extract", "ctl"} => last_committed # Key
    /\ pc = "ctl" /\ job.source # None => slot # None /\ slot.id = id

\* The entry a remote job resolved to stays while the job runs.
EntryStays ==
    pc \in {"dedup", "extract", "ctl"} /\ job.source \in Urls =>
        /\ path = job.source
        /\ cache[path] # None
        /\ ContentId(cache[path]) = id

\* Nothing but whole, synced images is published.
Published ==
    /\ \A u \in Urls : cache[u] # None =>
           cache[u].data = Whole(PictureAt[u]) /\ cache[u].synced
    /\ pc \in {"sync", "rename"} => temp.data = Whole(PictureAt[job.source])
    /\ pc = "rename" => temp.synced

\* The file being published is the newest of the cache.
NewestPublished ==
    /\ pc \in {"sync", "rename"} =>
           ~temp.aged /\ \A u \in Urls : cache[u] # None => cache[u].mtime <= temp.mtime
    /\ pc = "evict" =>
           /\ cache[job.source] # None
           /\ ~cache[job.source].aged
           /\ \A u \in Urls : cache[u] # None => cache[u].mtime <= cache[job.source].mtime

\* Every file was written by now, no two at the same time.
Dated ==
    /\ \A p \in Places : FileAt(p) # None => FileAt(p).mtime <= now
    /\ \A p, q \in Places :
           p # q /\ FileAt(p) # None /\ FileAt(q) # None => FileAt(p).mtime # FileAt(q).mtime
    /\ temp # None =>
           /\ temp.mtime <= now
           /\ \A p \in Places : FileAt(p) # None => FileAt(p).mtime # temp.mtime

\* An identity that was taken is of an earlier write than the file being published.
Taken(ident) == ident.mtime <= now /\ (temp # None => temp.mtime # ident.mtime)

\* What is present under the identity taken of the job's cover is at its path.
IdOfPath ==
    id # None =>
        /\ id.mtime <= now
        /\ \A p \in Places : FileAt(p) # None /\ FileAt(p).mtime = id.mtime => p = path

\* SlotTellsPicture and KeyTellsPicture, place by place.
SlotOfFile ==
    slot # None =>
        /\ Taken(slot.id)
        /\ \A p \in Places : FileAt(p) # None /\ ContentId(FileAt(p)) = slot.id =>
               slot.picture \in {Decoded(FileAt(p)), Unread}

KeyOfFile ==
    IF last_committed.id = None THEN shown.preset
    ELSE /\ Taken(last_committed.id)
         /\ \A p \in Places : FileAt(p) # None /\ ContentId(FileAt(p)) = last_committed.id =>
                /\ shown.picture \in {Decoded(FileAt(p)), Unread}
                /\ shown.mode = last_committed.mode
                /\ ~shown.preset

\* MemoOfSettledDirectory, and that neither the directory nor a memo of it is dated
\* after the newest write.
MemoDated ==
    /\ dir_mtime # None => dir_mtime <= now
    /\ dir_seen # None => dir_seen <= now
    /\ scan_memo # None => scan_memo.mtime <= now
    /\ MemoOfSettledDirectory

CInv ==
    /\ CTypeOK
    /\ JobInStep
    /\ ReadyToCall
    /\ EntryStays
    /\ Published
    /\ NewestPublished
    /\ EvictionSparesTheNew
    /\ Dated
    /\ IdOfPath
    /\ SlotOfFile
    /\ KeyOfFile
    /\ MemoDated

-----------------------------------------------------------------------------
\* Types.

\* What is computed of a file.
LEMMA FileTypes ==
    ASSUME NEW file \in Files
    PROVE  /\ file # None
           /\ ContentId(file) \in Identities /\ ContentId(file) # None
           /\ ContentId(file).mtime = file.mtime
           /\ Decoded(file) \in Pictures \cup {None}
           /\ file.mtime \in Nat
<1>1. Size(file.data) \in Nat
  BY CoversAssumption DEF Size, Files, Bytes
<1>2. file.mtime \in Nat /\ Decoded(file) \in Pictures \cup {None}
  BY DEF Files, Bytes, Decoded
<1>3. ContentId(file) \in Identities /\ ContentId(file).mtime = file.mtime
  BY <1>1, <1>2 DEF ContentId, Identities
<1> QED
  BY <1>2, <1>3, AbsentAssumption

\* What is at a place.
LEMMA PlaceTypes ==
    ASSUME CTypeOK, NEW p \in Places
    PROVE  /\ FileAt(p) \in Files \cup {None}
           /\ p \in Urls => FileAt(p) = cache[p]
           /\ p \in Names => FileAt(p) = dir[p]
BY CoversAssumption DEF CTypeOK, Places, FileAt

\* What is read there.
LEMMA ReadingTypes ==
    ASSUME CTypeOK, NEW p \in Places
    PROVE  Readings(p) \in SUBSET Palettes
BY PlaceTypes, FileTypes DEF Readings, Palettes

\* A temporary file as it is written.
LEMMA NewTemp ==
    ASSUME NEW u \in Urls, NEW mtime \in Nat
    PROVE  LET file == File(Whole(PictureAt[u]), mtime, FALSE)
           IN  /\ file \in Files /\ file # None
               /\ file.data = Whole(PictureAt[u]) /\ file.mtime = mtime /\ ~file.aged
<1>1. PictureAt[u] \in Pictures /\ 2 \in 0..2
  BY CoversAssumption
<1>2. Whole(PictureAt[u]) \in Bytes
  BY <1>1 DEF Whole, Bytes
<1> DEFINE file == File(Whole(PictureAt[u]), mtime, FALSE)
<1>3. file.data = Whole(PictureAt[u]) /\ file.mtime = mtime /\ ~file.aged
  BY DEF File
<1>4. file \in Files
  BY <1>2 DEF File, Files
<1> HIDE DEF file
<1>5. file # None
  BY <1>4, AbsentAssumption
<1> QED
  BY <1>3, <1>4, <1>5 DEF file

\* A resolve that is ready goes on with the identity of what it found.
LEMMA ReadyTypes ==
    ASSUME CTypeOK, NEW p \in Places, FileAt(p) # None, Ready(p)
    PROVE  /\ path' = p /\ id' = ContentId(FileAt(p)) /\ pc' = "dedup"
           /\ stuck' = {} /\ UNCHANGED <<job, dir_seen>>
           /\ id' \in Identities /\ id' # None /\ path' \in Places /\ path' # None
BY PlaceTypes, FileTypes, CoversAssumption DEF Ready, Places

\* What the worker's memory may become, when no file changes and none is published.
LEMMA QuietTypes ==
    ASSUME CTypeOK, UNCHANGED <<fvars, cache, temp, shown, last_committed>>,
           temp = None, pc' \in Steps, pc' \notin {"sync", "rename"},
           scan_memo' \in Memos \cup {None}, slot' \in Slots \cup {None},
           job' \in Jobs \cup {None}, dir_seen' \in Nat \cup {None},
           path' \in Places \cup {None}, id' \in Identities \cup {None},
           stuck' \in SUBSET Urls
    PROVE  CTypeOK'
BY DEF CTypeOK, fvars, Places

\* The steps that resolve a cover without a download.
LEMMA ResolveTypes ==
    ASSUME CInv, ResolveRemote \/ Fetch \/ StatEntry \/ ResolveFile \/ ScanMemo
                 \/ Enumerate \/ Identify
    PROVE  CTypeOK'
<1>1. /\ UNCHANGED <<fvars, cache, temp, shown, last_committed, slot, job>>
      /\ temp = None
  BY DEF CInv, CTypeOK, ResolveRemote, Fetch, StatEntry, ResolveFile, ScanMemo, Enumerate,
         Identify, Goto, Fail, Ready, mvars
<1>2. CTypeOK /\ slot \in Slots \cup {None} /\ job \in Jobs \cup {None}
      /\ scan_memo \in Memos \cup {None} /\ dir_seen \in Nat \cup {None}
      /\ path \in Places \cup {None} /\ id \in Identities \cup {None}
      /\ dir_mtime \in Nat \cup {None} /\ stuck \in SUBSET Urls
  BY DEF CInv, CTypeOK, Places
<1>3. ASSUME NEW p \in Places, FileAt(p) # None, Ready(p),
             scan_memo' \in Memos \cup {None}
      PROVE  CTypeOK'
  BY <1>1, <1>2, <1>3, ReadyTypes, QuietTypes DEF Steps
<1>4. ASSUME NEW next \in Steps \ {"sync", "rename"}, Goto(next),
             scan_memo' \in Memos \cup {None}
      PROVE  CTypeOK'
  BY <1>1, <1>2, <1>4, QuietTypes DEF Goto
<1>5. CASE ResolveRemote \/ Fetch \/ StatEntry
  <2>1. scan_memo' = scan_memo /\ job.source \in Urls
    BY <1>5 DEF ResolveRemote, Fetch, StatEntry, mvars, CInv, JobInStep
  <2>2. job.source \in Places /\ FileAt(job.source) = cache[job.source]
    BY <2>1 DEF Places, FileAt
  <2>3. \/ Goto("fetch") \/ Goto("write") \/ Goto("idle")
        \/ cache[job.source] # None /\ Ready(job.source)
    BY <1>5 DEF ResolveRemote, Fetch, StatEntry, Fail
  <2> QED
    BY <1>2, <1>3, <1>4, <2>1, <2>2, <2>3 DEF Steps
<1>6. CASE ResolveFile \/ Identify
  <2>1. /\ scan_memo' = scan_memo
        /\ \/ Goto("idle")
           \/ \E n \in Names : dir[n] # None /\ Ready(n)
    BY <1>6 DEF ResolveFile, Identify, Fail, mvars, CInv, JobInStep
  <2>2. \A n \in Names : n \in Places /\ FileAt(n) = dir[n]
    BY <1>2, PlaceTypes DEF Places
  <2> QED
    BY <1>2, <1>3, <1>4, <2>1, <2>2 DEF Steps
<1>7. CASE ScanMemo
  <2>1. CASE scan_memo' = None /\ Fail
    BY <1>4, <2>1 DEF Fail, Steps
  <2>2. CASE /\ scan_memo # None
             /\ dir[scan_memo.name] # None
             /\ Ready(scan_memo.name)
             /\ UNCHANGED scan_memo
    <3>1. scan_memo.name \in Names
      BY <1>2, <2>2 DEF Memos
    <3> QED
      BY <1>2, <1>3, <2>2, <3>1, PlaceTypes DEF Places
  <2>3. CASE /\ scan_memo' \in {None, scan_memo}
             /\ dir_seen' = dir_mtime
             /\ pc' = "enumerate"
             /\ UNCHANGED <<job, path, id, stuck>>
    BY <1>1, <1>2, <2>3, QuietTypes DEF Steps
  <2> QED
    BY <1>7, <2>1, <2>2, <2>3 DEF ScanMemo
<1>8. CASE Enumerate
  <2>1. CASE scan_memo' = None /\ Fail
    BY <1>4, <2>1 DEF Fail, Steps
  <2>2. ASSUME NEW skipped \in SUBSET Candidates, NEW n \in Candidates,
               scan_memo' = [mtime |-> dir_seen, name |-> n, skipped |-> skipped],
               path' = n, pc' = "identify", UNCHANGED <<job, dir_seen, id, stuck>>
        PROVE  CTypeOK'
    <3>1. n \in Names /\ dir_seen \in Nat
      BY <1>2, <1>8, <2>2 DEF Candidates, Enumerate, CInv, JobInStep
    <3>2. scan_memo' \in Memos
      <4>1. skipped \in SUBSET Names
        BY DEF Candidates
      <4> QED
        BY <2>2, <3>1, <4>1 DEF Memos
    <3> QED
      BY <1>1, <1>2, <2>2, <3>1, <3>2, QuietTypes DEF Steps, Places
  <2> QED
    BY <1>8, <2>1, <2>2 DEF Enumerate
<1> QED
  BY <1>5, <1>6, <1>7, <1>8

\* The steps of a download that change the cache.
LEMMA PublishTypes ==
    ASSUME CInv, WriteTemp \/ SyncTemp \/ Rename \/ Evict
    PROVE  CTypeOK'
<1>1. /\ UNCHANGED <<dir, dir_mtime, scan_memo, slot, last_committed, shown>>
      /\ UNCHANGED <<job, dir_seen, path, id>> /\ stuck' \in SUBSET Urls
  BY DEF WriteTemp, SyncTemp, Rename, Evict, fvars, mvars, Goto, Fail
<1>2. CTypeOK /\ job.source \in Urls /\ now \in Nat
      /\ cache \in [Urls -> Files \cup {None}]
      /\ (temp # None => temp \in Files) /\ (temp # None <=> pc \in {"sync", "rename"})
  BY DEF CInv, JobInStep, CTypeOK, WriteTemp, SyncTemp, Rename, Evict
<1>3. ASSUME now' \in Nat, cache' \in [Urls -> Files \cup {None}],
             temp' \in Files \cup {None}, temp' # None <=> pc' \in {"sync", "rename"},
             pc' \in Steps
      PROVE  CTypeOK'
  BY <1>1, <1>3 DEF CInv, CTypeOK
<1>4. CASE WriteTemp
  <2>1. now' = now + 1 /\ now' \in Nat /\ cache' = cache /\ pc = "write" /\ temp = None
    BY <1>2, <1>4 DEF WriteTemp
  <2>2. CASE temp' = File(Whole(PictureAt[job.source]), now', FALSE) /\ Goto("sync")
    <3>1. temp' \in Files /\ temp' # None
      BY <1>2, <2>1, <2>2, NewTemp
    <3> QED
      BY <1>2, <1>3, <2>1, <2>2, <3>1 DEF Goto, Steps
  <2>3. CASE Fail /\ UNCHANGED temp
    BY <1>2, <1>3, <2>1, <2>3 DEF Fail, Goto, Steps
  <2> QED
    BY <1>4, <2>2, <2>3 DEF WriteTemp
<1>5. CASE SyncTemp
  <2>1. now' = now /\ cache' = cache /\ pc = "sync" /\ temp \in Files
    BY <1>2, <1>5 DEF SyncTemp, fvars
  <2>2. CASE temp' = [temp EXCEPT !.synced = TRUE] /\ Goto("rename")
    <3>1. temp' \in Files
      BY <2>1, <2>2 DEF Files
    <3> QED
      BY <1>2, <1>3, <2>1, <2>2, <3>1, AbsentAssumption DEF Goto, Steps
  <2>3. CASE temp' = None /\ Fail
    BY <1>2, <1>3, <2>1, <2>3 DEF Fail, Goto, Steps
  <2> QED
    BY <1>5, <2>2, <2>3 DEF SyncTemp
<1>6. CASE Rename
  <2>1. now' = now /\ pc = "rename" /\ temp \in Files /\ temp' = None
    BY <1>2, <1>6 DEF Rename, fvars
  <2>2. cache' \in [Urls -> Files \cup {None}] /\ pc' \in {"evict", "idle"}
    BY <1>2, <1>6, <2>1 DEF Rename, Goto, Fail
  <2> QED
    BY <1>2, <1>3, <2>1, <2>2 DEF Steps
<1>7. CASE Evict
  <2>1. now' = now /\ pc = "evict" /\ temp' = temp /\ temp = None /\ pc' = "entry"
    BY <1>2, <1>7 DEF Evict, fvars
  <2>2. PICK S \in SUBSET Urls :
            cache' = [u \in Urls |-> IF u \in S THEN cache[u] ELSE None]
    <3>1. PICK kept, unlisted :
              /\ kept \in SUBSET (Young \ unlisted)
              /\ stuck' \in SUBSET {u \in Urls : cache[u] # None}
              /\ cache' = [u \in Urls |-> IF u \in kept \cup stuck' THEN cache[u] ELSE None]
      BY <1>7 DEF Evict
    <3>2. kept \cup stuck' \in SUBSET Urls
      BY <3>1 DEF Young
    <3> QED
      BY <3>1, <3>2
  <2>3. cache' \in [Urls -> Files \cup {None}]
    BY <1>2, <2>2
  <2> QED
    BY <1>2, <1>3, <2>1, <2>3 DEF Steps
<1> QED
  BY <1>4, <1>5, <1>6, <1>7

\* The steps of a job once its cover is known, and its start.
LEMMA RunTypes ==
    ASSUME CInv,
           \/ \E source \in Places \cup {Dir, None}, mode \in Modes : StartJob(source, mode)
           \/ Dedup \/ Extract \/ CallCtl
    PROVE  CTypeOK'
<1>1. CTypeOK /\ temp = None /\ UNCHANGED <<fvars, cache, temp, scan_memo>>
      /\ slot \in Slots \cup {None} /\ job \in Jobs \cup {None}
      /\ scan_memo \in Memos \cup {None} /\ dir_seen \in Nat \cup {None}
      /\ path \in Places \cup {None} /\ id \in Identities \cup {None}
      /\ stuck' \in SUBSET Urls
  BY DEF CInv, CTypeOK, StartJob, Dedup, Extract, CallCtl, Goto, Fail, mvars, Places
<1>2. ASSUME NEW source \in Places \cup {Dir, None}, NEW mode \in Modes,
             StartJob(source, mode)
      PROVE  CTypeOK'
  <2>1. job' \in Jobs /\ pc' \in {"dedup", "resolve"} /\ path' = None /\ id' = None
        /\ UNCHANGED <<shown, last_committed, slot, dir_seen>>
    BY <1>2 DEF StartJob, Jobs, Places, mvars
  <2> QED
    BY <1>1, <2>1, QuietTypes DEF Steps
<1>3. CASE Dedup
  <2>1. pc' \in {"idle", "ctl", "extract"}
        /\ UNCHANGED <<shown, last_committed, slot, job, dir_seen, path, id>>
    BY <1>3 DEF Dedup, Goto, mvars
  <2> QED
    BY <1>1, <2>1, QuietTypes DEF Steps
<1>4. CASE Extract
  <2>1. pc' \in {"idle", "ctl"}
        /\ UNCHANGED <<shown, last_committed, job, dir_seen, path, id>>
    BY <1>4 DEF Extract, Goto, Fail
  <2>2. id \in Identities /\ path \in Places
    BY <1>1, <1>4 DEF Extract, CInv, JobInStep
  <2>3. Readings(path) \in SUBSET Palettes
    BY <1>1, <2>2, ReadingTypes
  <2>4. slot' \in Slots \cup {None}
    BY <1>1, <1>4, <2>2, <2>3 DEF Extract, Slots, Places
  <2> QED
    BY <1>1, <2>1, <2>4, QuietTypes DEF Steps
<1>5. CASE CallCtl
  <2>1. pc' = "idle" /\ UNCHANGED <<slot, job, dir_seen, path, id>> /\ job \in Jobs
        /\ (job.source # None => slot \in Slots)
    BY <1>1, <1>5 DEF CallCtl, Goto, CInv, JobInStep, ReadyToCall
  <2>2. Key \in Keys
    BY <1>1, <2>1 DEF Key, Keys, Jobs
  <2>3. Palette \in [picture : Palettes, mode : Modes, preset : BOOLEAN]
    BY <1>1, <2>1 DEF Palette, Palettes, Jobs, Slots
  <2>4. last_committed' \in Keys
        /\ shown' \in [picture : Palettes, mode : Modes, preset : BOOLEAN]
    BY <1>5, <2>2, <2>3 DEF CallCtl, CInv, CTypeOK
  <2> QED
    BY <1>1, <2>1, <2>4 DEF CTypeOK, Steps, fvars
<1> QED
  BY <1>2, <1>3, <1>4, <1>5

-----------------------------------------------------------------------------
\* Steps that write no file.

\* What is said of the files holds on, and with it what is said of the memories that
\* the step leaves alone.
LEMMA QuietFiles ==
    ASSUME CInv, UNCHANGED <<fvars, cache, temp>>, temp = None,
           pc' \notin {"sync", "rename", "evict", "entry"}
    PROVE  /\ Published' /\ NewestPublished' /\ EvictionSparesTheNew' /\ Dated'
           /\ UNCHANGED <<path, id>> => IdOfPath'
           /\ UNCHANGED slot => SlotOfFile'
           /\ UNCHANGED <<last_committed, shown>> => KeyOfFile'
           /\ dir_seen' \in {dir_seen, dir_mtime} /\ scan_memo' \in {None, scan_memo}
                 => MemoDated'
<1>1. UNCHANGED <<now, dir, dir_mtime, cache, temp>> /\ \A p \in Places : FileAt(p)' = FileAt(p)
  BY DEF fvars, FileAt
<1>2. Published' /\ NewestPublished' /\ EvictionSparesTheNew'
  BY <1>1 DEF CInv, Published, NewestPublished, EvictionSparesTheNew
<1>3. Dated'
  BY <1>1 DEF CInv, Dated
<1>4. UNCHANGED <<path, id>> => IdOfPath'
  BY <1>1 DEF CInv, IdOfPath
<1>5. UNCHANGED slot => SlotOfFile'
  BY <1>1 DEF CInv, SlotOfFile, Taken
<1>6. UNCHANGED <<last_committed, shown>> => KeyOfFile'
  BY <1>1 DEF CInv, KeyOfFile, Taken
<1>7. ASSUME dir_seen' \in {dir_seen, dir_mtime}, scan_memo' \in {None, scan_memo}
      PROVE  MemoDated'
  BY <1>1, <1>7 DEF CInv, MemoDated, MemoOfSettledDirectory, IsNewestBut, Candidates
<1> QED
  BY <1>2, <1>3, <1>4, <1>5, <1>6, <1>7

\* A step that only goes on, or ends the job.
LEMMA GotoStep ==
    ASSUME CInv, CTypeOK', UNCHANGED <<fvars, cache, temp, slot, last_committed, shown>>,
           temp = None, scan_memo' \in {None, scan_memo},
           NEW next \in {"idle", "fetch", "write"}, Goto(next),
           next # "idle" => pc \in Resolving /\ job.source \in Urls
    PROVE  CInv'
<1>1. pc' = next /\ UNCHANGED <<job, dir_seen, path, id>>
  BY DEF Goto
<1>2. JobInStep' /\ ReadyToCall' /\ EntryStays'
  BY <1>1 DEF CInv, JobInStep, ReadyToCall, EntryStays, Resolving
<1> QED
  BY <1>1, <1>2, QuietFiles DEF CInv

\* A cover is resolved.
LEMMA ReadyStep ==
    ASSUME CInv, CTypeOK', UNCHANGED <<fvars, cache, temp, slot, last_committed, shown>>,
           temp = None, scan_memo' \in {None, scan_memo}, pc \in Resolving,
           NEW p \in Places, FileAt(p) # None, Ready(p),
           job.source \in Urls => p = job.source
    PROVE  CInv'
<1>1. /\ path' = p /\ id' = ContentId(FileAt(p)) /\ pc' = "dedup"
      /\ UNCHANGED <<job, dir_seen>> /\ id' # None /\ path' # None
  BY ReadyTypes DEF CInv
<1>2. JobInStep' /\ ReadyToCall'
  BY <1>1 DEF CInv, JobInStep, ReadyToCall, Resolving
<1>3. EntryStays'
  BY <1>1 DEF EntryStays, ContentId, FileAt
<1>4. id'.mtime = FileAt(p).mtime
  BY <1>1, PlaceTypes, FileTypes DEF CInv
<1>5. IdOfPath'
  <2>1. now' = now /\ \A q \in Places : FileAt(q)' = FileAt(q)
    BY DEF fvars, FileAt
  <2> QED
    BY <1>1, <1>4, <2>1 DEF CInv, Dated, IdOfPath
<1> QED
  BY <1>1, <1>2, <1>3, <1>5, QuietFiles DEF CInv

\* The steps that resolve a cover without a download.
LEMMA ResolveStep ==
    ASSUME CInv, ResolveRemote \/ Fetch \/ StatEntry \/ ResolveFile \/ ScanMemo
                 \/ Enumerate \/ Identify
    PROVE  CInv'
<1>1. CTypeOK' /\ CTypeOK
  BY ResolveTypes DEF CInv
<1>2. /\ UNCHANGED <<fvars, cache, temp, shown, last_committed, slot, job>>
      /\ temp = None /\ pc \in Resolving
  BY <1>1 DEF CTypeOK, ResolveRemote, Fetch, StatEntry, ResolveFile, ScanMemo, Enumerate,
              Identify, Goto, Fail, Ready, mvars, Resolving
<1>3. ASSUME NEW p \in Places, FileAt(p) # None, Ready(p),
             job.source \in Urls => p = job.source, scan_memo' \in {None, scan_memo}
      PROVE  CInv'
  BY <1>1, <1>2, <1>3, ReadyStep
<1>4. CASE Fail /\ scan_memo' \in {None, scan_memo}
  BY <1>1, <1>2, <1>4, GotoStep DEF Fail
<1>5. CASE ResolveRemote \/ Fetch \/ StatEntry
  <2>1. scan_memo' = scan_memo /\ job.source \in Urls
    BY <1>5 DEF ResolveRemote, Fetch, StatEntry, mvars, CInv, JobInStep
  <2>2. job.source \in Places /\ FileAt(job.source) = cache[job.source]
    BY <2>1 DEF Places, FileAt
  <2>3. \/ Goto("fetch") \/ Goto("write") \/ Fail
        \/ cache[job.source] # None /\ Ready(job.source)
    BY <1>5 DEF ResolveRemote, Fetch, StatEntry
  <2> QED
    BY <1>1, <1>2, <1>3, <1>4, <2>1, <2>2, <2>3, GotoStep
<1>6. CASE ResolveFile \/ Identify
  <2>1. /\ scan_memo' = scan_memo
        /\ \/ Fail
           \/ \E n \in Names : dir[n] # None /\ Ready(n)
    BY <1>6 DEF ResolveFile, Identify, mvars, CInv, JobInStep
  <2>2. \A n \in Names : n \in Places /\ FileAt(n) = dir[n]
    BY <1>1, PlaceTypes DEF Places
  <2>3. job.source \notin Urls
    BY <1>6, CoversAssumption DEF ResolveFile, Identify, CInv, JobInStep
  <2> QED
    BY <1>3, <1>4, <2>1, <2>2, <2>3
<1>7. CASE ScanMemo
  <2>1. job.source \notin Urls /\ pc = "resolve"
    BY <1>7, CoversAssumption DEF ScanMemo
  <2>2. CASE /\ scan_memo # None
             /\ dir[scan_memo.name] # None
             /\ Ready(scan_memo.name)
             /\ UNCHANGED scan_memo
    <3>1. scan_memo.name \in Names
      BY <1>1, <2>2 DEF CTypeOK, Memos
    <3>2. scan_memo.name \in Places /\ FileAt(scan_memo.name) # None
      BY <1>1, <2>2, <3>1, PlaceTypes DEF Places
    <3> QED
      BY <1>3, <2>1, <2>2, <3>2
  <2>3. CASE /\ dir_mtime # None
             /\ scan_memo' \in {None, scan_memo}
             /\ dir_seen' = dir_mtime
             /\ pc' = "enumerate"
             /\ UNCHANGED <<job, path, id, stuck>>
    <3>1. JobInStep' /\ ReadyToCall' /\ EntryStays'
      BY <1>7, <2>3 DEF CInv, JobInStep, ReadyToCall, EntryStays, Resolving, ScanMemo
    <3> QED
      BY <1>1, <1>2, <2>3, <3>1, QuietFiles DEF CInv
  <2> QED
    BY <1>4, <1>7, <2>2, <2>3 DEF ScanMemo
<1>8. CASE Enumerate
  <2>1. ASSUME NEW skipped \in SUBSET Candidates, NEW n \in Candidates,
               IsNewestBut(skipped, n),
               scan_memo' = [mtime |-> dir_seen, name |-> n, skipped |-> skipped],
               path' = n, pc' = "identify", UNCHANGED <<job, dir_seen, id, stuck>>
        PROVE  CInv'
    <3>1. n \in Names /\ id = None /\ pc = "enumerate" /\ dir_seen # None
      BY <1>8, <2>1 DEF Candidates, Enumerate, CInv, JobInStep, Resolving
    <3>2. JobInStep' /\ ReadyToCall' /\ EntryStays'
      BY <2>1, <3>1 DEF CInv, JobInStep, ReadyToCall, EntryStays, Resolving
    <3>3. IdOfPath'
      BY <2>1, <3>1 DEF IdOfPath
    <3>4. IsNewestBut(scan_memo.skipped, scan_memo.name)'
      BY <1>2, <2>1 DEF IsNewestBut, Candidates, fvars
    <3>5. MemoDated'
      BY <1>2, <2>1, <3>1, <3>4 DEF CInv, MemoDated, MemoOfSettledDirectory, fvars
    <3> QED
      BY <1>1, <1>2, <2>1, <3>2, <3>3, <3>5, QuietFiles DEF CInv
  <2> QED
    BY <1>4, <1>8, <2>1 DEF Enumerate
<1> QED
  BY <1>5, <1>6, <1>7, <1>8

\* A job starts with nothing known of its cover.
LEMMA StartStep ==
    ASSUME CInv, NEW source \in Places \cup {Dir, None}, NEW mode \in Modes,
           StartJob(source, mode)
    PROVE  CInv'
<1>1. /\ UNCHANGED <<fvars, cache, temp, slot, last_committed, shown, scan_memo, dir_seen>>
      /\ temp = None /\ pc = "idle"
      /\ job' = [source |-> source, mode |-> mode] /\ path' = None /\ id' = None
      /\ pc' = IF source = None THEN "dedup" ELSE "resolve"
  BY DEF StartJob, mvars, CInv, CTypeOK
<1>2. CTypeOK'
  BY RunTypes
<1>3. job' \in Jobs /\ job'.source = source
  BY <1>1 DEF Jobs, Places
<1>4. JobInStep' /\ ReadyToCall'
  BY <1>1, <1>3, AbsentAssumption DEF JobInStep, ReadyToCall, Resolving
<1>5. EntryStays' /\ IdOfPath'
  BY <1>1, <1>3, CoversAssumption DEF EntryStays, IdOfPath
<1> QED
  BY <1>1, <1>2, <1>4, <1>5, QuietFiles DEF CInv

\* The job is skipped, dropped, or goes on to be called.
LEMMA DedupStep ==
    ASSUME CInv, Dedup
    PROVE  CInv'
<1>1. /\ UNCHANGED <<fvars, cache, temp, slot, last_committed, shown, scan_memo, dir_seen>>
      /\ temp = None /\ pc = "dedup" /\ UNCHANGED <<job, path, id>>
      /\ \/ pc' = "idle"
         \/ last_committed # Key /\ pc' = IF job.source = None THEN "ctl" ELSE "extract"
  BY DEF Dedup, Goto, mvars, CInv, CTypeOK
<1>2. CTypeOK'
  BY RunTypes
<1>3. JobInStep' /\ ReadyToCall' /\ EntryStays'
  BY <1>1 DEF CInv, JobInStep, ReadyToCall, EntryStays, Resolving, Key
<1> QED
  BY <1>1, <1>2, <1>3, QuietFiles DEF CInv

\* The slot gets the picture of whatever is at the path by then: nothing else has the
\* identity it is stored under.
LEMMA ExtractStep ==
    ASSUME CInv, Extract
    PROVE  CInv'
<1>1. /\ UNCHANGED <<fvars, cache, temp, last_committed, shown, scan_memo, dir_seen>>
      /\ temp = None /\ pc = "extract" /\ UNCHANGED <<job, path, id>>
      /\ \/ SlotHit /\ UNCHANGED slot /\ pc' = "ctl"
         \/ /\ \E picture \in Readings(path) :
                   slot' = [id |-> id, path |-> path, picture |-> picture]
            /\ pc' = "ctl"
         \/ UNCHANGED slot /\ pc' = "idle"
  BY DEF Extract, Goto, Fail, CInv, CTypeOK
<1>2. CTypeOK' /\ CTypeOK
  BY RunTypes DEF CInv
<1>3. pc' = "ctl" => slot' # None /\ slot'.id = id
  <2>1. CASE SlotHit /\ UNCHANGED slot
    BY <2>1 DEF SlotHit
  <2>2. ASSUME NEW picture \in Readings(path),
               slot' = [id |-> id, path |-> path, picture |-> picture]
        PROVE  slot' # None /\ slot'.id = id
    <3>1. id \in Identities /\ path \in Urls \cup Names
      BY <1>1, <1>2 DEF CInv, JobInStep, CTypeOK
    <3>2. picture \in Palettes
      BY <1>2, <2>2, <3>1, ReadingTypes DEF Places
    <3>3. slot' \in Slots /\ slot'.id = id
      BY <2>2, <3>1, <3>2 DEF Slots
    <3> QED
      BY <3>3, AbsentAssumption
  <2> QED
    BY <1>1, <2>1, <2>2
<1>4. JobInStep' /\ ReadyToCall' /\ EntryStays'
  BY <1>1, <1>3 DEF CInv, JobInStep, ReadyToCall, EntryStays, Resolving, Key
<1>5. SlotOfFile'
  <2>1. CASE UNCHANGED slot
    BY <1>1, <2>1, QuietFiles
  <2>2. ASSUME NEW picture \in Readings(path),
               slot' = [id |-> id, path |-> path, picture |-> picture]
        PROVE  SlotOfFile'
    <3>1. now' = now /\ temp' = None /\ \A p \in Places : FileAt(p)' = FileAt(p)
      BY <1>1 DEF fvars, FileAt
    <3>2. id # None /\ id.mtime <= now
      BY <1>1 DEF CInv, JobInStep, IdOfPath
    <3>3. ASSUME NEW p \in Places, FileAt(p) # None, ContentId(FileAt(p)) = id
          PROVE  picture \in {Decoded(FileAt(p)), Unread}
      <4>1. FileAt(p).mtime = id.mtime
        BY <1>2, <3>3, PlaceTypes, FileTypes
      <4>2. p = path
        BY <3>2, <3>3, <4>1 DEF CInv, IdOfPath
      <4> QED
        BY <2>2, <3>3, <4>2 DEF Readings
    <3>4. slot'.id = id /\ slot'.picture = picture
      BY <2>2
    <3> QED
      BY <3>1, <3>2, <3>3, <3>4 DEF SlotOfFile, Taken, ContentId, Decoded
  <2> QED
    BY <1>1, <2>1, <2>2
<1> QED
  BY <1>1, <1>2, <1>4, <1>5, QuietFiles DEF CInv

\* The call shows the picture in the slot and makes the job's key the committed one.
LEMMA CallStep ==
    ASSUME CInv, CallCtl
    PROVE  CInv'
<1>1. /\ UNCHANGED <<fvars, cache, temp, slot, scan_memo, dir_seen>>
      /\ temp = None /\ pc = "ctl" /\ pc' = "idle" /\ UNCHANGED <<job, path, id>>
      /\ \/ shown' = Palette /\ last_committed' = Key
         \/ UNCHANGED <<shown, last_committed>>
  BY DEF CallCtl, Goto, CInv, CTypeOK
<1>2. CTypeOK'
  BY RunTypes
<1>3. JobInStep' /\ ReadyToCall' /\ EntryStays'
  BY <1>1 DEF CInv, JobInStep, ReadyToCall, EntryStays, Resolving
<1>4. KeyOfFile'
  <2>1. CASE UNCHANGED <<shown, last_committed>>
    BY <1>1, <2>1, QuietFiles
  <2>2. CASE shown' = Palette /\ last_committed' = Key
    <3>1. now' = now /\ temp' = None /\ \A p \in Places : FileAt(p)' = FileAt(p)
      BY <1>1 DEF fvars, FileAt
    <3>2. last_committed'.id = id /\ last_committed'.mode = job.mode
      BY <2>2 DEF Key
    <3>3. CASE job.source = None
      <4>1. id = None /\ shown'.preset
        BY <1>1, <2>2, <3>3 DEF CInv, JobInStep, Palette
      <4> QED
        BY <3>2, <4>1 DEF KeyOfFile
    <3>4. CASE job.source # None
      <4>1. /\ id # None /\ slot # None /\ slot.id = id
            /\ shown' = [picture |-> slot.picture, mode |-> job.mode, preset |-> FALSE]
        BY <1>1, <2>2, <3>4 DEF CInv, JobInStep, ReadyToCall, Palette
      <4>2. /\ id.mtime <= now
            /\ \A p \in Places : FileAt(p) # None /\ ContentId(FileAt(p)) = id =>
                   slot.picture \in {Decoded(FileAt(p)), Unread}
        BY <4>1 DEF CInv, SlotOfFile, Taken
      <4> QED
        BY <3>1, <3>2, <4>1, <4>2 DEF KeyOfFile, Taken, ContentId, Decoded
    <3> QED
      BY <3>3, <3>4
  <2> QED
    BY <1>1, <2>1, <2>2
<1> QED
  BY <1>1, <1>2, <1>3, <1>4, QuietFiles DEF CInv

-----------------------------------------------------------------------------
\* Steps of a publication.

\* What they leave alone, and what it keeps.
LEMMA PublishQuiet ==
    ASSUME CInv, WriteTemp \/ SyncTemp \/ Rename \/ Evict
    PROVE  /\ UNCHANGED <<dir, dir_mtime, scan_memo, slot, last_committed, shown>>
           /\ UNCHANGED <<job, dir_seen, path, id>>
           /\ job.source \in Urls /\ id = None
           /\ now \in Nat /\ now' \in {now, now + 1}
           /\ JobInStep' /\ ReadyToCall' /\ EntryStays' /\ IdOfPath' /\ MemoDated'
<1>1. /\ UNCHANGED <<dir, dir_mtime, scan_memo, slot, last_committed, shown>>
      /\ UNCHANGED <<job, dir_seen, path, id>>
      /\ pc \in {"write", "sync", "rename", "evict"}
      /\ pc' \in {"sync", "rename", "evict", "entry", "idle"}
      /\ now' \in {now, now + 1}
  BY DEF WriteTemp, SyncTemp, Rename, Evict, fvars, mvars, Goto, Fail
<1>2. job.source \in Urls /\ id = None /\ now \in Nat
  BY <1>1 DEF CInv, CTypeOK, JobInStep, Resolving
<1>3. JobInStep' /\ ReadyToCall' /\ EntryStays' /\ IdOfPath'
  BY <1>1, <1>2 DEF CInv, JobInStep, ReadyToCall, EntryStays, IdOfPath, Resolving
<1>4. /\ dir_mtime \in Nat \cup {None} /\ dir_seen \in Nat \cup {None}
      /\ scan_memo # None => scan_memo.mtime \in Nat
  BY DEF CInv, CTypeOK, Memos
<1>5. MemoOfSettledDirectory'
  BY <1>1 DEF CInv, MemoDated, MemoOfSettledDirectory, IsNewestBut, Candidates
<1>6. MemoDated'
  BY <1>1, <1>2, <1>4, <1>5 DEF CInv, MemoDated
<1> QED
  BY <1>1, <1>2, <1>3, <1>6

\* The mtimes that were there.
LEMMA DatedTypes ==
    ASSUME CInv
    PROVE  /\ now \in Nat
           /\ \A p \in Places : FileAt(p) # None =>
                  FileAt(p) \in Files /\ FileAt(p).mtime \in Nat /\ FileAt(p).mtime <= now
           /\ temp # None => temp \in Files /\ temp.mtime \in Nat /\ temp.mtime <= now
           /\ slot # None => slot.id \in Identities /\ slot.id.mtime \in Nat
                             /\ slot.id.mtime <= now
           /\ last_committed.id # None =>
                  last_committed.id \in Identities /\ last_committed.id.mtime \in Nat
                  /\ last_committed.id.mtime <= now
<1>1. CTypeOK
  BY DEF CInv
<1>2. \A p \in Places : FileAt(p) # None =>
          FileAt(p) \in Files /\ FileAt(p).mtime \in Nat /\ FileAt(p).mtime <= now
  BY <1>1, PlaceTypes, FileTypes DEF CInv, Dated
<1>3. temp # None => temp \in Files /\ temp.mtime \in Nat /\ temp.mtime <= now
  BY <1>1, FileTypes DEF CInv, Dated, CTypeOK
<1>4. slot # None => slot.id \in Identities /\ slot.id.mtime \in Nat /\ slot.id.mtime <= now
  <2>1. slot # None => slot.id \in Identities
    BY <1>1 DEF CTypeOK, Slots
  <2> QED
    BY <2>1 DEF CInv, SlotOfFile, Taken, Identities
<1>5. last_committed.id # None =>
          last_committed.id \in Identities /\ last_committed.id.mtime \in Nat
          /\ last_committed.id.mtime <= now
  <2>1. last_committed.id # None => last_committed.id \in Identities
    BY <1>1 DEF CTypeOK, Keys
  <2> QED
    BY <2>1 DEF CInv, KeyOfFile, Taken, Identities
<1> QED
  BY <1>1, <1>2, <1>3, <1>4, <1>5 DEF CTypeOK

\* What was written now is newer than every file, and than the files whose identities
\* were taken.
LEMMA WriteTempStep ==
    ASSUME CInv, WriteTemp
    PROVE  CInv'
<1>1. /\ now' = now + 1 /\ now \in Nat /\ cache' = cache /\ temp = None /\ pc = "write"
      /\ \A p \in Places : FileAt(p)' = FileAt(p)
      /\ UNCHANGED <<slot, last_committed, shown, job>> /\ job.source \in Urls
  BY PublishQuiet DEF WriteTemp, FileAt, CInv, CTypeOK
<1>2. CTypeOK'
  BY PublishTypes
<1>3. CASE Fail /\ UNCHANGED temp
  <2>1. temp' = None /\ pc' = "idle"
    BY <1>1, <1>3 DEF Fail, Goto
  <2>2. Published' /\ NewestPublished' /\ EvictionSparesTheNew'
    BY <1>1, <2>1 DEF CInv, Published, NewestPublished, EvictionSparesTheNew
  <2>3. Dated' /\ SlotOfFile' /\ KeyOfFile'
    BY <1>1, <2>1, DatedTypes DEF CInv, Dated, SlotOfFile, KeyOfFile, Taken
  <2> QED
    BY <1>2, <2>2, <2>3, PublishQuiet DEF CInv
<1>4. CASE temp' = File(Whole(PictureAt[job.source]), now', FALSE) /\ Goto("sync")
  <2>1. /\ temp' \in Files /\ temp' # None /\ temp'.data = Whole(PictureAt[job.source])
        /\ temp'.mtime = now + 1 /\ ~temp'.aged /\ pc' = "sync"
    <3>1. now' \in Nat /\ pc' = "sync"
      BY <1>1, <1>4 DEF Goto
    <3> DEFINE file == File(Whole(PictureAt[job.source]), now', FALSE)
    <3>2. /\ file \in Files /\ file # None
          /\ file.data = Whole(PictureAt[job.source]) /\ file.mtime = now' /\ ~file.aged
      BY <1>1, <3>1, NewTemp
    <3>3. temp' = file
      BY <1>4
    <3> HIDE DEF file
    <3> QED
      BY <1>1, <3>1, <3>2, <3>3
  <2>2. Published' /\ EvictionSparesTheNew'
    BY <1>1, <2>1 DEF CInv, Published, EvictionSparesTheNew
  <2>3. \A u \in Urls : cache[u] # None => cache[u].mtime <= now + 1
    BY <1>1, DatedTypes DEF Places, FileAt
  <2>4. NewestPublished'
    BY <1>1, <2>1, <2>3 DEF NewestPublished
  <2>5. Dated'
    BY <1>1, <2>1, DatedTypes DEF CInv, Dated
  <2>6. SlotOfFile'
    BY <1>1, <2>1, DatedTypes DEF CInv, SlotOfFile, Taken
  <2>7. KeyOfFile'
    BY <1>1, <2>1, DatedTypes DEF CInv, KeyOfFile, Taken
  <2> QED
    BY <1>2, <2>2, <2>4, <2>5, <2>6, <2>7, PublishQuiet DEF CInv
<1> QED
  BY <1>3, <1>4 DEF WriteTemp

LEMMA SyncTempStep ==
    ASSUME CInv, SyncTemp
    PROVE  CInv'
<1>1. /\ now' = now /\ now \in Nat /\ cache' = cache /\ temp # None /\ pc = "sync"
      /\ \A p \in Places : FileAt(p)' = FileAt(p)
      /\ UNCHANGED <<slot, last_committed, shown, job>> /\ job.source \in Urls
  BY PublishQuiet DEF SyncTemp, FileAt, CInv, CTypeOK, fvars
<1>2. CTypeOK'
  BY PublishTypes
<1>3. CASE temp' = None /\ Fail
  <2>1. pc' = "idle"
    BY <1>3 DEF Fail, Goto
  <2>2. Published' /\ NewestPublished' /\ EvictionSparesTheNew'
    BY <1>1, <1>3, <2>1 DEF CInv, Published, NewestPublished, EvictionSparesTheNew
  <2>3. Dated' /\ SlotOfFile' /\ KeyOfFile'
    BY <1>1, <1>3 DEF CInv, Dated, SlotOfFile, KeyOfFile, Taken
  <2> QED
    BY <1>2, <2>2, <2>3, PublishQuiet DEF CInv
<1>4. CASE temp' = [temp EXCEPT !.synced = TRUE] /\ Goto("rename")
  <2>1. /\ temp'.data = temp.data /\ temp'.mtime = temp.mtime /\ temp'.aged = temp.aged
        /\ temp'.synced /\ pc' = "rename"
    BY <1>1, <1>4, DatedTypes DEF Goto, Files
  <2>2. Published' /\ NewestPublished' /\ EvictionSparesTheNew'
    BY <1>1, <2>1 DEF CInv, Published, NewestPublished, EvictionSparesTheNew
  <2>3. Dated' /\ SlotOfFile' /\ KeyOfFile'
    BY <1>1, <2>1 DEF CInv, Dated, SlotOfFile, KeyOfFile, Taken
  <2> QED
    BY <1>2, <2>2, <2>3, PublishQuiet DEF CInv
<1> QED
  BY <1>3, <1>4 DEF SyncTemp

\* The entry published has an mtime of its own: nothing else has it, and no identity
\* that was taken.
LEMMA RenameStep ==
    ASSUME CInv, Rename
    PROVE  CInv'
<1>1. /\ now' = now /\ now \in Nat /\ temp' = None /\ temp # None /\ pc = "rename"
      /\ UNCHANGED <<slot, last_committed, shown, job, dir>> /\ job.source \in Urls
  BY PublishQuiet DEF Rename, CInv, CTypeOK, fvars
<1>2. CTypeOK'
  BY PublishTypes
<1>3. CASE UNCHANGED cache /\ Fail
  <2>1. pc' = "idle" /\ \A p \in Places : FileAt(p)' = FileAt(p)
    BY <1>1, <1>3 DEF Fail, Goto, FileAt
  <2>2. Published' /\ NewestPublished' /\ EvictionSparesTheNew'
    BY <1>1, <1>3, <2>1 DEF CInv, Published, NewestPublished, EvictionSparesTheNew
  <2>3. Dated' /\ SlotOfFile' /\ KeyOfFile'
    BY <1>1, <2>1 DEF CInv, Dated, SlotOfFile, KeyOfFile, Taken
  <2> QED
    BY <1>2, <2>2, <2>3, PublishQuiet DEF CInv
<1>4. CASE cache' = [cache EXCEPT ![job.source] = temp] /\ Goto("evict")
  <2>1. /\ pc' = "evict" /\ job.source \in Places
        /\ \A u \in Urls : cache'[u] = IF u = job.source THEN temp ELSE cache[u]
        /\ \A p \in Places : FileAt(p)' = IF p = job.source THEN temp ELSE FileAt(p)
    BY <1>1, <1>4 DEF Goto, FileAt, CInv, CTypeOK, Places
  <2>2. Published'
    BY <1>1, <2>1 DEF CInv, Published
  <2>3. NewestPublished' /\ EvictionSparesTheNew'
    BY <1>1, <2>1, DatedTypes DEF CInv, NewestPublished, EvictionSparesTheNew
  <2>4. Dated'
    BY <1>1, <2>1 DEF CInv, Dated
  <2>5. ContentId(temp).mtime = temp.mtime
    BY <1>1, DatedTypes, FileTypes
  <2>6. SlotOfFile'
    <3>1. ASSUME slot # None, NEW p \in Places, FileAt(p)' # None,
                 ContentId(FileAt(p)') = slot.id
          PROVE  slot.picture \in {Decoded(FileAt(p)'), Unread}
      <4>1. p # job.source
        BY <1>1, <2>1, <2>5, <3>1 DEF CInv, SlotOfFile, Taken
      <4> QED
        BY <2>1, <3>1, <4>1 DEF CInv, SlotOfFile
    <3>2. slot # None => Taken(slot.id)'
      BY <1>1 DEF CInv, SlotOfFile, Taken
    <3> QED
      BY <1>1, <3>1, <3>2 DEF SlotOfFile, ContentId, Decoded
  <2>7. KeyOfFile'
    <3>1. ASSUME last_committed.id # None, NEW p \in Places, FileAt(p)' # None,
                 ContentId(FileAt(p)') = last_committed.id
          PROVE  /\ shown.picture \in {Decoded(FileAt(p)'), Unread}
                 /\ shown.mode = last_committed.mode
                 /\ ~shown.preset
      <4>1. p # job.source
        BY <1>1, <2>1, <2>5, <3>1 DEF CInv, KeyOfFile, Taken
      <4> QED
        BY <2>1, <3>1, <4>1 DEF CInv, KeyOfFile
    <3>2. last_committed.id # None => Taken(last_committed.id)'
      BY <1>1 DEF CInv, KeyOfFile, Taken
    <3>3. last_committed.id = None => shown.preset
      BY DEF CInv, KeyOfFile
    <3> QED
      BY <1>1, <3>1, <3>2, <3>3 DEF KeyOfFile, ContentId, Decoded
  <2> QED
    BY <1>2, <2>2, <2>3, <2>4, <2>6, <2>7, PublishQuiet DEF CInv
<1> QED
  BY <1>3, <1>4 DEF Rename

\* The entry just published is the newest, whole and within the budgets by itself, so
\* what eviction keeps holds it.
LEMMA EvictStep ==
    ASSUME CInv, Evict
    PROVE  CInv'
<1> DEFINE J == job.source
<1>1. /\ now' = now /\ now \in Nat /\ temp' = temp /\ temp = None /\ pc = "evict"
      /\ pc' = "entry" /\ UNCHANGED <<slot, last_committed, shown, job, dir>>
      /\ job.source \in Urls
  BY PublishQuiet DEF Evict, CInv, CTypeOK, fvars
<1>2. CTypeOK'
  BY PublishTypes
<1>3. /\ J \in Urls /\ cache[J] # None /\ ~cache[J].aged
      /\ cache[J].data = Whole(PictureAt[J])
      /\ \A u \in Urls : cache[u] # None => cache[u].mtime <= cache[J].mtime
  BY <1>1 DEF CInv, NewestPublished, Published
<1>4. \A u \in Urls : cache[u] # None => cache[u].mtime \in Nat
  BY DatedTypes DEF Places, FileAt
<1>5. J \in Young
  BY <1>3 DEF Young
<1>6. \A listed \in SUBSET Young : NewestSuffix({J}, listed)
  BY <1>3, <1>4 DEF NewestSuffix, Young
<1>7. WithinLimits({J})
  <2>1. Cardinality({J}) = 1 /\ 1 <= MAX_ENTRIES
    <3>1. 1 <= MAX_ENTRIES
      BY CoversAssumption
    <3> HIDE DEF J
    <3>2. Cardinality({J}) = 1
      BY FS_Singleton
    <3> QED
      BY <3>1, <3>2
  <2>2. /\ Size(cache[J].data) = SizeOf[PictureAt[J]]
        /\ SizeOf[PictureAt[J]] \in Nat /\ SizeOf[PictureAt[J]] <= MAX_BYTES
    BY <1>3, CoversAssumption DEF Size, Whole
  <2> DEFINE sizes == [u \in {J} |-> Size(cache[u].data)]
  <2>3. DOMAIN sizes = {J} /\ sizes[J] = Size(cache[J].data)
    OBVIOUS
  <2>4. WithinLimits({J}) <=> Cardinality({J}) <= MAX_ENTRIES /\ SumFunction(sizes) <= MAX_BYTES
    BY DEF WithinLimits
  <2> HIDE DEF sizes, J
  <2>5. SumFunction(sizes) = sizes[J]
    BY <2>2, <2>3, SumOfOne
  <2> QED
    BY <2>1, <2>2, <2>3, <2>4, <2>5
<1>8. PICK unlisted \in SUBSET {u \in Urls : cache[u] # None} :
          \E kept \in SUBSET (Young \ unlisted) :
             /\ NewestSuffix(kept, Young \ unlisted)
             /\ WithinLimits(kept)
             /\ \A S \in SUBSET (Young \ unlisted) :
                   NewestSuffix(S, Young \ unlisted) /\ WithinLimits(S) => S \subseteq kept
             /\ stuck' \in SUBSET {u \in Urls : cache[u] # None}
             /\ unlisted \subseteq stuck'
             /\ stuck' \cap kept = {}
             /\ cache' = [u \in Urls |-> IF u \in kept \cup stuck' THEN cache[u] ELSE None]
  BY Zenon DEF Evict
<1>9. PICK kept \in SUBSET (Young \ unlisted) :
          /\ WithinLimits(kept)
          /\ \A S \in SUBSET (Young \ unlisted) :
                NewestSuffix(S, Young \ unlisted) /\ WithinLimits(S) => S \subseteq kept
          /\ stuck' \in SUBSET {u \in Urls : cache[u] # None}
          /\ unlisted \subseteq stuck'
          /\ stuck' \cap kept = {}
          /\ cache' = [u \in Urls |-> IF u \in kept \cup stuck' THEN cache[u] ELSE None]
  BY <1>8, Zenon
<1>10. J \in kept \cup stuck'
  <2>1. CASE J \in unlisted
    BY <1>9, <2>1
  <2>2. CASE J \notin unlisted
    <3>1. {J} \in SUBSET (Young \ unlisted) /\ Young \ unlisted \in SUBSET Young
      BY <1>5, <2>2
    <3>2. NewestSuffix({J}, Young \ unlisted)
      BY <1>6, <3>1
    <3> QED
      BY <1>7, <1>9, <3>1, <3>2
  <2> QED
    BY <2>1, <2>2
<1>11. /\ \A u \in Urls : cache'[u] = IF u \in kept \cup stuck' THEN cache[u] ELSE None
       /\ \A p \in Places : FileAt(p)' \in {FileAt(p), None}
  BY <1>1, <1>9 DEF FileAt
<1>12. EvictionSparesTheNew'
  <2>1. \A u \in kept : u \in Urls /\ u \notin stuck' /\ cache[u] # None /\ cache'[u] = cache[u]
    BY <1>9, <1>11 DEF Young
  <2>2. {u \in Urls : cache'[u] # None} \ stuck' = kept
    BY <1>11, <2>1
  <2>3. [u \in kept |-> Size(cache'[u].data)] = [u \in kept |-> Size(cache[u].data)]
    BY <2>1
  <2>4. WithinLimits(kept)'
    BY <1>9, <2>3 DEF WithinLimits, Size
  <2>5. cache'[J] # None
    BY <1>3, <1>10, <1>11
  <2> QED
    BY <1>1, <2>2, <2>4, <2>5 DEF EvictionSparesTheNew, WithinLimits
<1>13. Published' /\ NewestPublished'
  BY <1>1, <1>11 DEF CInv, Published, NewestPublished
<1>14. Dated'
  BY <1>1, <1>11 DEF CInv, Dated
<1>15. SlotOfFile'
  <2>1. \A p \in Places : FileAt(p)' # None => FileAt(p)' = FileAt(p)
    BY <1>11
  <2> QED
    BY <1>1, <2>1 DEF CInv, SlotOfFile, Taken, ContentId, Decoded
<1>16. KeyOfFile'
  <2>1. \A p \in Places : FileAt(p)' # None => FileAt(p)' = FileAt(p)
    BY <1>11
  <2> QED
    BY <1>1, <2>1 DEF CInv, KeyOfFile, Taken, ContentId, Decoded
<1> QED
  BY <1>2, <1>12, <1>13, <1>14, <1>15, <1>16, PublishQuiet DEF CInv

-----------------------------------------------------------------------------
\* Steps of the media server, of time, and crashes.

\* What a file of the directory is while it is written.
LEMMA CoverFile ==
    ASSUME NEW picture \in Pictures, NEW written \in 0..2, NEW mtime \in Nat
    PROVE  LET file == File([picture |-> picture, written |-> written], mtime, TRUE)
           IN  file \in Files /\ file # None /\ file.mtime = mtime
<1> DEFINE data == [picture |-> picture, written |-> written]
           file == File(data, mtime, TRUE)
<1>1. data \in Bytes
  BY DEF Bytes
<1> HIDE DEF data
<1>2. file \in Files /\ file.mtime = mtime
  BY <1>1 DEF File, Files
<1> HIDE DEF file
<1>3. file # None
  BY <1>2, AbsentAssumption
<1> QED
  BY <1>2, <1>3 DEF file, data

\* A change of one file of the directory, or of none, dated now: what was taken of the
\* other files holds on, and nothing has the new one's identity.
LEMMA DirStep ==
    ASSUME CInv, NEW n, n \notin Urls, now' = now + 1,
           UNCHANGED <<cache, temp, mvars, shown, jvars>>,
           \A m \in Names : m # n => dir'[m] = dir[m],
           dir' \in [Names -> Files \cup {None}],
           n \in Names /\ dir'[n] # None => dir'[n].mtime = now + 1,
           dir_mtime' \in {dir_mtime, now + 1},
           dir_mtime' = dir_mtime => n \in Names /\ dir'[n] # None
    PROVE  CInv'
<1>1. /\ UNCHANGED <<cache, temp, scan_memo, slot, last_committed, shown>>
      /\ UNCHANGED <<pc, job, dir_seen, path, id, stuck>>
  BY DEF mvars, jvars
<1>2. /\ now \in Nat /\ now + 1 \in Nat /\ dir_mtime \in Nat \cup {None}
      /\ dir_seen \in Nat \cup {None}
      /\ scan_memo # None => scan_memo \in Memos /\ scan_memo.mtime \in Nat
  BY DEF CInv, CTypeOK, Memos
<1>3. CTypeOK'
  <2>1. now' \in Nat /\ dir_mtime' \in Nat \cup {None}
    BY <1>2
  <2> QED
    BY <1>1, <2>1 DEF CInv, CTypeOK
<1>4. JobInStep' /\ ReadyToCall' /\ EntryStays' /\ Published' /\ NewestPublished'
      /\ EvictionSparesTheNew'
  <2>1. JobInStep' /\ EntryStays' /\ Published' /\ NewestPublished'
    BY <1>1 DEF CInv, JobInStep, EntryStays, Published, NewestPublished, ContentId, Size
  <2>2. ReadyToCall'
    BY <1>1 DEF CInv, ReadyToCall, Key
  <2>3. EvictionSparesTheNew'
    BY <1>1 DEF CInv, EvictionSparesTheNew, WithinLimits, Size
  <2> QED
    BY <2>1, <2>2, <2>3
<1>5. \A p \in Places : p # n => FileAt(p)' = FileAt(p)
  BY <1>1, CoversAssumption DEF Places, FileAt
<1>6. n \in Places => n \in Names /\ FileAt(n)' = dir'[n]
  BY DEF Places, FileAt
<1>7. n \in Places /\ FileAt(n)' # None =>
          FileAt(n)'.mtime = now + 1 /\ ContentId(FileAt(n)').mtime = now + 1
  BY <1>6 DEF ContentId
<1>8. Dated'
  BY <1>1, <1>2, <1>5, <1>7, DatedTypes DEF CInv, Dated
<1>9. IdOfPath'
  <2>1. id # None => id.mtime \in Nat /\ id.mtime <= now
    BY DEF CInv, CTypeOK, Identities, IdOfPath
  <2> QED
    BY <1>1, <1>2, <1>5, <1>7, <2>1 DEF CInv, IdOfPath
<1>10. SlotOfFile'
  <2>1. ASSUME slot # None, NEW p \in Places, FileAt(p)' # None,
               ContentId(FileAt(p)') = slot.id
        PROVE  slot.picture \in {Decoded(FileAt(p)'), Unread}
    <3>1. p # n
      BY <1>2, <1>7, <2>1, DatedTypes
    <3> QED
      BY <1>5, <2>1, <3>1 DEF CInv, SlotOfFile
  <2>2. slot # None => Taken(slot.id)'
    BY <1>1, <1>2, DatedTypes DEF CInv, SlotOfFile, Taken
  <2> QED
    BY <1>1, <2>1, <2>2 DEF SlotOfFile, ContentId, Decoded
<1>11. KeyOfFile'
  <2>1. ASSUME last_committed.id # None, NEW p \in Places, FileAt(p)' # None,
               ContentId(FileAt(p)') = last_committed.id
        PROVE  /\ shown.picture \in {Decoded(FileAt(p)'), Unread}
               /\ shown.mode = last_committed.mode
               /\ ~shown.preset
    <3>1. p # n
      BY <1>2, <1>7, <2>1, DatedTypes
    <3> QED
      BY <1>5, <2>1, <3>1 DEF CInv, KeyOfFile
  <2>2. last_committed.id # None => Taken(last_committed.id)'
    BY <1>1, <1>2, DatedTypes DEF CInv, KeyOfFile, Taken
  <2>3. last_committed.id = None => shown.preset
    BY DEF CInv, KeyOfFile
  <2> QED
    BY <1>1, <2>1, <2>2, <2>3 DEF KeyOfFile, ContentId, Decoded
<1>12. MemoDated'
  <2>1. /\ dir_mtime # None => dir_mtime <= now
        /\ dir_seen # None => dir_seen <= now
        /\ scan_memo # None => scan_memo.mtime <= now
    BY DEF CInv, MemoDated
  <2>2. MemoOfSettledDirectory'
    <3>1. CASE dir_mtime' = now + 1
      <4>1. scan_memo # None => scan_memo.mtime # dir_mtime'
        BY <1>2, <2>1, <3>1
      <4> QED
        BY <1>1, <4>1 DEF MemoOfSettledDirectory
    <3>2. CASE dir_mtime' = dir_mtime
      <4>1. /\ n \in Names /\ dir'[n] # None
            /\ dir_mtime' # None => ~(dir'[n].mtime <= dir_mtime')
        BY <1>2, <2>1, <3>2
      <4>2. scan_memo # None => scan_memo.mtime # None
        BY <1>2, AbsentAssumption
      <4> QED
        BY <1>1, <4>1, <4>2 DEF MemoOfSettledDirectory
    <3> QED
      BY <3>1, <3>2
  <2> QED
    BY <1>1, <1>2, <2>1, <2>2 DEF MemoDated
<1> QED
  BY <1>3, <1>4, <1>8, <1>9, <1>10, <1>11, <1>12 DEF CInv

\* The media server.
LEMMA ServerStep ==
    ASSUME CInv,
           \/ \E n \in Names, picture \in Pictures, written \in 0..2 :
                 CreateCover(n, picture, written)
           \/ \E n \in Names : WriteCover(n) \/ RemoveCover(n)
    PROVE  CInv'
<1>1. now \in Nat /\ now + 1 \in Nat /\ dir \in [Names -> Files \cup {None}]
  BY DEF CInv, CTypeOK
<1>2. \A n \in Names : n \notin Urls
  BY CoversAssumption
<1>3. ASSUME NEW n \in Names, NEW picture \in Pictures, NEW written \in 0..2,
             CreateCover(n, picture, written)
      PROVE  CInv'
  <2> DEFINE file == File([picture |-> picture, written |-> written], now + 1, TRUE)
  <2>1. file \in Files /\ file # None /\ file.mtime = now + 1
    BY <1>1, CoverFile
  <2>2. /\ now' = now + 1 /\ dir' = [dir EXCEPT ![n] = file] /\ dir_mtime' = now + 1
        /\ dir_mtime # None
        /\ UNCHANGED <<cache, temp, mvars, shown, jvars>>
    BY <1>3 DEF CreateCover
  <2> HIDE DEF file
  <2>3. dir' \in [Names -> Files \cup {None}] /\ dir'[n] = file
        /\ \A m \in Names : m # n => dir'[m] = dir[m]
    BY <1>1, <2>1, <2>2
  <2> QED
    BY <1>2, <2>1, <2>2, <2>3, DirStep
<1>4. ASSUME NEW n \in Names, RemoveCover(n)
      PROVE  CInv'
  <2>1. /\ now' = now + 1 /\ dir' = [dir EXCEPT ![n] = None] /\ dir_mtime' = now + 1
        /\ UNCHANGED <<cache, temp, mvars, shown, jvars>>
    BY <1>4 DEF RemoveCover
  <2>2. dir' \in [Names -> Files \cup {None}] /\ dir'[n] = None
        /\ \A m \in Names : m # n => dir'[m] = dir[m]
    BY <1>1, <2>1
  <2>3. dir_mtime' # dir_mtime
    <3>1. dir_mtime # None => dir_mtime \in Nat /\ dir_mtime <= now
      BY DEF CInv, CTypeOK, MemoDated
    <3> QED
      BY <1>1, <2>1, <3>1, AbsentAssumption
  <2> QED
    BY <1>2, <2>1, <2>2, <2>3, DirStep
<1>5. ASSUME NEW n \in Names, WriteCover(n)
      PROVE  CInv'
  <2>1. /\ now' = now + 1 /\ dir_mtime' = dir_mtime /\ dir[n] # None
        /\ dir[n].data.written < 2
        /\ dir' = [dir EXCEPT ![n].data.written = @ + 1, ![n].mtime = now + 1]
        /\ UNCHANGED <<cache, temp, mvars, shown, jvars>>
    BY <1>5 DEF WriteCover
  <2>2. dir[n] \in Files
    BY <1>1, <2>1
  <2> DEFINE file == [dir[n] EXCEPT !.data.written = @ + 1, !.mtime = now + 1]
  <2>3. dir' = [dir EXCEPT ![n] = file]
    BY <2>1
  <2>4. file \in Files /\ file.mtime = now + 1
    <3>1. dir[n].data \in Bytes /\ dir[n].data.written + 1 \in 0..2
      BY <2>1, <2>2 DEF Files, Bytes
    <3>2. [dir[n].data EXCEPT !.written = @ + 1] \in Bytes
      BY <3>1 DEF Bytes
    <3> QED
      BY <1>1, <2>2, <3>2 DEF Files
  <2> HIDE DEF file
  <2>5. dir' \in [Names -> Files \cup {None}] /\ dir'[n] = file /\ file # None
        /\ \A m \in Names : m # n => dir'[m] = dir[m]
    BY <1>1, <2>3, <2>4, AbsentAssumption
  <2> QED
    BY <1>2, <2>1, <2>4, <2>5, DirStep
<1> QED
  BY <1>3, <1>4, <1>5

LEMMA MakeDirStep ==
    ASSUME CInv, MakeDir
    PROVE  CInv'
<1>1. /\ now' = now + 1 /\ dir' = dir /\ dir_mtime = None /\ dir_mtime' = now + 1
      /\ UNCHANGED <<cache, temp, mvars, shown, jvars>>
      /\ now + 1 \in Nat
  BY DEF MakeDir, CInv, CTypeOK
<1>2. dir_mtime' # dir_mtime
  BY <1>1, AbsentAssumption
<1>3. dir' \in [Names -> Files \cup {None}] /\ None \notin Urls /\ None \notin Names
  BY <1>1, CoversAssumption DEF CInv, CTypeOK
<1> QED
  BY <1>1, <1>2, <1>3, DirStep

\* An entry that ages keeps its bytes and its date.
LEMMA AgeStep ==
    ASSUME CInv, NEW u \in Urls, Age(u)
    PROVE  CInv'
<1>1. /\ UNCHANGED <<now, dir, dir_mtime, temp, scan_memo, slot, last_committed, shown>>
      /\ UNCHANGED <<pc, job, dir_seen, path, id, stuck>> /\ pc = "idle" /\ temp = None
  BY DEF Age, fvars, mvars, jvars, CInv, CTypeOK
<1>2. /\ cache \in [Urls -> Files \cup {None}]
      /\ cache' = [v \in Urls |->
                      IF cache[v] # None /\ cache[v].mtime <= cache[u].mtime
                      THEN [cache[v] EXCEPT !.aged = TRUE]
                      ELSE cache[v]]
  BY DEF Age, CInv, CTypeOK
<1>3. \A file \in Files : /\ [file EXCEPT !.aged = TRUE] \in Files
                          /\ [file EXCEPT !.aged = TRUE].data = file.data
                          /\ [file EXCEPT !.aged = TRUE].mtime = file.mtime
                          /\ [file EXCEPT !.aged = TRUE].synced = file.synced
  BY DEF Files
<1>4. \A v \in Urls : /\ cache'[v] \in Files \cup {None}
                      /\ cache'[v] = None <=> cache[v] = None
                      /\ cache[v] # None => /\ cache'[v].data = cache[v].data
                                            /\ cache'[v].mtime = cache[v].mtime
                                            /\ cache'[v].synced = cache[v].synced
  BY <1>2, <1>3, AbsentAssumption
<1>5. cache' \in [Urls -> Files \cup {None}]
  BY <1>2, <1>4
<1>6. CTypeOK'
  BY <1>1, <1>5 DEF CInv, CTypeOK
<1>7. \A p \in Places :
          /\ FileAt(p)' = None <=> FileAt(p) = None
          /\ FileAt(p) # None => /\ FileAt(p)'.mtime = FileAt(p).mtime
                                 /\ FileAt(p)'.data = FileAt(p).data
  BY <1>1, <1>4 DEF FileAt
<1>8. \A p \in Places : FileAt(p) # None =>
          ContentId(FileAt(p))' = ContentId(FileAt(p)) /\ Decoded(FileAt(p))' = Decoded(FileAt(p))
  BY <1>7 DEF ContentId, Decoded, Size
<1>9. Published' /\ NewestPublished' /\ EvictionSparesTheNew'
  BY <1>1, <1>4 DEF CInv, Published, NewestPublished, EvictionSparesTheNew
<1>10. JobInStep' /\ ReadyToCall' /\ EntryStays'
  BY <1>1 DEF CInv, JobInStep, ReadyToCall, EntryStays, Resolving
<1>11. Dated' /\ IdOfPath'
  BY <1>1, <1>7 DEF CInv, Dated, IdOfPath
<1>12. SlotOfFile'
  BY <1>1, <1>7, <1>8 DEF CInv, SlotOfFile, Taken
<1>13. KeyOfFile'
  BY <1>1, <1>7, <1>8 DEF CInv, KeyOfFile, Taken
<1>14. MemoDated'
  BY <1>1 DEF CInv, MemoDated, MemoOfSettledDirectory, IsNewestBut, Candidates
<1> QED
  BY <1>6, <1>9, <1>10, <1>11, <1>12, <1>13, <1>14 DEF CInv

\* After a restart the daemon remembers nothing; wlchroma shows the preset.
LEMMA RestartStep ==
    ASSUME CInv, Restart, UNCHANGED <<fvars, cache>>
    PROVE  CInv'
<1>1. /\ UNCHANGED <<now, dir, dir_mtime, cache>>
      /\ temp' = None /\ scan_memo' = None /\ slot' = None /\ job' = None
      /\ dir_seen' = None /\ path' = None /\ id' = None /\ pc' = "idle" /\ stuck' = {}
  BY DEF Restart, fvars
<1>2. PICK mode \in Modes :
          /\ last_committed' = [id |-> None, mode |-> mode]
          /\ shown' = [picture |-> None, mode |-> mode, preset |-> TRUE]
  BY DEF Restart
<1>3. last_committed' \in Keys
      /\ shown' \in [picture : Palettes, mode : Modes, preset : BOOLEAN]
  BY <1>2 DEF Keys, Palettes
<1>4. CTypeOK'
  BY <1>1, <1>3 DEF CInv, CTypeOK, Steps
<1>5. JobInStep' /\ ReadyToCall' /\ EntryStays' /\ IdOfPath' /\ SlotOfFile' /\ MemoDated'
  BY <1>1 DEF CInv, JobInStep, ReadyToCall, EntryStays, IdOfPath, SlotOfFile, MemoDated,
              MemoOfSettledDirectory, Resolving
<1>6. Published' /\ NewestPublished' /\ EvictionSparesTheNew'
  BY <1>1 DEF CInv, Published, NewestPublished, EvictionSparesTheNew
<1>7. Dated'
  BY <1>1 DEF CInv, Dated, FileAt
<1>8. KeyOfFile'
  BY <1>2 DEF KeyOfFile
<1> QED
  BY <1>4, <1>5, <1>6, <1>7, <1>8 DEF CInv

\* A crash of the system loses no bytes: every published entry is synced.
LEMMA SystemCrashLosesNothing ==
    ASSUME CInv, SystemCrash
    PROVE  UNCHANGED <<fvars, cache>>
<1>1. {u \in Urls : cache[u] # None /\ ~cache[u].synced} = {}
  BY DEF CInv, Published
<1>2. cache' = [u \in Urls |-> cache[u]]
  BY <1>1 DEF SystemCrash
<1> QED
  BY <1>2 DEF SystemCrash, CInv, CTypeOK

-----------------------------------------------------------------------------
\* The theorems.

LEMMA InitInv == Init => CInv
<1> SUFFICES ASSUME Init PROVE CInv
  OBVIOUS
<1>1. PICK mode \in Modes :
          /\ last_committed = [id |-> None, mode |-> mode]
          /\ shown = [picture |-> None, mode |-> mode, preset |-> TRUE]
  BY DEF Init
<1>2. last_committed \in Keys
      /\ shown \in [picture : Palettes, mode : Modes, preset : BOOLEAN]
  BY <1>1 DEF Keys, Palettes
<1>3. CTypeOK
  BY <1>2 DEF Init, CTypeOK, Steps
<1>4. \A p \in Places : FileAt(p) = None
  BY DEF Init, Places, FileAt
<1>5. JobInStep /\ ReadyToCall /\ EntryStays /\ Published /\ NewestPublished
      /\ EvictionSparesTheNew /\ MemoDated
  BY DEF Init, JobInStep, ReadyToCall, EntryStays, Published, NewestPublished,
         EvictionSparesTheNew, MemoDated, MemoOfSettledDirectory, Resolving
<1>6. Dated /\ IdOfPath /\ SlotOfFile
  BY <1>4 DEF Init, Dated, IdOfPath, SlotOfFile
<1>7. KeyOfFile
  BY <1>1 DEF KeyOfFile
<1> QED
  BY <1>3, <1>5, <1>6, <1>7 DEF CInv

LEMMA NextInv == CInv /\ [Next]_vars => CInv'
<1> SUFFICES ASSUME CInv, [Next]_vars PROVE CInv'
  OBVIOUS
<1>1. ASSUME NEW source \in Urls \cup Names \cup {Dir, None}, NEW mode \in Modes,
             StartJob(source, mode)
      PROVE  CInv'
  BY <1>1, StartStep DEF Places
<1>2. CASE Worker
  BY <1>2, ResolveStep, WriteTempStep, SyncTempStep, RenameStep, EvictStep, DedupStep,
     ExtractStep, CallStep DEF Worker
<1>3. CASE Environment
  <2>1. CASE ProcessCrash
    BY <2>1, RestartStep DEF ProcessCrash
  <2>2. CASE SystemCrash
    BY <2>2, RestartStep, SystemCrashLosesNothing DEF SystemCrash
  <2> QED
    BY <1>3, <2>1, <2>2, MakeDirStep, ServerStep, AgeStep DEF Environment
<1>4. CASE UNCHANGED vars
  <2>1. UNCHANGED <<now, dir, dir_mtime, cache, temp, scan_memo, slot, last_committed, shown>>
        /\ UNCHANGED <<pc, job, dir_seen, path, id, stuck>>
    BY <1>4 DEF vars, fvars, mvars, jvars
  <2>2. CTypeOK' /\ JobInStep' /\ ReadyToCall' /\ EntryStays'
    BY <2>1 DEF CInv, CTypeOK, JobInStep, ReadyToCall, EntryStays, Key, ContentId, Size
  <2>3. Published' /\ NewestPublished' /\ EvictionSparesTheNew'
    BY <2>1 DEF CInv, Published, NewestPublished, EvictionSparesTheNew, WithinLimits, Size
  <2>4. Dated' /\ IdOfPath'
    BY <2>1 DEF CInv, Dated, IdOfPath, FileAt
  <2>5. SlotOfFile' /\ KeyOfFile'
    BY <2>1 DEF CInv, SlotOfFile, KeyOfFile, Taken, FileAt, ContentId, Decoded, Size
  <2>6. MemoDated'
    BY <2>1 DEF CInv, MemoDated, MemoOfSettledDirectory, IsNewestBut, Candidates
  <2> QED
    BY <2>2, <2>3, <2>4, <2>5, <2>6 DEF CInv
<1> QED
  BY <1>1, <1>2, <1>3, <1>4 DEF Next

\* The inductive invariant holds: no identity that was taken is ever that of another
\* write, whatever the media server does between two steps of the worker.
THEOREM CoversInvariant == Spec => []CInv
<1>1. Init => CInv
  BY InitInv
<1>2. CInv /\ [Next]_vars => CInv'
  BY NextInv
<1> QED
  BY <1>1, <1>2, PTL DEF Spec

\* The types hold; a temporary file is there only while a publication runs.
THEOREM CoversTypesHold == Spec => []CTypeOK
<1>1. CInv => CTypeOK
  BY DEF CInv
<1> QED
  BY <1>1, CoversInvariant, PTL

\* What the cache serves as a hit is the whole image of its URL, across crashes at any
\* step of a publication (CacheHoldsWholeImages).
THEOREM CacheIsWhole == Spec => []CacheHoldsWholeImages
<1>1. CInv => CacheHoldsWholeImages
  BY DEF CInv, Published, CacheHoldsWholeImages
<1> QED
  BY <1>1, CoversInvariant, PTL

\* Eviction leaves the cache within its budgets but for what it could not list or remove,
\* and spares the entry whose publication it follows (EvictionSparesTheNew), for every
\* budget an image fits in.
THEOREM EvictionSparesIt == Spec => []EvictionSparesTheNew
<1>1. CInv => EvictionSparesTheNew
  BY DEF CInv
<1> QED
  BY <1>1, CoversInvariant, PTL

\* The dedup's key and the memo's slot tell the picture of every file of their identity,
\* or that it could not be read, though the picture is read some time after the identity
\* (IdentityTellsPicture).
THEOREM IdentityTells == Spec => []IdentityTellsPicture
<1>1. CInv => \A file \in Present : \E p \in Places : FileAt(p) = file /\ file # None
  BY CoversAssumption DEF Present, Places, FileAt
<1>2. CInv => SlotTellsPicture
  BY <1>1 DEF CInv, SlotOfFile, SlotTellsPicture
<1>3. CInv => KeyTellsPicture
  BY <1>1 DEF CInv, KeyOfFile, KeyTellsPicture
<1>4. CInv => IdentityTellsPicture
  BY <1>2, <1>3 DEF IdentityTellsPicture
<1> QED
  BY <1>4, CoversInvariant, PTL

\* A memo of the directory's mtime names the newest cover its scan could read while no
\* file was written after the directory's last change (MemoOfSettledDirectory).
THEOREM MemoIsOfSettledDirectory == Spec => []MemoOfSettledDirectory
<1>1. CInv => MemoOfSettledDirectory
  BY DEF CInv, MemoDated
<1> QED
  BY <1>1, CoversInvariant, PTL

\* When the key of a job for a URL becomes the committed one, its picture is on screen, or
\* the default palette.
LEMMA CallShows ==
    CInv /\ [Next]_vars =>
        [pc = "ctl" /\ job.source \in Urls /\ last_committed' = Key
         => shown'.picture \in {PictureAt[job.source], Unread}]_vars
<1> SUFFICES ASSUME CInv, Next, pc = "ctl", job.source \in Urls, last_committed' = Key
             PROVE  shown'.picture \in {PictureAt[job.source], Unread}
  BY DEF Key
<1>1. last_committed # Key /\ job.source # None /\ slot # None /\ slot.id = id /\ id # None
  BY CoversAssumption DEF CInv, ReadyToCall, JobInStep
<1>2. CASE CallCtl
  <2>1. shown' = [picture |-> slot.picture, mode |-> job.mode, preset |-> FALSE]
    BY <1>1, <1>2 DEF CallCtl, Palette
  <2>2. /\ job.source \in Places /\ FileAt(job.source) # None
        /\ ContentId(FileAt(job.source)) = slot.id
        /\ FileAt(job.source).data = Whole(PictureAt[job.source])
    BY <1>1 DEF CInv, EntryStays, Published, Places, FileAt
  <2>3. slot.picture \in {Decoded(FileAt(job.source)), Unread}
    BY <1>1, <2>2 DEF CInv, SlotOfFile
  <2> QED
    BY <2>1, <2>2, <2>3 DEF Decoded, Whole
<1>3. CASE ProcessCrash \/ SystemCrash
  <2>1. last_committed'.id = None
    BY <1>3 DEF ProcessCrash, SystemCrash, Restart
  <2> QED
    BY <1>1, <2>1 DEF Key
<1>4. ASSUME UNCHANGED last_committed PROVE FALSE
  BY <1>1, <1>4
<1> QED
  BY <1>2, <1>3, <1>4 DEF Next, StartJob, Worker, ResolveRemote, Fetch, WriteTemp, SyncTemp,
     Rename, Evict, StatEntry, ResolveFile, ScanMemo, Enumerate, Identify, Dedup, Extract,
     Environment, MakeDir, CreateCover, WriteCover, RemoveCover, Age, mvars

\* A remote cover ends up on screen as the picture its URL serves, whatever the cache,
\* the memo and the dedup took a short cut on, or as the default palette when its entry
\* could not be read (UrlShowsItsPicture).
THEOREM UrlShows == Spec => UrlShowsItsPicture
<1>1. CInv /\ [Next]_vars =>
          [pc = "ctl" /\ job.source \in Urls /\ last_committed' = Key
           => shown'.picture \in {PictureAt[job.source], Unread}]_vars
  BY CallShows
<1> QED
  BY <1>1, CoversInvariant, PTL DEF Spec, UrlShowsItsPicture
=============================================================================
